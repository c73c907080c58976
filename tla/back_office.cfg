SPECIFICATION Spec
CONSTANTS
    m1 = m1
    m2 = m2
    Urls = {m1, m2}
    Uploader = Uploader
    Owner <- AllHisOwn
    MaxReviews = 2
    Callbacks = {r1, r2}
    Browsers = {r1, r2}
    MaxVersion = 4
    NoRead = NoRead
    Members = {1, 2, 3}
    NoticeIds = {n1}
    Payloads = {p1, p2}
    Senders = {r1, r2}
    PageSize = 2
    Readers = {r1, r2}
    Writers = {r1, r2}
    MaxChanges = 2
    Loads = {l1, l2, l3}
    Admins = {r1, r2}
    MaxSettings = 3
    Posts = {1}
    Visitors = {r1, r2}
    Posters = {r1, r2}
    MaxEditions = 1
    MaxReplies = 3
    MaxAnnounced = 1
    MaxUnanswered = 1
    Viewers = {r1, r2}
    Repliers = {r1, r2}
    LastTab = 3
    Callers = {r1, r2}
SYMMETRY Alike
INVARIANTS TypeOK AvatarIsKept OneSession NoticeReachesEveryone CachesAreFresh RepliesAreLaidOut SettingsAreFresh TabsAreWhole
PROPERTIES AvatarMovesForward SessionsEndForGood
CHECK_DEADLOCK FALSE
