SPECIFICATION Spec
CONSTANTS
    u1 = u1
    m1 = m1
    m2 = m2
    Users = {u1}
    Admin = Admin
    Nobody = Nobody
    Keep = Keep
    Requests = {r1, r2}
    MaxChildren = 2
    Urls = {m1, m2}
    Owner <- Uploaders
    Fans = {f1, f2}
    Taps = {t1, t2, t3}
    MaxDrift = 2
    People = {1, 2}
    Sessions = {r1, r2}
    MaxRenames = 1
    MaxCopies = 2
    Buyers = {b1, b2}
    Seller = Seller
    Keys = {k1, k2}
    Terms = {x1, x2}
    MaxOrders = 2
    Calls = {r1, r2}
    Categories = {g1, g2, g3}
    Defaults = {g1, g2}
    Desks = {r1, r2}
    Openids = {o1, o2}
    Phones = {p1, p2}
    NoOne = NoOne
    MaxAccounts = 2
    Devices = {r1, r2}
SYMMETRY Alike
INVARIANTS TypeOK ThreadAgrees CountsAgree OneOrderPerRequest LockedCopiesAgree NoLockCycle CategoryIsKept LoginMeetsItsAccount
PROPERTIES OrdersEndOnceAndAreTold
CHECK_DEADLOCK FALSE
