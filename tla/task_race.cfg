SPECIFICATION Spec
CONSTANTS
    u1 = u1
    u2 = u2
    Users = {u1, u2}
    Super = Super
    NoUser = NoUser
    Tasks = {t1}
    NoTask = NoTask
    Requests = {r1, r2}
    MaxVersion = 4
    Urls <- NoUrls
    Owner <- NobodysUrls
SYMMETRY Interchangeable
INVARIANTS TypeOK VersionIdentifiesRow TakerMatchesStatus
PROPERTIES EveryTransitionIsNotified OnlyCompleteDraftsPublished ImplementsContract
CHECK_DEADLOCK FALSE
