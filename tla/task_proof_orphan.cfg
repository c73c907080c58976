SPECIFICATION Spec
CONSTANTS
    u1 = u1
    u2 = u2
    Users = {u1, u2}
    Super = Super
    NoUser = NoUser
    Tasks = {t1}
    NoTask = NoTask
    Requests = {r1}
    MaxVersion = 6
    Urls = {m1}
    Owner <- OwnedByU2
SYMMETRY RequestsAlike
PROPERTIES ProofsAreQueuedOnDelete
CHECK_DEADLOCK FALSE
