SPECIFICATION Spec
CONSTANTS
    u1 = u1
    u2 = u2
    Users = {u1, u2}
    Super = Super
    NoUser = NoUser
    Tasks = {t1}
    NoTask = NoTask
    Requests = {r1, r2}
    MaxVersion = 2
    Urls = {m1}
    Owner <- OwnedByU1
SYMMETRY RequestsAlike
PROPERTIES DeletedTaskQueuesItsMedia
CHECK_DEADLOCK FALSE
