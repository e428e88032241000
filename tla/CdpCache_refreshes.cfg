CONSTANTS
    ann = ann
    Persons = {ann, bob, joe}
    UsernameOf <- MCUsernameOf
    NoUsername = NoUsername
    Members = {m1, m2}
    Requests = {r1}
    Refreshes = {f1, f2}
    FreshThreshold = 1
    TTL = 2
    CallLimit = 1
    MaxTime = 4
SPECIFICATION Spec
CONSTRAINT WithinHorizon
SYMMETRY Symmetric
INVARIANTS
    TypeOK
    ServedIsRecent
    ServedIsOwn
    FreshIsYoung
PROPERTY EntriesMoveForward
