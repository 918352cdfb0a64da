SPECIFICATION Spec
CONSTANTS
    Handler = {h1, h2}
    Object = {"edge"}
    KindOf <- MCKindOf
    Refs <- MCRefs
    Val = {v1, v2}
    Absent = absent
    NoOp = noop
    MaxAttempts = 2
    MaxLaunches = 2
    NoAgent = none
INVARIANTS
    TypeOK
    AcceptedIsKept
PROPERTIES
    RequestsEnd
