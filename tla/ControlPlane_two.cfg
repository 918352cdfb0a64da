SPECIFICATION StartSpec
CONSTANTS
    Handler = {h1, h2}
    Object = {"nas", "edge"}
    KindOf <- MCKindOfPair
    Refs <- MCRefsPair
    Val = {good, bad}
    Unbuildable = {bad}
    Absent = absent
    Reported <- MCReported
    NoHandler = nobody
    NoOp = noop
    MaxCommits = 2
INVARIANTS
    TypeOK
    FileIsValid
    SoloReloadSettles
    OneRuntimeWhenQuiet
PROPERTIES
    NoLostUpdate
    ImplementsRegister
    HandlersReturn
