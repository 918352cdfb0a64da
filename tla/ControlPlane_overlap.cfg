SPECIFICATION Spec
CONSTANTS
    Handler = {h1, h2}
    Object = {"site", "blog", "edge"}
    KindOf <- MCKindOf
    Refs <- MCRefs
    Val = {good}
    Unbuildable = {}
    Absent = absent
    Reported <- MCReported
    NoHandler = nobody
    NoOp = noop
    MaxCommits = 2
SYMMETRY HandlerSymmetry
INVARIANTS
    QuietMemoryMatchesFile
