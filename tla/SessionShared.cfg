SPECIFICATION Spec
CONSTANTS
    Client = {r1, r2}
    Pass = {p1, p2}
    DevPass = DevPass
    Salt = {s1, s2, s3, s4}
    NoKey = NoKey
    NoPass = NoPass
    Spoiled = Spoiled
    Backends = {"file"}
    Foreign = {"raw", "short"}
    DevKey = FALSE
    Rotation = TRUE
    IoFaults = TRUE
    Overlap = TRUE
    Enrolled = TRUE
SYMMETRY Sym
INVARIANTS DispatchDecrypts SomePassphraseWorks
