SPECIFICATION Spec
CONSTANTS
    Client = {r1, r2}
    Pass = {p1, p2}
    DevPass = DevPass
    Salt = {s1, s2, s3, s4}
    NoKey = NoKey
    NoPass = NoPass
    Spoiled = Spoiled
    Backends = {"none", "keychain", "file"}
    Foreign = {"raw", "short", "junk"}
    DevKey = TRUE
    Rotation = TRUE
    IoFaults = TRUE
    Overlap = FALSE
    Enrolled = FALSE
SYMMETRY Sym
INVARIANTS TypeOK KeyOpensBlob PersistOpensBlob RememberedUnlocks PurgeForgets
PROPERTY LoginKeepsPassphrase
