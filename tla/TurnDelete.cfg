SPECIFICATION Spec
CONSTANTS
    t1 = t1  t2 = t2
    a1 = a1  a2 = a2
    Account = {a1, a2}
    NoBlob = NoBlob  Raw = Raw
    Config <- MCConfig
    Namesake = {"env"}
    Turn = {t1, t2}
    Body <- Bodies
    BodiesOf <- BodiesOf2
    Index <- Tracked
    Reply <- MCReply
    RepliesTo <- MCRepliesTo
    Malformed = Malformed  Broken = Broken
    MaxIterations = 2
    GitFaults = TRUE
INVARIANT DeleteSparesTracked
CHECK_DEADLOCK FALSE
