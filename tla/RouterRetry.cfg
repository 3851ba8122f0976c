SPECIFICATION FairSpec
CONSTANTS
    Dispatch = {d1}
    Provider = {"anthropic"}
    Model = {"opus", "sonnet"}
    Body = {b1}
    Answer = {a1}
    Absent = Absent
    Garbled = Garbled
    Configs <- OneOrder
    CallTicks = {0, 1}
    ErrorKinds = {"transport", "rateLimit", "auth", "badRequest", "decode"}
    MaxAttempts = 3
    MaxTotal = 3
    BaseDelay = 1
    RetryAfter = {0, 5}
    IoFaults = TRUE
    Text = {"t"}
    Name = {"m"}
    Amount = {1024}
    Unset = Unset
INVARIANTS
    TypeOK
    LedgerMissesOnlyLastCall
    OnlyTransientIsRetried
    AttemptsWithinPolicy
PROPERTIES
    EveryDispatchEnds
