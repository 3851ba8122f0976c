SPECIFICATION Spec
CONSTANTS
    Dispatch = {d1, d2}
    Provider = {"anthropic"}
    Model = {"opus", "sonnet"}
    Body = {b1}
    Answer = {a1, a2}
    Absent = Absent
    Garbled = Garbled
    Configs <- SharedProvider
    CallTicks = {0}
    ErrorKinds = {"transport", "auth"}
    MaxAttempts = 2
    MaxTotal = 1
    BaseDelay = 0
    RetryAfter = {0}
    IoFaults = TRUE
    Text = {"t"}
    Name = {"m"}
    Amount = {1024}
    Unset = Unset
INVARIANTS
    OkLineIffAnswered
    CacheServesOwnAnswers
