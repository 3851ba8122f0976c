SPECIFICATION FairSpec
CONSTANTS
    c1 = c1  c2 = c2
    Client <- MCClient
    Shared = Shared
    NoClient = NoClient
    MaxEntries = 3
    DefaultN = 1
    MaxN = 2
    Ts <- MCTs
    Units = {1, 10, 100}
    Limits = {0, 3}
INVARIANTS TypeOK AckedEntriesShown RowsAreLines RefusesOnlyMergedLines NewestFirstToTheDigit
PROPERTY EveryAppendEnds
