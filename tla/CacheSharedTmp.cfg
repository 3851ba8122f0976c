SPECIFICATION Spec
CONSTANTS
    c1 = c1  c2 = c2  c3 = c3
    a1 = a1  a2 = a2
    i1 = i1  i2 = i2  i3 = i3  i4 = i4
    Client <- TwoClients
    Answer = {a1, a2}
    Inode <- FourInodes
    Blocks = 2
    Overlap = TRUE
    Absent = Absent
    Garbled = Garbled
    Nothing = Nothing
    NoFile = NoFile
    Missing = Missing
INVARIANT ReadersSeeWholeAnswers
