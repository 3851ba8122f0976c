SPECIFICATION Spec
CONSTANTS
    d1 = d1  d2 = d2  d3 = d3  a = a  b = b
    alias = alias  readme = readme  outside = outside
    Draft = {d1, d2}
    Title = {a, b}
    Slug = {a, alias, readme, outside}
    YamlId <- MCYamlId
    Hidden = {readme}
    Outside = {outside}
    MinNewId = 7
    MaxId = 9
    Garbled = Garbled  Unreadable = Unreadable
    User = User  NoAsk = NoAsk
    UserPath <- MCUserPath
    UserId <- MCUserId
    MaxEdits = 2
INVARIANTS TypeOK RowsLeadToFiles FilesAreListed AckedIsListed NumberIsFresh GetFindsAsked
SYMMETRY DraftSymmetry
CHECK_DEADLOCK FALSE
