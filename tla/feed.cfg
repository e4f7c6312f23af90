CONSTANTS
    Notes = {1, 2, 3}
    Lent = {3}
    PageSize = 1
    Screen = 0
    Grain = 2
    MaxTime = 1
    Faults = TRUE
    Absent = Absent
    NoCursor = NoCursor
SPECIFICATION Spec
INVARIANTS TypeOK  SteadyNotesOnce
PROPERTY FeedEnds
