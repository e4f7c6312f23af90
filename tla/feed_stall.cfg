CONSTANTS
    Notes = {1, 2}
    Lent = {}
    PageSize = 1
    Screen = 1
    Grain = 2
    MaxTime = 1
    Faults = FALSE
    Absent = Absent
    NoCursor = NoCursor
SPECIFICATION Spec
PROPERTY FeedEnds
