CONSTANTS
    owner = owner guest = guest n1 = n1 n2 = n2 a = a b = b
    r1 = r1 r2 = r2 tab1 = tab1 tab2 = tab2
    Users = {owner}
    Strangers = {}
    Actors = {owner}
    Notes = {n1, n2}
    Tokens = {}
    Bodies = {a, b}
    Untitled = Untitled
    MentionLists <- NoMentions
    Requests = {r1, r2}
    Ops = {"create", "get", "update", "delete"}
    Faults = FALSE
    MaxVersion = 3
    Absent = Absent
    NoToken = NoToken
    NoRequest = NoRequest
    Tabs = {tab1}
    UserOf <- SignedIn
    Wander = TRUE
    NoTab = NoTab
    NoNote = NoNote
SPECIFICATION EditSpec
INVARIANTS TextStaysInItsNote
