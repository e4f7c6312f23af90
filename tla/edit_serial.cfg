CONSTANTS
    owner = owner guest = guest n1 = n1 n2 = n2 a = a b = b
    r1 = r1 r2 = r2 tab1 = tab1 tab2 = tab2
    Users = {owner}
    Strangers = {}
    Actors = {owner}
    Notes = {n1}
    Tokens = {}
    Bodies = {a}
    Untitled = Untitled
    MentionLists <- NoMentions
    Requests = {r1}
    Ops = {"create", "get", "update", "delete"}
    Faults = TRUE
    MaxVersion = 3
    Absent = Absent
    NoToken = NoToken
    NoRequest = NoRequest
    Tabs = {tab1, tab2}
    UserOf <- SignedIn
    Wander = TRUE
    NoTab = NoTab
    NoNote = NoNote
SPECIFICATION FairEditSpec
INVARIANTS NoSilentOverwrite
PROPERTIES SavingEnds EveryRequestAnswered
