CONSTANTS
    ann = ann bob = bob n1 = n1 t1 = t1 t2 = t2 r1 = r1 r2 = r2
    k1 = k1 k2 = k2 c1 = c1 c2 = c2 l1 = l1 l2 = l2
    Users = {ann, bob}
    Strangers = {}
    Actors = {ann, bob}
    Notes = {n1}
    Tokens = {t1, t2}
    Bodies <- Lists
    Untitled = Untitled
    MentionLists <- NoMentions
    Requests = {r1, r2}
    Ops = {"get", "update", "share", "revoke", "publish", "unpublish"}
    Faults = TRUE
    MaxVersion = 3
    Absent = Absent
    NoToken = NoToken
    NoRequest = NoRequest
    Cards = {k1, k2}
    UserOf <- At1
    NoteOf <- Of1
    Clicks = {c1, c2}
    NoClick = NoClick
    Shared = n1
    Owner = ann
    Reloads = {l1, l2}
    MaxErrands = 2
    MaxActs = 2
    Link = t1
    Text <- TickedSecond
SPECIFICATION NoteSpec
SYMMETRY Alike
INVARIANTS NoteTypeOK QuietCardIsTrue QuietDialogIsTrue
PROPERTIES ToggleIsSurgical
CHECK_DEADLOCK FALSE
