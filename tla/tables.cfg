CONSTANTS
    owner = owner guest = guest third = third ghost = ghost
    n1 = n1 n2 = n2 t1 = t1 t2 = t2 a = a b = b r1 = r1 r2 = r2 r3 = r3
    Users = {owner, guest}
    Strangers = {ghost}
    Actors = {owner, guest}
    Notes = {n1}
    Tokens = {t1}
    Bodies = {a}
    Untitled = Untitled
    MentionLists <- MentionOne
    Requests = {r1, r2}
    Ops = {"create", "update", "delete", "share", "revoke", "publish", "unpublish", "readLink"}
    Faults = TRUE
    MaxVersion = 2
    Absent = Absent
    NoToken = NoToken
    NoRequest = NoRequest
SPECIFICATION Spec
SYMMETRY SlotSymmetry
INVARIANTS TypeOK NoOrphans OwnerIsNoGuest MailedIsRecorded
