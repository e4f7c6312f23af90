CONSTANTS
    owner = owner guest = guest third = third ghost = ghost
    n1 = n1 n2 = n2 t1 = t1 t2 = t2 a = a b = b r1 = r1 r2 = r2 r3 = r3
    Users = {owner, guest}
    Strangers = {}
    Actors = {owner, guest}
    Notes = {n1}
    Tokens = {t1, t2}
    Bodies = {a}
    Untitled = Untitled
    MentionLists <- NoMentions
    Requests = {r1, r2}
    Ops = {"create", "get", "update", "delete", "share", "revoke", "publish", "unpublish"}
    Faults = FALSE
    MaxVersion = 2
    Absent = Absent
    NoToken = NoToken
    NoRequest = NoRequest
SPECIFICATION HSpec
SYMMETRY SlotTokenSymmetry
INVARIANTS NothingWithoutRight SpentStaysSpent
PROPERTIES OnlyTheOwner ImplementsContract
