CONSTANTS
    ann = ann bob = bob mail1 = mail1 mail2 = mail2 u1 = u1 u2 = u2 u3 = u3
    s1 = s1 s2 = s2 s3 = s3 c1 = c1 c2 = c2 c3 = c3 r1 = r1 r2 = r2
    Subjects = {ann, bob}
    Emails = {mail1, mail2}
    UserIds = {u1, u2, u3}
    States = {s1, s2}
    SessionIds = {c1, c2}
    Requests = {r1, r2}
    Faults = TRUE
    LoginTTL = 0
    SessionTTL = 0
    MaxClock = 1
    Absent = Absent
    Nothing = Nothing
SPECIFICATION Spec
SYMMETRY LoginSymmetry
INVARIANTS TypeOK SameAccountEveryTime 
 
