CONSTANTS
    p1 = p1 p2 = p2 ann = ann bob = bob s1 = s1 s2 = s2
    Replicas = {p1, p2}
    Files <- Releases
    MaxCrashes = 1
    People = {ann}
    SessionIds = {s1, s2}
    Nobody = Nobody
    NoSession = NoSession
    NoRequest = NoRequest
    MaxRequests = 1
SPECIFICATION FairServerSpec
INVARIANTS ServerTypeOK AppliedOnce JournalIsTrue NoGaps ServingHasSchema WritesCarryTheToken EndedSessionsStayOut 
PROPERTIES EveryReplicaServes RequestsFinish
