SPECIFICATION Spec
CONSTANTS
    Tenants = {user, admin}
    Admins = {admin}
    Managed = {user}
    Keys = {k1}
    Sessions = {s1, s2}
    Lifetimes = {0, 1}
    SessionTTL = 2
    GCInterval = 2
    MaxTime = 5
SYMMETRY Symmetry
INVARIANTS EndedKeysStayOut ExpiredMeansExpired SessionsCatchUp SessionsForgotten
CHECK_DEADLOCK FALSE
