SPECIFICATION Spec
CONSTANTS
    alice = alice
    bob = bob
    r1 = r1
    r2 = r2
    t1 = t1
    t2 = t2
    NoRequest = NoRequest
    NoSession = NoSession
    Bootstrap = bob
    MaxHash = 3
    Users <- MCUsers
    FirstAdmins <- MCFirstAdmins
    Requests <- MCRequests
    Tokens <- MCTokens
SYMMETRY Symmetry
INVARIANT IInv
PROPERTIES
    RevivedOnlyByStaleSave
    LastAdminLostOnlyToRace
CHECK_DEADLOCK FALSE
