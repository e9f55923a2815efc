SPECIFICATION Spec
CONSTANTS
    alice = alice
    bob = bob
    Users = {alice, bob}
    Assigned = {alice}
    Guest = Guest
    Admin = Admin
    NoRequest = NoRequest
    Results <- MCResults
    AssignmentEnd = 1
    MaxTime = 2
    MaxRows = 2
    MaxEdits = 1
INVARIANTS
    TypeOK
    NothingLeaks
    ViewsAgree
    StandingsAreRight
CHECK_DEADLOCK FALSE
