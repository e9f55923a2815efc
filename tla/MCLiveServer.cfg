SPECIFICATION Spec
CONSTANTS
    p1 = p1
    p2 = p2
    s1 = s1
    alice = alice
    bob = bob
    handler = handler
    deletion = deletion
    Subscribers = {p1, p2, s1}
    Polls = {p1, p2}
    Jobs = {1}
    Streams = {s1}
    OwnerOf <- MCOwnerOf
    Users = {alice, bob}
    Admins = {bob}
    Requests = {handler, deletion}
    MaxComments = 1
    BufferSize = 1
    MaxUnannounced = 1
    NoChannel = NoChannel
    NoJob = NoJob
    Idle = Idle
CONSTRAINT OneSideAtATime
INVARIANTS
    ClaimsAreExclusive
    NoLostWakeup
    BadgeIsFresh
    NoticesFollowPosts
CHECK_DEADLOCK FALSE
