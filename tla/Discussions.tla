----------------------------- MODULE Discussions -----------------------------
(***************************************************************************)
(* One discussion, the notices its posts and comments send, and the badge  *)
(* with the number of unread notices in an open browser.                   *)
(*                                                                         *)
(* A handler reads the discussion first and works, in a transaction of its *)
(* own, with the row it has read; meanwhile the discussion may be edited,  *)
(* locked or deleted.  A transaction that created, removed or read notices *)
(* announces it to the broker after it has committed.  A browser learns of *)
(* it through a stream, and asks the server for the number.                *)
(*                                                                         *)
(* The transaction that deletes a discussion has two statements; what      *)
(* commits between them is not seen by the first.  It has the notices it   *)
(* is about to remove locked, and who needs one of these waits for it, or  *)
(* fails if the two wait for each other.                                   *)
(*                                                                         *)
(* Simplifications.  A text is the set of the users it mentions.  The      *)
(* other transactions are one step: what they write last is what others    *)
(* wait for.  A comment is deleted in one step: nobody adds notices to one *)
(* that is there.  The answer to a browser's request is what the request   *)
(* has read: an event that arrives before the answer makes it ask again.   *)
(***************************************************************************)
EXTENDS EventBroker, FiniteSets

CONSTANTS
    Users, Admins,
    Streams,        \* the subscribers that are browsers
    OwnerOf,        \* who is signed in there
    Requests,       \* handlers at work
    MaxComments,    \* bound
    Idle            \* no request

ASSUME DiscussionAssumption ==
    /\ Streams \subseteq Subscribers
    /\ OwnerOf \in [Streams -> Users]
    /\ Admins \subseteq Users
    /\ MaxComments \in Nat

VARIABLES
    discussion,     \* its row
    comments,       \* the rows of its comments
    notice,         \* of each user: for the post (0) and for each comment
    request,        \* the row a handler has read, the notices it has locked
    late,           \* history: notices that came after those of their deleted
                    \*          discussion were removed, or while they were
    stream,         \* of a browser: closed, ready (told so, not subscribed), open
    shown,          \* the number on the badge
    stale,          \* the browser is to ask again
    synced          \* it has received every announcement since it last asked

discussionVars == <<discussion, comments, notice, request, late>>
browserVars    == <<stream, shown, stale, synced>>

Places  == 0..MaxComments
Text    == SUBSET Users
Notice  == Users \X Places
Row     == [state : {"absent", "kept", "deleted"}, author : Users, locked : BOOLEAN, text : Text]

Handler  == [op : {"edit", "comment"}, actor : Users, row : Row]
Deletion == [op : {"delete"}, removed : SUBSET Notice]

DiscussionTypeOK ==
    /\ discussion \in Row
    /\ comments \in Seq([author : Users, deleted : BOOLEAN]) /\ Len(comments) <= MaxComments
    /\ notice \in [Users -> [Places -> {"none", "unread", "read"}]]
    /\ request \in [Requests -> Handler \cup Deletion \cup {Idle}]
    /\ late \in SUBSET Notice
    /\ stream \in [Streams -> {"closed", "ready", "open"}]
    /\ shown \in [Streams -> 0..(MaxComments + 1)]
    /\ stale \in [Streams -> BOOLEAN]
    /\ synced \in [Streams -> BOOLEAN]
    /\ \A s \in Streams : (stream[s] = "open") = (channel[s] # NoChannel)

DiscussionInit ==
    /\ discussion \in [state : {"absent"}, author : Users, locked : {FALSE}, text : {{}}]
    /\ comments = <<>>
    /\ notice = [u \in Users |-> [c \in Places |-> "none"]]
    /\ request = [r \in Requests |-> Idle]
    /\ late = {}
    /\ stream = [s \in Streams |-> "closed"]
    /\ shown = [s \in Streams |-> 0]
    /\ stale = [s \in Streams |-> FALSE]
    /\ synced = [s \in Streams |-> FALSE]

(***************************************************************************)
(* Notices                                                                 *)
(***************************************************************************)
There(notices) == {n \in Notice : notices[n[1]][n[2]] # "none"}

Working(r, op) == request[r] # Idle /\ request[r].op = op

(* The notices that deletions under way have found.                         *)
LockedNotices == UNION {request[r].removed : r \in {q \in Requests : Working(q, "delete")}}

(* Who comes too late for a deletion to find the notice.                    *)
TooLate == discussion'.state # "kept" \/ \E r \in Requests : Working(r, "delete")

Dates(notices) ==
    late' = (late \cap There(notices)) \cup (IF TooLate THEN There(notices) \ There(notice) ELSE {})

(* Mutation of Commits: a transaction that only removes or reads notices    *)
(* is not announced.                                                        *)
AnnouncesNew(notices) ==
    /\ notice' = notices
    /\ Dates(notices)
    /\ IF There(notices) \subseteq There(notice)
       THEN UNCHANGED unannounced ELSE Announces("notification")

Commits(notices) ==
    /\ notice' = notices
    /\ Dates(notices)
    /\ IF notices # notice THEN Announces("notification") ELSE UNCHANGED unannounced

(* ON CONFLICT DO NOTHING: one notice per user and place.                   *)
CreateDiscussionNotifications(targets, place) ==
    [u \in Users |-> [c \in Places |->
        IF u \in targets /\ c = place /\ notice[u][c] = "none" THEN "unread" ELSE notice[u][c]]]

DeletedNotifications(gone) ==
    [u \in Users |-> [c \in Places |-> IF <<u, c>> \in gone THEN "none" ELSE notice[u][c]]]

ReadNotifications(user, places) ==
    [u \in Users |-> [c \in Places |->
        IF u = user /\ c \in places /\ notice[u][c] = "unread" THEN "read" ELSE notice[u][c]]]

Unread(user) == Cardinality({c \in Places : notice[user][c] = "unread"})

(***************************************************************************)
(* Discussions and comments                                                *)
(***************************************************************************)
CreateDiscussion(user, text) ==
    /\ discussion.state = "absent"
    /\ discussion' = [state |-> "kept", author |-> user, locked |-> FALSE, text |-> text]
    /\ Commits(CreateDiscussionNotifications(text \ {user}, 0))
    /\ UNCHANGED <<channel, comments, request, browserVars>>

(* discussionByID, of the two handlers that go on with what they have read. *)
ReadDiscussion(r, op, user) ==
    /\ request[r] = Idle
    /\ discussion.state = "kept"
    /\ op = "edit" => user \in Admins
    /\ op = "comment" => ~discussion.locked
    /\ request' = [request EXCEPT ![r] = [op |-> op, actor |-> user, row |-> discussion]]
    /\ UNCHANGED <<channel, unannounced, discussion, comments, notice, late, browserVars>>

(* Every column of the row is written, deleted_at included; a new text      *)
(* notifies those the text that was read does not mention.                  *)
UpdateDiscussion(r, text, locked) ==
    LET q       == request[r]
        targets == (text \ q.row.text) \ {q.actor}
    IN
    /\ Working(r, "edit")
    /\ \A u \in targets : <<u, 0>> \notin LockedNotices
    /\ discussion' = [q.row EXCEPT !.text = text, !.locked = locked]
    /\ Commits(CreateDiscussionNotifications(targets, 0))
    /\ request' = [request EXCEPT ![r] = Idle]
    /\ UNCHANGED <<channel, comments, browserVars>>

(* Mutation of Found: only the notices of the comments.                     *)
FoundOfComments == {n \in There(notice) : n[2] # 0}

Found == There(notice)

(* The notices that are there are deleted; others see it with the commit.   *)
(* The discussion may have been deleted since the handler found it.         *)
RemoveNotices(r, user) ==
    /\ request[r] = Idle
    /\ discussion.state # "absent"
    /\ user \in Admins \/ user = discussion.author
    /\ Found \cap LockedNotices = {}
    /\ request' = [request EXCEPT ![r] = [op |-> "delete", removed |-> Found]]
    /\ UNCHANGED <<channel, unannounced, discussion, comments, notice, late, browserVars>>

(* The row is marked, unless it is already, and the transaction commits.    *)
DeleteDiscussion(r) ==
    /\ Working(r, "delete")
    /\ discussion' = [discussion EXCEPT !.state = "deleted"]
    /\ Commits(DeletedNotifications(request[r].removed))
    /\ request' = [request EXCEPT ![r] = Idle]
    /\ UNCHANGED <<channel, comments, browserVars>>

(* The comment is stored even if the discussion is locked or deleted now.   *)
CreateComment(r, text) ==
    LET q == request[r]
        place == Len(comments) + 1
    IN
    /\ Working(r, "comment")
    /\ place <= MaxComments
    /\ UNCHANGED discussion
    /\ comments' = Append(comments, [author |-> q.actor, deleted |-> FALSE])
    /\ Commits(CreateDiscussionNotifications((text \cup {q.row.author}) \ {q.actor}, place))
    /\ request' = [request EXCEPT ![r] = Idle]
    /\ UNCHANGED <<channel, browserVars>>

(* Too many mentions, or a transaction that fails, to resolve a deadlock    *)
(* with another or for any other reason.                                    *)
Fail(r) ==
    /\ request[r] # Idle
    /\ request' = [request EXCEPT ![r] = Idle]
    /\ UNCHANGED <<channel, unannounced, discussion, comments, notice, late, browserVars>>

(* The discussion may have been deleted since the handler found it.         *)
DeleteComment(user, c) ==
    /\ ~comments[c].deleted
    /\ user \in Admins \/ user = comments[c].author
    /\ Users \X {c} \cap LockedNotices = {}
    /\ UNCHANGED discussion
    /\ comments' = [comments EXCEPT ![c].deleted = TRUE]
    /\ Commits(DeletedNotifications(Users \X {c}))
    /\ UNCHANGED <<channel, request, browserVars>>

ReadNotification(user, places) ==
    /\ \A c \in places : notice[user][c] = "unread" => <<user, c>> \notin LockedNotices
    /\ UNCHANGED discussion
    /\ Commits(ReadNotifications(user, places))
    /\ UNCHANGED <<channel, comments, request, browserVars>>

(***************************************************************************)
(* Browsers                                                                *)
(***************************************************************************)
(* The stream says "ready" before it has subscribed.                        *)
Connect(s) ==
    /\ stream[s] = "closed"
    /\ stream' = [stream EXCEPT ![s] = "ready"]
    /\ UNCHANGED <<channel, unannounced, discussionVars, shown, stale, synced>>

Subscribe(s) ==
    /\ stream[s] = "ready"
    /\ stream' = [stream EXCEPT ![s] = "open"]
    /\ Subscribed(s)
    /\ UNCHANGED <<unannounced, discussionVars, shown, stale, synced>>

(* The connection breaks; the browser will connect again by itself.         *)
Disconnect(s) ==
    /\ stream[s] # "closed"
    /\ stream' = [stream EXCEPT ![s] = "closed"]
    /\ synced' = [synced EXCEPT ![s] = FALSE]
    /\ Unsubscribed(s)
    /\ UNCHANGED <<unannounced, discussionVars, shown, stale>>

StreamEvent(s) ==
    /\ Receive(s)
    /\ stale' = [stale EXCEPT ![s] = stale[s] \/ Head(channel[s]) = "notification"]
    /\ UNCHANGED <<unannounced, discussionVars, stream, shown, synced>>

(* After an event, when the page opens and when its user has read a notice. *)
Fetch(s) ==
    /\ shown' = [shown EXCEPT ![s] = Unread(OwnerOf[s])]
    /\ stale' = [stale EXCEPT ![s] = FALSE]
    /\ synced' = [synced EXCEPT ![s] = stream[s] = "open"]
    /\ UNCHANGED <<channel, unannounced, discussionVars, stream>>

DiscussionStep ==
    \/ \E user \in Users :
        \/ \E text \in Text : CreateDiscussion(user, text)
        \/ \E c \in 1..Len(comments) : DeleteComment(user, c)
        \/ \E places \in {Places} \cup {{c} : c \in Places} : ReadNotification(user, places)
    \/ \E r \in Requests :
        \/ \E user \in Users :
              RemoveNotices(r, user) \/ \E op \in {"edit", "comment"} : ReadDiscussion(r, op, user)
        \/ \E text \in Text, locked \in BOOLEAN : UpdateDiscussion(r, text, locked)
        \/ \E text \in Text : CreateComment(r, text)
        \/ DeleteDiscussion(r) \/ Fail(r)
    \/ \E s \in Streams : Connect(s) \/ Subscribe(s) \/ Disconnect(s) \/ StreamEvent(s) \/ Fetch(s)

(* An event is published: a notification that a full buffer has no room for *)
(* and does not hold already is lost to the browser.                        *)
Lost(s, kind) ==
    kind = "notification" /\ Full(s) /\ "notification" \notin {channel[s][i] : i \in 1..Len(channel[s])}

StreamPublish(kind) ==
    /\ synced' = [s \in Streams |-> synced[s] /\ ~(stream[s] = "open" /\ Lost(s, kind))]
    /\ UNCHANGED <<discussionVars, stream, shown, stale>>

(***************************************************************************)
(* Properties                                                              *)
(***************************************************************************)
(* A browser that has missed no announcement since it last asked and has    *)
(* none to handle shows the number of unread notices, once the handlers     *)
(* have published what they committed.                                      *)
BadgeIsFresh ==
    \A s \in Streams :
        /\ synced[s] /\ ~stale[s]
        /\ "notification" \notin {channel[s][i] : i \in 1..Len(channel[s])}
        /\ unannounced["notification"] = 0
        => shown[s] = Unread(OwnerOf[s])

(* Nobody keeps a notice of something that was deleted, whichever edits     *)
(* bring a deleted discussion back and whichever deletions and comments     *)
(* overlap, but for one thing: what commits between the two statements of   *)
(* the discussion's deletion, or as a comment after it, came too late.      *)
NoticesFollowPosts ==
    \A n \in There(notice) :
        /\ discussion.state = "kept" \/ n \in late
        /\ n[2] # 0 => n[2] <= Len(comments) /\ ~comments[n[2]].deleted
=============================================================================
