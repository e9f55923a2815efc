-------------------------- MODULE LiveServer_proofs --------------------------
(***************************************************************************)
(* Proofs about LiveServer: for any polls, browsers, submissions and       *)
(* buffer sizes, no wake-up is lost, notices go with their posts, and a    *)
(* browser that missed nothing shows the right number.                     *)
(***************************************************************************)
EXTENDS LiveServer, FiniteSetTheorems, TLAPS

(***************************************************************************)
(* The broker.                                                             *)
(***************************************************************************)
LEMMA EmptyChannel == <<>> # NoChannel
<1>1. <<>> \in Seq(Kinds)
  OBVIOUS
<1>2. QED
  BY <1>1, BrokerAssumption

LEMMA SubscribedTyped ==
    ASSUME BrokerTypeOK, NEW s \in Subscribers, Subscribed(s), UNCHANGED unannounced
    PROVE  BrokerTypeOK'
  BY BrokerAssumption DEF BrokerTypeOK, Subscribed

LEMMA UnsubscribedTyped ==
    ASSUME BrokerTypeOK, NEW s \in Subscribers, Unsubscribed(s)
    PROVE  /\ channel' \in [Subscribers -> Seq(Kinds) \cup {NoChannel}]
           /\ \A t \in Subscribers : channel'[t] # NoChannel => Len(channel'[t]) <= BufferSize
  BY BrokerAssumption DEF BrokerTypeOK, Unsubscribed

LEMMA ReceiveTyped ==
    ASSUME BrokerTypeOK, NEW s \in Subscribers, Receive(s), UNCHANGED unannounced
    PROVE  BrokerTypeOK'
<1> DEFINE rest == Tail(channel[s])
<1>1. channel[s] \in Seq(Kinds) /\ channel[s] # <<>>
  BY DEF BrokerTypeOK, Receive
<1>2. rest \in Seq(Kinds) /\ Len(rest) <= BufferSize
  BY <1>1, BrokerAssumption DEF BrokerTypeOK, Receive
<1>3. channel' = [channel EXCEPT ![s] = rest]
  BY DEF Receive
<1> HIDE DEF rest
<1>4. QED
  BY <1>2, <1>3 DEF BrokerTypeOK

LEMMA AnnouncesTyped ==
    ASSUME BrokerTypeOK, NEW kind \in Kinds, Announces(kind)
    PROVE  /\ unannounced' \in [Kinds -> 0..MaxUnannounced]
           /\ unannounced'[kind] > 0
           /\ \A k \in Kinds : unannounced'[k] >= unannounced[k]
  BY BrokerAssumption DEF BrokerTypeOK, Announces

\* What Publish does to one channel.
LEMMA PublishTo ==
    ASSUME BrokerTypeOK, NEW kind \in Kinds, Publish(kind), NEW s \in Subscribers
    PROVE  /\ channel[s] = NoChannel => channel'[s] = NoChannel
           /\ channel[s] # NoChannel =>
                /\ channel'[s] \in Seq(Kinds) /\ channel'[s] # <<>>
                /\ Len(channel'[s]) <= BufferSize
                /\ ~Full(s) => channel'[s] = Append(channel[s], kind)
                /\ Full(s) => channel'[s] = channel[s]
<1>1. CASE channel[s] = NoChannel
  BY <1>1 DEF Publish
<1>2. CASE channel[s] # NoChannel
  <2>1. channel[s] \in Seq(Kinds) /\ Len(channel[s]) <= BufferSize
    BY <1>2 DEF BrokerTypeOK
  <2>2. channel'[s] = IF Full(s) THEN channel[s] ELSE Append(channel[s], kind)
    BY <1>2 DEF Publish
  <2>3. CASE Full(s)
    BY <1>2, <2>1, <2>2, <2>3, BrokerAssumption DEF Full
  <2>4. CASE ~Full(s)
    BY <1>2, <2>1, <2>2, <2>4, BrokerAssumption DEF Full
  <2>5. QED
    BY <2>3, <2>4
<1>3. QED
  BY <1>1, <1>2

LEMMA PublishTyped ==
    ASSUME BrokerTypeOK, NEW kind \in Kinds, Publish(kind)
    PROVE  BrokerTypeOK'
<1>1. channel' \in [Subscribers -> Seq(Kinds) \cup {NoChannel}]
  <2>1. \A s \in Subscribers : channel'[s] \in Seq(Kinds) \cup {NoChannel}
    BY PublishTo
  <2>2. channel' = [s \in Subscribers |-> channel'[s]]
    BY DEF Publish
  <2>3. QED
    BY <2>1, <2>2
<1>2. \A s \in Subscribers : channel'[s] # NoChannel => Len(channel'[s]) <= BufferSize
  BY PublishTo
<1>3. unannounced' \in [Kinds -> 0..MaxUnannounced]
  BY BrokerAssumption DEF BrokerTypeOK, Publish
<1>4. QED
  BY <1>1, <1>2, <1>3 DEF BrokerTypeOK


(***************************************************************************)
(* The polls.  A poll that is at work has a channel; that is what lets an  *)
(* event wake it.                                                          *)
(***************************************************************************)
Attached == \A p \in Polls : poll[p] # "away" => channel[p] # NoChannel

WakeInv == BrokerTypeOK /\ PollTypeOK /\ Attached /\ NoLostWakeup

\* The part of a state that a poll's action changes for this poll alone.
LEMMA AttachedElsewhere ==
    ASSUME PollTypeOK, BrokerTypeOK, Attached, NEW p \in Polls,
           \A q \in Polls \ {p} : poll'[q] = poll[q] /\ channel'[q] = channel[q],
           poll'[p] # "away" => channel'[p] # NoChannel
    PROVE  Attached'
  BY DEF Attached

LEMMA FencedTyped ==
    ASSUME PollTypeOK, NEW j \in Jobs, Fenced(j)
    PROVE  claim' \in [Polls -> Jobs \cup {NoJob}]
  BY DEF PollTypeOK, Fenced

LEMMA EndsEffect ==
    ASSUME BrokerTypeOK, PollTypeOK, NEW p \in Polls, Ends(p)
    PROVE  /\ channel' \in [Subscribers -> Seq(Kinds) \cup {NoChannel}]
           /\ \A t \in Subscribers : channel'[t] # NoChannel => Len(channel'[t]) <= BufferSize
           /\ poll' \in [Polls -> PollStates]
           /\ claim' \in [Polls -> Jobs \cup {NoJob}]
           /\ poll'[p] = "away"
           /\ \A q \in Polls \ {p} : poll'[q] = poll[q] /\ channel'[q] = channel[q]
<1>1. p \in Subscribers
  BY PollAssumption
<1>2. Unsubscribed(p)
  BY DEF Ends
<1>3. /\ channel' \in [Subscribers -> Seq(Kinds) \cup {NoChannel}]
      /\ \A t \in Subscribers : channel'[t] # NoChannel => Len(channel'[t]) <= BufferSize
  BY <1>1, <1>2, UnsubscribedTyped
<1>4. \A q \in Polls \ {p} : channel'[q] = channel[q]
  BY <1>2, PollAssumption DEF Unsubscribed, BrokerTypeOK
<1>5. QED
  BY <1>3, <1>4 DEF Ends, PollTypeOK, PollStates

LEMMA PollStepTyped ==
    ASSUME WakeInv, PollStep
    PROVE  BrokerTypeOK' /\ PollTypeOK' /\ Attached'
<1> USE DEF WakeInv
<1> USE PollAssumption
<1>1. ASSUME NEW p \in Polls, Lease(p)
      PROVE  BrokerTypeOK' /\ PollTypeOK' /\ Attached'
  <2>1. p \in Subscribers /\ Subscribed(p) /\ Looks(p)
    BY <1>1 DEF Lease
  <2>2. BrokerTypeOK'
    BY <2>1, SubscribedTyped DEF Looks
  <2>3. PollTypeOK'
    BY <2>1 DEF Looks, PollTypeOK, PollStates
  <2>4. channel'[p] = <<>> /\ \A q \in Polls \ {p} : channel'[q] = channel[q]
    BY <2>1 DEF Subscribed, BrokerTypeOK
  <2>5. <<>> # NoChannel
    BY EmptyChannel
  <2>6. Attached'
    BY <2>1, <2>4, <2>5 DEF Looks, PollTypeOK, Attached
  <2>7. QED
    BY <2>2, <2>3, <2>6
<1>2. ASSUME NEW p \in Polls, FindNothing(p) \/ CommitLease(p) \/ Tick(p) \/ \E j \in Jobs : LockRow(p, j)
      PROVE  BrokerTypeOK' /\ PollTypeOK' /\ Attached'
  <2>1. BrokerTypeOK'
    BY <1>2 DEF FindNothing, CommitLease, Tick, LockRow, BrokerTypeOK
  <2>2. PollTypeOK'
    BY <1>2 DEF FindNothing, CommitLease, Tick, LockRow, PollTypeOK, PollStates, JobStates
  <2>3. Attached'
    BY <1>2 DEF FindNothing, CommitLease, Tick, LockRow, PollTypeOK, Attached
  <2>4. QED
    BY <2>1, <2>2, <2>3
<1>3. ASSUME NEW p \in Polls, GiveBack(p) \/ Abandon(p) \/ AnswerNothing(p)
      PROVE  BrokerTypeOK' /\ PollTypeOK' /\ Attached'
  <2>1. Ends(p) /\ UNCHANGED unannounced
    BY <1>3 DEF GiveBack, Abandon, AnswerNothing
  <2>2. BrokerTypeOK'
    BY <2>1, EndsEffect DEF BrokerTypeOK
  <2>3. job' \in [Jobs -> JobStates] /\ silent' \in SUBSET Jobs
    BY <1>3 DEF GiveBack, Abandon, AnswerNothing, PollTypeOK, JobStates
  <2>4. PollTypeOK'
    BY <2>1, <2>3, EndsEffect DEF PollTypeOK
  <2>5. Attached'
    BY <2>1, EndsEffect, AttachedElsewhere
  <2>6. QED
    BY <2>2, <2>4, <2>5
<1>4. ASSUME NEW p \in Polls, AnswerTask(p)
      PROVE  BrokerTypeOK' /\ PollTypeOK' /\ Attached'
  <2>1. Ends(p) /\ Announces("submission") /\ UNCHANGED <<job, silent>>
    BY <1>4 DEF AnswerTask
  <2>2. "submission" \in Kinds
    BY DEF Kinds
  <2>3. BrokerTypeOK'
    BY <2>1, <2>2, EndsEffect, AnnouncesTyped DEF BrokerTypeOK
  <2>4. PollTypeOK'
    BY <2>1, EndsEffect DEF PollTypeOK
  <2>5. Attached'
    BY <2>1, EndsEffect, AttachedElsewhere
  <2>6. QED
    BY <2>3, <2>4, <2>5
<1>5. ASSUME NEW p \in Polls, Wake(p)
      PROVE  BrokerTypeOK' /\ PollTypeOK' /\ Attached'
  <2>1. BrokerTypeOK'
    BY <1>5, ReceiveTyped DEF Wake
  <2>2. PollTypeOK'
    BY <1>5 DEF Wake, PollTypeOK, PollStates
  <2>3. channel' = [channel EXCEPT ![p] = Tail(channel[p])] /\ channel[p] \in Seq(Kinds) \ {<<>>}
    BY <1>5 DEF Wake, Receive, BrokerTypeOK
  <2>4. channel'[p] \in Seq(Kinds)
    BY <2>3 DEF BrokerTypeOK
  <2>5. channel'[p] # NoChannel /\ \A q \in Polls \ {p} : channel'[q] = channel[q]
    BY <2>3, <2>4, BrokerAssumption DEF BrokerTypeOK
  <2>6. Attached'
    BY <1>5, <2>5, AttachedElsewhere DEF Wake, PollTypeOK
  <2>7. QED
    BY <2>1, <2>2, <2>6
<1>6. ASSUME NEW j \in Jobs, \/ Submit(j) \/ Rejudge(j) \/ Finish(j)
                             \/ HeartbeatProgress(j)
      PROVE  BrokerTypeOK' /\ PollTypeOK' /\ Attached'
  <2>1. UNCHANGED <<channel, poll>>
    BY <1>6 DEF Submit, Rejudge, Finish, HeartbeatProgress, Becomes
  <2>2. \E kind \in Kinds : Announces(kind)
    BY <1>6 DEF Submit, Rejudge, Finish, HeartbeatProgress, Kinds
  <2>3. BrokerTypeOK'
    BY <2>1, <2>2, AnnouncesTyped DEF BrokerTypeOK
  <2>4. PollTypeOK'
    BY <1>6, FencedTyped DEF Submit, Rejudge, Finish, HeartbeatProgress, Becomes, PollTypeOK, JobStates
  <2>5. QED
    BY <2>1, <2>3, <2>4 DEF Attached
<1>7. ASSUME NEW j \in Jobs, LeaseExpires(j) \/ Hold(j) \/ Unhold(j)
      PROVE  BrokerTypeOK' /\ PollTypeOK' /\ Attached'
  <2>1. UNCHANGED <<channel, poll, unannounced>>
    BY <1>7 DEF LeaseExpires, Hold, Unhold, Becomes
  <2>2. PollTypeOK'
    BY <1>7, FencedTyped DEF LeaseExpires, Hold, Unhold, Becomes, PollTypeOK, JobStates
  <2>3. QED
    BY <2>1, <2>2 DEF Attached, BrokerTypeOK
<1>8. QED
  BY <1>1, <1>2, <1>3, <1>4, <1>5, <1>6, <1>7 DEF PollStep

(***************************************************************************)
(* No lost wake-up, one step at a time.                                    *)
(***************************************************************************)
\* What has become leasable is announced or known to be silent, and who goes
\* to sleep has just found nothing.
LEMMA PollStepWakes ==
    ASSUME WakeInv, PollStep
    PROVE  NoLostWakeup'
<1> USE PollAssumption
<1>1. BrokerTypeOK /\ PollTypeOK /\ Attached /\ NoLostWakeup
  BY DEF WakeInv
<1>2. BrokerTypeOK'
  BY PollStepTyped
<1> SUFFICES ASSUME NEW p \in Polls, NEW j \in Jobs,
                    poll'[p] = "asleep", channel'[p] \in {<<>>, NoChannel},
                    job'[j] = "queued", j \notin silent'
             PROVE  \E kind \in Kinds : unannounced'[kind] > 0
  BY DEF NoLostWakeup
<1> DEFINE Before == /\ poll[p] = "asleep" /\ channel[p] \in {<<>>, NoChannel}
                     /\ job[j] = "queued" /\ j \notin silent
<1>3. ASSUME Before, UNCHANGED unannounced
      PROVE  \E kind \in Kinds : unannounced'[kind] > 0
  BY <1>1, <1>3 DEF NoLostWakeup
<1>4. ASSUME NEW q \in Polls, Lease(q) \/ Tick(q) \/ CommitLease(q) \/ \E k \in Jobs : LockRow(q, k)
      PROVE  \E kind \in Kinds : unannounced'[kind] > 0
  <2>1. q # p /\ UNCHANGED <<unannounced, silent>> /\ poll[p] = "asleep"
    BY <1>1, <1>4 DEF Lease, Looks, Tick, CommitLease, LockRow, PollTypeOK
  <2>2. channel[p] = channel'[p]
    BY <1>1, <1>4, <2>1 DEF Lease, Looks, Subscribed, Tick, CommitLease, LockRow, BrokerTypeOK
  <2>3. job[j] = "queued"
    BY <1>1, <1>4 DEF Lease, Looks, Tick, CommitLease, LockRow, PollTypeOK
  <2>4. QED
    BY <1>3, <2>1, <2>2, <2>3
<1>5. ASSUME NEW q \in Polls, FindNothing(q)
      PROVE  \E kind \in Kinds : unannounced'[kind] > 0
  BY <1>5 DEF FindNothing, Leasable
<1>6. ASSUME NEW q \in Polls, GiveBack(q) \/ Abandon(q) \/ AnswerNothing(q)
      PROVE  \E kind \in Kinds : unannounced'[kind] > 0
  <2>1. Ends(q) /\ UNCHANGED unannounced
    BY <1>6 DEF GiveBack, Abandon, AnswerNothing
  <2>2. q # p /\ poll[p] = "asleep" /\ channel'[p] = channel[p]
    BY <1>1, <2>1, EndsEffect
  <2>3. job[j] = "queued" /\ j \notin silent
    BY <1>1, <1>6 DEF GiveBack, Abandon, AnswerNothing, PollTypeOK
  <2>4. QED
    BY <1>3, <2>1, <2>2, <2>3
<1>7. ASSUME NEW kind \in Kinds, Announces(kind)
      PROVE  \E k \in Kinds : unannounced'[k] > 0
  BY <1>1, <1>7, AnnouncesTyped
<1>8. ASSUME NEW q \in Polls, Wake(q)
      PROVE  \E kind \in Kinds : unannounced'[kind] > 0
  <2>1. q # p /\ UNCHANGED <<unannounced, job, silent>> /\ poll[p] = "asleep"
    BY <1>1, <1>8 DEF Wake, PollTypeOK
  <2>2. channel[p] = channel'[p]
    BY <1>1, <1>8, <2>1 DEF Wake, Receive, BrokerTypeOK
  <2>3. QED
    BY <1>3, <2>1, <2>2
<1>9. ASSUME NEW k \in Jobs, LeaseExpires(k) \/ Hold(k) \/ Unhold(k)
      PROVE  \E kind \in Kinds : unannounced'[kind] > 0
  <2>1. UNCHANGED <<channel, poll, unannounced>>
    BY <1>9 DEF LeaseExpires, Hold, Unhold, Becomes
  <2>2. job[j] = "queued" /\ j \notin silent
    BY <1>1, <1>9 DEF LeaseExpires, Hold, Unhold, Becomes, PollTypeOK
  <2>3. QED
    BY <1>3, <2>1, <2>2
<1>10. ASSUME NEW k \in Jobs, Submit(k) \/ Rejudge(k) \/ Finish(k) \/ HeartbeatProgress(k)
       PROVE  \E kind \in Kinds : unannounced'[kind] > 0
  BY <1>7, <1>10 DEF Submit, Rejudge, Finish, HeartbeatProgress, Kinds
<1>11. ASSUME NEW q \in Polls, AnswerTask(q)
       PROVE  \E kind \in Kinds : unannounced'[kind] > 0
  BY <1>7, <1>11 DEF AnswerTask, Kinds
<1>12. QED
  BY <1>4, <1>5, <1>6, <1>8, <1>9, <1>10, <1>11 DEF PollStep

\* A publication leaves no sleeping poll with an empty channel: the event is
\* in it, or others that left it no room.
LEMMA PublishWakes ==
    ASSUME WakeInv, NEW kind \in Kinds, Publish(kind), PollPublish
    PROVE  WakeInv'
<1> USE PollAssumption
<1>1. BrokerTypeOK /\ PollTypeOK /\ Attached
  BY DEF WakeInv
<1>2. BrokerTypeOK'
  BY <1>1, PublishTyped
<1>3. PollTypeOK'
  BY <1>1 DEF PollPublish, PollTypeOK
<1>4. ASSUME NEW p \in Polls, poll[p] # "away"
      PROVE  channel'[p] \notin {<<>>, NoChannel}
  <2>1. p \in Subscribers /\ channel[p] # NoChannel
    BY <1>1, <1>4 DEF Attached
  <2>2. channel'[p] \in Seq(Kinds) /\ channel'[p] # <<>>
    BY <1>1, <2>1, PublishTo
  <2>3. QED
    BY <2>2, BrokerAssumption
<1>5. Attached'
  BY <1>4 DEF PollPublish, Attached
<1>6. NoLostWakeup'
  BY <1>4 DEF PollPublish, NoLostWakeup
<1>7. QED
  BY <1>2, <1>3, <1>5, <1>6 DEF WakeInv

(***************************************************************************)
(* Notices and browsers: types.                                            *)
(***************************************************************************)
Notices == [Users -> [Places -> {"none", "unread", "read"}]]

LEMMA CommitsEffect ==
    ASSUME BrokerTypeOK, NEW n, Commits(n)
    PROVE  /\ notice' = n /\ Dates(n)
           /\ unannounced' \in [Kinds -> 0..MaxUnannounced]
           /\ \A k \in Kinds : unannounced'[k] >= unannounced[k]
           /\ n # notice => unannounced'["notification"] > 0
<1>1. "notification" \in Kinds
  BY DEF Kinds
<1>2. CASE n # notice
  <2>1. Announces("notification") /\ notice' = n /\ Dates(n)
    BY <1>2 DEF Commits
  <2>2. QED
    BY <1>1, <2>1, AnnouncesTyped
<1>3. CASE n = notice
  <2>1. UNCHANGED unannounced /\ notice' = n /\ Dates(n)
    BY <1>3 DEF Commits
  <2>2. \A k \in Kinds : unannounced[k] \in Int
    BY BrokerAssumption DEF BrokerTypeOK
  <2>3. QED
    BY <1>3, <2>1, <2>2 DEF BrokerTypeOK
<1>4. QED
  BY <1>2, <1>3

LEMMA CreatedNotices ==
    ASSUME notice \in Notices, NEW targets, NEW place
    PROVE  CreateDiscussionNotifications(targets, place) \in Notices
  BY DEF CreateDiscussionNotifications, Notices

LEMMA RemovedNotices ==
    ASSUME notice \in Notices, NEW gone
    PROVE  DeletedNotifications(gone) \in Notices
  BY DEF DeletedNotifications, Notices

LEMMA SeenNotices ==
    ASSUME notice \in Notices, NEW user, NEW places
    PROVE  ReadNotifications(user, places) \in Notices
  BY DEF ReadNotifications, Notices

LEMMA UnreadBounded ==
    ASSUME NEW user \in Users
    PROVE  Unread(user) \in 0..(MaxComments + 1)
<1> DEFINE S == {c \in Places : notice[user][c] = "unread"}
<1>1. IsFiniteSet(Places) /\ Cardinality(Places) = MaxComments + 1
  BY FS_Interval, DiscussionAssumption DEF Places
<1>2. S \subseteq Places
  OBVIOUS
<1>3. IsFiniteSet(S) /\ Cardinality(S) <= Cardinality(Places)
  BY <1>1, <1>2, FS_Subset
<1>4. Cardinality(S) \in Nat
  BY <1>3, FS_CardinalityType
<1>5. Unread(user) = Cardinality(S)
  BY DEF Unread
<1> HIDE DEF S
<1>6. QED
  BY <1>1, <1>3, <1>4, <1>5, DiscussionAssumption

\* What a handler of discussions does to the broker and to the browsers.
LEMMA HandlerEffect ==
    ASSUME BrokerTypeOK, DiscussionTypeOK, NEW n \in Notices, Commits(n),
           UNCHANGED <<channel, browserVars>>,
           discussion' \in Row,
           comments' \in Seq([author : Users, deleted : BOOLEAN]), Len(comments') <= MaxComments,
           request' \in [Requests -> Handler \cup Deletion \cup {Idle}]
    PROVE  BrokerTypeOK' /\ DiscussionTypeOK'
<1>1. notice' = n /\ unannounced' \in [Kinds -> 0..MaxUnannounced] /\ Dates(n)
  BY CommitsEffect
<1>2. BrokerTypeOK'
  BY <1>1 DEF BrokerTypeOK
<1>3. late' \in SUBSET Notice
  BY <1>1 DEF Dates, There, DiscussionTypeOK
<1>4. DiscussionTypeOK'
  BY <1>1, <1>3 DEF DiscussionTypeOK, Notices, browserVars
<1>5. QED
  BY <1>2, <1>4

\* Only a handler that has read the discussion edits it or comments on it.
LEMMA HandlerOf ==
    ASSUME DiscussionTypeOK, NEW r \in Requests
    PROVE  /\ Working(r, "edit") \/ Working(r, "comment") => request[r] \in Handler
           /\ Working(r, "delete") => request[r] \in Deletion
<1>1. request[r] \in Handler \cup Deletion \cup {Idle}
  BY DEF DiscussionTypeOK
<1>2. request[r] \in Handler => request[r].op \in {"edit", "comment"}
  BY DEF Handler
<1>3. request[r] \in Deletion => request[r].op = "delete"
  BY DEF Deletion
<1>4. QED
  BY <1>1, <1>2, <1>3 DEF Working

LEMMA ElementOf ==
    ASSUME NEW S, NEW seq \in Seq(S), NEW i \in 1..Len(seq)
    PROVE  seq[i] \in S
  OBVIOUS

LEMMA DiscussionStepTyped ==
    ASSUME BrokerTypeOK, DiscussionTypeOK, DiscussionStep
    PROVE  BrokerTypeOK' /\ DiscussionTypeOK'
<1> DEFINE Request == Handler \cup Deletion
           Comment == [author : Users, deleted : BOOLEAN]
<1>1. /\ notice \in Notices /\ discussion \in Row
      /\ comments \in Seq(Comment) /\ Len(comments) <= MaxComments
      /\ request \in [Requests -> Request \cup {Idle}]
  BY DEF DiscussionTypeOK, Notices
<1>2. ASSUME NEW user \in Users, NEW text \in Text, CreateDiscussion(user, text)
      PROVE  BrokerTypeOK' /\ DiscussionTypeOK'
  <2>1. discussion' \in Row
    BY <1>2 DEF CreateDiscussion, Row
  <2>2. CreateDiscussionNotifications(text \ {user}, 0) \in Notices
    BY <1>1, CreatedNotices
  <2>3. QED
    BY <1>1, <1>2, <2>1, <2>2, HandlerEffect DEF CreateDiscussion
<1>3. ASSUME NEW r \in Requests, DeleteDiscussion(r)
      PROVE  BrokerTypeOK' /\ DiscussionTypeOK'
  <2>1. discussion' \in Row
    BY <1>1, <1>3 DEF DeleteDiscussion, Row
  <2>2. DeletedNotifications(request[r].removed) \in Notices
    BY <1>1, RemovedNotices
  <2>3. request' \in [Requests -> Request \cup {Idle}]
    BY <1>1, <1>3 DEF DeleteDiscussion
  <2>4. QED
    BY <1>1, <1>3, <2>1, <2>2, <2>3, HandlerEffect DEF DeleteDiscussion
<1>4. ASSUME NEW user \in Users, NEW c \in 1..Len(comments), DeleteComment(user, c)
      PROVE  BrokerTypeOK' /\ DiscussionTypeOK'
  <2> DEFINE new == [comments[c] EXCEPT !.deleted = TRUE]
  <2>1. comments[c] \in Comment
    <3>1. comments \in Seq(Comment) /\ c \in 1..Len(comments)
      BY <1>1, <1>4
    <3> HIDE DEF Comment
    <3>2. QED
      BY <3>1, ElementOf
  <2>2. new \in Comment
    BY <2>1
  <2>3. comments' = [comments EXCEPT ![c] = new]
    BY <1>4 DEF DeleteComment
  <2> HIDE DEF new
  <2>4. comments' \in Seq(Comment) /\ Len(comments') <= MaxComments
    BY <1>1, <2>2, <2>3
  <2>5. DeletedNotifications(Users \X {c}) \in Notices
    BY <1>1, RemovedNotices
  <2>6. QED
    BY <1>1, <1>4, <2>4, <2>5, HandlerEffect DEF DeleteComment
<1>5. ASSUME NEW user \in Users, NEW places, ReadNotification(user, places)
      PROVE  BrokerTypeOK' /\ DiscussionTypeOK'
  <2>1. ReadNotifications(user, places) \in Notices
    BY <1>1, SeenNotices
  <2>2. QED
    BY <1>1, <1>5, <2>1, HandlerEffect DEF ReadNotification
<1>6. ASSUME NEW r \in Requests, NEW op \in {"edit", "comment"}, NEW user \in Users,
             ReadDiscussion(r, op, user)
      PROVE  BrokerTypeOK' /\ DiscussionTypeOK'
  <2> DEFINE new == [op |-> op, actor |-> user, row |-> discussion]
  <2>1. new \in Request
    BY <1>1 DEF Handler
  <2>2. request' = [request EXCEPT ![r] = new]
    BY <1>6 DEF ReadDiscussion
  <2> HIDE DEF new
  <2>3. request' \in [Requests -> Request \cup {Idle}]
    BY <1>1, <2>1, <2>2
  <2>4. UNCHANGED <<channel, unannounced, discussion, comments, notice, late, browserVars>>
    BY <1>6 DEF ReadDiscussion
  <2>5. QED
    BY <2>3, <2>4 DEF BrokerTypeOK, DiscussionTypeOK, browserVars
<1>7. ASSUME NEW r \in Requests, NEW text \in Text, NEW locked \in BOOLEAN,
             UpdateDiscussion(r, text, locked)
      PROVE  BrokerTypeOK' /\ DiscussionTypeOK'
  <2>1. request[r] \in Handler
    BY <1>7, HandlerOf DEF UpdateDiscussion
  <2>2. request[r].row \in Row /\ discussion' = [request[r].row EXCEPT !.text = text, !.locked = locked]
    BY <1>7, <2>1 DEF UpdateDiscussion, Handler
  <2>3. discussion' \in Row
    BY <2>2 DEF Row
  <2>4. request' \in [Requests -> Request \cup {Idle}]
    BY <1>1, <1>7 DEF UpdateDiscussion
  <2>5. CreateDiscussionNotifications((text \ request[r].row.text) \ {request[r].actor}, 0) \in Notices
    BY <1>1, CreatedNotices
  <2>6. QED
    BY <1>1, <1>7, <2>3, <2>4, <2>5, HandlerEffect DEF UpdateDiscussion
<1>8. ASSUME NEW r \in Requests, NEW text \in Text, CreateComment(r, text)
      PROVE  BrokerTypeOK' /\ DiscussionTypeOK'
  <2>1. request[r].actor \in Users
    BY <1>8, HandlerOf DEF CreateComment, Handler
  <2>2. comments' = Append(comments, [author |-> request[r].actor, deleted |-> FALSE])
    BY <1>8 DEF CreateComment
  <2>3. comments' \in Seq(Comment) /\ Len(comments') <= MaxComments
    BY <1>1, <1>8, <2>1, <2>2, DiscussionAssumption DEF CreateComment
  <2>4. request' \in [Requests -> Request \cup {Idle}]
    BY <1>1, <1>8 DEF CreateComment
  <2>5. CreateDiscussionNotifications((text \cup {request[r].row.author}) \ {request[r].actor},
                                      Len(comments) + 1) \in Notices
    BY <1>1, CreatedNotices
  <2>6. QED
    BY <1>1, <1>8, <2>3, <2>4, <2>5, HandlerEffect DEF CreateComment
<1>9. ASSUME NEW r \in Requests, Fail(r)
      PROVE  BrokerTypeOK' /\ DiscussionTypeOK'
  <2>1. request' \in [Requests -> Request \cup {Idle}]
    BY <1>1, <1>9 DEF Fail
  <2>2. UNCHANGED <<channel, unannounced, discussion, comments, notice, late, browserVars>>
    BY <1>9 DEF Fail
  <2>3. QED
    BY <2>1, <2>2 DEF BrokerTypeOK, DiscussionTypeOK, browserVars
<1>10. ASSUME NEW s \in Streams, Connect(s) \/ Subscribe(s) \/ Disconnect(s) \/ StreamEvent(s) \/ Fetch(s)
       PROVE  BrokerTypeOK' /\ DiscussionTypeOK'
  <2>1. s \in Subscribers
    BY DiscussionAssumption
  <2>2. CASE Connect(s)
    BY <2>2 DEF Connect, BrokerTypeOK, DiscussionTypeOK, discussionVars
  <2>3. CASE Subscribe(s)
    <3>1. BrokerTypeOK'
      BY <2>1, <2>3, SubscribedTyped DEF Subscribe
    <3>2. channel'[s] # NoChannel /\ \A t \in Streams \ {s} : channel'[t] = channel[t]
      BY <2>1, <2>3, EmptyChannel, DiscussionAssumption DEF Subscribe, Subscribed, BrokerTypeOK
    <3>3. QED
      BY <2>3, <3>1, <3>2 DEF Subscribe, DiscussionTypeOK, discussionVars
  <2>4. CASE Disconnect(s)
    <3>1. BrokerTypeOK'
      BY <2>1, <2>4, UnsubscribedTyped DEF Disconnect, BrokerTypeOK
    <3>2. channel'[s] = NoChannel /\ \A t \in Streams \ {s} : channel'[t] = channel[t]
      BY <2>1, <2>4, DiscussionAssumption DEF Disconnect, Unsubscribed, BrokerTypeOK
    <3>3. QED
      BY <2>4, <3>1, <3>2 DEF Disconnect, DiscussionTypeOK, discussionVars
  <2>5. CASE StreamEvent(s)
    <3>1. BrokerTypeOK'
      BY <2>1, <2>5, ReceiveTyped DEF StreamEvent
    <3>2. channel[s] \in Seq(Kinds) \ {<<>>} /\ channel' = [channel EXCEPT ![s] = Tail(channel[s])]
      BY <2>1, <2>5 DEF StreamEvent, Receive, BrokerTypeOK
    <3>3. channel'[s] \in Seq(Kinds) /\ \A t \in Streams \ {s} : channel'[t] = channel[t]
      BY <2>1, <3>2, DiscussionAssumption DEF BrokerTypeOK
    <3>4. channel[s] # NoChannel /\ channel'[s] # NoChannel
      BY <3>2, <3>3, BrokerAssumption
    <3>5. stale' \in [Streams -> BOOLEAN]
      BY <2>5 DEF StreamEvent, DiscussionTypeOK
    <3>6. QED
      BY <2>5, <3>1, <3>3, <3>4, <3>5 DEF StreamEvent, DiscussionTypeOK, discussionVars
  <2>6. CASE Fetch(s)
    <3>1. shown' \in [Streams -> 0..(MaxComments + 1)]
      <4>1. Unread(OwnerOf[s]) \in 0..(MaxComments + 1)
        BY UnreadBounded, DiscussionAssumption
      <4>2. QED
        BY <2>6, <4>1 DEF Fetch, DiscussionTypeOK
    <3>2. QED
      BY <2>6, <3>1 DEF Fetch, BrokerTypeOK, DiscussionTypeOK, discussionVars
  <2>7. QED
    BY <1>10, <2>2, <2>3, <2>4, <2>5, <2>6
<1>11. ASSUME NEW r \in Requests, NEW user \in Users, RemoveNotices(r, user)
       PROVE  BrokerTypeOK' /\ DiscussionTypeOK'
  <2> DEFINE new == [op |-> "delete", removed |-> Found]
  <2>1. new \in Request
    BY DEF Deletion, Found, There
  <2>2. request' = [request EXCEPT ![r] = new]
    BY <1>11 DEF RemoveNotices
  <2> HIDE DEF new
  <2>3. request' \in [Requests -> Request \cup {Idle}]
    BY <1>1, <2>1, <2>2
  <2>4. UNCHANGED <<channel, unannounced, discussion, comments, notice, late, browserVars>>
    BY <1>11 DEF RemoveNotices
  <2>5. QED
    BY <2>3, <2>4 DEF BrokerTypeOK, DiscussionTypeOK, browserVars
<1>12. QED
  BY <1>2, <1>3, <1>4, <1>5, <1>6, <1>7, <1>8, <1>9, <1>10, <1>11 DEF DiscussionStep

(***************************************************************************)
(* Each side leaves the other's channels alone and only adds announcements.*)
(***************************************************************************)
LEMMA PollStepQuiet ==
    ASSUME BrokerTypeOK, PollTypeOK, PollStep
    PROVE  /\ \A s \in Subscribers \ Polls : channel'[s] = channel[s]
           /\ \A k \in Kinds : unannounced'[k] >= unannounced[k]
<1> USE PollAssumption
<1>1. \A k \in Kinds : unannounced[k] \in Int
  BY BrokerAssumption DEF BrokerTypeOK
<1>2. \/ UNCHANGED unannounced
      \/ \E kind \in Kinds : Announces(kind)
  BY DEF PollStep, Lease, Looks, FindNothing, CommitLease, GiveBack, Abandon, AnswerTask, Wake, Tick,
         AnswerNothing, LockRow, Submit, Rejudge, Finish, LeaseExpires, Hold, Unhold, HeartbeatProgress, Kinds
<1>3. \A k \in Kinds : unannounced'[k] >= unannounced[k]
  BY <1>1, <1>2, AnnouncesTyped
<1>4. \/ UNCHANGED channel
      \/ \E p \in Polls : Subscribed(p) \/ Unsubscribed(p) \/ Receive(p)
  BY DEF PollStep, Lease, FindNothing, CommitLease, GiveBack, Abandon, AnswerTask, Wake, Tick, Ends,
         AnswerNothing, LockRow, Submit, Rejudge, Finish, LeaseExpires, Hold, Unhold, HeartbeatProgress, Becomes
<1>5. \A s \in Subscribers \ Polls : channel'[s] = channel[s]
  BY <1>4 DEF Subscribed, Unsubscribed, Receive, BrokerTypeOK
<1>6. QED
  BY <1>3, <1>5

LEMMA DiscussionStepQuiet ==
    ASSUME BrokerTypeOK, DiscussionStep
    PROVE  /\ \A s \in Subscribers \ Streams : channel'[s] = channel[s]
           /\ \A k \in Kinds : unannounced'[k] >= unannounced[k]
<1> USE DiscussionAssumption
<1>1. \A k \in Kinds : unannounced[k] \in Int
  BY BrokerAssumption DEF BrokerTypeOK
<1>2. \/ UNCHANGED unannounced
      \/ Announces("notification")
  BY DEF DiscussionStep, CreateDiscussion, DeleteDiscussion, DeleteComment, ReadNotification,
         ReadDiscussion, RemoveNotices, UpdateDiscussion, CreateComment, Fail, Connect, Subscribe, Disconnect,
         StreamEvent, Fetch, Commits
<1>3. \A k \in Kinds : unannounced'[k] >= unannounced[k]
  BY <1>1, <1>2, AnnouncesTyped DEF Kinds
<1>4. \/ UNCHANGED channel
      \/ \E s \in Streams : Subscribed(s) \/ Unsubscribed(s) \/ Receive(s)
  BY DEF DiscussionStep, CreateDiscussion, DeleteDiscussion, DeleteComment, ReadNotification,
         ReadDiscussion, RemoveNotices, UpdateDiscussion, CreateComment, Fail, Connect, Subscribe, Disconnect,
         StreamEvent, Fetch
<1>5. \A s \in Subscribers \ Streams : channel'[s] = channel[s]
  BY <1>4 DEF Subscribed, Unsubscribed, Receive, BrokerTypeOK
<1>6. QED
  BY <1>3, <1>5

(***************************************************************************)
(* Types and wake-ups of the whole server.                                 *)
(***************************************************************************)
LEMMA InitHolds == Init => WakeInv /\ DiscussionTypeOK
<1> SUFFICES ASSUME Init PROVE WakeInv /\ DiscussionTypeOK
  OBVIOUS
<1>1. BrokerTypeOK
  BY BrokerAssumption DEF Init, BrokerInit, BrokerTypeOK
<1>2. PollTypeOK /\ Attached /\ NoLostWakeup
  BY DEF Init, PollInit, PollTypeOK, Attached, NoLostWakeup, JobStates, PollStates
<1>3. DiscussionTypeOK
  <2>1. discussion \in Row
    BY DEF Init, DiscussionInit, Row, Text
  <2>2. comments \in Seq([author : Users, deleted : BOOLEAN]) /\ Len(comments) <= MaxComments
    BY DiscussionAssumption DEF Init, DiscussionInit
  <2>3. QED
    BY <2>1, <2>2, DiscussionAssumption DEF Init, DiscussionInit, BrokerInit, DiscussionTypeOK
<1>4. QED
  BY <1>1, <1>2, <1>3 DEF WakeInv

LEMMA NextHolds == WakeInv /\ DiscussionTypeOK /\ [Next]_vars => (WakeInv /\ DiscussionTypeOK)'
<1> SUFFICES ASSUME WakeInv, DiscussionTypeOK, [Next]_vars
             PROVE  WakeInv' /\ DiscussionTypeOK'
  OBVIOUS
<1>1. BrokerTypeOK /\ PollTypeOK /\ Attached /\ NoLostWakeup
  BY DEF WakeInv
<1>2. CASE PollStep /\ UNCHANGED <<discussionVars, browserVars>>
  <2>1. WakeInv'
    BY <1>2, PollStepTyped, PollStepWakes DEF WakeInv
  <2>2. \A s \in Streams : channel'[s] = channel[s]
    BY <1>1, <1>2, PollStepQuiet, LiveServerAssumption, DiscussionAssumption
  <2>3. DiscussionTypeOK'
    BY <1>2, <2>2 DEF DiscussionTypeOK, discussionVars, browserVars
  <2>4. QED
    BY <2>1, <2>3
<1>3. CASE DiscussionStep /\ UNCHANGED pollVars
  <2>1. BrokerTypeOK' /\ DiscussionTypeOK'
    BY <1>1, <1>3, DiscussionStepTyped
  <2>2. UNCHANGED <<job, poll, claim, silent>>
    BY <1>3 DEF pollVars
  <2>3. \A p \in Polls : channel'[p] = channel[p]
    BY <1>1, <1>3, DiscussionStepQuiet, LiveServerAssumption, PollAssumption
  <2>4. \A k \in Kinds : unannounced'[k] >= unannounced[k] /\ unannounced[k] \in Int /\ unannounced'[k] \in Int
    BY <1>1, <1>3, <2>1, DiscussionStepQuiet, BrokerAssumption DEF BrokerTypeOK
  <2>5. PollTypeOK' /\ Attached'
    BY <1>1, <2>2, <2>3 DEF PollTypeOK, Attached
  <2>6. NoLostWakeup'
    BY <1>1, <2>2, <2>3, <2>4 DEF NoLostWakeup
  <2>7. QED
    BY <2>1, <2>5, <2>6 DEF WakeInv
<1>4. ASSUME NEW kind \in Kinds, Publish(kind), PollPublish, StreamPublish(kind)
      PROVE  WakeInv' /\ DiscussionTypeOK'
  <2>1. WakeInv'
    BY <1>4, PublishWakes
  <2>2. \A s \in Streams : (channel'[s] # NoChannel) = (channel[s] # NoChannel)
    <3>1. ASSUME NEW s \in Streams PROVE (channel'[s] # NoChannel) = (channel[s] # NoChannel)
      <4>1. s \in Subscribers
        BY DiscussionAssumption
      <4>2. CASE channel[s] = NoChannel
        BY <1>1, <1>4, <4>1, <4>2, PublishTo
      <4>3. CASE channel[s] # NoChannel
        <5>1. channel'[s] \in Seq(Kinds)
          BY <1>1, <1>4, <4>1, <4>3, PublishTo
        <5>2. QED
          BY <4>3, <5>1, BrokerAssumption
      <4>4. QED
        BY <4>2, <4>3
    <3>2. QED
      BY <3>1
  <2>3. synced' \in [Streams -> BOOLEAN]
    BY <1>4 DEF StreamPublish
  <2>4. DiscussionTypeOK'
    BY <1>4, <2>2, <2>3 DEF StreamPublish, DiscussionTypeOK, discussionVars
  <2>5. QED
    BY <2>1, <2>4
<1>5. CASE UNCHANGED vars
  <2>1. WakeInv'
    BY <1>1, <1>5 DEF WakeInv, BrokerTypeOK, PollTypeOK, Attached, NoLostWakeup, vars, pollVars
  <2>2. DiscussionTypeOK'
    BY <1>5 DEF DiscussionTypeOK, vars, discussionVars, browserVars
  <2>3. QED
    BY <2>1, <2>2
<1>6. QED
  BY <1>2, <1>3, <1>4, <1>5 DEF Next

\* Types: for every set of subscribers, submissions and users, the broker, the
\* polls and the browsers keep theirs; no channel holds more than its buffer.
THEOREM TypeCorrect == Spec => []TypeOK
<1>1. WakeInv /\ DiscussionTypeOK => TypeOK
  BY DEF WakeInv, TypeOK
<1>2. QED
  BY <1>1, InitHolds, NextHolds, PTL DEF Spec

\* No lost wake-up: the events of the broker and the order in which a poll
\* subscribes and looks (server/api/worker/lease.go) never leave a poll asleep
\* beside a submission that was announced, however small the buffers are.
THEOREM WakesUp == Spec => []NoLostWakeup
<1>1. WakeInv /\ DiscussionTypeOK => NoLostWakeup
  BY DEF WakeInv
<1>2. QED
  BY <1>1, InitHolds, NextHolds, PTL DEF Spec

(***************************************************************************)
(* Who has a submission.                                                   *)
(***************************************************************************)
\* What a claim means, and what a locked row means.
Claimed == \A p \in Polls : claim[p] # NoJob =>
             job[claim[p]] = IF poll[p] = "locking" THEN "locked" ELSE "leased"
Alone   == \A p, q \in Polls : claim[p] # NoJob /\ claim[q] = claim[p] => q = p
LockedBy(j, p) == poll[p] = "locking" /\ claim[p] = j
LocksLive == \A j \in Jobs : job[j] = "locked" => \E p \in Polls : LockedBy(j, p)

LEMMA ClaimParts == ClaimsAreExclusive <=> Claimed /\ Alone /\ LocksLive
  BY DEF ClaimsAreExclusive, Claimed, Alone, LocksLive, LockedBy

\* A submission's row changes, and whoever had claimed it has lost it.
LEMMA BecomesClaims ==
    ASSUME PollTypeOK, ClaimsAreExclusive, NEW j \in Jobs, NEW state,
           Becomes(j, state), job[j] # "locked", state # "locked"
    PROVE  ClaimsAreExclusive'
<1>1. /\ poll' = poll /\ j # NoJob
      /\ job' = [job EXCEPT ![j] = state]
      /\ \A p \in Polls : claim'[p] = IF claim[p] = j THEN NoJob ELSE claim[p]
  BY PollAssumption DEF Becomes, Fenced
<1>2. Claimed /\ Alone /\ LocksLive
  BY ClaimParts
<1>3. /\ job'[j] = state /\ \A i \in Jobs \ {j} : job'[i] = job[i]
      /\ \A p \in Polls : claim[p] \in Jobs \cup {NoJob}
  BY <1>1 DEF PollTypeOK
<1>4. Claimed' /\ Alone'
  BY <1>1, <1>2, <1>3 DEF Claimed, Alone
<1>5. ASSUME NEW i \in Jobs, job'[i] = "locked"
      PROVE  \E p \in Polls : LockedBy(i, p)'
  <2>1. i # j /\ job[i] = "locked"
    BY <1>3, <1>5
  <2>2. PICK p \in Polls : LockedBy(i, p)
    BY <1>2, <2>1 DEF LocksLive
  <2>3. LockedBy(i, p)'
    BY <1>1, <2>1, <2>2 DEF LockedBy
  <2>4. QED
    BY <2>3
<1>6. LocksLive'
  BY <1>5 DEF LocksLive
<1>7. Claimed' /\ Alone' /\ LocksLive' => ClaimsAreExclusive'
  BY DEF ClaimsAreExclusive, Claimed, Alone, LocksLive, LockedBy
<1>8. QED
  BY <1>4, <1>6, <1>7

\* A poll changes, and with it the row it has claimed or is about to claim.
LEMMA PollClaims ==
    ASSUME PollTypeOK, ClaimsAreExclusive, NEW p \in Polls,
           NEW where, NEW what, what \in Jobs \cup {NoJob},
           poll' = [poll EXCEPT ![p] = where], claim' = [claim EXCEPT ![p] = what],
           \A i \in Jobs \ {claim[p], what} : job'[i] = job[i],
           what # NoJob => /\ job'[what] = IF where = "locking" THEN "locked" ELSE "leased"
                           /\ \A q \in Polls \ {p} : claim[q] # what,
           claim[p] \in Jobs \ {what} => job'[claim[p]] # "locked"
    PROVE  ClaimsAreExclusive'
<1>1. Claimed /\ Alone /\ LocksLive
  BY ClaimParts
<1>2. /\ poll'[p] = where /\ claim'[p] = what
      /\ \A q \in Polls \ {p} : poll'[q] = poll[q] /\ claim'[q] = claim[q]
      /\ \A q \in Polls : claim[q] \in Jobs \cup {NoJob}
  BY DEF PollTypeOK
<1>3. \A q \in Polls \ {p} : claim[q] # NoJob => claim[q] # claim[p] /\ claim[q] # what
  BY <1>1 DEF Alone
<1>4. Alone'
  BY <1>1, <1>2, <1>3 DEF Alone
<1>5. ASSUME NEW q \in Polls, claim'[q] # NoJob
      PROVE  job'[claim'[q]] = IF poll'[q] = "locking" THEN "locked" ELSE "leased"
  <2>1. CASE q = p
    BY <1>2, <1>5, <2>1
  <2>2. CASE q # p
    <3>1. claim[q] \in Jobs \ {claim[p], what} /\ claim'[q] = claim[q] /\ poll'[q] = poll[q]
      BY <1>2, <1>3, <1>5, <2>2
    <3>2. job'[claim[q]] = job[claim[q]]
      BY <3>1
    <3>3. QED
      BY <1>1, <1>5, <3>1, <3>2 DEF Claimed
  <2>3. QED
    BY <2>1, <2>2
<1>6. Claimed'
  BY <1>5 DEF Claimed
<1>7. ASSUME NEW i \in Jobs, job'[i] = "locked"
      PROVE  \E q \in Polls : poll'[q] = "locking" /\ claim'[q] = i
  <2>1. CASE i = what
    <3>1. where = "locking"
      BY <1>7, <2>1, PollAssumption
    <3>2. QED
      BY <1>2, <2>1, <3>1
  <2>2. CASE i # what
    <3>1. i # claim[p]
      BY <1>7, <2>2
    <3>2. job[i] = "locked"
      BY <1>7, <2>2, <3>1
    <3>3. PICK q \in Polls : LockedBy(i, q)
      BY <1>1, <3>2 DEF LocksLive
    <3>4. q # p
      BY <3>1, <3>3 DEF LockedBy
    <3>5. QED
      BY <1>2, <3>3, <3>4 DEF LockedBy
  <2>3. QED
    BY <2>1, <2>2
<1>8. LocksLive'
  BY <1>7 DEF LocksLive, LockedBy
<1>9. Claimed' /\ Alone' /\ LocksLive' => ClaimsAreExclusive'
  BY DEF ClaimsAreExclusive, Claimed, Alone, LocksLive, LockedBy
<1>10. QED
  BY <1>4, <1>6, <1>8, <1>9

LEMMA ClaimStep ==
    ASSUME PollTypeOK, ClaimsAreExclusive, PollStep
    PROVE  ClaimsAreExclusive'
<1>1. /\ \A p \in Polls : claim[p] \in Jobs \cup {NoJob}
      /\ claim \in [Polls -> Jobs \cup {NoJob}]
      /\ Claimed /\ Alone
  BY ClaimParts DEF PollTypeOK
<1>2. ASSUME NEW p \in Polls, NEW where, where # "locking", poll[p] # "locking",
             poll' = [poll EXCEPT ![p] = where], UNCHANGED <<job, claim>>
      PROVE  ClaimsAreExclusive'
  <2>1. claim' = [claim EXCEPT ![p] = claim[p]]
    BY <1>1, <1>2
  <2>2. claim[p] # NoJob => job'[claim[p]] = "leased" /\ \A q \in Polls \ {p} : claim[q] # claim[p]
    BY <1>1, <1>2 DEF Claimed, Alone
  <2>3. QED
    BY <1>1, <1>2, <2>1, <2>2, PollClaims
<1>3. ASSUME NEW p \in Polls, Lease(p) \/ FindNothing(p) \/ Wake(p) \/ Tick(p)
      PROVE  ClaimsAreExclusive'
  <2>1. \E where \in {"looking", "asleep"} : poll' = [poll EXCEPT ![p] = where]
    BY <1>3 DEF Lease, Looks, FindNothing, Wake, Tick
  <2>2. poll[p] # "locking" /\ UNCHANGED <<job, claim>>
    BY <1>3 DEF Lease, Looks, FindNothing, Wake, Tick
  <2>3. QED
    BY <1>2, <2>1, <2>2
<1>4. ASSUME NEW p \in Polls, Abandon(p) \/ AnswerTask(p) \/ AnswerNothing(p)
      PROVE  ClaimsAreExclusive'
  <2>1. /\ poll' = [poll EXCEPT ![p] = "away"] /\ claim' = [claim EXCEPT ![p] = NoJob]
        /\ job' = job /\ poll[p] # "locking"
    BY <1>4 DEF Abandon, AnswerTask, AnswerNothing, Ends
  <2>2. claim[p] # NoJob => job[claim[p]] = "leased"
    BY <1>1, <2>1 DEF Claimed
  <2>3. claim[p] \in Jobs \ {NoJob} => job'[claim[p]] # "locked"
    BY <2>1, <2>2
  <2>4. QED
    BY <2>1, <2>3, PollClaims
<1>5. ASSUME NEW p \in Polls, GiveBack(p)
      PROVE  ClaimsAreExclusive'
  <2>1. /\ poll' = [poll EXCEPT ![p] = "away"] /\ claim' = [claim EXCEPT ![p] = NoJob]
        /\ \A i \in Jobs : job'[i] = IF i = claim[p] THEN "queued" ELSE job[i]
    BY <1>5 DEF GiveBack, Ends
  <2>2. QED
    BY <2>1, PollClaims
<1>6. ASSUME NEW p \in Polls, CommitLease(p)
      PROVE  ClaimsAreExclusive'
  <2>1. /\ poll' = [poll EXCEPT ![p] = "building"] /\ claim' = [claim EXCEPT ![p] = claim[p]]
        /\ job' = [job EXCEPT ![claim[p]] = "leased"]
    BY <1>1, <1>6 DEF CommitLease
  <2>2. \A i \in Jobs \ {claim[p]} : job'[i] = job[i]
    BY <2>1 DEF PollTypeOK
  <2>3. claim[p] # NoJob => job'[claim[p]] = "leased" /\ \A q \in Polls \ {p} : claim[q] # claim[p]
    BY <1>1, <2>1 DEF PollTypeOK, Alone
  <2>4. QED
    BY <1>1, <2>1, <2>2, <2>3, PollClaims
<1>7. ASSUME NEW p \in Polls, NEW j \in Jobs, LockRow(p, j)
      PROVE  ClaimsAreExclusive'
  <2>1. /\ poll' = [poll EXCEPT ![p] = "locking"] /\ claim' = [claim EXCEPT ![p] = j]
        /\ job' = [job EXCEPT ![j] = "locked"] /\ job[j] = "queued" /\ poll[p] = "looking"
    BY <1>7 DEF LockRow, Leasable
  <2>2. job'[j] = "locked" /\ \A i \in Jobs \ {j} : job'[i] = job[i]
    BY <2>1 DEF PollTypeOK
  <2>3. \A q \in Polls : claim[q] # j
    BY <1>1, <2>1, PollAssumption DEF Claimed
  <2>4. claim[p] # NoJob => job[claim[p]] = "leased"
    BY <1>1, <2>1 DEF Claimed
  <2>5. claim[p] \in Jobs \ {j} => job'[claim[p]] # "locked"
    BY <2>2, <2>4, PollAssumption
  <2>6. QED
    BY <2>1, <2>2, <2>3, <2>5, PollClaims
<1>8. ASSUME NEW j \in Jobs, Submit(j) \/ Rejudge(j) \/ Finish(j) \/ LeaseExpires(j)
      PROVE  ClaimsAreExclusive'
  <2>1. /\ \E state \in {"queued", "done"} : Becomes(j, state)
        /\ job[j] # "locked"
    BY <1>8 DEF Submit, Rejudge, Finish, LeaseExpires
  <2>2. QED
    BY <2>1, BecomesClaims
<1>9. ASSUME NEW j \in Jobs, Hold(j) \/ Unhold(j)
      PROVE  ClaimsAreExclusive'
  <2>1. /\ \E state \in {"queued", "held"} : job' = [job EXCEPT ![j] = state]
        /\ job[j] \in {"queued", "held"} /\ UNCHANGED <<channel, poll, claim>>
    BY <1>9 DEF Hold, Unhold
  <2>2. \A p \in Polls : claim[p] # j
    BY <1>1, <2>1, PollAssumption DEF Claimed
  <2>3. claim' = [p \in Polls |-> IF claim[p] = j THEN NoJob ELSE claim[p]]
    BY <1>1, <2>1, <2>2
  <2>4. QED
    BY <2>1, <2>3, BecomesClaims DEF Becomes, Fenced
<1>10. ASSUME NEW j \in Jobs, HeartbeatProgress(j)
       PROVE  ClaimsAreExclusive'
  BY <1>10 DEF HeartbeatProgress, ClaimsAreExclusive
<1>11. QED
  BY <1>3, <1>4, <1>5, <1>6, <1>7, <1>8, <1>9, <1>10 DEF PollStep

\* A submission is one poll's at a time, for any number of polls: FOR UPDATE
\* SKIP LOCKED and the attempt (server/api/worker/lease.go) see to it through
\* failing transactions and payloads, expiries and rejudges.
THEOREM ClaimsExclusive == Spec => []ClaimsAreExclusive
<1>1. Init => ClaimsAreExclusive
  BY DEF Init, PollInit, ClaimsAreExclusive
<1>2. WakeInv /\ ClaimsAreExclusive /\ [Next]_vars => ClaimsAreExclusive'
  <2> SUFFICES ASSUME WakeInv, ClaimsAreExclusive, [Next]_vars PROVE ClaimsAreExclusive'
    OBVIOUS
  <2>1. CASE PollStep
    BY <2>1, ClaimStep DEF WakeInv
  <2>2. CASE UNCHANGED <<job, poll, claim>>
    BY <2>2 DEF ClaimsAreExclusive
  <2>3. QED
    BY <2>1, <2>2 DEF Next, PollPublish, pollVars, vars
<1>3. QED
  BY <1>1, <1>2, InitHolds, NextHolds, PTL DEF Spec

(***************************************************************************)
(* Notices.                                                                *)
(***************************************************************************)
\* Who edits has read a discussion that was there.
RowsKept == \A r \in Requests : Working(r, "edit") => request[r].row.state = "kept"

\* A deletion has found every notice that is not too late.
DeletionsFind ==
  \A r \in Requests : Working(r, "delete") => There(notice) \ late \subseteq request[r].removed

\* The two halves of NoticesFollowPosts.
OfAPost    == \A n \in There(notice) : discussion.state = "kept" \/ n \in late
OfAComment == \A n \in There(notice) : n[2] # 0 => n[2] <= Len(comments) /\ ~comments[n[2]].deleted

NoticeInv == RowsKept /\ DeletionsFind /\ OfAPost /\ OfAComment

\* Which notices there are after each kind of change.
LEMMA CreatedThere ==
    ASSUME NEW targets, NEW place,
           NEW n \in There(CreateDiscussionNotifications(targets, place)), n[2] # place
    PROVE  n \in There(notice)
<1>1. n \in Notice /\ n[1] \in Users /\ n[2] \in Places
  BY DEF There, Notice
<1>2. CreateDiscussionNotifications(targets, place)[n[1]][n[2]] = notice[n[1]][n[2]]
  BY <1>1 DEF CreateDiscussionNotifications
<1>3. QED
  BY <1>1, <1>2 DEF There

LEMMA DeletedThere ==
    ASSUME NEW gone
    PROVE  There(DeletedNotifications(gone)) \subseteq There(notice) \ gone
<1> SUFFICES ASSUME NEW n \in There(DeletedNotifications(gone))
             PROVE  n \in There(notice) /\ n \notin gone
  OBVIOUS
<1>1. n \in Notice /\ n[1] \in Users /\ n[2] \in Places /\ n = <<n[1], n[2]>>
  BY DEF There, Notice
<1>2. DeletedNotifications(gone)[n[1]][n[2]] =
        IF <<n[1], n[2]>> \in gone THEN "none" ELSE notice[n[1]][n[2]]
  BY <1>1 DEF DeletedNotifications
<1>3. QED
  BY <1>1, <1>2 DEF There

LEMMA SeenThere ==
    ASSUME NEW user, NEW places
    PROVE  There(ReadNotifications(user, places)) \subseteq There(notice)
<1> SUFFICES ASSUME NEW n \in There(ReadNotifications(user, places))
             PROVE  n \in There(notice)
  OBVIOUS
<1>1. n \in Notice /\ n[1] \in Users /\ n[2] \in Places
  BY DEF There, Notice
<1>2. ReadNotifications(user, places)[n[1]][n[2]] # "none"
  BY DEF There
<1>3. notice[n[1]][n[2]] # "none"
  BY <1>1, <1>2 DEF ReadNotifications
<1>4. QED
  BY <1>1, <1>3 DEF There

\* What a commit does to the notices that are there and to the late ones.
LEMMA CommitDates ==
    ASSUME BrokerTypeOK, NEW n, Commits(n)
    PROVE  /\ There(notice)' = There(n)
           /\ There(n) \cap late \subseteq late'
           /\ TooLate => There(n) \ There(notice) \subseteq late'
<1>1. notice' = n /\ Dates(n)
  BY CommitsEffect
<1>2. There(notice)' = There(n)
  BY <1>1 DEF There
<1>3. QED
  BY <1>1, <1>2 DEF Dates

\* The requests that go on keep what NoticeInv says of them: what a deletion
\* under way has not found came too late.
LEMMA CommitFinds ==
    ASSUME BrokerTypeOK, NoticeInv, NEW n, Commits(n),
           \A r \in Requests : request'[r] = request[r] \/ request'[r] = Idle
    PROVE  RowsKept' /\ DeletionsFind'
<1>1. RowsKept'
  BY DEF NoticeInv, RowsKept, Working
<1>2. ASSUME NEW r \in Requests, Working(r, "delete")'
      PROVE  There(notice)' \ late' \subseteq request'[r].removed
  <2>1. request'[r] = request[r] /\ Working(r, "delete")
    BY <1>2 DEF Working
  <2>2. TooLate
    BY <2>1 DEF TooLate
  <2>3. There(notice) \ late \subseteq request[r].removed
    BY <2>1 DEF NoticeInv, DeletionsFind
  <2>4. QED
    BY <2>1, <2>2, <2>3, CommitDates
<1>3. QED
  BY <1>1, <1>2 DEF DeletionsFind

\* Unless the discussion goes away, its new notices are of a post or late.
LEMMA CommitOfAPost ==
    ASSUME BrokerTypeOK, NoticeInv, NEW n, Commits(n),
           discussion'.state = "kept" \/ discussion'.state = discussion.state
    PROVE  OfAPost'
<1> SUFFICES ASSUME NEW x \in There(notice)', discussion'.state # "kept"
             PROVE  x \in late'
  BY DEF OfAPost
<1>1. TooLate /\ discussion.state # "kept"
  BY DEF TooLate
<1>2. x \in There(notice) => x \in late
  BY <1>1 DEF NoticeInv, OfAPost
<1>3. QED
  BY <1>1, <1>2, CommitDates

\* A step that touches neither the discussion nor its notices.
LEMMA NoCommit ==
    ASSUME NoticeInv, UNCHANGED <<discussion, comments, notice, late>>,
           RowsKept', DeletionsFind'
    PROVE  NoticeInv'
  BY DEF NoticeInv, OfAPost, OfAComment, There

LEMMA Untouched ==
    ASSUME NoticeInv, UNCHANGED <<discussion, comments, notice, request, late>>
    PROVE  NoticeInv'
  BY DEF NoticeInv, RowsKept, DeletionsFind, OfAPost, OfAComment, Working, There

LEMMA NoticeStep ==
    ASSUME BrokerTypeOK, DiscussionTypeOK, NoticeInv, DiscussionStep
    PROVE  NoticeInv'
<1> DEFINE Comment == [author : Users, deleted : BOOLEAN]
           Goes(r) == request' = [request EXCEPT ![r] = Idle]
<1>1. /\ comments \in Seq(Comment)
      /\ request \in [Requests -> Handler \cup Deletion \cup {Idle}]
  BY DEF DiscussionTypeOK
<1>2. \A r \in Requests : Goes(r) => \A q \in Requests : request'[q] = request[q] \/ request'[q] = Idle
  BY <1>1
<1>3. ASSUME NEW user \in Users, NEW text \in Text, CreateDiscussion(user, text)
      PROVE  NoticeInv'
  <2> DEFINE n == CreateDiscussionNotifications(text \ {user}, 0)
  <2>1. Commits(n) /\ discussion'.state = "kept" /\ UNCHANGED <<comments, request>>
    BY <1>3 DEF CreateDiscussion
  <2>2. \A x \in There(n) : x[2] # 0 => x \in There(notice)
    BY CreatedThere
  <2> HIDE DEF n
  <2>3. RowsKept' /\ DeletionsFind' /\ OfAPost'
    BY <2>1, CommitFinds, CommitOfAPost
  <2>4. OfAComment'
    BY <2>1, <2>2, CommitDates DEF NoticeInv, OfAComment
  <2>5. QED
    BY <2>3, <2>4 DEF NoticeInv
<1>4. ASSUME NEW r \in Requests, DeleteDiscussion(r)
      PROVE  NoticeInv'
  <2> DEFINE gone == request[r].removed
             n    == DeletedNotifications(gone)
  <2>1. Commits(n) /\ Working(r, "delete") /\ Goes(r) /\ UNCHANGED comments
    BY <1>4 DEF DeleteDiscussion
  <2>2. There(n) \subseteq There(notice) \ gone
    BY DeletedThere
  <2>3. There(notice) \ late \subseteq gone
    BY <2>1 DEF NoticeInv, DeletionsFind
  <2> HIDE DEF n, gone
  <2>4. RowsKept' /\ DeletionsFind'
    BY <1>2, <2>1, CommitFinds
  <2>5. OfAPost'
    BY <2>1, <2>2, <2>3, CommitDates DEF OfAPost
  <2>6. OfAComment'
    BY <2>1, <2>2, CommitDates DEF NoticeInv, OfAComment
  <2>7. QED
    BY <2>4, <2>5, <2>6 DEF NoticeInv
<1>5. ASSUME NEW user \in Users, NEW c \in 1..Len(comments), DeleteComment(user, c)
      PROVE  NoticeInv'
  <2> DEFINE gone == Users \X {c}
             n    == DeletedNotifications(gone)
  <2>1. /\ Commits(n) /\ UNCHANGED <<discussion, request>>
        /\ comments' = [comments EXCEPT ![c].deleted = TRUE]
    BY <1>5 DEF DeleteComment
  <2>2. There(n) \subseteq There(notice) \ gone
    BY DeletedThere
  <2>3. \A x \in There(n) : x[2] # c
    <3>1. \A x \in There(n) : x[1] \in Users /\ x = <<x[1], x[2]>>
      BY DEF There, Notice
    <3>2. QED
      BY <2>2, <3>1
  <2> HIDE DEF n, gone
  <2>4. Len(comments') = Len(comments) /\ \A d \in 1..Len(comments) \ {c} : comments'[d] = comments[d]
    BY <1>1, <2>1
  <2>5. RowsKept' /\ DeletionsFind' /\ OfAPost'
    BY <2>1, CommitFinds, CommitOfAPost
  <2>6. ASSUME NEW x \in There(n), x[2] # 0
        PROVE  x[2] <= Len(comments') /\ ~comments'[x[2]].deleted
    <3>1. x[2] <= Len(comments) /\ ~comments[x[2]].deleted
      BY <2>2, <2>6 DEF NoticeInv, OfAComment
    <3>2. x[2] \in 1..Len(comments)
      <4>1. x[2] \in 0..MaxComments
        BY DEF There, Notice, Places
      <4>2. QED
        BY <1>1, <2>6, <3>1, <4>1, DiscussionAssumption
    <3>3. QED
      BY <2>3, <2>4, <3>1, <3>2
  <2>7. OfAComment'
    BY <2>1, <2>6, CommitDates DEF OfAComment
  <2>8. QED
    BY <2>5, <2>7 DEF NoticeInv
<1>6. ASSUME NEW user \in Users, NEW places, ReadNotification(user, places)
      PROVE  NoticeInv'
  <2> DEFINE n == ReadNotifications(user, places)
  <2>1. Commits(n) /\ UNCHANGED <<discussion, comments, request>>
    BY <1>6 DEF ReadNotification
  <2>2. There(n) \subseteq There(notice)
    BY SeenThere
  <2> HIDE DEF n
  <2>3. RowsKept' /\ DeletionsFind' /\ OfAPost'
    BY <2>1, CommitFinds, CommitOfAPost
  <2>4. OfAComment'
    BY <2>1, <2>2, CommitDates DEF NoticeInv, OfAComment
  <2>5. QED
    BY <2>3, <2>4 DEF NoticeInv
<1>7. ASSUME NEW r \in Requests, NEW op \in {"edit", "comment"}, NEW user \in Users,
             ReadDiscussion(r, op, user)
      PROVE  NoticeInv'
  <2> DEFINE new == [op |-> op, actor |-> user, row |-> discussion]
  <2>1. UNCHANGED <<discussion, comments, notice, late>> /\ discussion.state = "kept"
    BY <1>7 DEF ReadDiscussion
  <2>2. request' = [request EXCEPT ![r] = new] /\ new.op # "delete" /\ new.row.state = "kept"
    BY <1>7, <2>1 DEF ReadDiscussion
  <2> HIDE DEF new
  <2>3. RowsKept'
    BY <1>1, <2>2 DEF NoticeInv, RowsKept, Working
  <2>4. DeletionsFind'
    BY <1>1, <2>1, <2>2 DEF NoticeInv, DeletionsFind, Working, There
  <2>5. QED
    BY <2>1, <2>3, <2>4, NoCommit
<1>8. ASSUME NEW r \in Requests, NEW user \in Users, RemoveNotices(r, user)
      PROVE  NoticeInv'
  <2> DEFINE new == [op |-> "delete", removed |-> There(notice)]
  <2>1. UNCHANGED <<discussion, comments, notice, late>>
    BY <1>8 DEF RemoveNotices
  <2>2. request' = [request EXCEPT ![r] = new] /\ new.op # "edit" /\ new.removed = There(notice)
    BY <1>8 DEF RemoveNotices, Found
  <2> HIDE DEF new
  <2>3. RowsKept'
    BY <1>1, <2>2 DEF NoticeInv, RowsKept, Working
  <2>4. There(notice)' = There(notice)
    BY <2>1 DEF There
  <2>5. DeletionsFind'
    BY <1>1, <2>1, <2>2, <2>4 DEF NoticeInv, DeletionsFind, Working
  <2>6. QED
    BY <2>1, <2>3, <2>5, NoCommit
<1>9. ASSUME NEW r \in Requests, NEW text \in Text, NEW locked \in BOOLEAN,
             UpdateDiscussion(r, text, locked)
      PROVE  NoticeInv'
  <2> DEFINE n == CreateDiscussionNotifications((text \ request[r].row.text) \ {request[r].actor}, 0)
  <2>1. /\ Commits(n) /\ Working(r, "edit") /\ Goes(r) /\ UNCHANGED comments
        /\ discussion' = [request[r].row EXCEPT !.text = text, !.locked = locked]
    BY <1>9 DEF UpdateDiscussion
  <2>2. request[r].row \in Row /\ request[r].row.state = "kept"
    BY <2>1, HandlerOf DEF NoticeInv, RowsKept, Handler
  <2>3. discussion'.state = "kept"
    BY <2>1, <2>2 DEF Row
  <2>4. \A x \in There(n) : x[2] # 0 => x \in There(notice)
    BY CreatedThere
  <2> HIDE DEF n
  <2>5. RowsKept' /\ DeletionsFind' /\ OfAPost'
    BY <1>2, <2>1, <2>3, CommitFinds, CommitOfAPost
  <2>6. OfAComment'
    BY <2>1, <2>4, CommitDates DEF NoticeInv, OfAComment
  <2>7. QED
    BY <2>5, <2>6 DEF NoticeInv
<1>10. ASSUME NEW r \in Requests, NEW text \in Text, CreateComment(r, text)
       PROVE  NoticeInv'
  <2> DEFINE place == Len(comments) + 1
             row   == [author |-> request[r].actor, deleted |-> FALSE]
             n     == CreateDiscussionNotifications(
                        (text \cup {request[r].row.author}) \ {request[r].actor}, place)
  <2>1. /\ Commits(n) /\ Working(r, "comment") /\ Goes(r) /\ UNCHANGED discussion
        /\ comments' = Append(comments, row)
    BY <1>10 DEF CreateComment
  <2>2. row \in Comment /\ ~row.deleted
    BY <2>1, HandlerOf DEF Handler
  <2>3. place \in Nat
    BY <1>1
  <2>4. \A x \in There(n) : x[2] # place => x \in There(notice)
    BY CreatedThere
  <2> HIDE DEF n, row
  <2>5. RowsKept' /\ DeletionsFind' /\ OfAPost'
    BY <1>2, <2>1, CommitFinds, CommitOfAPost
  <2>6. /\ Len(comments') = place /\ comments'[place] = row
        /\ \A d \in 1..Len(comments) : comments'[d] = comments[d]
    BY <1>1, <2>1, <2>2
  <2>7. ASSUME NEW x \in There(n), x[2] # 0
        PROVE  x[2] <= Len(comments') /\ ~comments'[x[2]].deleted
    <3>1. CASE x[2] = place
      BY <2>2, <2>3, <2>6, <3>1
    <3>2. CASE x[2] # place
      <4>1. x[2] <= Len(comments) /\ ~comments[x[2]].deleted
        BY <2>4, <2>7, <3>2 DEF NoticeInv, OfAComment
      <4>2. x[2] \in 0..MaxComments
        BY DEF There, Notice, Places
      <4>3. x[2] \in 1..Len(comments) /\ Len(comments) <= place
        BY <1>1, <2>7, <4>1, <4>2, DiscussionAssumption
      <4> HIDE DEF place
      <4>4. x[2] <= place
        BY <1>1, <2>3, <4>2, <4>3, DiscussionAssumption
      <4>5. QED
        BY <2>6, <4>1, <4>3, <4>4
    <3>3. QED
      BY <3>1, <3>2
  <2>8. OfAComment'
    BY <2>1, <2>7, CommitDates DEF OfAComment
  <2>9. QED
    BY <2>5, <2>8 DEF NoticeInv
<1>11. ASSUME NEW r \in Requests, Fail(r)
       PROVE  NoticeInv'
  <2>1. Goes(r) /\ UNCHANGED <<discussion, comments, notice, late>>
    BY <1>11 DEF Fail
  <2>2. RowsKept' /\ DeletionsFind'
    BY <1>2, <2>1 DEF NoticeInv, RowsKept, DeletionsFind, Working, There
  <2>3. QED
    BY <2>1, <2>2, NoCommit
<1>12. ASSUME NEW s \in Streams, Connect(s) \/ Subscribe(s) \/ Disconnect(s) \/ StreamEvent(s) \/ Fetch(s)
       PROVE  NoticeInv'
  <2>1. UNCHANGED <<discussion, comments, notice, request, late>>
    BY <1>12 DEF Connect, Subscribe, Disconnect, StreamEvent, Fetch, discussionVars
  <2>2. QED
    BY <2>1, Untouched
<1>13. QED
  BY <1>3, <1>4, <1>5, <1>6, <1>7, <1>8, <1>9, <1>10, <1>11, <1>12 DEF DiscussionStep

\* Notices go with what they are about, whichever handlers are at work with
\* rows they read earlier and whichever deletions overlap
\* (server/api/public/discussions.go), but for what commits while a deletion
\* has removed the notices it found, or as a comment after it.
THEOREM NoticesGoWithPosts == Spec => []NoticesFollowPosts
<1>1. Init => NoticeInv
  <2> SUFFICES ASSUME Init PROVE NoticeInv
    OBVIOUS
  <2>1. \A u \in Users, c \in Places : notice[u][c] = "none"
    BY DEF Init, DiscussionInit
  <2>2. There(notice) = {}
    BY <2>1 DEF There, Notice
  <2>3. \A r \in Requests : request[r] = Idle
    BY DEF Init, DiscussionInit
  <2>4. QED
    BY <2>2, <2>3 DEF NoticeInv, RowsKept, DeletionsFind, OfAPost, OfAComment, Working
<1>2. WakeInv /\ DiscussionTypeOK /\ NoticeInv /\ [Next]_vars => NoticeInv'
  <2> SUFFICES ASSUME WakeInv, DiscussionTypeOK, NoticeInv, [Next]_vars PROVE NoticeInv'
    OBVIOUS
  <2>1. CASE DiscussionStep
    BY <2>1, NoticeStep DEF WakeInv
  <2>2. CASE UNCHANGED discussionVars
    BY <2>2, Untouched DEF discussionVars
  <2>3. QED
    BY <2>1, <2>2 DEF Next, StreamPublish, vars
<1>3. NoticeInv => NoticesFollowPosts
  BY DEF NoticeInv, OfAPost, OfAComment, NoticesFollowPosts
<1>4. QED
  BY <1>1, <1>2, <1>3, InitHolds, NextHolds, PTL DEF Spec

(***************************************************************************)
(* Browsers.                                                               *)
(***************************************************************************)
\* A browser counts as having missed nothing only while its stream is open.
SyncedOpen == \A s \in Streams : synced[s] => stream[s] = "open"

BadgeInv == SyncedOpen /\ BadgeIsFresh

\* A notification is on its way through this channel.
Told(s) == "notification" \in {channel[s][i] : i \in 1..Len(channel[s])}

\* A channel that has been shortened at its head tells what it told before,
\* or it told it now.
LEMMA TailTells ==
    ASSUME NEW c \in Seq(Kinds), c # <<>>, NEW k \in {c[i] : i \in 1..Len(c)}
    PROVE  k = Head(c) \/ k \in {Tail(c)[i] : i \in 1..Len(Tail(c))}
<1>1. PICK i \in 1..Len(c) : k = c[i]
  OBVIOUS
<1>2. CASE i = 1
  BY <1>1, <1>2
<1>3. CASE i # 1
  <2>1. i - 1 \in 1..Len(Tail(c)) /\ Tail(c)[i - 1] = c[i]
    BY <1>3
  <2>2. QED
    BY <1>1, <2>1
<1>4. QED
  BY <1>2, <1>3

\* Nothing that concerns this browser has changed, but for announcements.
LEMMA BadgeUndisturbed ==
    ASSUME BrokerTypeOK, BrokerTypeOK', BadgeInv, NEW s \in Streams,
           synced'[s] = synced[s], stale'[s] = stale[s], shown'[s] = shown[s],
           channel'[s] = channel[s], stream'[s] = stream[s],
           unannounced'["notification"] >= unannounced["notification"],
           notice' = notice \/ unannounced'["notification"] > 0
    PROVE  /\ synced'[s] => stream'[s] = "open"
           /\ /\ synced'[s] /\ ~stale'[s]
              /\ "notification" \notin {channel'[s][i] : i \in 1..Len(channel'[s])}
              /\ unannounced'["notification"] = 0
              => shown'[s] = Unread(OwnerOf[s])'
<1>1. unannounced["notification"] \in Nat /\ unannounced'["notification"] \in Nat
  BY BrokerAssumption DEF BrokerTypeOK, Kinds
<1>2. synced'[s] => stream'[s] = "open"
  BY DEF BadgeInv, SyncedOpen
<1>3. SUFFICES ASSUME synced'[s], ~stale'[s], unannounced'["notification"] = 0,
                      "notification" \notin {channel'[s][i] : i \in 1..Len(channel'[s])}
               PROVE  shown'[s] = Unread(OwnerOf[s])'
  BY <1>2
<1>4. unannounced["notification"] = 0 /\ notice' = notice
  BY <1>1, <1>3
<1>5. shown[s] = Unread(OwnerOf[s])
  BY <1>3, <1>4 DEF BadgeInv, BadgeIsFresh
<1>6. QED
  BY <1>4, <1>5 DEF Unread

LEMMA StreamStepBadge ==
    ASSUME BrokerTypeOK, BrokerTypeOK', DiscussionTypeOK, BadgeInv, NEW s \in Streams,
           Connect(s) \/ Subscribe(s) \/ Disconnect(s) \/ StreamEvent(s) \/ Fetch(s)
    PROVE  BadgeInv'
<1> USE DiscussionAssumption
<1>1. UNCHANGED <<unannounced, notice>>
  BY DEF Connect, Subscribe, Disconnect, StreamEvent, Fetch, discussionVars
<1>2. unannounced["notification"] \in Nat
  BY BrokerAssumption DEF BrokerTypeOK, Kinds
<1>3. ASSUME NEW t \in Streams \ {s}
      PROVE  /\ synced'[t] = synced[t] /\ stale'[t] = stale[t] /\ shown'[t] = shown[t]
             /\ channel'[t] = channel[t] /\ stream'[t] = stream[t]
  BY DEF Connect, Subscribe, Disconnect, StreamEvent, Fetch, Subscribed, Unsubscribed, Receive,
         BrokerTypeOK, DiscussionTypeOK
<1>4. ASSUME NEW t \in Streams \ {s}
      PROVE  /\ synced'[t] => stream'[t] = "open"
             /\ /\ synced'[t] /\ ~stale'[t]
                /\ "notification" \notin {channel'[t][i] : i \in 1..Len(channel'[t])}
                /\ unannounced'["notification"] = 0
                => shown'[t] = Unread(OwnerOf[t])'
  BY <1>1, <1>2, <1>3, BadgeUndisturbed
<1>5. CASE Connect(s) \/ Subscribe(s) \/ Disconnect(s)
  <2>1. ~synced'[s]
    BY <1>5 DEF Connect, Subscribe, Disconnect, BadgeInv, SyncedOpen, DiscussionTypeOK
  <2>2. QED
    BY <1>4, <2>1 DEF BadgeInv, SyncedOpen, BadgeIsFresh
<1>6. CASE StreamEvent(s)
  <2>1. /\ channel[s] \in Seq(Kinds) /\ channel[s] # <<>>
        /\ channel' = [channel EXCEPT ![s] = Tail(channel[s])]
    BY <1>6 DEF StreamEvent, Receive, BrokerTypeOK
  <2>2. channel'[s] = Tail(channel[s])
    BY <2>1 DEF BrokerTypeOK
  <2>3. /\ synced'[s] = synced[s] /\ stream'[s] = stream[s] /\ shown'[s] = shown[s]
        /\ stale'[s] = (stale[s] \/ Head(channel[s]) = "notification")
    BY <1>6 DEF StreamEvent, DiscussionTypeOK
  <2>4. synced'[s] => stream'[s] = "open"
    BY <2>3 DEF BadgeInv, SyncedOpen
  <2>5. ASSUME synced'[s], ~stale'[s], unannounced'["notification"] = 0,
               "notification" \notin {channel'[s][i] : i \in 1..Len(channel'[s])}
        PROVE  shown'[s] = Unread(OwnerOf[s])'
    <3>1. ~stale[s] /\ Head(channel[s]) # "notification"
      BY <2>3, <2>5
    <3>2. "notification" \notin {channel[s][i] : i \in 1..Len(channel[s])}
      <4> DEFINE c == channel[s]
      <4>1. c \in Seq(Kinds) /\ c # <<>> /\ channel'[s] = Tail(c)
        BY <2>1, <2>2
      <4>2. "notification" \notin {Tail(c)[i] : i \in 1..Len(Tail(c))}
        BY <2>5, <4>1
      <4>3. Head(c) # "notification"
        BY <3>1
      <4> HIDE DEF c
      <4>4. "notification" \notin {c[i] : i \in 1..Len(c)}
        BY <4>1, <4>2, <4>3, TailTells
      <4>5. QED
        BY <4>4 DEF c
    <3>3. shown[s] = Unread(OwnerOf[s])
      BY <1>1, <2>3, <2>5, <3>1, <3>2 DEF BadgeInv, BadgeIsFresh
    <3>4. QED
      BY <1>1, <2>3, <3>3 DEF Unread
  <2>6. QED
    BY <1>4, <2>4, <2>5 DEF BadgeInv, SyncedOpen, BadgeIsFresh
<1>7. CASE Fetch(s)
  <2>1. shown'[s] = Unread(OwnerOf[s]) /\ (synced'[s] => stream'[s] = "open")
    BY <1>7 DEF Fetch, DiscussionTypeOK
  <2>2. shown'[s] = Unread(OwnerOf[s])'
    BY <1>1, <2>1 DEF Unread
  <2>3. QED
    BY <1>4, <2>1, <2>2 DEF BadgeInv, SyncedOpen, BadgeIsFresh
<1>8. QED
  BY <1>5, <1>6, <1>7

LEMMA DiscussionStepBadge ==
    ASSUME BrokerTypeOK, DiscussionTypeOK, BadgeInv, DiscussionStep
    PROVE  BadgeInv'
<1>1. BrokerTypeOK'
  BY DiscussionStepTyped
<1>2. unannounced["notification"] \in Nat /\ "notification" \in Kinds
  BY BrokerAssumption DEF BrokerTypeOK, Kinds
<1>3. ASSUME UNCHANGED <<channel, browserVars>>,
             notice' = notice \/ unannounced'["notification"] > 0
      PROVE  BadgeInv'
  <2>1. unannounced'["notification"] >= unannounced["notification"]
    BY <1>2, DiscussionStepQuiet
  <2>2. ASSUME NEW s \in Streams
        PROVE  /\ synced'[s] => stream'[s] = "open"
               /\ /\ synced'[s] /\ ~stale'[s]
                  /\ "notification" \notin {channel'[s][i] : i \in 1..Len(channel'[s])}
                  /\ unannounced'["notification"] = 0
                  => shown'[s] = Unread(OwnerOf[s])'
    BY <1>1, <1>3, <2>1, BadgeUndisturbed DEF browserVars
  <2>3. QED
    BY <2>2 DEF BadgeInv, SyncedOpen, BadgeIsFresh
<1>4. ASSUME NEW n, Commits(n)
      PROVE  notice' = notice \/ unannounced'["notification"] > 0
  BY <1>4, CommitsEffect
<1>5. CASE \E s \in Streams : Connect(s) \/ Subscribe(s) \/ Disconnect(s) \/ StreamEvent(s) \/ Fetch(s)
  BY <1>1, <1>5, StreamStepBadge
<1>6. CASE \E user \in Users, text \in Text : CreateDiscussion(user, text)
  BY <1>3, <1>4, <1>6 DEF CreateDiscussion
<1>7. CASE \E r \in Requests : DeleteDiscussion(r)
  BY <1>3, <1>4, <1>7 DEF DeleteDiscussion
<1>8. CASE \E user \in Users, c \in 1..Len(comments) : DeleteComment(user, c)
  BY <1>3, <1>4, <1>8 DEF DeleteComment
<1>9. CASE \E user \in Users, places \in {Places} \cup {{c} : c \in Places} : ReadNotification(user, places)
  BY <1>3, <1>4, <1>9 DEF ReadNotification
<1>10. CASE \E r \in Requests : \/ \E op \in {"edit", "comment"}, user \in Users : ReadDiscussion(r, op, user)
                                \/ \E user \in Users : RemoveNotices(r, user)
                                \/ Fail(r)
  BY <1>3, <1>10 DEF ReadDiscussion, RemoveNotices, Fail
<1>11. CASE \E r \in Requests, text \in Text, locked \in BOOLEAN : UpdateDiscussion(r, text, locked)
  BY <1>3, <1>4, <1>11 DEF UpdateDiscussion
<1>12. CASE \E r \in Requests, text \in Text : CreateComment(r, text)
  BY <1>3, <1>4, <1>12 DEF CreateComment
<1>13. QED
  BY <1>5, <1>6, <1>7, <1>8, <1>9, <1>10, <1>11, <1>12 DEF DiscussionStep

\* The publication of the last announcement puts it into the channel of every
\* browser that counts as having missed nothing.
LEMMA PublishBadge ==
    ASSUME BrokerTypeOK, DiscussionTypeOK, BadgeInv,
           NEW kind \in Kinds, Publish(kind), StreamPublish(kind)
    PROVE  BadgeInv'
<1>1. \A s \in Streams : synced'[s] => synced[s] /\ ~(stream[s] = "open" /\ Lost(s, kind))
  BY DEF StreamPublish
<1>2. UNCHANGED <<notice, stream, shown, stale>>
  BY DEF StreamPublish, discussionVars
<1>3. SyncedOpen'
  BY <1>1, <1>2 DEF BadgeInv, SyncedOpen
<1>4. ASSUME NEW s \in Streams, synced'[s], ~stale'[s], unannounced'["notification"] = 0,
             "notification" \notin {channel'[s][i] : i \in 1..Len(channel'[s])}
      PROVE  shown'[s] = Unread(OwnerOf[s])'
  <2>1. synced[s] /\ stream[s] = "open" /\ ~Lost(s, kind) /\ ~stale[s] /\ s \in Subscribers
    BY <1>1, <1>2, <1>4, DiscussionAssumption DEF BadgeInv, SyncedOpen
  <2>2. channel[s] # NoChannel /\ channel[s] \in Seq(Kinds)
    BY <2>1 DEF DiscussionTypeOK, BrokerTypeOK
  <2>3. CASE Full(s)
    <3>1. channel'[s] = channel[s]
      BY <2>1, <2>2, <2>3, PublishTo
    <3>2. "notification" \notin {channel[s][i] : i \in 1..Len(channel[s])}
      BY <1>4, <3>1
    <3>3. kind # "notification"
      BY <2>1, <2>3, <3>2 DEF Lost
    <3>4. unannounced["notification"] = 0
      BY <1>4, <3>3 DEF Publish, BrokerTypeOK, Kinds
    <3>5. shown[s] = Unread(OwnerOf[s])
      BY <2>1, <3>2, <3>4 DEF BadgeInv, BadgeIsFresh
    <3>6. QED
      BY <1>2, <3>5 DEF Unread
  <2>4. CASE ~Full(s)
    <3> DEFINE c == channel[s]
    <3>1. c \in Seq(Kinds) /\ channel'[s] = Append(c, kind)
      BY <2>1, <2>2, <2>4, PublishTo
    <3>2. "notification" \notin {Append(c, kind)[i] : i \in 1..Len(Append(c, kind))}
      BY <1>4, <3>1
    <3> HIDE DEF c
    <3>3. /\ Len(Append(c, kind)) = Len(c) + 1 /\ Append(c, kind)[Len(c) + 1] = kind
          /\ Len(c) \in Nat
          /\ \A i \in 1..Len(c) : Append(c, kind)[i] = c[i]
      BY <3>1
    <3>4. kind # "notification" /\ "notification" \notin {c[i] : i \in 1..Len(c)}
      BY <3>2, <3>3
    <3>5. unannounced["notification"] = 0
      BY <1>4, <3>4 DEF Publish, BrokerTypeOK, Kinds
    <3>6. shown[s] = Unread(OwnerOf[s])
      BY <2>1, <3>4, <3>5 DEF BadgeInv, BadgeIsFresh, c
    <3>7. QED
      BY <1>2, <3>6 DEF Unread
  <2>5. QED
    BY <2>3, <2>4
<1>5. QED
  BY <1>3, <1>4 DEF BadgeInv, BadgeIsFresh

\* The badge: a browser (web/components/live.tsx) that lost no announcement to
\* a full channel or a broken stream since it last asked shows the number of
\* unread notices as soon as nothing is left to publish, receive or ask.
THEOREM BadgeShowsUnread == Spec => []BadgeIsFresh
<1>1. Init => BadgeInv
  BY DEF Init, DiscussionInit, BadgeInv, SyncedOpen, BadgeIsFresh
<1>2. WakeInv /\ DiscussionTypeOK /\ BadgeInv /\ [Next]_vars => BadgeInv'
  <2> SUFFICES ASSUME WakeInv, DiscussionTypeOK, BadgeInv, [Next]_vars PROVE BadgeInv'
    OBVIOUS
  <2>1. BrokerTypeOK /\ PollTypeOK
    BY DEF WakeInv
  <2>2. BrokerTypeOK'
    BY NextHolds DEF WakeInv
  <2>3. CASE PollStep /\ UNCHANGED <<discussionVars, browserVars>>
    <3>1. ASSUME NEW s \in Streams PROVE channel'[s] = channel[s]
      BY <2>1, <2>3, PollStepQuiet, LiveServerAssumption, DiscussionAssumption
    <3>2. unannounced'["notification"] >= unannounced["notification"]
      BY <2>1, <2>3, PollStepQuiet DEF Kinds
    <3>3. ASSUME NEW s \in Streams
          PROVE  /\ synced'[s] => stream'[s] = "open"
                 /\ /\ synced'[s] /\ ~stale'[s]
                    /\ "notification" \notin {channel'[s][i] : i \in 1..Len(channel'[s])}
                    /\ unannounced'["notification"] = 0
                    => shown'[s] = Unread(OwnerOf[s])'
      <4>1. /\ synced'[s] = synced[s] /\ stale'[s] = stale[s] /\ shown'[s] = shown[s]
            /\ stream'[s] = stream[s] /\ notice' = notice
        BY <2>3 DEF discussionVars, browserVars
      <4>2. QED
        BY <2>1, <2>2, <3>1, <3>2, <4>1, BadgeUndisturbed
    <3>4. QED
      BY <3>3 DEF BadgeInv, SyncedOpen, BadgeIsFresh
  <2>4. CASE DiscussionStep
    BY <2>1, <2>4, DiscussionStepBadge
  <2>5. ASSUME NEW kind \in Kinds, Publish(kind), StreamPublish(kind)
        PROVE  BadgeInv'
    BY <2>1, <2>5, PublishBadge
  <2>6. CASE UNCHANGED vars
    BY <2>6 DEF BadgeInv, SyncedOpen, BadgeIsFresh, Unread, vars, discussionVars, browserVars
  <2>7. QED
    BY <2>3, <2>4, <2>5, <2>6 DEF Next
<1>3. BadgeInv => BadgeIsFresh
  BY DEF BadgeInv
<1>4. QED
  BY <1>1, <1>2, <1>3, InitHolds, NextHolds, PTL DEF Spec

=============================================================================
