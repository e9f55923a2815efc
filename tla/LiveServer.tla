------------------------------ MODULE LiveServer ------------------------------
(***************************************************************************)
(* The server with its one broker: the long polls of the judgers and the   *)
(* streams of the browsers subscribe to the same events, whatever they are *)
(* about.                                                                  *)
(***************************************************************************)
EXTENDS LeasePoll, Discussions

ASSUME LiveServerAssumption == Polls \cap Streams = {}

vars == <<channel, unannounced, pollVars, discussionVars, browserVars>>

TypeOK == BrokerTypeOK /\ PollTypeOK /\ DiscussionTypeOK

Init == BrokerInit /\ PollInit /\ DiscussionInit

Next ==
    \/ PollStep /\ UNCHANGED <<discussionVars, browserVars>>
    \/ DiscussionStep /\ UNCHANGED pollVars
    \/ \E kind \in Kinds : Publish(kind) /\ PollPublish /\ StreamPublish(kind)

Spec == Init /\ [][Next]_vars
=============================================================================
