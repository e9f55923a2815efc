----------------------------- MODULE EventBroker -----------------------------
(***************************************************************************)
(* The broker that tells browsers and judgers that something has changed.  *)
(*                                                                         *)
(* A subscriber has a buffered channel; an event that finds the buffer     *)
(* full is dropped for this subscriber.  An event carries its kind and     *)
(* nothing else: who receives it looks at the database again.  A handler   *)
(* publishes after its transaction has committed, so there is a moment at  *)
(* which the change is there and the event is not.                         *)
(*                                                                         *)
(* Simplification.  One event goes to all channels in one step; what one   *)
(* subscriber receives does not depend on the others.                      *)
(***************************************************************************)
EXTENDS Integers, Sequences

CONSTANTS
    Subscribers,
    BufferSize,     \* 16 in the code
    MaxUnannounced, \* bound: changes of one kind that are not announced yet
    NoChannel

Kinds == {"submission", "submission-progress", "notification"}

ASSUME BrokerAssumption ==
    /\ BufferSize \in Nat \ {0}
    /\ MaxUnannounced \in Nat
    /\ NoChannel \notin Seq(Kinds)

VARIABLES
    channel,        \* what each subscriber has yet to receive
    unannounced     \* committed changes whose event is still to be published

BrokerTypeOK ==
    /\ channel \in [Subscribers -> Seq(Kinds) \cup {NoChannel}]
    /\ \A s \in Subscribers : channel[s] # NoChannel => Len(channel[s]) <= BufferSize
    /\ unannounced \in [Kinds -> 0..MaxUnannounced]

BrokerInit ==
    /\ channel = [s \in Subscribers |-> NoChannel]
    /\ unannounced = [k \in Kinds |-> 0]

Subscribed(s)   == channel' = [channel EXCEPT ![s] = <<>>]
Unsubscribed(s) == channel' = [channel EXCEPT ![s] = NoChannel]

(* The subscriber takes the oldest event.                                   *)
Receive(s) ==
    /\ channel[s] # NoChannel /\ channel[s] # <<>>
    /\ channel' = [channel EXCEPT ![s] = Tail(@)]

Full(s) == Len(channel[s]) = BufferSize

(* A transaction that changed something of this kind has committed.         *)
Announces(kind) ==
    /\ unannounced[kind] < MaxUnannounced
    /\ unannounced' = [unannounced EXCEPT ![kind] = @ + 1]

Publish(kind) ==
    /\ unannounced[kind] > 0
    /\ unannounced' = [unannounced EXCEPT ![kind] = @ - 1]
    /\ channel' = [s \in Subscribers |->
                      IF channel[s] = NoChannel \/ Full(s) THEN channel[s]
                      ELSE Append(channel[s], kind)]
=============================================================================
