------------------------------ MODULE LeasePoll ------------------------------
(***************************************************************************)
(* The long polls in which judgers wait for a task.                        *)
(*                                                                         *)
(* A poll subscribes to the broker, looks for a submission and sleeps when *)
(* there is none; any event, or a timer, wakes it to look again, and a     *)
(* longer timer sends it away with nothing.  It looks with SKIP LOCKED, so *)
(* a submission another poll is about to lease does not exist for it, even *)
(* if that lease then fails.  Some changes that make a submission leasable *)
(* raise no event: a transaction that fails, the reset after a payload     *)
(* that cannot be built, the expiry of a lease, and the release of a lock. *)
(*                                                                         *)
(* What a lease protects is the subject of SubmissionLease.                *)
(***************************************************************************)
EXTENDS EventBroker

CONSTANTS
    Polls,      \* the subscribers that are long polls
    Jobs,       \* submissions
    NoJob

ASSUME PollAssumption == Polls \subseteq Subscribers /\ NoJob \notin Jobs

VARIABLES
    job,        \* the state of a submission's row
    poll,       \* where the handler is
    claim,      \* the submission it has locked or leased
    silent      \* the jobs that became leasable since the last event, without one

pollVars == <<job, poll, claim, silent>>

JobStates  == {"none", "queued", "held", "locked", "leased", "done"}
PollStates == {"away", "looking", "locking", "building", "asleep"}

PollTypeOK ==
    /\ job \in [Jobs -> JobStates]
    /\ poll \in [Polls -> PollStates]
    /\ claim \in [Polls -> Jobs \cup {NoJob}]
    /\ silent \in SUBSET Jobs

PollInit ==
    /\ job = [j \in Jobs |-> "none"]
    /\ poll = [p \in Polls |-> "away"]
    /\ claim = [p \in Polls |-> NoJob]
    /\ silent = {}

(* Mutation of Leasable: the rows are read without FOR UPDATE SKIP LOCKED.  *)
LeasableUnlocked == {j \in Jobs : job[j] \in {"queued", "held", "locked"}}

Leasable == {j \in Jobs : job[j] = "queued"}

(* The attempt number has moved on: who had claimed the job has lost it.    *)
Fenced(j) == claim' = [p \in Polls |-> IF claim[p] = j THEN NoJob ELSE claim[p]]

(***************************************************************************)
(* The poll                                                                *)
(***************************************************************************)
Looks(p) ==
    /\ poll[p] = "away"
    /\ poll' = [poll EXCEPT ![p] = "looking"]
    /\ UNCHANGED <<unannounced, job, claim, silent>>

(* Mutation of Lease: the channel is opened too late to be of use.          *)
LeaseWithoutChannel(p) == Looks(p) /\ UNCHANGED channel

(* The subscription is opened before the first look.                        *)
Lease(p) == Looks(p) /\ Subscribed(p)

Ends(p) ==
    /\ poll' = [poll EXCEPT ![p] = "away"]
    /\ claim' = [claim EXCEPT ![p] = NoJob]
    /\ Unsubscribed(p)

LockRow(p, j) ==
    /\ poll[p] = "looking" /\ j \in Leasable
    /\ poll' = [poll EXCEPT ![p] = "locking"]
    /\ claim' = [claim EXCEPT ![p] = j]
    /\ job' = [job EXCEPT ![j] = "locked"]
    /\ UNCHANGED <<channel, unannounced, silent>>

FindNothing(p) ==
    /\ poll[p] = "looking" /\ Leasable = {}
    /\ poll' = [poll EXCEPT ![p] = "asleep"]
    /\ UNCHANGED <<channel, unannounced, job, claim, silent>>

CommitLease(p) ==
    /\ poll[p] = "locking"
    /\ poll' = [poll EXCEPT ![p] = "building"]
    /\ job' = [job EXCEPT ![claim[p]] = "leased"]
    /\ UNCHANGED <<channel, unannounced, claim, silent>>

(* The transaction or the payload fails: the poll ends with an error and    *)
(* the submission, if it is still this poll's, is leasable again.           *)
GiveBack(p) ==
    /\ poll[p] \in {"locking", "building"}
    /\ job' = [j \in Jobs |-> IF j = claim[p] THEN "queued" ELSE job[j]]
    /\ silent' = silent \cup (Jobs \cap {claim[p]})
    /\ Ends(p)
    /\ UNCHANGED unannounced

(* The reset fails too, as it does for a request that is cancelled: the     *)
(* submission waits for its lease to expire.                                *)
Abandon(p) ==
    /\ poll[p] = "building"
    /\ Ends(p)
    /\ UNCHANGED <<unannounced, job, silent>>

AnswerTask(p) ==
    /\ poll[p] = "building"
    /\ Announces("submission")
    /\ Ends(p)
    /\ UNCHANGED <<job, silent>>

Wake(p) ==
    /\ poll[p] = "asleep"
    /\ Receive(p)
    /\ poll' = [poll EXCEPT ![p] = "looking"]
    /\ UNCHANGED <<unannounced, job, claim, silent>>

(* Every five seconds.                                                      *)
Tick(p) ==
    /\ poll[p] = "asleep"
    /\ poll' = [poll EXCEPT ![p] = "looking"]
    /\ UNCHANGED <<channel, unannounced, job, claim, silent>>

(* The timer, a request that is cancelled, or a query that fails.           *)
AnswerNothing(p) ==
    /\ poll[p] \in {"looking", "asleep"}
    /\ Ends(p)
    /\ UNCHANGED <<unannounced, job, silent>>

(***************************************************************************)
(* The submissions                                                         *)
(***************************************************************************)
Becomes(j, state) ==
    /\ job' = [job EXCEPT ![j] = state]
    /\ Fenced(j)
    /\ UNCHANGED <<channel, poll>>

Submit(j) ==
    /\ job[j] = "none"
    /\ Becomes(j, "queued") /\ Announces("submission")
    /\ UNCHANGED silent

Rejudge(j) ==
    /\ job[j] \in {"queued", "held", "leased", "done"}
    /\ Becomes(j, "queued") /\ Announces("submission")
    /\ silent' = silent \ {j}

(* The judger has the task, so the poll that leased it is over.             *)
Finish(j) ==
    /\ job[j] = "leased" /\ \A p \in Polls : claim[p] # j
    /\ Becomes(j, "done") /\ Announces("submission")
    /\ UNCHANGED silent

LeaseExpires(j) ==
    /\ job[j] = "leased"
    /\ Becomes(j, "queued")
    /\ silent' = silent \cup {j}
    /\ UNCHANGED unannounced

(* A rejudge, or a late report of the judger that lost the lease, has the   *)
(* row locked and then changes nothing.                                     *)
Hold(j) ==
    /\ job[j] = "queued"
    /\ job' = [job EXCEPT ![j] = "held"]
    /\ UNCHANGED <<channel, unannounced, poll, claim, silent>>

Unhold(j) ==
    /\ job[j] = "held"
    /\ job' = [job EXCEPT ![j] = "queued"]
    /\ silent' = silent \cup {j}
    /\ UNCHANGED <<channel, unannounced, poll, claim>>

HeartbeatProgress(j) ==
    /\ job[j] = "leased"
    /\ Announces("submission-progress")
    /\ UNCHANGED <<channel, job, poll, claim, silent>>

PollStep ==
    \/ \E p \in Polls : \/ Lease(p) \/ FindNothing(p) \/ CommitLease(p) \/ GiveBack(p)
                        \/ Abandon(p) \/ AnswerTask(p) \/ Wake(p) \/ Tick(p) \/ AnswerNothing(p)
                        \/ \E j \in Jobs : LockRow(p, j)
    \/ \E j \in Jobs : \/ Submit(j) \/ Rejudge(j) \/ Finish(j) \/ LeaseExpires(j)
                       \/ Hold(j) \/ Unhold(j) \/ HeartbeatProgress(j)

(* An event is published: whatever became leasable before is found.         *)
PollPublish ==
    /\ silent' = {}
    /\ UNCHANGED <<job, poll, claim>>

(***************************************************************************)
(* Properties                                                              *)
(***************************************************************************)
(* A submission is handed to one poll at a time: who has locked its row or  *)
(* leased it, and has not lost it to an expiry or a rejudge, has it alone,  *)
(* and a row stays locked only as long as the transaction of a poll lives,  *)
(* whichever transactions, payloads and resets fail in between.             *)
ClaimsAreExclusive ==
    /\ \A p \in Polls : claim[p] # NoJob =>
         /\ job[claim[p]] = IF poll[p] = "locking" THEN "locked" ELSE "leased"
         /\ \A q \in Polls : claim[q] = claim[p] => q = p
    /\ \A j \in Jobs : job[j] = "locked" => \E p \in Polls : poll[p] = "locking" /\ claim[p] = j

(* No lost wake-up: a poll does not sleep, with no event to wake it, while  *)
(* a submission waits, unless that became leasable after the last event in  *)
(* one of the ways that raise none.  In particular a dropped event never    *)
(* matters to a poll: its buffer was full, so it wakes.                     *)
NoLostWakeup ==
    \A p \in Polls, j \in Jobs :
        poll[p] = "asleep" /\ channel[p] \in {<<>>, NoChannel} /\ job[j] = "queued" /\ j \notin silent
            => \E kind \in Kinds : unannounced[kind] > 0
=============================================================================
