---------------------------- MODULE MCLiveServer ----------------------------
(* Two judgers, one submission and one browser, of somebody who discusses   *)
(* with an administrator, on channels that hold a single event.             *)
EXTENDS LiveServer
CONSTANTS p1, p2, s1, alice, bob, handler, deletion

MCOwnerOf == [s \in {s1} |-> alice]

(* Bounds: people discuss while no judger polls and a submission is being   *)
(* judged, whose progress takes up the browser's channel; of two requests   *)
(* one deletes, without new progress while it is at it, and the other goes  *)
(* on with what it has read; nobody locks what has all its comments.        *)
OneSideAtATime ==
    discussion.state = "absent"
        \/ /\ \A p \in Polls : poll[p] = "away"
           /\ \A j \in Jobs : job[j] = "leased"
           /\ unannounced["submission"] = 0
           /\ discussion.locked => Len(comments) < MaxComments
           /\ ~Working(handler, "delete")
           /\ \/ request[deletion] = Idle
              \/ Working(deletion, "delete") /\ unannounced["submission-progress"] = 0
=============================================================================
