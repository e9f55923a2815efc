--------------------------- MODULE MCRunnerProtocol ---------------------------
(* A task of two cases, with either kind of judge and one fault.            *)
EXTENDS RunnerProtocol
=============================================================================
