----------------------------- MODULE MCContests -----------------------------
(* Two contestants, one of them with the problem as homework too, three     *)
(* results and a clock of three minutes.                                    *)
EXTENDS Contests
CONSTANTS alice, bob

MCResults == {[status |-> "AC", score |-> 2], [status |-> "WA", score |-> 1],
              [status |-> "CE", score |-> 0]}
=============================================================================
