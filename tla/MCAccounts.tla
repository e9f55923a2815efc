------------------------------ MODULE MCAccounts ------------------------------
(* One administrator, a user who may register or be created, two requests   *)
(* at once under two sessions.                                              *)
EXTENDS Accounts, TLC

CONSTANTS alice, bob, r1, r2, t1, t2

MCUsers == {alice, bob}
MCFirstAdmins == {alice}
MCRequests == {r1, r2}
MCTokens == {t1, t2}
Symmetry == Permutations(MCRequests) \cup Permutations(MCTokens)
=============================================================================
