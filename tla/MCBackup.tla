------------------------------ MODULE MCBackup ------------------------------
(* Two servers, two jobs and three backups, in the seconds 0, 2, 3 and 6 of  *)
(* minutes of two seconds, so that a job may stall past a ticket's expiry;   *)
(* the schedule is due in minute 1. Servers and jobs are interchangeable.    *)
EXTENDS Backup, TLC

MCCrons == {{1}}
Symmetry == Permutations(Jobs) \cup Permutations(Servers)
=============================================================================
