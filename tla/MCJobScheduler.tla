-------------------------- MODULE MCJobScheduler --------------------------
(***************************************************************************)
(* Instances of JobScheduler for TLC.                                      *)
(***************************************************************************)
EXTENDS JobScheduler, TLC

CONSTANTS backup, report

RunSymmetry == Permutations(Run)

MCDueAt == [j \in Job |-> IF j = backup THEN 1..MaxTime ELSE {MaxTime}]
=============================================================================
