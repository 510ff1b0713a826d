----------------------------- MODULE RunLedger -----------------------------
(***************************************************************************)
(* What scheduling promises to the owner of a job, without the scheduler:  *)
(* the instants of a schedule are served in their order, none of them      *)
(* twice and none before its time, though some may be left out; and the    *)
(* result of a run, once written, stands.  A new registration goes on from *)
(* the time at which it asked, so that only what was served between its    *)
(* question and its effect may be served again.  No restart or timeout     *)
(* shows.  JobScheduler implements it (JobScheduler!ImplementsLedger).     *)
(***************************************************************************)
EXTENDS Naturals

CONSTANTS Job, Run, Instants, None

VARIABLES
    clock,
    served,  \* [Job -> Nat], the time up to which a schedule has been served
    asking,  \* [Job -> Nat \cup {None}], when the new registration asked, if any
    result   \* [Run -> {"none", "succeeded", "failed"}]

vars == <<clock, served, asking, result>>

Init ==
    /\ clock = 0
    /\ served = [j \in Job |-> 0]
    /\ asking = [j \in Job |-> None]
    /\ result = [r \in Run |-> "none"]

\* One or more jobs are due: the next of each is one of its instants, up to now.
Serve ==
    /\ \E J \in (SUBSET Job) \ {{}} : \E next \in [J -> 1..clock] :
         /\ \A j \in J : next[j] \in Instants[j] /\ served[j] < next[j]
         /\ served' = [j \in Job |-> IF j \in J THEN next[j] ELSE served[j]]
    /\ UNCHANGED <<clock, asking, result>>

\* A registration asks for the time, and later takes effect from there, unless
\* it is lost with its process.
Ask(j) ==
    /\ asking[j] = None /\ asking' = [asking EXCEPT ![j] = clock]
    /\ UNCHANGED <<clock, served, result>>

Renew(j) ==
    /\ asking[j] # None /\ asking' = [asking EXCEPT ![j] = None]
    /\ served' = [served EXCEPT ![j] = asking[j]]
    /\ UNCHANGED <<clock, result>>

Forget ==
    /\ asking' = [j \in Job |-> None]
    /\ UNCHANGED <<clock, served, result>>

Write(r) ==
    /\ result[r] = "none"
    /\ \E s \in {"succeeded", "failed"} : result' = [result EXCEPT ![r] = s]
    /\ UNCHANGED <<clock, served, asking>>

Advance == clock' = clock + 1 /\ UNCHANGED <<served, asking, result>>

Next ==
    \/ Serve \/ Advance \/ Forget
    \/ \E j \in Job : Ask(j) \/ Renew(j)
    \/ \E r \in Run : Write(r)

Spec == Init /\ [][Next]_vars
=============================================================================
