---------------------------- MODULE LossyQueues ----------------------------
(***************************************************************************)
(* What the event bus promises to a reader, without the bus: a queue of    *)
(* its own between its beginning and its end, with room for a few messages *)
(* and open to all writers.  A message may be missing; what is there is    *)
(* whole, comes once, and comes in the order in which its writer wrote.    *)
(* EventBus implements it (EventBus!ImplementsQueues).                     *)
(***************************************************************************)
EXTENDS Naturals, Sequences

CONSTANTS Reader, Message, Capacity

VARIABLES
    queue,   \* [Reader -> Seq(Message)], what the reader has not taken
    status,  \* [Reader -> {"none", "open", "closed"}]
    newest   \* [Reader -> set of messages], of each writer the last that came

vars == <<queue, status, newest>>

Init ==
    /\ queue = [r \in Reader |-> <<>>]
    /\ status = [r \in Reader |-> "none"]
    /\ newest = [r \in Reader |-> {}]

Open(r) ==
    /\ status[r] = "none" /\ status' = [status EXCEPT ![r] = "open"]
    /\ UNCHANGED <<queue, newest>>

\* Any number of readers end at once; what they have not taken stays.
End ==
    /\ \E R \in SUBSET {r \in Reader : status[r] = "open"} :
          status' = [r \in Reader |-> IF r \in R THEN "closed" ELSE status[r]]
    /\ UNCHANGED <<queue, newest>>

Put(r, m) ==
    /\ status[r] = "open" /\ Len(queue[r]) < Capacity
    /\ \A n \in newest[r] : n.by = m.by => n.seq < m.seq
    /\ queue' = [queue EXCEPT ![r] = Append(@, m)]
    /\ newest' = [newest EXCEPT ![r] = {n \in @ : n.by # m.by} \cup {m}]
    /\ UNCHANGED status

Take(r) ==
    /\ queue[r] # <<>> /\ queue' = [queue EXCEPT ![r] = Tail(@)]
    /\ UNCHANGED <<status, newest>>

Next ==
    \/ End
    \/ \E r \in Reader : Open(r) \/ Take(r)
    \/ \E r \in Reader, m \in Message : Put(r, m)

Spec == Init /\ [][Next]_vars
=============================================================================
