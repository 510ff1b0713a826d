--------------------------- MODULE MCReconciler ---------------------------
(***************************************************************************)
(* Instances of Reconciler for TLC: two configuration files, two services, *)
(* one scheduled job, one container that is not of the stack.              *)
(***************************************************************************)
EXTENDS Reconciler

CONSTANTS h1, h2, web, db, backup, old, new, c6

E(n, img) == [name |-> n, image |-> img]

\* h2 upgrades web and no longer has db.
MCServices == [h \in Hash |-> IF h = h1 THEN <<E(web, old), E(db, old)>> ELSE <<E(web, new)>>]
MCJobs == [h \in Hash |-> IF h = h1 THEN <<E(backup, old)>> ELSE <<>>]

MCNameOf == [w \in Workload |-> w]

\* A container of somebody else that carries a workload label equal to db and
\* the container name n.
Foreign(n) == [name |-> n, workload |-> db, image |-> old, kind |-> "foreign",
               hash |-> NoHash, state |-> "running"]

\* In the way of nobody: no service is named backup.
MCPreexisting == [c \in Container |-> IF c = c6 THEN Foreign(backup) ELSE Absent]

\* Has the name that the service db wants.
NameClash == [c \in Container |-> IF c = c6 THEN Foreign(db) ELSE Absent]

\* For MCReconcilerAdopt: in h1 a job has the name and the image of the service
\* web, and there are two jobs; the container name that db wants in h2 is taken.
SharedServices == [h \in Hash |-> IF h = h1 THEN <<E(web, old)>> ELSE <<E(web, new), E(db, old)>>]
SharedJobs == [h \in Hash |-> IF h = h1 THEN <<E(web, old), E(backup, old)>> ELSE <<>>]
=============================================================================
