----------------------------- MODULE MCJobQueue -----------------------------
(* Finite instances of JobQueue for TLC. *)
EXTENDS JobQueue, TLC

CONSTANTS o1, o2

\* each operation in its own workspace: a batch may hold a job of each, but
\* only one of the jobs of an operation that was retried
OwnWorkspace == [o \in Ops |-> o]

Interchangeable == Permutations(Jobs) \cup Permutations(Workers)
=============================================================================
