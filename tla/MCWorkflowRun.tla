---------------------------- MODULE MCWorkflowRun ----------------------------
(* Finite instances of WorkflowRun for TLC. *)
EXTENDS WorkflowRun, TLC

CONSTANTS o1, o2

\* each run in its own workspace: a batch may hold several of them
OwnWorkspace == [o \in Ops |-> o]
=============================================================================
