-------------------------- MODULE PrivateWorkspaces --------------------------
(***************************************************************************)
(* What the sandbox fleet promises its users about files: a container is   *)
(* given to one sandbox, for good, and from then on holds no other's files.*)
(* Nothing is said of when containers are created, stopped or removed.     *)
(***************************************************************************)
CONSTANTS Containers,  \* every container there will ever be
          Sandboxes,   \* every sandbox
          Versions,    \* what tells apart two contents of the same sandbox
          Nobody       \* the owner of a container that was not given yet

\* the contents of a workspace: whose they are, and which
Files == [by : Sandboxes \cup {Nobody}, version : Versions]

VARIABLES owner,  \* the sandbox each container was given to
          files   \* the contents of the workspace of each container

Belongs(f, s) == f \in Files /\ f.by \in {Nobody, s}

Init ==
    /\ owner = [c \in Containers |-> Nobody]
    /\ files \in [Containers -> {f \in Files : f.by = Nobody}]

Give(c, s) ==
    /\ owner[c] = Nobody
    /\ owner' = [owner EXCEPT ![c] = s]
    /\ UNCHANGED files

Fill(c, f) ==
    /\ owner[c] # Nobody
    /\ Belongs(f, owner[c])
    /\ files' = [files EXCEPT ![c] = f]
    /\ UNCHANGED owner

Next == \E c \in Containers :
    \/ \E s \in Sandboxes : Give(c, s)
    \/ \E f \in Files : Fill(c, f)

Spec == Init /\ [][Next]_<<owner, files>>
=============================================================================
