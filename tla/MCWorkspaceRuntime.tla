-------------------------- MODULE MCWorkspaceRuntime --------------------------
(* Model checking instance of WorkspaceRuntime. *)
EXTENDS WorkspaceRuntime

\* Used by the runs that check safety only.
MCSymmetry == Permutations(Run)

\* The runs about clarifications look at one life of the daemon, without the
\* answers to approvals and without exchanging the model: three conversations
\* at once are then within reach.
MCTalk == up /\ ~switching /\ \A r \in Run : pc[<<r, "answer">>] = "idle"
===============================================================================
