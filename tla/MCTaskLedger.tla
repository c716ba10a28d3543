----------------------------- MODULE MCTaskLedger -----------------------------
(* Model checking instance of TaskLedger: two interchangeable tasks. *)
EXTENDS TaskLedger, TLC

MCTotals == {NoTotal, 1}

MCSymmetry == Permutations(Task)

=============================================================================
