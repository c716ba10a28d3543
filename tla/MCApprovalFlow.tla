---------------------------- MODULE MCApprovalFlow ----------------------------
(* Model checking instance of ApprovalFlow. *)
EXTENDS ApprovalFlow
===============================================================================
