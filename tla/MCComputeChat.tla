----------------------------- MODULE MCComputeChat -----------------------------
(* A small instance of ComputeChat for TLC.                                 *)
EXTENDS ComputeChat

CONSTANT m1

================================================================================
