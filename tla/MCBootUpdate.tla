----------------------------- MODULE MCBootUpdate -----------------------------
(* Small instances of BootUpdate for TLC.                                  *)
EXTENDS BootUpdate, TLC

CONSTANTS x, y, w1, w2, n1, n2

Symmetry == Permutations(Images) \cup Permutations(Web) \cup Permutations(Cli)

================================================================================
