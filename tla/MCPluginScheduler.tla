--------------------------- MODULE MCPluginScheduler ---------------------------
(* Small instances of PluginScheduler for TLC: the plugins, callers and      *)
(* workers are model values.                                                 *)
EXTENDS PluginScheduler, TLC

CONSTANTS p1, p2, c1, c2, c3, w1, w2

\* Callers and workers are interchangeable.
TaskSymmetry == Permutations(Callers) \cup Permutations(Workers)

================================================================================
