----------------------------- MODULE MCPluginTrial -----------------------------
(* Small instances of PluginTrial for TLC.                                  *)
EXTENDS PluginTrial, TLC

CONSTANTS page, nas, d1, d2

DataSymmetry == Permutations(Data)

================================================================================
