----------------------------- MODULE MCPluginAsync -----------------------------
(* Small instances of PluginAsync for TLC.                                  *)
EXTENDS PluginAsync, TLC

CONSTANTS net, ui, c1, c2

ClientSymmetry == Permutations(Clients)

================================================================================
