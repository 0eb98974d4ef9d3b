----------------------------- MODULE PluginVersions -----------------------------
(***************************************************************************)
(* What the on-device authoring of a plugin promises its owner: the code   *)
(* that is active, its private data and its grants change together when a  *)
(* new version is deployed, or not at all, whatever fails or crashes.      *)
(***************************************************************************)
EXTENDS Naturals

CONSTANTS Permissions, Data, MaxVersions

VARIABLES
  code,     \* the active version, 0 if there is none
  data,     \* the private data of the plugin
  grants    \* its granted permissions

vars == <<code, data, grants>>

Init == code = 0 /\ data \in Data /\ grants \in SUBSET Permissions

\* The active version stores something.
Save ==
  /\ code # 0
  /\ data' \in Data
  /\ UNCHANGED <<code, grants>>

\* A new version becomes active, with what it stored while it was tried and
\* with the permissions it asks for.
Deploy ==
  /\ code' \in 1..MaxVersions /\ code' # code
  /\ data' \in Data
  /\ grants' \in SUBSET Permissions /\ grants \subseteq grants'

\* The owner activates another version, or goes back to the last one.
Select ==
  /\ code' \in 1..MaxVersions
  /\ UNCHANGED <<data, grants>>

\* The owner grants or revokes one permission.
Permit ==
  /\ \E p \in Permissions : grants' \in {grants \cup {p}, grants \ {p}}
  /\ UNCHANGED <<code, data>>

Next == Save \/ Deploy \/ Select \/ Permit

Spec == Init /\ [][Next]_vars

================================================================================
