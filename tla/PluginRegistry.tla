----------------------------- MODULE PluginRegistry -----------------------------
(***************************************************************************)
(* What the plugin scheduler promises its callers, with no slots, no locks *)
(* and no semaphores: a plugin has at most one instance; an instance ends  *)
(* when one caller claims it and it is gone only after its code has ended. *)
(***************************************************************************)
EXTENDS Naturals, FiniteSets

CONSTANTS Plugins, Background, MaxPlugins, MaxBackground

VARIABLES
  phase,     \* of each plugin: is there an instance, is it being reaped
  running    \* the plugins whose code may run

vars == <<phase, running>>

Present == {p \in Plugins : phase[p] # "absent"}

Init ==
  /\ phase = [p \in Plugins |-> "absent"]
  /\ running = {}

Start(p) ==
  /\ phase[p] = "absent" /\ p \notin running
  /\ Cardinality(Present) < MaxPlugins
  /\ p \in Background => Cardinality(Present \cap Background) < MaxBackground
  /\ phase' = [phase EXCEPT ![p] = "live"]
  /\ running' = running \cup {p}

\* The code of the plugin ends, because it failed or because it is reaped.
Finish(p) ==
  /\ p \in running
  /\ running' = running \ {p}
  /\ UNCHANGED phase

Claim(p) ==
  /\ phase[p] = "live"
  /\ phase' = [phase EXCEPT ![p] = "reaping"]
  /\ UNCHANGED running

Remove(p) ==
  /\ phase[p] = "reaping" /\ p \notin running
  /\ phase' = [phase EXCEPT ![p] = "absent"]
  /\ UNCHANGED running

Next == \E p \in Plugins : Start(p) \/ Finish(p) \/ Claim(p) \/ Remove(p)

\* A plugin that somebody reaps ends and is removed.
Fairness ==
  \A p \in Plugins :
    /\ WF_vars(phase[p] = "reaping" /\ Finish(p))
    /\ WF_vars(Remove(p))

Spec == Init /\ [][Next]_vars
FairSpec == Spec /\ Fairness

================================================================================
