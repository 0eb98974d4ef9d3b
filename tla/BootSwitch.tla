------------------------------ MODULE BootSwitch ------------------------------
(***************************************************************************)
(* What the A/B update promises, with no slots and no boot records: at     *)
(* every instant a loss of power boots either the image that runs or an    *)
(* image that was written as a whole because somebody asked for it, and    *)
(* asking for an image first makes the one that runs the next one.         *)
(***************************************************************************)
CONSTANTS Images, None

VARIABLES
  running,   \* the image that runs
  next,      \* the image that a loss of power would start
  asked      \* the image that is being written, or None

vars == <<running, next, asked>>

Init == running \in Images /\ next = running /\ asked = None

\* A request to write an image is taken on.
Ask ==
  /\ asked = None
  /\ asked' \in Images
  /\ UNCHANGED <<running, next>>

\* The image written before is given up: its slot is needed.
Withdraw ==
  /\ asked # None
  /\ next' = running
  /\ UNCHANGED <<running, asked>>

\* The image is complete.
Activate ==
  /\ asked # None /\ next = running
  /\ next' = asked
  /\ UNCHANGED <<running, asked>>

\* The request ends, after it activated its image or before; its last write
\* may be the one that fails although it withdrew or activated.
Answer ==
  /\ asked # None
  /\ asked' = None
  /\ next' \in {next, running} \cup (IF next = running THEN {asked} ELSE {})
  /\ UNCHANGED running

\* A restart, or a loss of power.
Boot ==
  /\ running' = next
  /\ asked' = None
  /\ UNCHANGED next

Next == Ask \/ Withdraw \/ Activate \/ Answer \/ Boot

Spec == Init /\ [][Next]_vars
================================================================================
