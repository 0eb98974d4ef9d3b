---------------------------- MODULE ProductClock ----------------------------
(***************************************************************************)
(* The wall clock of ny_product_clock.c, as the services that schedule     *)
(* against it see it: what it shows, whether it can be believed, and the   *)
(* last time it was moved.  It is set by the panel and by SNTP from tasks  *)
(* of their own; what a boot starts with is what the RTC vouches for.      *)
(* One unit stands for some minutes or more: what is trimmed by less than  *)
(* NY_CLOCK_STEP_NOTICE_MS stays where it is (a jump of 0).                *)
(***************************************************************************)
EXTENDS Naturals

CONSTANTS
  Horizon,     \* bound of the model: the latest time there is
  Jumps,       \* bound of the model: how far the clock is moved
  MaxMoves     \* bound of the model: steps of the clock and restarts

ASSUME ClockAssumption ==
  Horizon \in Nat \ {0} /\ Jumps \subseteq Nat
  /\ MaxMoves \in Nat

VARIABLES
  clock,       \* the system clock and g_clock
  moves        \* how many steps and restarts there have been

Times == 1..Horizon

ClockType ==
  /\ clock \in [wall : Times, valid : BOOLEAN, generation : 0..MaxMoves,
                before : 0..Horizon]
  /\ moves \in 0..MaxMoves

ClockInit ==
  /\ clock \in [wall : {1}, valid : BOOLEAN, generation : {0}, before : {0}]
  /\ moves = 0

Distance(a, b) == IF a > b THEN a - b ELSE b - a

Passes ==
  /\ clock.wall < Horizon
  /\ clock' = [clock EXCEPT !.wall = @ + 1]
  /\ UNCHANGED moves

\* What the clock may be set to
Targets == {t \in Times : Distance(t, clock.wall) \in Jumps}

\* ny_product_clock_set, accepted; only a step is told to the services.
SetTo(t) ==
  /\ moves < MaxMoves /\ moves' = moves + 1
  /\ clock' = IF t = clock.wall THEN [clock EXCEPT !.valid = TRUE]
              ELSE [wall |-> t, valid |-> TRUE, before |-> clock.wall,
                    generation |-> clock.generation + 1]

\* The RTC went on while the board was off, or lost its supply and starts over.
Boots ==
  /\ moves < MaxMoves /\ moves' = moves + 1
  /\ \E trusted \in BOOLEAN :
     \E t \in IF trusted THEN {clock.wall} \cup {x \in Targets : x > clock.wall}
             ELSE {1} :
       clock' = [wall |-> t, valid |-> trusted, generation |-> 0, before |-> 0]

=============================================================================
