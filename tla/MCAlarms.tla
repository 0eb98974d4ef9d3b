------------------------------ MODULE MCAlarms ------------------------------
(* Small instances of Alarms for TLC.                                      *)
EXTENDS Alarms, TLC

CONSTANTS a1, a2

DailyAndOnce == {[enabled |-> TRUE, once |-> FALSE, time |-> 0],
                 [enabled |-> TRUE, once |-> TRUE, time |-> 1]}

=============================================================================
