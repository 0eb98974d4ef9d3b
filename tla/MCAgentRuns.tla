---------------------------- MODULE MCAgentRuns -----------------------------
(* Small instances of AgentRuns for TLC.                                   *)
EXTENDS AgentRuns, TLC

CONSTANTS r1, r2, t1, t2

\* Each request has a conversation of its own.
Own(r) == r

=============================================================================
