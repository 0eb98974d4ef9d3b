---------------------------- MODULE MCVoiceTurn ----------------------------
(* Small instances of VoiceTurn for TLC.                                    *)
EXTENDS VoiceTurn

\* The recogniser of the compute domain, or that of the cloud, at any start
BothModes == {FALSE, TRUE}

============================================================================
