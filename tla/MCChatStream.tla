---------------------------- MODULE MCChatStream ----------------------------
(* Instances of ChatStream for TLC: 3 ticks to a second, 8-bit durations.   *)
EXTENDS ChatStream

ASSUME FitAssumption == WaitsFit
=============================================================================
