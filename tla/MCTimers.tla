------------------------------ MODULE MCTimers ------------------------------
(* Instances of Timers for TLC.                                             *)
EXTENDS Timers

CONSTANTS h1, h2

TwoHandles == {h1, h2}

\* half a millisecond (an interval of period 0) and one millisecond
MCDelays == {5, 10}
=============================================================================
