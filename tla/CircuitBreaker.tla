---------------------------- MODULE CircuitBreaker ----------------------------
(* CircuitBreakerState: the failures of one agent in the window, and whether *)
(* dispatch to the agent is blocked. Time is abstracted: at each failure any  *)
(* number of the older ones may have left the window.                         *)
EXTENDS Naturals

CONSTANT Threshold  \* CircuitBreakerConfig::failures

ASSUME ThresholdAssumption == Threshold \in Nat \ {0}

Breakers == [recent : 0 .. Threshold, open : BOOLEAN]

\* CircuitBreakerState::new, and reset.
Closed == [recent |-> 0, open |-> FALSE]

\* record_failure: the failures older than the window are forgotten first. More
\* than Threshold of them count as Threshold.
RecordFailure(b) ==
  {[recent |-> k + 1, open |-> b.open \/ k + 1 >= Threshold] :
     k \in 0 .. (IF b.recent < Threshold THEN b.recent ELSE Threshold - 1)}
===============================================================================
