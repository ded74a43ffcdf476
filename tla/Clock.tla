------------------------------- MODULE Clock -------------------------------
(***************************************************************************)
(* The wall clock that the process-local caches and limits are kept        *)
(* against.                                                                *)
(***************************************************************************)
EXTENDS Naturals

CONSTANT
  MaxNow,    \* bound on the clock
  Latency    \* longest time between what a request reads and what it stores

ASSUME ClockAssumption == MaxNow \in Nat /\ Latency \in Nat

VARIABLE now

\* Requests that have read something hold the clock back after Latency.
Tick(readAt) ==
  /\ now < MaxNow
  /\ \A t \in readAt : now < t + Latency
  /\ now' = now + 1
=============================================================================
