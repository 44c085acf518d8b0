-------------------------------- MODULE Clock -------------------------------
(* The time that passes, in ticks, for the components that look at a clock. *)
EXTENDS Naturals

CONSTANT MaxTime    \* bound: ticks

ASSUME ClockAssumption == MaxTime \in Nat

VARIABLE now

ClockInit == now = 0

TimePasses == now < MaxTime /\ now' = now + 1
=============================================================================
