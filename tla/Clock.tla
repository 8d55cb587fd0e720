-------------------------------- MODULE Clock --------------------------------
(* The block timestamp that calls read: it stands still within a block.  *)
EXTENDS Naturals

CONSTANT Instants    \* the block times of the instance, in milliseconds

ASSUME InstantsAssumption == Instants \subseteq Nat

VARIABLE now

ClockInit == now \in Instants

Tick == \E t \in Instants : now < t /\ now' = t
=============================================================================
