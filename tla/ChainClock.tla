----------------------------- MODULE ChainClock -----------------------------
(* The block number the governance contracts measure their delays in.       *)
EXTENDS Naturals

CONSTANT MaxBlock   \* bound: last block explored
ASSUME ClockAssumption == MaxBlock \in Nat \ {0}

VARIABLE block

ClockInit == block = 1

Tick == block < MaxBlock /\ block' = block + 1
=============================================================================
