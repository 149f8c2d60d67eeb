--------------------------- MODULE MCLoopExecutor ---------------------------
(* Small instances of LoopExecutor: token amounts around a hundred, a flash *)
(* fee of one percent (so that it rounds) and prices around par.            *)
EXTENDS LoopExecutor, MCLoopDigests

NoBounds ==
  [equity |-> 0, minWst |-> 0, minHealth |-> 0, maxLeverage |-> 0, slippageBps |-> 0,
   flashFeeCap |-> 0, feeCaps |-> 0]

(* An open of 101 with a fee of 2, a leverage-up of 19 with a fee of 1 that *)
(* is healthy enough only after the partial deleverage, and three ways out  *)
(* that leave a surplus of dust: two exits under one nonce and a force exit *)
(* by a keeper.                                                             *)
OpenLoop == [Open EXCEPT !.maxBorrow = 103, !.nonce = 3]
LeverUp == [Leverage EXCEPT !.maxDebtIncrease = 20]
PartialUnwind == [Plain EXCEPT !.type = "REBALANCE", !.class = "REBALANCE",
                                !.maxCollateralSold = 40, !.nonce = 2]
FullExit == [Plain EXCEPT !.maxCollateralSold = 108]
WideExit == [Plain EXCEPT !.maxCollateralSold = 120]
ForcedExit == [ForceExit EXCEPT !.maxCollateralSold = 110, !.minRepay = 1]

LoopDigests == {OpenLoop, LeverUp, PartialUnwind, FullExit, WideExit, ForcedExit}
LoopBounds ==
  [d \in LoopDigests |->
     CASE d = OpenLoop -> [NoBounds EXCEPT !.equity = 100, !.minWst = 100, !.minHealth = 120,
                                           !.maxLeverage = 5300]
       [] d = LeverUp -> [NoBounds EXCEPT !.minHealth = 160]
       [] d = PartialUnwind -> [NoBounds EXCEPT !.slippageBps = 400, !.flashFeeCap = 1]
       [] d = ForcedExit -> [NoBounds EXCEPT !.slippageBps = 1000]
       [] OTHER -> [NoBounds EXCEPT !.slippageBps = 300, !.feeCaps = 1]]
FromScratch == [o \in MCOwners |-> ZeroPosition]
Equipped == [o \in MCOwners |-> 100]
Prices == {90, 99, 100, 103}

(* A pause, an adapter that comes and goes, a price at which the open is    *)
(* within its leverage by the amount of collateral but not by its worth, and*)
(* an oracle that does not answer.                                          *)
World == [paused |-> FALSE, adapter |-> TRUE, price |-> 100]
MovingWorlds ==
  {World, [World EXCEPT !.paused = TRUE], [World EXCEPT !.price = 95],
   [World EXCEPT !.price = 0], [World EXCEPT !.adapter = FALSE, !.price = 95]}
Mints == {100, 101}

(* Two repayment automations under policy 0 and a keeper's force exit, with *)
(* the tokens a repayment needs sometimes sent ahead.                       *)
Repayment(n) ==
  [Automation EXCEPT !.policyId = 0, !.nonce = n, !.hash = hashB]
KeeperDigests == {Repayment(1), ForcedExit}
KeeperBounds == [d \in KeeperDigests |-> NoBounds]
Leveraged == [o \in MCOwners |-> [debt |-> 10, collateral |-> 50]]
NoWealth == [o \in MCOwners |-> 0]
OneRepayment == {11}
OneDust == {1}
Par == {100}
SteadyWorld == {World}
TokenAmounts == 0 .. 300
=============================================================================
