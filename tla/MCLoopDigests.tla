--------------------------- MODULE MCLoopDigests ---------------------------
(* Small instances of LoopAuthorization: one owner, one keeper (the         *)
(* executor itself, as in production, where the executor is what calls      *)
(* validate...), and a few signed digests chosen per question.              *)
EXTENDS LoopAuthorization

CONSTANTS owner, executor, forceExitExecutor, operator, hashA, hashB

MCOwners == {owner}
MCKeepers == {executor, forceExitExecutor}
MCOperators == {operator}
MCHashes == {hashA, hashB}
MCNoActivity == [o \in MCOwners |-> 0]
MCSomeActivity == [o \in MCOwners |-> 1]

(* A digest that opens no gate of its own.                                  *)
Plain ==
  [type |-> "EXIT", owner |-> owner, kind |-> "KEEPER_PERMISSIONLESS", class |-> "EXIT",
   policyId |-> 0, nonce |-> 1, executor |-> executor, version |-> 1,
   validFrom |-> 1, validUntil |-> 9, notBefore |-> 1, notAfter |-> 9,
   mevWaived |-> TRUE, attested |-> TRUE, hash |-> hashA, acknowledged |-> {},
   minBorrow |-> 0, maxBorrow |-> 0, maxDebtIncrease |-> 0, minRepay |-> 0,
   maxCollateralSold |-> 1, target |-> 0]

Open == [Plain EXCEPT !.type = "OPEN", !.class = "OPEN",
                      !.minBorrow = 1, !.maxBorrow = 1, !.maxCollateralSold = 0]
Leverage == [Open EXCEPT !.type = "REBALANCE", !.class = "REBALANCE", !.minBorrow = 0,
                         !.maxBorrow = 0, !.maxDebtIncrease = 1]
RepayOnly == [Plain EXCEPT !.class = "REPAY_ONLY", !.nonce = 2]
ForceExit == [Plain EXCEPT !.type = "FORCE_EXIT", !.class = "FORCE_EXIT",
                           !.executor = forceExitExecutor, !.minRepay = 1,
                           !.maxCollateralSold = 2]

(* Two exits under one nonce, with different caps, and an action of every   *)
(* other shape that pays out.                                               *)
ReplayDigests ==
  {Plain, [Plain EXCEPT !.maxCollateralSold = 2], Open, ForceExit}

(* Automation under two policy hashes, an exit under the same policy, and a *)
(* signed revocation of it; the first automation digest expires early.      *)
Automation == [Plain EXCEPT !.type = "AUTOMATION_EXEC", !.class = "REPAY_ONLY", !.policyId = 1]
SignedRevoke == [Plain EXCEPT !.type = "REVOKE", !.target = 1]
PolicyDigests ==
  {Automation, [Automation EXCEPT !.hash = hashB, !.nonce = 2, !.validFrom = 2],
   [RepayOnly EXCEPT !.policyId = 1, !.version = 2], SignedRevoke}
MCPolicyTerms ==
  {[type |-> "AUTOMATION_EXEC", kind |-> "KEEPER_PERMISSIONLESS", class |-> "REPAY_ONLY"],
   [type |-> "EXIT", kind |-> "KEEPER_PERMISSIONLESS", class |-> "REPAY_ONLY"]}

(* Debt-increasing actions of both types and an operator's recovery exit.   *)
GateDigests ==
  {Open, Leverage,
   [RepayOnly EXCEPT !.kind = "OPERATOR_RECOVERY"], ForceExit}
NoConditions == {}
NoTerms == {}
PolicyOrGateDigests == PolicyDigests \cup GateDigests
GateConditions == {"ORACLE", "COOLING", "DRIFT", "NEAR_LIQUIDATION"}

OneAmount == {0, 1}
TwoAmounts == 0 .. 2
=============================================================================
