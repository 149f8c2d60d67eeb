---------------------------- MODULE LoopExecutor ----------------------------
(***************************************************************************)
(* contracts/v2/LoopExecutorV2.sol and LoopForceExitExecutor.sol on their  *)
(* common LoopExecutorBase, composed with LoopAuthorization: every call an *)
(* executor makes to it is one of that module's actions, conjoined with    *)
(* what the call does to the executor, to Morpho and to the token balances.*)
(*                                                                         *)
(* One execution is a transaction: entry and validation, a flash loan, the *)
(* callback's calls to vault, Morpho and Curve, the post-state check, the  *)
(* repayment and the sweep.  It may revert at any of its steps, because a  *)
(* check of the executor fails or because a venue refuses; a direct action *)
(* then leaves nothing, an attempt inside try/catch is counted as failed.  *)
(* The tokens and venues call back only through the flash callback.        *)
(***************************************************************************)
EXTENDS LoopAuthorization

CONSTANTS
  Bounds,            \* per digest, the signed bounds only the executor reads
  InitialPositions,  \* Morpho positions at the start
  InitialWealth,     \* wstDIEM in each owner's wallet at the start
  FlashFeeTier,      \* the pool's fee in millionths
  Unit,              \* the fixed-point unit of prices and ratios (1e18 in the code)
  Lltv,              \* the market's liquidation threshold, in Units
  VaultPrices,       \* DIEM per wstDIEM the vault may mint at, in Units
  CurvePrices,       \* DIEM per wstDIEM Curve may pay, in Units
  DustBps, DustCap, DustFloor,        \* the registry's dust bound
  AttemptWindow, MaxFailedAttempts,   \* the registry's attempt throttle
  Donations,         \* amounts of DIEM someone may send to an executor
  Worlds,            \* what an execution may find: whether the guardian pauses
                     \* risk-increasing actions, whether a risk adapter is registered,
                     \* and the oracle's price of collateral in Units, 0 if it has none
  LastSubmission     \* bound: last block in which an executor is called

Executors == {Executor, ForceExitExecutor}
Holders == Owners \cup Executors
Position == [debt: Nat, collateral: Nat]
BoundsType ==
  [equity: Nat, minWst: Nat, minHealth: Nat, maxLeverage: Nat, slippageBps: Nat,
   flashFeeCap: Nat, feeCaps: Nat]

(* The bounds the FlashContext of an action leaves at zero.                 *)
UnreadBounds(d) ==
  (IF d.type = "OPEN" THEN {} ELSE {"equity", "minWst", "maxLeverage"})
    \cup (IF d.type \in {"OPEN", "REBALANCE"} THEN {} ELSE {"minHealth"})
    \cup (IF d.type = "AUTOMATION_EXEC" THEN {"slippageBps", "flashFeeCap", "feeCaps"} ELSE {})
    \cup (IF d.type = "FORCE_EXIT" THEN {"feeCaps"} ELSE {})

(* A zero fee tier would make _flashFee underflow; Uniswap has none.  Morpho*)
(* writes off the debt of a position that has lost all its collateral.  The *)
(* registry keeps the maximum of failed attempts in a uint8.                *)
ASSUME ExecutorAssumption ==
  /\ Bounds \in [Digests -> BoundsType]
  /\ InitialPositions \in [Owners -> Position] /\ InitialWealth \in [Owners -> Nat]
  /\ \A o \in Owners : InitialPositions[o].collateral = 0 => InitialPositions[o].debt = 0
  /\ Executor # ForceExitExecutor /\ Executors \cap Owners = {}
  /\ \A d \in Digests : \A bound \in UnreadBounds(d) : Bounds[d][bound] = 0
  /\ FlashFeeTier \in Nat \ {0} /\ Unit \in Nat \ {0} /\ Lltv \in Nat \ {0}
  /\ VaultPrices \subseteq Nat \ {0} /\ CurvePrices \subseteq Nat /\ Donations \subseteq Nat
  /\ DustBps \in Nat /\ DustCap \in Nat /\ DustFloor \in Nat
  /\ AttemptWindow \in Nat /\ MaxFailedAttempts \in 1 .. 255
  /\ Worlds \subseteq [paused: BOOLEAN, adapter: BOOLEAN, price: Nat] /\ LastSubmission \in Nat

VARIABLES
  job,       \* the execution in progress: its FlashContext and where it stands
  books,     \* Morpho positions and token balances
  saved,     \* `books' as the transaction in progress found them
  throttle,  \* per executor and policy id, the failed-attempt counter
  world,     \* guardian, registered adapter and oracle as an execution finds them
  log        \* history: failures since the last success, successes per nonce, donations

executorVars == <<job, books, saved, throttle, world, log>>
allVars == <<vars, executorVars>>

Books ==
  [position: [Owners -> Position], diem: [Holders -> Nat], wst: [Holders -> Nat]]

Stages ==
  {"idle", "owner", "attempt", "validate", "supply", "borrow", "repay", "withdraw", "swap",
   "settle", "finish", "return", "failed"}
Jobs ==
  [stage: Stages, digest: Digests \cup {Null}, sender: Addresses \cup {Null}, pre: Position,
   flash: Nat, borrow: Nat, repay: Nat, withdraw: Nat, supplied: Nat]

ZeroPosition == [debt |-> 0, collateral |-> 0]
NoJob ==
  [stage |-> "idle", digest |-> Null, sender |-> Null, pre |-> ZeroPosition,
   flash |-> 0, borrow |-> 0, repay |-> 0, withdraw |-> 0, supplied |-> 0]

Counters == [start: Nat, failed: Nat]
PolicyIds == {d.policyId : d \in Digests} \cup {0}
NoFailures == [start |-> 0, failed |-> 0]

ExecutorInit ==
  /\ Init
  /\ job = NoJob
  /\ books = [position |-> InitialPositions, diem |-> [h \in Holders |-> 0],
              wst |-> [h \in Holders |-> IF h \in Owners THEN InitialWealth[h] ELSE 0]]
  /\ saved = books
  /\ throttle = [e \in Executors |-> [id \in PolicyIds |-> NoFailures]]
  /\ world \in Worlds
  /\ log = [failures |-> {}, succeeded |-> [k \in NonceKeys |-> 0],
            donated |-> [e \in Executors |-> 0]]

-----------------------------------------------------------------------------
(* LoopV1PositionMath, the flash fee and the dust bound.                    *)

UintMax == 2147483647  \* stands for type(uint256).max

Value(collateral, price) == (collateral * price) \div Unit

(* Without a price collateral counts at par.                                *)
HealthFactor(position) ==
  IF position.debt = 0 THEN UintMax
  ELSE (Value(position.collateral, IF world.price = 0 THEN Unit ELSE world.price) * Lltv)
         \div position.debt

(* A registered adapter measures debt against what the collateral is worth, *)
(* nothing without a price; the code without one against its amount.        *)
LeverageBase(collateral) == IF world.adapter THEN Value(collateral, world.price) ELSE collateral
LeverageBps(position) ==
  LET base == LeverageBase(position.collateral) IN
  IF base = 0 THEN IF position.debt = 0 THEN 0 ELSE 65535
  ELSE LET leverage == (position.debt * 10000) \div base
       IN IF leverage > 65535 THEN 65535 ELSE leverage

FlashPrincipal(budget) == (budget * 1000000) \div (1000000 + FlashFeeTier)

FlashFee(amount) == IF amount = 0 THEN 0 ELSE ((amount * FlashFeeTier) - 1) \div 1000000 + 1

DustBound(input) ==
  LET bps == (input * DustBps) \div 10000
      variable == IF bps < DustCap THEN bps ELSE DustCap
  IN IF variable > DustFloor THEN variable ELSE DustFloor

DebtReducing(d) == d.type # "OPEN" /\ ~(d.type = "REBALANCE" /\ RiskIncreasing(d))

FloorWithinSlippage(d, sold, received) ==  \* mutant of WithinSlippage: tolerance in per mille
  Bounds[d].slippageBps # 0 /\ sold # 0 =>
    LET delta == IF received > sold THEN received - sold ELSE sold - received
    IN delta * 1000 <= sold * Bounds[d].slippageBps
WithinSlippage(d, sold, received) ==
  Bounds[d].slippageBps # 0 /\ sold # 0 =>
    LET delta == IF received > sold THEN received - sold ELSE sold - received
    IN delta * 10000 <= sold * Bounds[d].slippageBps

(* enforcePostState.  The liquidation-distance, utilisation and target-     *)
(* leverage bounds are left to the revert that is possible at every stage.  *)
AmountPostState(d, pre, post, supplied, borrowed) ==  \* mutant of PostState: the adapter is not asked
  /\ DebtReducing(d) => post.debt < pre.debt /\ HealthFactor(post) > HealthFactor(pre)
  /\ HealthFactor(post) >= Bounds[d].minHealth
  /\ Bounds[d].maxLeverage # 0 => post.debt * 10000 <= Bounds[d].maxLeverage * post.collateral
  /\ d.type = "OPEN" => supplied >= Bounds[d].minWst /\ borrowed \in d.minBorrow .. d.maxBorrow
PostState(d, pre, post, supplied, borrowed) ==
  /\ DebtReducing(d) => post.debt < pre.debt /\ HealthFactor(post) > HealthFactor(pre)
  /\ HealthFactor(post) >= Bounds[d].minHealth
  /\ Bounds[d].maxLeverage # 0 => LeverageBps(post) <= Bounds[d].maxLeverage
  /\ d.type = "OPEN" => supplied >= Bounds[d].minWst /\ borrowed \in d.minBorrow .. d.maxBorrow

-----------------------------------------------------------------------------
(* LoopV1ThrottleCounter, one map in each executor.                         *)

EverFailed(counter) == counter.start # 0  \* mutant of InWindow: the window never ends
InWindow(counter) == counter.start # 0 /\ block <= counter.start + AttemptWindow

Throttled(e, id) == InWindow(throttle[e][id]) /\ throttle[e][id].failed >= MaxFailedAttempts

SlidingFailure(counter) ==  \* mutant of RecordedFailure: the count restarts at zero
  IF InWindow(counter)
  THEN [counter EXCEPT !.failed = IF @ < 255 THEN @ + 1 ELSE @]
  ELSE [start |-> block, failed |-> 0]
RecordedFailure(counter) ==
  IF InWindow(counter)
  THEN [counter EXCEPT !.failed = IF @ < 255 THEN @ + 1 ELSE @]
  ELSE [start |-> block, failed |-> 1]

-----------------------------------------------------------------------------
(* Entry.                                                                   *)

d0 == job.digest
Self == ExecutorFor(d0.type)
Now == books.position[d0.owner]

Entered(d, sender, stage) == [NoJob EXCEPT !.digest = d, !.sender = sender, !.stage = stage]

Enter(d, sender, stage) ==
  /\ job.stage = "idle" /\ block <= LastSubmission
  /\ BeginTransaction
  /\ job' = Entered(d, sender, stage)
  /\ saved' = books
  /\ UNCHANGED <<books, throttle, world, log>>

ExecuteOpen(d) ==
  /\ d.type = "OPEN"
  /\ ~world.paused
  /\ Enter(d, Null, "validate")

ExecuteRebalance(d) ==
  /\ d.type = "REBALANCE"
  /\ ~(RiskIncreasing(d) /\ d.maxCollateralSold > 0)
  /\ RiskIncreasing(d) => ~world.paused
  /\ Enter(d, Null, "validate")

ExecuteExit(d) ==
  /\ d.type = "EXIT"
  /\ Enter(d, Null, "validate")

ExecuteAutomationExec(d, sender) ==
  /\ d.type = "AUTOMATION_EXEC"
  /\ sender \in Keepers
  /\ ~Throttled(Executor, d.policyId)
  /\ Enter(d, sender, "attempt")

(* Keepers share the counter of policy 0; other kinds are not counted.      *)
ExecuteForceExit(d, sender) ==
  /\ d.type = "FORCE_EXIT" /\ d.executor = ForceExitExecutor
  /\ d.kind = "KEEPER_PERMISSIONLESS" => ~Throttled(ForceExitExecutor, 0)
  /\ Enter(d, sender, "attempt")

(* `try this.execute...Attempt(...)' opens a call frame of its own.         *)
Caught == d0.type \in {"AUTOMATION_EXEC", "FORCE_EXIT"}
Counted == d0.type = "AUTOMATION_EXEC" \/ (Caught /\ d0.kind = "KEEPER_PERMISSIONLESS")
CounterId == IF d0.type = "FORCE_EXIT" THEN 0 ELSE d0.policyId

TryAttempt ==
  /\ job.stage = "attempt"
  /\ EnterFrame
  /\ job' = [job EXCEPT !.stage = "validate"]
  /\ UNCHANGED <<books, saved, throttle, world, log>>

-----------------------------------------------------------------------------
(* Validation, context and flash loan.                                      *)

(* LoopAuthorization checks the execution kind against its own msg.sender,  *)
(* the executor; only validateForceExit is told who called.                 *)
AuthorizationCaller(d, sender) == IF d.type = "FORCE_EXIT" THEN sender ELSE Executor

RepayAmount(d, debt) ==
  CASE d.type = "OPEN" -> 0
    [] d.type = "REBALANCE" ->
         IF RiskIncreasing(d) THEN 0
         ELSE IF d.maxCollateralSold > 0 /\ d.maxCollateralSold < debt THEN d.maxCollateralSold
         ELSE debt
    [] OTHER -> debt

WithdrawAmount(d, collateral) ==
  IF d.type = "OPEN" \/ d.class = "REPAY_ONLY" THEN 0
  ELSE IF d.type = "AUTOMATION_EXEC" THEN collateral ELSE d.maxCollateralSold

BorrowAmount(d) ==
  CASE d.type = "OPEN" -> d.maxBorrow
    [] d.type = "REBALANCE" -> d.maxDebtIncrease
    [] OTHER -> 0

FlashAmount(d, debt) ==
  IF DebtReducing(d) THEN RepayAmount(d, debt) ELSE FlashPrincipal(BorrowAmount(d))

Credit(ledger, holder, amount) == [ledger EXCEPT ![holder] = @ + amount]
Debit(ledger, holder, amount) == [ledger EXCEPT ![holder] = @ - amount]

(* From validate... to the callback's checks: the arm slot and the guard    *)
(* are set and taken in this one step, since nothing else runs in between.  *)
ValidateAndFlash ==
  /\ job.stage = "validate"
  /\ Validate(d0, AuthorizationCaller(d0, job.sender))
  /\ LET flash == FlashAmount(d0, Now.debt) IN
       /\ Bounds[d0].flashFeeCap # 0 => FlashFee(flash) <= Bounds[d0].flashFeeCap
       /\ job' = [job EXCEPT !.pre = Now, !.flash = flash, !.borrow = BorrowAmount(d0),
                             !.repay = RepayAmount(d0, Now.debt),
                             !.withdraw = WithdrawAmount(d0, Now.collateral),
                             !.stage = IF DebtReducing(d0) THEN "repay" ELSE "supply"]
       /\ books' = [books EXCEPT !.diem = Credit(@, Self, flash)]
  /\ UNCHANGED <<saved, throttle, world, log>>

-----------------------------------------------------------------------------
(* The callback.                                                            *)

(* Morpho's own check; without a price it lends nothing.                    *)
Solvent(position) ==
  position.debt * Unit <= Value(position.collateral, world.price) * Lltv

(* The authorization forwards the call; bound: the amounts of the instance. *)
CallMorpho(selector, amount) == amount \in Amounts /\ ExecuteMorpho(selector, amount)

(* Equity from the owner's wallet and what the vault mints for the flash    *)
(* principal; with neither there is no supply, and the borrow reverts.      *)
SupplyStep ==
  /\ job.stage = "supply"
  /\ \E price \in VaultPrices :
       LET equity == Bounds[d0].equity
           minWst == IF d0.type = "OPEN" THEN Bounds[d0].minWst ELSE job.flash
           minted == (job.flash * Unit) \div price
       IN /\ equity <= books.wst[d0.owner]
          /\ job.flash # 0 => minted >= minWst
          /\ equity + minted # 0
          /\ CallMorpho("SUPPLY_COLLATERAL", equity + minted)
          /\ books' = [books EXCEPT !.wst = Debit(@, d0.owner, equity),
                                    !.diem = Debit(@, Self, job.flash),
                                    !.position[d0.owner].collateral = @ + equity + minted]
          /\ job' = [job EXCEPT !.stage = "borrow", !.supplied = equity + minted]
  /\ UNCHANGED <<saved, throttle, world, log>>

BorrowStep ==
  /\ job.stage = "borrow"
  /\ CallMorpho("BORROW", job.borrow)
  /\ books' = [books EXCEPT !.position[d0.owner].debt = @ + job.borrow,
                            !.diem = Credit(@, Self, job.borrow)]
  /\ Solvent(books'.position[d0.owner])
  /\ job' = [job EXCEPT !.stage = "settle"]
  /\ UNCHANGED <<saved, throttle, world, log>>

RepayStep ==
  /\ job.stage = "repay"
  /\ job.repay # 0  \* Morpho refuses an empty repayment
  /\ CallMorpho("REPAY", job.repay)
  /\ books' = [books EXCEPT !.position[d0.owner].debt = @ - job.repay,
                            !.diem = Debit(@, Self, job.repay)]
  /\ job' = [job EXCEPT !.stage =
               IF job.withdraw = 0 /\ d0.type # "FORCE_EXIT" THEN "settle" ELSE "withdraw"]
  /\ UNCHANGED <<saved, throttle, world, log>>

WithdrawStep ==
  /\ job.stage = "withdraw"
  /\ job.withdraw \in 1 .. Now.collateral
  /\ CallMorpho("WITHDRAW_COLLATERAL", job.withdraw)
  /\ books' = [books EXCEPT !.position[d0.owner].collateral = @ - job.withdraw,
                            !.wst = Credit(@, Self, job.withdraw)]
  /\ Solvent(books'.position[d0.owner])
  /\ job' = [job EXCEPT !.stage = "swap"]
  /\ UNCHANGED <<saved, throttle, world, log>>

(* What Curve must pay: the loan, its fee and the signed fee caps.          *)
MinimumOutput(d) ==
  job.flash + FlashFee(job.flash) + Bounds[d].feeCaps

SwapStep ==
  /\ job.stage = "swap"
  /\ \E price \in CurvePrices :
       LET received == (job.withdraw * price) \div Unit IN
       /\ received >= MinimumOutput(d0)
       /\ WithinSlippage(d0, job.withdraw, received)
       /\ books' = [books EXCEPT !.wst = Debit(@, Self, job.withdraw),
                                 !.diem = Credit(@, Self, received)]
  /\ job' = [job EXCEPT !.stage = "settle"]
  /\ UNCHANGED <<vars, saved, throttle, world, log>>

SettleFlash ==
  /\ job.stage = "settle"
  /\ PostState(d0, job.pre, Now, job.supplied, job.borrow)
  /\ books.diem[Self] >= job.flash + FlashFee(job.flash)
  /\ books' = [books EXCEPT !.diem = Debit(@, Self, job.flash + FlashFee(job.flash))]
  /\ job' = [job EXCEPT !.stage = "finish"]
  /\ UNCHANGED <<vars, saved, throttle, world, log>>

-----------------------------------------------------------------------------
(* _finish and the return to whoever called.                                *)

DustInput == job.withdraw + job.flash

KeptDust(b) == b  \* mutant of Swept: balances within the bound stay
Swept(b) ==
  LET swept(ledger) == [ledger EXCEPT ![Self] = 0, ![d0.owner] = @ + ledger[Self]]
  IN [b EXCEPT !.diem = swept(@), !.wst = swept(@)]

Finish ==
  /\ job.stage = "finish"
  /\ books.diem[Self] <= DustBound(DustInput) /\ books.wst[Self] <= DustBound(DustInput)
  /\ books' = Swept(books)
  /\ IF Caught THEN LeaveFrame ELSE UNCHANGED vars
  /\ job' = [job EXCEPT !.stage = "return"]
  /\ UNCHANGED <<saved, throttle, world, log>>

ReturnSuccess ==
  /\ job.stage = "return"
  /\ EndTransaction
  /\ job' = NoJob
  /\ throttle' = IF Counted THEN [throttle EXCEPT ![Self][CounterId] = NoFailures] ELSE throttle
  /\ log' = [log EXCEPT
       !.failures = IF Counted THEN {f \in @ : <<f.executor, f.id>> # <<Self, CounterId>>} ELSE @,
       !.succeeded[NonceKey(d0)] = @ + 1,
       !.donated[Self] = 0]
  /\ UNCHANGED <<books, saved, world>>

Running == job.stage \in Stages \ {"idle", "owner", "attempt", "return", "failed"}

RevertTransaction ==
  /\ Running /\ ~Caught
  /\ RevertFrame
  /\ books' = saved
  /\ job' = NoJob
  /\ UNCHANGED <<saved, throttle, world, log>>

RevertAttempt ==
  /\ Running /\ Caught
  /\ RevertFrame
  /\ books' = saved
  /\ job' = [job EXCEPT !.stage = "failed"]
  /\ UNCHANGED <<saved, throttle, world, log>>

CatchFailure ==
  /\ job.stage = "failed"
  /\ EndTransaction
  /\ job' = NoJob
  /\ IF Counted
     THEN /\ throttle' = [throttle EXCEPT ![Self][CounterId] = RecordedFailure(@)]
          /\ log' = [log EXCEPT !.failures = @ \cup
               {[executor |-> Self, id |-> CounterId, owner |-> d0.owner, block |-> block,
                 number |-> Cardinality({f \in @ : <<f.executor, f.id>> = <<Self, CounterId>>})]}]
     ELSE UNCHANGED <<throttle, log>>
  /\ UNCHANGED <<books, saved, world>>

-----------------------------------------------------------------------------
(* What happens between executions.                                         *)

BeginOwnerTransaction ==
  /\ job.stage = "idle"
  /\ BeginTransaction
  /\ job' = [job EXCEPT !.stage = "owner"]
  /\ UNCHANGED <<books, saved, throttle, world, log>>

OwnerTransaction ==
  /\ job.stage = "owner"
  /\ \/ (\E o \in Owners : OwnerCall(o)) /\ UNCHANGED job
     \/ (\E d \in Digests : ExecuteRevoke(d)) /\ UNCHANGED job
     \/ (\E key \in NonceKeys : CancelNonce(key)) /\ UNCHANGED job
     \/ EndTransaction /\ job' = NoJob
  /\ UNCHANGED <<books, saved, throttle, world, log>>

(* The guardian, the registry's owner and the oracle, between transactions. *)
WorldBecomes(next) ==
  /\ job.stage = "idle"
  /\ next \in Worlds /\ world' = next
  /\ UNCHANGED <<vars, job, books, saved, throttle, log>>

ChangePause == WorldBecomes([world EXCEPT !.paused = ~@])
SetLoopRiskOracleAdapter == WorldBecomes([world EXCEPT !.adapter = ~@])
OraclePriceMoves == \E other \in Worlds : WorldBecomes([world EXCEPT !.price = other.price])
ChangeWorld == ChangePause \/ SetLoopRiskOracleAdapter \/ OraclePriceMoves

(* Tokens an executor holds from outside an execution.                      *)
Donate ==
  /\ job.stage = "idle"
  /\ \E e \in Executors, amount \in Donations :
       /\ log.donated[e] = 0
       /\ books' = [books EXCEPT !.diem = Credit(@, e, amount)]
       /\ log' = [log EXCEPT !.donated[e] = amount]
  /\ UNCHANGED <<vars, job, saved, throttle, world>>

Surroundings == (AdvanceBlock \/ BumpRegistry \/ ChangeConditions) /\ UNCHANGED executorVars

Submit ==
  \E d \in Digests :
    \/ ExecuteOpen(d) \/ ExecuteRebalance(d) \/ ExecuteExit(d)
    \/ \E sender \in Addresses : ExecuteAutomationExec(d, sender) \/ ExecuteForceExit(d, sender)

TransactionStep ==
  \/ TryAttempt \/ ValidateAndFlash
  \/ SupplyStep \/ BorrowStep \/ RepayStep \/ WithdrawStep \/ SwapStep
  \/ SettleFlash \/ Finish \/ ReturnSuccess
  \/ RevertTransaction \/ RevertAttempt \/ CatchFailure

ExecutorNext ==
  \/ Submit \/ TransactionStep
  \/ BeginOwnerTransaction \/ OwnerTransaction
  \/ ChangeWorld \/ Donate \/ Surroundings

ExecutorSpec == ExecutorInit /\ [][ExecutorNext]_allVars

(* A transaction runs to its end and blocks keep being produced.            *)
FairExecutorSpec ==
  /\ ExecutorSpec
  /\ WF_allVars(TransactionStep)
  /\ WF_allVars(OwnerTransaction /\ job' = NoJob)
  /\ SF_allVars(AdvanceBlock /\ UNCHANGED executorVars)
-----------------------------------------------------------------------------
(* Properties *)

(* Types; that the balances stay natural numbers says no transfer the       *)
(* callback makes is ever short.                                            *)
ExecutorTypeOK ==
  /\ job \in Jobs
  /\ books \in Books /\ saved \in Books
  /\ throttle \in [Executors -> [PolicyIds -> Counters]]
  /\ world \in Worlds
  /\ InTransaction <=> job.stage # "idle"

(* "Zero residual executor balances" (PROTOCOL 6.3): between transactions   *)
(* an executor holds nothing but what was sent to it since it last          *)
(* completed an action, whichever actions failed or succeeded before.       *)
ZeroAfter ==
  job.stage = "idle" =>
    \A e \in Executors : books.wst[e] = 0 /\ books.diem[e] = log.donated[e]

(* An action that draws debt or sells collateral can always repay its flash *)
(* loan from its own proceeds: the principal taken for a borrow budget and  *)
(* the minimum asked of Curve leave room for the fee as the pool rounds it. *)
FlashRepayable ==
  job.stage = "settle" /\ job.borrow + job.withdraw > 0 =>
    books.diem[Self] >= job.flash + FlashFee(job.flash)

(* What a completed action leaves is what was signed: a debt-reducing one   *)
(* lowered the debt and raised the health factor, measured from entry to    *)
(* completion (PROTOCOL 6.3), the others kept within the signed health and  *)
(* debt bounds and within the signed leverage, against the collateral's     *)
(* worth if a risk adapter is registered.                                   *)
SignedOutcome ==
  job.stage = "return" =>
    LET before == saved.position[d0.owner] IN
    /\ DebtReducing(d0) => Now.debt < before.debt /\ HealthFactor(Now) > HealthFactor(before)
    /\ ~DebtReducing(d0) =>
         /\ Now.debt - before.debt <= (IF d0.type = "OPEN" THEN d0.maxBorrow ELSE d0.maxDebtIncrease)
         /\ HealthFactor(Now) >= Bounds[d0].minHealth
         /\ Bounds[d0].maxLeverage # 0 => LeverageBps(Now) <= Bounds[d0].maxLeverage

Equity(b, o) == b.position[o].collateral + b.wst[o] + b.diem[o] - b.position[o].debt

(* Unwinding costs the owner no more than the signed slippage on what was   *)
(* sold and the flash fee: every token that left the position and did not   *)
(* pay for these is back in the position or in the owner's wallet.          *)
UnwindCostBounded ==
  job.stage = "return" /\ DebtReducing(d0) /\ Bounds[d0].slippageBps # 0 =>
    (Equity(saved, d0.owner) - Equity(books, d0.owner)) * 10000
      <= job.withdraw * Bounds[d0].slippageBps + FlashFee(job.flash) * 10000

(* A successful execution and the authorization agree on which call was the *)
(* last: as many successes as spent terminal calls under every nonce, so no *)
(* action that succeeded can be submitted again ("The nonce bit is set      *)
(* atomically with the final state-changing external call", PROTOCOL.md:414)*)
SpentWithFinalCall(keys) ==
  job.stage = "idle" =>
    \A key \in keys : log.succeeded[key] = state.executed[key] /\ log.succeeded[key] <= 1

(* The same of every nonce that no exit is signed under whose repayment is  *)
(* its executor's last call and not the authorization's.                    *)
EndsAtRepayment(d) == d.type = "EXIT" /\ d.class # "REPAY_ONLY" /\ d.maxCollateralSold = 0
SuccessSpendsNonce ==
  SpentWithFinalCall(NonceKeys \ {NonceKey(d) : d \in {x \in Digests : EndsAtRepayment(x)}})

(* While the guardian's pause holds no action is about to draw debt, by     *)
(* whichever entry point it came (PROTOCOL 7.1; _requireNotPaused).         *)
PauseStopsBorrowing == job.stage = "borrow" => ~world.paused

(* The throttle bounds failed attempts: without a success in between, any   *)
(* AttemptWindow + 1 consecutive blocks see fewer than twice the maximum,   *)
(* also where one window ends and the next begins.                          *)
ThrottleBoundsFailures ==
  \A e \in Executors, id \in PolicyIds, first \in 1 .. LastSubmission :
    Cardinality({f \in log.failures : /\ f.executor = e /\ f.id = id
                                      /\ f.block \in first .. first + AttemptWindow})
      < 2 * MaxFailedAttempts

(* A throttled policy is executable again after its window.                 *)
ThrottleExpires ==
  \A e \in Executors, id \in PolicyIds : Throttled(e, id) ~> ~Throttled(e, id)

(* What executors hold adds up: typed, nothing kept, every loan repayable.  *)
BooksBalance == ExecutorTypeOK /\ ZeroAfter /\ FlashRepayable

(* What executes was admitted once, and no debt drawn past a pause.         *)
ExecutedUnderAuthority == SuccessSpendsNonce /\ PauseStopsBorrowing
=============================================================================
