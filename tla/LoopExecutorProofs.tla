-------------------------- MODULE LoopExecutorProofs --------------------------
(***************************************************************************)
(* LoopExecutor for any owners, digests, amounts, prices and bounds: its   *)
(* steps are steps of LoopAuthorization, so what is proved there holds of  *)
(* the composition; its books balance, what completes is what was signed,  *)
(* and no action succeeds twice.                                           *)
(***************************************************************************)
EXTENDS LoopExecutor, LoopAuthorizationProofs, FiniteSetTheorems

(* Amounts the executors multiply and divide stay natural numbers.          *)
LEMMA ProductNat ==
  ASSUME NEW a \in Nat, NEW b \in Nat
  PROVE  a * b \in Nat
OBVIOUS

LEMMA QuotientNat ==
  ASSUME NEW a \in Nat, NEW b \in Nat \ {0}
  PROVE  a \div b \in Nat
OBVIOUS

LEMMA QuotientProperty ==
  ASSUME NEW a \in Nat, NEW b \in Nat \ {0}
  PROVE  (a \div b) * b <= a /\ a < (a \div b) * b + b
OBVIOUS

LEMMA FeeNat ==
  ASSUME ExecutorAssumption, NEW amount \in Nat
  PROVE  FlashFee(amount) \in Nat
BY SMTT(30) DEF ExecutorAssumption, FlashFee

LEMMA PrincipalNat ==
  ASSUME ExecutorAssumption, NEW budget \in Nat
  PROVE  FlashPrincipal(budget) \in Nat
BY SMTT(30) DEF ExecutorAssumption, FlashPrincipal

(* The principal taken for a borrow budget leaves room for its fee.         *)
LEMMA PrincipalRepayable ==
  ASSUME ExecutorAssumption, NEW budget \in Nat
  PROVE  FlashPrincipal(budget) + FlashFee(FlashPrincipal(budget)) <= budget
BY SMTT(30) DEF ExecutorAssumption, FlashPrincipal, FlashFee

-----------------------------------------------------------------------------
(* Every step of an execution is a step of LoopAuthorization.               *)

(* The job in progress has the fields of a job; from its entry on it is a   *)
(* signed digest's, never a revocation's, and a caught attempt knows who    *)
(* called.                                                                  *)
JobSound ==
  /\ DOMAIN job = DOMAIN NoJob /\ job.stage \in Stages
  /\ job.stage \notin {"idle", "owner"} =>
       /\ job.digest \in Digests /\ job.digest.type # "REVOKE"
       /\ Caught => job.sender \in Addresses
       /\ job.stage \in {"attempt", "failed"} => Caught

(* What the guardian, the registry's owner and the oracle leave alone.      *)
LEMMA WorldChanges ==
  ASSUME ChangeWorld
  PROVE  /\ job.stage = "idle" /\ world' \in Worlds
         /\ UNCHANGED <<vars, job, books, saved, throttle, log>>
BY DEF ChangeWorld, ChangePause, SetLoopRiskOracleAdapter, OraclePriceMoves, WorldBecomes

LEMMA JobSoundInit ==
  ASSUME ExecutorInit
  PROVE  JobSound
BY DEF ExecutorInit, JobSound, NoJob, Stages

LEMMA JobSoundSubmit ==
  ASSUME JobSound, Submit
  PROVE  JobSound'
<1>1. PICK d \in Digests, stage \in {"validate", "attempt"}, sender \in Addresses \cup {Null} :
        /\ job' = Entered(d, sender, stage) /\ d.type # "REVOKE"
        /\ d.type \in {"AUTOMATION_EXEC", "FORCE_EXIT"} => sender \in Addresses
        /\ stage = "attempt" => d.type \in {"AUTOMATION_EXEC", "FORCE_EXIT"}
  BY DEF Submit, ExecuteOpen, ExecuteRebalance, ExecuteExit, ExecuteAutomationExec,
         ExecuteForceExit, Enter
<1> QED
  BY <1>1 DEF JobSound, Entered, NoJob, Stages, Caught, d0

LEMMA JobSoundNext ==
  ASSUME JobSound, [ExecutorNext]_allVars
  PROVE  JobSound'
<1> USE DEF JobSound
<1>1. CASE Submit
  BY <1>1, JobSoundSubmit
<1>2. CASE TransactionStep
  <2>1. ASSUME NEW stage \in Stages \ {"idle", "owner"}, job.stage \notin {"idle", "owner"},
               job'.stage = stage, job'.digest = job.digest, job'.sender = job.sender,
               DOMAIN job' = DOMAIN job, stage \in {"attempt", "failed"} => Caught
        PROVE  JobSound'
    BY <2>1 DEF Caught, d0
  <2>2. ASSUME job' = NoJob
        PROVE  JobSound'
    BY <2>2 DEF NoJob, Stages
  <2> HIDE DEF JobSound
  <2>3. DOMAIN job = {"stage", "digest", "sender", "pre", "flash", "borrow", "repay", "withdraw",
                      "supplied"}
    BY DEF JobSound, NoJob
  <2>4. CASE TryAttempt
    BY <2>1, <2>3, <2>4 DEF TryAttempt, Stages
  <2>5. CASE ValidateAndFlash
    BY <2>1, <2>3, <2>5 DEF ValidateAndFlash, Stages
  <2>6. CASE SupplyStep
    BY <2>1, <2>3, <2>6 DEF SupplyStep, Stages
  <2>7. CASE BorrowStep
    BY <2>1, <2>3, <2>7 DEF BorrowStep, Stages
  <2>8. CASE RepayStep
    BY <2>1, <2>3, <2>8 DEF RepayStep, Stages
  <2>9. CASE WithdrawStep
    BY <2>1, <2>3, <2>9 DEF WithdrawStep, Stages
  <2>10. CASE SwapStep
    BY <2>1, <2>3, <2>10 DEF SwapStep, Stages
  <2>11. CASE SettleFlash
    BY <2>1, <2>3, <2>11 DEF SettleFlash, Stages
  <2>12. CASE Finish
    BY <2>1, <2>3, <2>12 DEF Finish, Stages
  <2>13. CASE ReturnSuccess
    BY <2>2, <2>13 DEF ReturnSuccess
  <2>14. CASE RevertTransaction
    BY <2>2, <2>14 DEF RevertTransaction
  <2>15. CASE RevertAttempt
    BY <2>1, <2>3, <2>15 DEF RevertAttempt, Running, Stages
  <2>16. CASE CatchFailure
    BY <2>2, <2>16 DEF CatchFailure
  <2> QED
    BY <1>2, <2>4, <2>5, <2>6, <2>7, <2>8, <2>9, <2>10, <2>11, <2>12, <2>13, <2>14, <2>15, <2>16
    DEF TransactionStep
<1>3. CASE BeginOwnerTransaction
  BY <1>3 DEF BeginOwnerTransaction, Stages, NoJob
<1>4. CASE OwnerTransaction
  <2>1. job' = job \/ job' = NoJob
    BY <1>4 DEF OwnerTransaction
  <2> QED
    BY <2>1 DEF NoJob, Stages, Caught, d0
<1>5. CASE ChangeWorld \/ Donate \/ Surroundings \/ UNCHANGED allVars
  BY <1>5, WorldChanges DEF Donate, Surroundings, allVars, executorVars, Caught, d0
<1> QED
  BY <1>1, <1>2, <1>3, <1>4, <1>5 DEF ExecutorNext

(* A flow in progress is one signed digest's from its entry to its end      *)
(* (LoopExecutorV2, LoopForceExitExecutor: the armed flash context).        *)
THEOREM JobsSound == ExecutorSpec => []JobSound
<1>1. ExecutorInit => JobSound
  BY JobSoundInit
<1>2. JobSound /\ [ExecutorNext]_allVars => JobSound'
  BY JobSoundNext
<1> QED
  BY <1>1, <1>2, PTL DEF ExecutorSpec

(* The calls of an execution are the authorization's own actions.           *)
LEMMA Lifting ==
  ASSUME ExecutorAssumption, JobSound, [ExecutorNext]_allVars
  PROVE  [Next]_vars
<1>1. ASSUME \/ BeginTransaction \/ EnterFrame \/ LeaveFrame \/ RevertFrame \/ EndTransaction
             \/ AdvanceBlock \/ BumpRegistry \/ ChangeConditions
      PROVE  Next
  BY <1>1 DEF Next, Environment
<1>2. CASE Submit
  BY <1>1, <1>2 DEF Submit, ExecuteOpen, ExecuteRebalance, ExecuteExit, ExecuteAutomationExec,
                    ExecuteForceExit, Enter
<1>3. CASE TryAttempt
  BY <1>1, <1>3 DEF TryAttempt
<1>4. CASE ValidateAndFlash
  <2>1. d0 \in Digests /\ (d0.type = "FORCE_EXIT" => job.sender \in Addresses)
    BY <1>4 DEF ValidateAndFlash, JobSound, Caught, d0
  <2>2. AuthorizationCaller(d0, job.sender) \in Addresses
    BY <2>1 DEF AuthorizationCaller, Addresses
  <2> QED
    BY <1>4, <2>1, <2>2 DEF ValidateAndFlash, Next
<1>5. ASSUME NEW selector \in Selectors, NEW amount, CallMorpho(selector, amount)
      PROVE  Next
  BY <1>5 DEF CallMorpho, Next
<1>6. CASE SupplyStep
  BY <1>5, <1>6 DEF SupplyStep, Selectors
<1>7. CASE BorrowStep \/ RepayStep \/ WithdrawStep
  BY <1>5, <1>7 DEF BorrowStep, RepayStep, WithdrawStep, Selectors
<1>8. CASE SwapStep \/ SettleFlash \/ ChangeWorld \/ Donate \/ UNCHANGED allVars
  BY <1>8, WorldChanges DEF SwapStep, SettleFlash, Donate, allVars
<1>9. CASE Finish \/ ReturnSuccess
  BY <1>1, <1>9 DEF Finish, ReturnSuccess
<1>10. CASE RevertTransaction \/ RevertAttempt \/ CatchFailure
  BY <1>1, <1>10 DEF RevertTransaction, RevertAttempt, CatchFailure
<1>11. CASE BeginOwnerTransaction
  BY <1>1, <1>11 DEF BeginOwnerTransaction
<1>12. CASE OwnerTransaction
  BY <1>1, <1>12 DEF OwnerTransaction, Next
<1>13. CASE Surroundings
  BY <1>1, <1>13 DEF Surroundings
<1> QED
  BY <1>2, <1>3, <1>4, <1>6, <1>7, <1>8, <1>9, <1>10, <1>11, <1>12, <1>13
  DEF ExecutorNext, TransactionStep

(* Every behaviour of the executors is one of LoopAuthorization: what is    *)
(* proved of the authorization alone holds of the two together.             *)
THEOREM ExecutorKeepsAuthorization == ExecutorSpec => Spec
<1>1. ExecutorInit => Init
  BY DEF ExecutorInit
<1>2. JobSound /\ [ExecutorNext]_allVars => [Next]_vars
  BY Lifting, ExecutorAssumption
<1> QED
  BY <1>1, <1>2, JobsSound, PTL DEF ExecutorSpec, Spec

-----------------------------------------------------------------------------
(* The books while a transaction is in progress.                            *)

Callback == Stages \ {"idle", "owner", "attempt", "validate", "failed"}

(* Between transactions, and until the flash loan arrives, an executor      *)
(* holds what was sent to it and nothing else.                              *)
Clean(b, executors) == \A e \in executors : b.wst[e] = 0 /\ b.diem[e] = log.donated[e]

(* The amounts of an execution follow from its digest and the position the  *)
(* transaction found.                                                       *)
Measured ==
  job.stage \in Callback =>
    /\ job.pre = saved.position[d0.owner]
    /\ job.flash = FlashAmount(d0, job.pre.debt)
    /\ job.borrow = BorrowAmount(d0)
    /\ job.repay = RepayAmount(d0, job.pre.debt)
    /\ job.withdraw = WithdrawAmount(d0, job.pre.collateral)

Held(wst, diem) == books.wst[Self] = wst /\ books.diem[Self] = diem
Owed == job.flash + FlashFee(job.flash)

(* A position on its way up: the debt as found until the borrow, which      *)
(* brings in what was signed.                                               *)
Drawing ==
  /\ ~DebtReducing(d0)
  /\ job.stage \in {"supply", "borrow"} => Now.debt = job.pre.debt
  /\ job.stage \in {"settle", "finish", "return"} => Now.debt = job.pre.debt + job.borrow
  /\ job.stage = "supply" => Held(0, log.donated[Self] + job.flash)
  /\ job.stage = "borrow" => Held(0, log.donated[Self])
  /\ job.stage = "settle" => Held(0, log.donated[Self] + job.borrow)

(* What the collateral sold has brought in, as far as the books still show. *)
Received ==
  IF job.stage = "settle" THEN books.diem[Self] - log.donated[Self]
  ELSE IF job.stage = "finish" THEN Owed + books.diem[Self] - log.donated[Self]
  ELSE Owed + (books.diem[d0.owner] - saved.diem[d0.owner]) - log.donated[Self]

SoldWithinSlippage ==
  Bounds[d0].slippageBps # 0 =>
    (job.withdraw - Received) * 10000 <= job.withdraw * Bounds[d0].slippageBps

(* A position on its way down: repaid, withdrawn, sold for what Curve gave. *)
Unwinding ==
  /\ DebtReducing(d0)
  /\ job.stage = "repay" => Now = job.pre /\ Held(0, log.donated[Self] + job.flash)
  /\ job.stage # "repay" => Now.debt = job.pre.debt - job.repay
  /\ job.stage = "withdraw" => Now.collateral = job.pre.collateral /\ Held(0, log.donated[Self])
  /\ job.stage \notin {"repay", "withdraw"} =>
       Now.collateral = job.pre.collateral - job.withdraw
  /\ job.stage = "swap" => Held(job.withdraw, log.donated[Self])
  /\ job.stage = "settle" =>
       books.wst[Self] = 0 /\ (job.withdraw > 0 => books.diem[Self] >= Owed)
  /\ job.stage \in {"settle", "finish", "return"} => SoldWithinSlippage
  /\ books.wst[d0.owner] = saved.wst[d0.owner]
  /\ job.stage # "return" => books.diem[d0.owner] = saved.diem[d0.owner]

Advancing ==
  job.stage \in Callback =>
    /\ Clean(books, Executors \ {Self})
    /\ \/ job.stage \notin {"repay", "withdraw", "swap"} /\ Drawing
       \/ job.stage \notin {"supply", "borrow"} /\ Unwinding
    /\ job.stage \in {"finish", "return"} =>
         /\ books.wst[Self] = 0
         /\ PostState(d0, job.pre, Now, job.supplied, job.borrow)
    /\ job.stage = "return" => books.diem[Self] = 0

Logs ==
  [failures: SUBSET [executor: Executors, id: PolicyIds, owner: Owners, block: Nat, number: Nat],
   succeeded: [NonceKeys -> Nat], donated: [Executors -> Nat]]

FrameDepth == Len(frames) = IF job.stage = "idle" THEN 0 ELSE IF Running /\ Caught THEN 2 ELSE 1

BooksTyped ==
  /\ job \in Jobs /\ books \in Books /\ saved \in Books
  /\ throttle \in [Executors -> [PolicyIds -> Counters]]
  /\ world \in Worlds
  /\ log \in Logs /\ IsFiniteSet(log.failures)

InFlight ==
  /\ BooksTyped /\ FrameDepth
  /\ job.stage \in {"idle", "owner"} => Clean(books, Executors)
  /\ job.stage \notin {"idle", "owner"} => Clean(saved, Executors)
  /\ job.stage \in {"attempt", "validate", "failed"} => books = saved
  /\ Measured /\ Advancing

(* What the transaction's own steps do to the depth of the call stack.      *)
LEMMA FrameLengths ==
  ASSUME TypeOK
  PROVE  /\ Len(frames) \in Nat /\ (Len(frames) = 0 <=> frames = <<>>)
         /\ BeginTransaction => Len(frames) = 0 /\ Len(frames') = 1
         /\ EnterFrame => Len(frames') = Len(frames) + 1
         /\ LeaveFrame \/ RevertFrame => Len(frames') = Len(frames) - 1
         /\ EndTransaction => Len(frames) = 1 /\ Len(frames') = 0
<1>1. frames \in Seq(States) /\ state \in States
  BY DEF TypeOK
<1>2. Len(frames) \in Nat /\ (Len(frames) = 0 <=> frames = <<>>)
  BY <1>1, LenProperties, EmptySeq
<1>3. ASSUME EnterFrame PROVE Len(frames') = Len(frames) + 1
  BY <1>1, <1>3, AppendProperties DEF EnterFrame
<1>4. ASSUME LeaveFrame \/ RevertFrame PROVE Len(frames') = Len(frames) - 1
  <2>1. frames' = SubSeq(frames, 1, Len(frames) - 1) /\ Len(frames) \in Nat \ {0}
    BY <1>2, <1>4 DEF LeaveFrame, RevertFrame, InTransaction
  <2> DEFINE n == Len(frames) - 1
  <2>2. \A i \in 1 .. n : frames[i] \in States
    BY <1>1, <2>1, ElementOfSeq
  <2>3. n \in Nat /\ n \in Int /\ 1 \in Int
    BY <2>1
  <2> HIDE DEF n
  <2>4. Len(SubSeq(frames, 1, n)) = n
    BY <2>2, <2>3, SubSeqProperties
  <2> QED
    BY <2>1, <2>4 DEF n
<1>5. ASSUME EndTransaction PROVE Len(frames) = 1 /\ Len(frames') = 0
  BY <1>5 DEF EndTransaction
<1>6. ASSUME BeginTransaction PROVE Len(frames) = 0 /\ Len(frames') = 1
  BY <1>2, <1>6 DEF BeginTransaction, InTransaction
<1> QED
  BY <1>2, <1>3, <1>4, <1>5, <1>6

(* A call to the authorization leaves the stack alone.                      *)
LEMMA CallsKeepFrames ==
  /\ \A d, caller : Validate(d, caller) => UNCHANGED <<frames, block, registry>>
  /\ \A selector, amount : CallMorpho(selector, amount) => UNCHANGED <<frames, block, registry>>
  /\ \A o : OwnerCall(o) => UNCHANGED <<frames, block, registry>>
  /\ \A d : ExecuteRevoke(d) => UNCHANGED <<frames, block, registry>>
  /\ \A key : CancelNonce(key) => UNCHANGED <<frames, block, registry>>
BY ZenonT(40) DEF Validate, ValidateOpen, ValidateRebalance, ValidateExit, ValidateAutomationExec,
       ValidateForceExit, ArmContext, CallMorpho, ExecuteMorpho, ExecuteMorphoStep,
       ExecuteMorphoTerminal, OwnerCall, CreatePolicy, UpdatePolicy, Revoke, ExecuteRevoke,
       CancelNonce

(* A step inside a transaction keeps the digest and moves to a stage.       *)
Moved(stage) == DOMAIN job' = DOMAIN job /\ job'.digest = job.digest /\ job'.stage = stage

LEMMA StageMoves ==
  ASSUME JobSound
  PROVE  /\ TryAttempt => Moved("validate")
         /\ ValidateAndFlash => Moved("repay") \/ Moved("supply")
         /\ SupplyStep => Moved("borrow")
         /\ BorrowStep \/ SwapStep => Moved("settle")
         /\ RepayStep => Moved("settle") \/ Moved("withdraw")
         /\ WithdrawStep => Moved("swap")
         /\ SettleFlash => Moved("finish")
         /\ Finish => Moved("return")
         /\ RevertAttempt => Moved("failed")
<1>1. DOMAIN job = {"stage", "digest", "sender", "pre", "flash", "borrow", "repay", "withdraw",
                    "supplied"}
  BY DEF JobSound, NoJob
<1> QED
  BY <1>1 DEF TryAttempt, ValidateAndFlash, SupplyStep, BorrowStep, SwapStep, RepayStep,
              WithdrawStep, SettleFlash, Finish, RevertAttempt, Moved

LEMMA DepthNext ==
  ASSUME TypeOK, JobSound, FrameDepth, [ExecutorNext]_allVars
  PROVE  FrameDepth'
<1> DEFINE inner ==
      {"validate", "supply", "borrow", "repay", "withdraw", "swap", "settle", "finish"}
    depth(stage) == IF stage = "idle" THEN 0 ELSE IF stage \in inner /\ Caught THEN 2 ELSE 1
<1>0. (Running <=> job.stage \in inner) /\ (Running' <=> job'.stage \in inner)
  BY DEF Running, Stages
<1> HIDE DEF inner
<1>1. Len(frames) = depth(job.stage)
  BY <1>0 DEF FrameDepth
<1>2. ASSUME NEW stage, Moved(stage), Len(frames') = depth(stage)
      PROVE  FrameDepth'
  BY <1>0, <1>2 DEF Moved, FrameDepth, Caught, d0
<1> USE DEF inner
<1>3. ASSUME job' = NoJob, Len(frames') = 0
      PROVE  FrameDepth'
  BY <1>3 DEF NoJob, FrameDepth
<1>4. ASSUME job' = job, frames' = frames
      PROVE  FrameDepth'
  BY <1>4 DEF FrameDepth, Running, Caught, d0
<1>5. CASE Submit
  <2>1. PICK stage \in {"validate", "attempt"}, d \in Digests :
          /\ job'.stage = stage /\ job'.digest = d /\ BeginTransaction
          /\ d.type \in {"AUTOMATION_EXEC", "FORCE_EXIT"} => stage = "attempt"
    BY <1>5 DEF Submit, ExecuteOpen, ExecuteRebalance, ExecuteExit, ExecuteAutomationExec,
                ExecuteForceExit, Enter, Entered, NoJob
  <2> QED
    BY <2>1, FrameLengths DEF FrameDepth, Running, Caught, d0, Stages
<1>6. CASE TryAttempt
  <2>1. Len(frames') = Len(frames) + 1 /\ Moved("validate") /\ job.stage = "attempt" /\ Caught
    BY <1>6, FrameLengths, StageMoves DEF TryAttempt, JobSound
  <2> QED
    BY <1>1, <1>2, <2>1
<1>7. CASE ValidateAndFlash
  <2>1. frames' = frames /\ job.stage = "validate"
    BY <1>7, CallsKeepFrames DEF ValidateAndFlash
  <2> QED
    BY <1>1, <1>2, <1>7, <2>1, StageMoves
<1>8. CASE SupplyStep \/ BorrowStep \/ RepayStep \/ WithdrawStep \/ SwapStep \/ SettleFlash
  <2>1. /\ frames' = frames
        /\ job.stage \in {"supply", "borrow", "repay", "withdraw", "swap", "settle"}
    BY <1>8, CallsKeepFrames
    DEF SupplyStep, BorrowStep, RepayStep, WithdrawStep, SwapStep, SettleFlash, vars
  <2>2. \E stage \in {"borrow", "withdraw", "swap", "settle", "finish"} : Moved(stage)
    BY <1>8, StageMoves
  <2> QED
    BY <1>1, <1>2, <2>1, <2>2
<1>9. CASE Finish
  <2>1. job.stage = "finish" /\ Moved("return")
    BY <1>9, StageMoves DEF Finish
  <2>2. Len(frames') = IF Caught THEN Len(frames) - 1 ELSE Len(frames)
    BY <1>9, FrameLengths DEF Finish, vars
  <2> QED
    BY <1>1, <1>2, <2>1, <2>2
<1>10. CASE ReturnSuccess \/ CatchFailure
  BY <1>3, <1>10, FrameLengths DEF ReturnSuccess, CatchFailure
<1>11. CASE RevertTransaction
  <2>1. Running /\ ~Caught /\ Len(frames') = Len(frames) - 1 /\ job' = NoJob
    BY <1>11, FrameLengths DEF RevertTransaction
  <2> QED
    BY <1>0, <1>1, <1>3, <2>1
<1>12. CASE RevertAttempt
  <2>1. Running /\ Caught /\ Len(frames') = Len(frames) - 1 /\ Moved("failed")
    BY <1>12, FrameLengths, StageMoves DEF RevertAttempt
  <2> QED
    BY <1>0, <1>1, <1>2, <2>1
<1>13. CASE BeginOwnerTransaction
  <2>1. job' = [NoJob EXCEPT !.stage = "owner"] \/ job'.stage = "owner"
    BY <1>13 DEF BeginOwnerTransaction, JobSound, NoJob
  <2> QED
    BY <1>13, <2>1, FrameLengths DEF BeginOwnerTransaction, FrameDepth, Running, NoJob
<1>14. CASE OwnerTransaction
  BY <1>3, <1>4, <1>14, FrameLengths, CallsKeepFrames DEF OwnerTransaction
<1>15. CASE ChangeWorld \/ Donate \/ Surroundings \/ UNCHANGED allVars
  BY <1>4, <1>15, WorldChanges DEF Donate, Surroundings, allVars, vars, executorVars, AdvanceBlock,
                     BumpRegistry, ChangeConditions
<1> QED
  BY <1>5, <1>6, <1>7, <1>8, <1>9, <1>10, <1>11, <1>12, <1>13, <1>14, <1>15
  DEF ExecutorNext, TransactionStep

(* Whose execution it is, and that the executor is not the owner.           *)
LEMMA Executing ==
  ASSUME AuthorizationAssumption, ExecutorAssumption, JobSound, job.stage \notin {"idle", "owner"}
  PROVE  /\ d0 \in Digests /\ d0.type # "REVOKE" /\ NonceKey(d0) \in NonceKeys
         /\ d0.owner \in Owners /\ d0.owner \in Holders /\ d0.owner \notin Executors
         /\ Self \in Executors /\ Self \in Holders /\ Self # d0.owner
         /\ CounterId \in PolicyIds /\ Bounds[d0] \in BoundsType
<1>1. d0 \in Digests /\ d0.type # "REVOKE"
  BY DEF JobSound, d0
<1>2. d0.owner \in Owners /\ NonceKey(d0) \in NonceKeys
  BY <1>1 DEF AuthorizationAssumption, DigestType, NonceKeys
<1>3. Self \in Executors
  BY DEF Self, ExecutorFor, Executors
<1>4. CounterId \in PolicyIds
  BY <1>1 DEF CounterId, PolicyIds
<1> QED
  BY <1>1, <1>2, <1>3, <1>4 DEF ExecutorAssumption, Holders

(* The amounts an execution is measured at.                                 *)
LEMMA AmountsTyped ==
  ASSUME AuthorizationAssumption, ExecutorAssumption,
         NEW d \in Digests, d.type # "REVOKE", NEW debt \in Nat, NEW collateral \in Nat
  PROVE  /\ RepayAmount(d, debt) \in 0 .. debt
         /\ BorrowAmount(d) \in Nat /\ WithdrawAmount(d, collateral) \in Nat
         /\ FlashAmount(d, debt) \in Nat
         /\ DebtReducing(d) => FlashAmount(d, debt) = RepayAmount(d, debt) /\ BorrowAmount(d) = 0
         /\ ~DebtReducing(d) => FlashAmount(d, debt) = FlashPrincipal(BorrowAmount(d))
<1>1. d.maxCollateralSold \in Nat /\ d.maxBorrow \in Nat /\ d.maxDebtIncrease \in Nat
  BY DEF AuthorizationAssumption, DigestType
<1>2. RepayAmount(d, debt) \in 0 .. debt
  BY <1>1 DEF RepayAmount
<1>3. BorrowAmount(d) \in Nat /\ WithdrawAmount(d, collateral) \in Nat
  BY <1>1 DEF BorrowAmount, WithdrawAmount
<1>4. DebtReducing(d) => BorrowAmount(d) = 0
  BY <1>1 DEF DebtReducing, RiskIncreasing, BorrowAmount
<1> QED
  BY <1>2, <1>3, <1>4, PrincipalNat DEF FlashAmount

(* A job that moves on from a stage of the callback keeps its measures.     *)
SameJob ==
  /\ job' \in Jobs /\ job.stage \in Callback /\ job'.stage \in Callback
  /\ job'.digest = job.digest /\ job'.pre = job.pre /\ job'.flash = job.flash
  /\ job'.borrow = job.borrow /\ job'.repay = job.repay /\ job'.withdraw = job.withdraw

LEMMA SameTerms ==
  ASSUME SameJob
  PROVE  /\ d0' = d0 /\ Self' = Self /\ Owed' = Owed
         /\ Now' = books'.position[d0.owner]
         /\ job'.pre = job.pre /\ job'.flash = job.flash /\ job'.borrow = job.borrow
         /\ job'.repay = job.repay /\ job'.withdraw = job.withdraw
BY DEF SameJob, d0, Self, Owed, Now

LEMMA CallbackStep ==
  ASSUME AuthorizationAssumption, ExecutorAssumption, JobSound, InFlight, SameJob, FrameDepth',
         books' \in Books, UNCHANGED <<saved, throttle, world, log>>,
         \A e \in Executors \ {Self} : books'.wst[e] = books.wst[e] /\ books'.diem[e] = books.diem[e],
         \/ job'.stage \notin {"repay", "withdraw", "swap"} /\ Drawing'
         \/ job'.stage \notin {"supply", "borrow"} /\ Unwinding',
         job'.stage \in {"finish", "return"} =>
           books'.wst[Self] = 0 /\ PostState(d0, job.pre, Now', job'.supplied, job.borrow),
         job'.stage = "return" => books'.diem[Self] = 0
  PROVE  InFlight'
<1>1. job.stage \notin {"idle", "owner", "attempt", "validate", "failed"}
  BY DEF SameJob, Callback
<1>2. job'.stage \notin {"idle", "owner", "attempt", "validate", "failed"}
  BY DEF SameJob, Callback
<1>3. BooksTyped'
  BY DEF InFlight, BooksTyped, SameJob
<1>4. Clean(saved, Executors)'
  BY <1>1 DEF InFlight, Clean
<1>5. Measured'
  BY <1>1, SameTerms DEF InFlight, Measured, SameJob
<1>6. Clean(books, Executors \ {Self})'
  BY <1>1, SameTerms DEF InFlight, Advancing, Clean, SameJob
<1>7. job'.stage \in {"finish", "return"} => PostState(d0, job.pre, Now, job.supplied, job.borrow)'
  <2>1. PostState(d0, job.pre, Now', job'.supplied, job.borrow) =>
          PostState(d0, job.pre, Now, job.supplied, job.borrow)'
    BY SameTerms DEF PostState, HealthFactor, LeverageBps, LeverageBase
  <2> QED
    BY <2>1
<1>8. Advancing'
  BY <1>6, <1>7, SameTerms DEF Advancing
<1> QED
  BY <1>2, <1>3, <1>4, <1>5, <1>8 DEF InFlight

LEMMA Measures ==
  ASSUME AuthorizationAssumption, ExecutorAssumption, JobSound, InFlight, job.stage \in Callback
  PROVE  /\ job \in Jobs /\ books \in Books /\ saved \in Books /\ log.donated \in [Executors -> Nat]
         /\ d0 \in Digests /\ d0.owner \in Owners /\ d0.owner \in Holders /\ Self # d0.owner
         /\ Self \in Executors /\ Self \in Holders /\ Executors \subseteq Holders
         /\ job.pre \in Position /\ job.flash \in Nat /\ job.borrow \in Nat
         /\ job.repay \in 0 .. job.pre.debt /\ job.withdraw \in Nat
         /\ job.pre = saved.position[d0.owner]
         /\ DebtReducing(d0) => job.flash = job.repay /\ job.borrow = 0
         /\ ~DebtReducing(d0) => job.flash = FlashPrincipal(job.borrow)
         /\ FlashFee(job.flash) \in Nat
<1>1. job.stage \notin {"idle", "owner"}
  BY DEF Callback
<1>2. job \in Jobs /\ books \in Books /\ saved \in Books /\ log.donated \in [Executors -> Nat]
  BY DEF InFlight, BooksTyped, Logs
<1>3. job.pre = saved.position[d0.owner] /\ job.pre \in Position
  BY <1>1, <1>2, Executing DEF InFlight, Measured, Books
<1>4. job.pre.debt \in Nat /\ job.pre.collateral \in Nat
  BY <1>3 DEF Position
<1>5. job.flash \in Nat /\ FlashFee(job.flash) \in Nat
  BY <1>2, FeeNat DEF Jobs
<1>6. /\ d0 \in Digests /\ d0.type # "REVOKE"
      /\ d0.owner \in Owners /\ d0.owner \in Holders /\ Self # d0.owner
      /\ Self \in Executors /\ Self \in Holders /\ Executors \subseteq Holders
  BY <1>1, Executing DEF Holders
<1>7. /\ job.flash = FlashAmount(d0, job.pre.debt) /\ job.borrow = BorrowAmount(d0)
      /\ job.repay = RepayAmount(d0, job.pre.debt) /\ job.withdraw = WithdrawAmount(d0, job.pre.collateral)
  BY DEF InFlight, Measured
<1>8. /\ job.borrow \in Nat /\ job.repay \in 0 .. job.pre.debt /\ job.withdraw \in Nat
      /\ DebtReducing(d0) => job.flash = job.repay /\ job.borrow = 0
      /\ ~DebtReducing(d0) => job.flash = FlashPrincipal(job.borrow)
  BY <1>4, <1>6, <1>7, AmountsTyped
<1> QED
  BY <1>2, <1>3, <1>5, <1>6, <1>8

LEMMA InFlightSupply ==
  ASSUME AuthorizationAssumption, ExecutorAssumption, JobSound, InFlight, FrameDepth', SupplyStep
  PROVE  InFlight'
<1>1. job.stage = "supply" /\ job.stage \in Callback
  BY DEF SupplyStep, Callback, Stages
<1>0. /\ job \in Jobs /\ d0.owner \in Holders /\ d0.owner \notin Executors
      /\ Self \in Executors /\ Self \in Holders /\ Executors \subseteq Holders
      /\ job.flash \in Nat /\ d0.owner \in Owners /\ Bounds[d0] \in BoundsType
  BY <1>1, Measures, Executing
<1>2. PICK price \in VaultPrices :
        LET equity == Bounds[d0].equity
            minted == (job.flash * Unit) \div price
        IN /\ equity <= books.wst[d0.owner]
           /\ books' = [books EXCEPT !.wst = Debit(@, d0.owner, equity),
                                     !.diem = Debit(@, Self, job.flash),
                                     !.position[d0.owner].collateral = @ + equity + minted]
           /\ job' = [job EXCEPT !.stage = "borrow", !.supplied = equity + minted]
  BY DEF SupplyStep
<1> DEFINE equity == Bounds[d0].equity
           minted == (job.flash * Unit) \div price
           wst == Debit(books.wst, d0.owner, equity)
           diem == Debit(books.diem, Self, job.flash)
           position == [books.position EXCEPT ![d0.owner].collateral = @ + equity + minted]
<1>3. equity \in Nat /\ minted \in Nat
  <2>1. job.flash * Unit \in Nat /\ price \in Nat \ {0}
    BY <1>0, ProductNat DEF ExecutorAssumption
  <2> QED
    BY <1>0, <2>1, QuotientNat DEF BoundsType
<1> HIDE DEF equity, minted
<1>4. job' = [job EXCEPT !.stage = "borrow", !.supplied = equity + minted]
  BY <1>2 DEF equity, minted
<1>5. SameJob
  <2>1. "borrow" \in Stages /\ "borrow" \in Callback /\ equity + minted \in Nat
    BY <1>3 DEF Stages, Callback
  <2> QED
    BY <1>0, <1>1, <1>4, <2>1 DEF SameJob, Jobs
<1>6. Drawing /\ books.wst[Self] = 0 /\ books.diem[Self] = log.donated[Self] + job.flash
  BY <1>1 DEF InFlight, Advancing, Drawing, Held
<1>7. /\ books.wst \in [Holders -> Nat] /\ books.diem \in [Holders -> Nat]
      /\ books.position \in [Owners -> Position] /\ log.donated[Self] \in Nat
  BY <1>1, Measures DEF Books
<1>8. /\ wst \in [Holders -> Nat] /\ \A e \in Executors : wst[e] = books.wst[e]
      /\ diem \in [Holders -> Nat] /\ diem[Self] = log.donated[Self]
      /\ \A e \in Executors \ {Self} : diem[e] = books.diem[e]
  <2>1. equity <= books.wst[d0.owner] /\ job.flash <= books.diem[Self]
    BY <1>1, <1>2, <1>6, <1>7, Measures DEF equity
  <2>2. /\ wst \in [Holders -> Nat] /\ \A e \in Holders \ {d0.owner} : wst[e] = books.wst[e]
    BY <1>0, <1>3, <1>7, <2>1 DEF Debit
  <2>3. /\ diem \in [Holders -> Nat] /\ diem[Self] = books.diem[Self] - job.flash
        /\ \A e \in Holders \ {Self} : diem[e] = books.diem[e]
    BY <1>0, <1>7, <2>1 DEF Debit
  <2> QED
    BY <1>0, <1>6, <1>7, <2>2, <2>3
<1>9. position \in [Owners -> Position] /\ position[d0.owner].debt = books.position[d0.owner].debt
  BY <1>1, <1>3, <1>7, Measures DEF Position
<1>10. /\ books' \in Books /\ books'.wst = wst /\ books'.diem = diem
       /\ books'.position = position
  <2>1. books' = [books EXCEPT !.wst = wst, !.diem = diem, !.position = position]
    BY <1>1, <1>2, Measures DEF Books, equity, minted
  <2> HIDE DEF wst, diem, position
  <2> QED
    BY <1>1, <1>8, <1>9, <2>1, Measures DEF Books
<1> HIDE DEF wst, diem, position
<1>11. Drawing'
  <2>1. job'.stage = "borrow"
    BY <1>1, <1>4, Measures DEF Jobs
  <2>2. /\ d0' = d0 /\ Self' = Self /\ job'.pre = job.pre /\ log' = log
        /\ Now' = position[d0.owner]
    BY <1>5, <1>10, SameTerms DEF SupplyStep
  <2>3. ~DebtReducing(d0) /\ position[d0.owner].debt = job.pre.debt
    BY <1>1, <1>6, <1>9 DEF Drawing, Now
  <2> QED
    BY <1>6, <1>8, <1>10, <1>0, <2>1, <2>2, <2>3 DEF Drawing, Held
<1>12. job'.stage = "borrow" /\ UNCHANGED <<saved, throttle, world, log>>
  BY <1>1, <1>4, Measures DEF Jobs, SupplyStep
<1> QED
  BY <1>5, <1>8, <1>10, <1>11, <1>12, CallbackStep

LEMMA InFlightBorrow ==
  ASSUME AuthorizationAssumption, ExecutorAssumption, JobSound, InFlight, FrameDepth', BorrowStep
  PROVE  InFlight'
<1>1. job.stage = "borrow" /\ job.stage \in Callback
  BY DEF BorrowStep, Callback, Stages
<1> DEFINE diem == Credit(books.diem, Self, job.borrow)
           position == [books.position EXCEPT ![d0.owner].debt = @ + job.borrow]
<1>2. job' = [job EXCEPT !.stage = "settle"] /\ UNCHANGED <<saved, throttle, world, log>>
  BY DEF BorrowStep
<1>3. SameJob /\ job'.stage = "settle"
  BY <1>1, <1>2, Measures DEF SameJob, Jobs, Callback, Stages
<1>4. /\ Drawing /\ books.wst[Self] = 0 /\ books.diem[Self] = log.donated[Self]
      /\ books.position[d0.owner].debt = job.pre.debt
  BY <1>1 DEF InFlight, Advancing, Drawing, Held, Now
<1>5. /\ books.diem \in [Holders -> Nat] /\ books.position \in [Owners -> Position]
  BY <1>1, Measures DEF Books
<1>6. /\ diem \in [Holders -> Nat] /\ diem[Self] = log.donated[Self] + job.borrow
      /\ \A e \in Executors \ {Self} : diem[e] = books.diem[e]
  BY <1>1, <1>4, <1>5, Measures DEF Credit
<1>7. position \in [Owners -> Position] /\ position[d0.owner].debt = job.pre.debt + job.borrow
  BY <1>1, <1>4, <1>5, Measures DEF Position
<1>8. books' \in Books /\ books'.wst = books.wst /\ books'.diem = diem /\ books'.position = position
  <2>1. books' = [books EXCEPT !.diem = diem, !.position = position]
    BY <1>1, Measures DEF Books, BorrowStep
  <2> HIDE DEF diem, position
  <2> QED
    BY <1>1, <1>6, <1>7, <2>1, Measures DEF Books
<1> HIDE DEF diem, position
<1>9. Drawing'
  BY <1>1, <1>3, <1>4, <1>6, <1>7, <1>8, <1>2, SameTerms, Measures DEF Drawing, Held, Now
<1> QED
  BY <1>2, <1>3, <1>6, <1>8, <1>9, CallbackStep

LEMMA InFlightRepay ==
  ASSUME AuthorizationAssumption, ExecutorAssumption, JobSound, InFlight, FrameDepth', RepayStep
  PROVE  InFlight'
<1>1. job.stage = "repay" /\ job.stage \in Callback
  BY DEF RepayStep, Callback, Stages
<1>2. /\ job \in Jobs /\ books \in Books /\ d0.owner \in Owners /\ d0.owner \in Holders
      /\ Self \in Executors /\ Self \in Holders /\ Executors \subseteq Holders
      /\ d0.owner \notin Executors /\ job.pre \in Position /\ job.repay \in 0 .. job.pre.debt
      /\ job.flash = job.repay \/ ~DebtReducing(d0)
      /\ log.donated[Self] \in Nat /\ Owed \in Nat
  BY <1>1, Measures, Executing DEF Owed
<1> DEFINE diem == Debit(books.diem, Self, job.repay)
           position == [books.position EXCEPT ![d0.owner].debt = @ - job.repay]
           next == IF job.withdraw = 0 /\ d0.type # "FORCE_EXIT" THEN "settle" ELSE "withdraw"
<1>3. job' = [job EXCEPT !.stage = next] /\ UNCHANGED <<saved, throttle, world, log>>
  BY DEF RepayStep
<1>4. next \in Stages /\ next \in Callback
  BY DEF Stages, Callback
<1>5. SameJob /\ job'.stage = next
  <2> HIDE DEF next
  <2> QED
    BY <1>1, <1>2, <1>3, <1>4 DEF SameJob, Jobs
<1>6. /\ DebtReducing(d0) /\ books.wst[Self] = 0
      /\ books.diem[Self] = log.donated[Self] + job.flash
      /\ books.position[d0.owner] = job.pre
      /\ books.wst[d0.owner] = saved.wst[d0.owner] /\ books.diem[d0.owner] = saved.diem[d0.owner]
  BY <1>1 DEF InFlight, Advancing, Unwinding, Held, Now
<1>7. /\ diem \in [Holders -> Nat] /\ diem[Self] = log.donated[Self]
      /\ \A h \in Holders \ {Self} : diem[h] = books.diem[h]
  BY <1>2, <1>6 DEF Books, Debit
<1>8. /\ position \in [Owners -> Position]
      /\ position[d0.owner].debt = job.pre.debt - job.repay
      /\ position[d0.owner].collateral = job.pre.collateral
  BY <1>2, <1>6 DEF Books, Position
<1>9. books' \in Books /\ books'.wst = books.wst /\ books'.diem = diem /\ books'.position = position
  <2>1. books' = [books EXCEPT !.diem = diem, !.position = position]
    BY <1>2 DEF Books, RepayStep
  <2> HIDE DEF diem, position
  <2> QED
    BY <1>2, <1>7, <1>8, <2>1 DEF Books
<1> HIDE DEF diem, position
<1>10. Unwinding'
  <2>1. /\ d0' = d0 /\ Self' = Self /\ job'.pre = job.pre /\ log' = log /\ saved' = saved
        /\ job'.repay = job.repay /\ job'.withdraw = job.withdraw
        /\ Now' = position[d0.owner] /\ Owed' = Owed
    BY <1>3, <1>5, <1>9, SameTerms
  <2>2. next \in {"settle", "withdraw"} /\ (next = "settle" => job.withdraw = 0)
    OBVIOUS
  <2> HIDE DEF next
  <2>3. next = "settle" => SoldWithinSlippage'
    <3>1. Bounds[d0].slippageBps \in Nat
      BY <1>1, Executing DEF BoundsType, Callback
    <3> QED
      BY <1>2, <1>5, <1>7, <1>9, <2>1, <2>2, <3>1 DEF SoldWithinSlippage, Received
  <2> QED
    BY <1>2, <1>5, <1>6, <1>7, <1>8, <1>9, <2>1, <2>2, <2>3 DEF Unwinding, Held, Jobs, Position
<1> QED
  BY <1>2, <1>3, <1>5, <1>7, <1>9, <1>10, CallbackStep

LEMMA InFlightWithdraw ==
  ASSUME AuthorizationAssumption, ExecutorAssumption, JobSound, InFlight, FrameDepth', WithdrawStep
  PROVE  InFlight'
<1>1. job.stage = "withdraw" /\ job.stage \in Callback
  BY DEF WithdrawStep, Callback, Stages
<1>2. /\ job \in Jobs /\ books \in Books /\ d0.owner \in Owners /\ d0.owner \in Holders
      /\ Self \in Executors /\ Self \in Holders /\ Executors \subseteq Holders
      /\ d0.owner \notin Executors /\ job.pre \in Position /\ job.withdraw \in Nat
  BY <1>1, Measures, Executing
<1> DEFINE wst == Credit(books.wst, Self, job.withdraw)
           position == [books.position EXCEPT ![d0.owner].collateral = @ - job.withdraw]
<1>3. /\ job' = [job EXCEPT !.stage = "swap"] /\ UNCHANGED <<saved, throttle, world, log>>
      /\ job.withdraw <= books.position[d0.owner].collateral
  BY <1>2 DEF WithdrawStep, Now, Books, Position
<1>4. SameJob /\ job'.stage = "swap"
  BY <1>1, <1>2, <1>3 DEF SameJob, Jobs, Callback, Stages
<1>5. /\ DebtReducing(d0) /\ books.wst[Self] = 0 /\ books.diem[Self] = log.donated[Self]
      /\ books.position[d0.owner].debt = job.pre.debt - job.repay
      /\ books.position[d0.owner].collateral = job.pre.collateral
      /\ books.wst[d0.owner] = saved.wst[d0.owner] /\ books.diem[d0.owner] = saved.diem[d0.owner]
  BY <1>1 DEF InFlight, Advancing, Unwinding, Held, Now
<1>6. /\ wst \in [Holders -> Nat] /\ wst[Self] = job.withdraw
      /\ \A h \in Holders \ {Self} : wst[h] = books.wst[h]
  BY <1>2, <1>5 DEF Books, Credit
<1>7. /\ position \in [Owners -> Position]
      /\ position[d0.owner].debt = job.pre.debt - job.repay
      /\ position[d0.owner].collateral = job.pre.collateral - job.withdraw
  BY <1>2, <1>3, <1>5 DEF Books, Position
<1>8. books' \in Books /\ books'.wst = wst /\ books'.diem = books.diem /\ books'.position = position
  <2>1. books' = [books EXCEPT !.wst = wst, !.position = position]
    BY <1>2 DEF Books, WithdrawStep
  <2> HIDE DEF wst, position
  <2> QED
    BY <1>2, <1>6, <1>7, <2>1 DEF Books
<1> HIDE DEF wst, position
<1>9. Unwinding'
  <2>1. /\ d0' = d0 /\ Self' = Self /\ job'.pre = job.pre /\ log' = log /\ saved' = saved
        /\ job'.repay = job.repay /\ job'.withdraw = job.withdraw
        /\ Now' = position[d0.owner]
    BY <1>3, <1>4, <1>8, SameTerms
  <2> QED
    BY <1>2, <1>4, <1>5, <1>6, <1>7, <1>8, <2>1 DEF Unwinding, Held
<1> QED
  BY <1>2, <1>3, <1>4, <1>6, <1>8, <1>9, CallbackStep

LEMMA InFlightSwap ==
  ASSUME AuthorizationAssumption, ExecutorAssumption, JobSound, InFlight, FrameDepth', SwapStep
  PROVE  InFlight'
<1>1. job.stage = "swap" /\ job.stage \in Callback
  BY DEF SwapStep, Callback, Stages
<1>2. /\ job \in Jobs /\ books \in Books /\ d0.owner \in Owners /\ d0.owner \in Holders
      /\ Self \in Executors /\ Self \in Holders /\ Executors \subseteq Holders
      /\ d0.owner \notin Executors /\ job.withdraw \in Nat /\ Bounds[d0] \in BoundsType
      /\ log.donated[Self] \in Nat /\ Owed \in Nat
  BY <1>1, Measures, Executing DEF Owed, Callback
<1>3. PICK price \in CurvePrices :
        LET received == (job.withdraw * price) \div Unit IN
        /\ received >= MinimumOutput(d0) /\ WithinSlippage(d0, job.withdraw, received)
        /\ books' = [books EXCEPT !.wst = Debit(@, Self, job.withdraw),
                                  !.diem = Credit(@, Self, received)]
  BY DEF SwapStep
<1> DEFINE received == (job.withdraw * price) \div Unit
           wst == Debit(books.wst, Self, job.withdraw)
           diem == Credit(books.diem, Self, received)
<1>4. received \in Nat /\ (job.withdraw = 0 => received = 0)
  <2>1. job.withdraw * price \in Nat /\ (job.withdraw = 0 => job.withdraw * price = 0)
    BY <1>2, ProductNat DEF ExecutorAssumption
  <2> QED
    BY <2>1, QuotientNat DEF ExecutorAssumption
<1>5. received >= Owed /\ WithinSlippage(d0, job.withdraw, received)
  BY <1>2, <1>3, <1>4 DEF MinimumOutput, Owed, BoundsType, Jobs
<1> HIDE DEF received
<1>6. job' = [job EXCEPT !.stage = "settle"] /\ UNCHANGED <<saved, throttle, world, log>>
  BY DEF SwapStep
<1>7. SameJob /\ job'.stage = "settle"
  BY <1>1, <1>2, <1>6 DEF SameJob, Jobs, Callback, Stages
<1>8. /\ DebtReducing(d0) /\ books.wst[Self] = job.withdraw /\ books.diem[Self] = log.donated[Self]
      /\ books.position[d0.owner].debt = job.pre.debt - job.repay
      /\ books.position[d0.owner].collateral = job.pre.collateral - job.withdraw
      /\ books.wst[d0.owner] = saved.wst[d0.owner] /\ books.diem[d0.owner] = saved.diem[d0.owner]
  BY <1>1 DEF InFlight, Advancing, Unwinding, Held, Now
<1>9. /\ wst \in [Holders -> Nat] /\ wst[Self] = 0
      /\ \A h \in Holders \ {Self} : wst[h] = books.wst[h]
  BY <1>2, <1>8 DEF Books, Debit
<1>10. /\ diem \in [Holders -> Nat] /\ diem[Self] = log.donated[Self] + received
       /\ \A h \in Holders \ {Self} : diem[h] = books.diem[h]
  BY <1>2, <1>4, <1>8 DEF Books, Credit
<1>11. books' \in Books /\ books'.wst = wst /\ books'.diem = diem /\ books'.position = books.position
  <2>1. books' = [books EXCEPT !.wst = wst, !.diem = diem]
    BY <1>2, <1>3 DEF Books, received
  <2> HIDE DEF wst, diem
  <2> QED
    BY <1>2, <1>9, <1>10, <2>1 DEF Books
<1> HIDE DEF wst, diem
<1>12. Bounds[d0].slippageBps # 0 =>
         (job.withdraw - received) * 10000 <= job.withdraw * Bounds[d0].slippageBps
  <2> DEFINE limit == job.withdraw * Bounds[d0].slippageBps
  <2>1. limit \in Nat
    BY <1>2, ProductNat DEF BoundsType
  <2>2. ASSUME Bounds[d0].slippageBps # 0, job.withdraw # 0
        PROVE  (IF received > job.withdraw THEN received - job.withdraw ELSE job.withdraw - received)
                 * 10000 <= limit
    BY <1>5, <2>2 DEF WithinSlippage
  <2> HIDE DEF limit
  <2>3. Bounds[d0].slippageBps # 0 => (job.withdraw - received) * 10000 <= limit
    BY <1>2, <1>4, <2>1, <2>2
  <2> QED
    BY <2>3 DEF limit
<1>13. Unwinding'
  <2>1. /\ d0' = d0 /\ Self' = Self /\ job'.pre = job.pre /\ log' = log /\ saved' = saved
        /\ job'.repay = job.repay /\ job'.withdraw = job.withdraw /\ Owed' = Owed
        /\ Now' = books.position[d0.owner]
    BY <1>6, <1>7, <1>11, SameTerms
  <2>2. Received' = received
    BY <1>2, <1>4, <1>7, <1>10, <1>11, <2>1 DEF Received
  <2>3. SoldWithinSlippage'
    BY <1>12, <2>1, <2>2 DEF SoldWithinSlippage
  <2> QED
    BY <1>2, <1>4, <1>5, <1>7, <1>8, <1>9, <1>10, <1>11, <2>1, <2>3 DEF Unwinding, Held
<1> QED
  BY <1>2, <1>6, <1>7, <1>9, <1>10, <1>11, <1>13, CallbackStep

LEMMA InFlightSettle ==
  ASSUME AuthorizationAssumption, ExecutorAssumption, JobSound, InFlight, FrameDepth', SettleFlash
  PROVE  InFlight'
<1>1. job.stage = "settle" /\ job.stage \in Callback
  BY DEF SettleFlash, Callback, Stages
<1>2. /\ job \in Jobs /\ books \in Books /\ d0.owner \in Owners /\ d0.owner \in Holders
      /\ Self \in Executors /\ Self \in Holders /\ Executors \subseteq Holders
      /\ d0.owner \notin Executors /\ log.donated[Self] \in Nat /\ Owed \in Nat
  BY <1>1, Measures, Executing DEF Owed, Callback
<1> DEFINE diem == Debit(books.diem, Self, Owed)
<1>3. /\ job' = [job EXCEPT !.stage = "finish"] /\ UNCHANGED <<saved, throttle, world, log>>
      /\ PostState(d0, job.pre, Now, job.supplied, job.borrow) /\ Owed <= books.diem[Self]
  BY <1>2 DEF SettleFlash, Owed, Books
<1>4. SameJob /\ job'.stage = "finish" /\ job'.supplied = job.supplied
  BY <1>1, <1>2, <1>3 DEF SameJob, Jobs, Callback, Stages
<1>5. /\ diem \in [Holders -> Nat] /\ diem[Self] = books.diem[Self] - Owed
      /\ \A h \in Holders \ {Self} : diem[h] = books.diem[h]
  BY <1>2, <1>3 DEF Books, Debit
<1>6. books' \in Books /\ books'.wst = books.wst /\ books'.diem = diem /\ books'.position = books.position
  <2>1. books' = [books EXCEPT !.diem = diem]
    BY <1>2 DEF Books, SettleFlash, Owed
  <2> HIDE DEF diem
  <2> QED
    BY <1>2, <1>5, <2>1 DEF Books
<1> HIDE DEF diem
<1>7. /\ d0' = d0 /\ Self' = Self /\ job'.pre = job.pre /\ log' = log /\ saved' = saved
      /\ job'.repay = job.repay /\ job'.withdraw = job.withdraw /\ job'.borrow = job.borrow
      /\ Owed' = Owed /\ Now' = Now
  BY <1>3, <1>4, <1>6, SameTerms DEF Now
<1>8. books.wst[Self] = 0
  BY <1>1 DEF InFlight, Advancing, Drawing, Unwinding, Held
<1>9. CASE Drawing
  <2>1. Drawing'
    BY <1>1, <1>4, <1>7, <1>9 DEF Drawing
  <2> QED
    BY <1>2, <1>3, <1>4, <1>5, <1>6, <1>7, <1>8, <2>1, CallbackStep
<1>10. CASE Unwinding
  <2>1. books.diem[Self] \in Nat
    BY <1>2 DEF Books
  <2>2. Received' = Received
    BY <1>1, <1>2, <1>4, <1>5, <1>6, <1>7, <2>1 DEF Received
  <2>3. SoldWithinSlippage'
    BY <1>1, <1>7, <1>10, <2>2 DEF SoldWithinSlippage, Unwinding
  <2>4. Unwinding'
    BY <1>1, <1>2, <1>4, <1>5, <1>6, <1>7, <1>10, <2>3 DEF Unwinding
  <2> QED
    BY <1>2, <1>3, <1>4, <1>5, <1>6, <1>7, <1>8, <2>4, CallbackStep
<1> QED
  BY <1>1, <1>9, <1>10 DEF InFlight, Advancing

LEMMA InFlightFinish ==
  ASSUME AuthorizationAssumption, ExecutorAssumption, JobSound, InFlight, FrameDepth', Finish
  PROVE  InFlight'
<1>1. job.stage = "finish" /\ job.stage \in Callback
  BY DEF Finish, Callback, Stages
<1>2. /\ job \in Jobs /\ books \in Books /\ saved \in Books
      /\ d0.owner \in Owners /\ d0.owner \in Holders
      /\ Self \in Executors /\ Self \in Holders /\ Executors \subseteq Holders /\ Self # d0.owner
      /\ d0.owner \notin Executors /\ log.donated[Self] \in Nat /\ Owed \in Nat
  BY <1>1, Measures, Executing DEF Owed, Callback
<1> DEFINE diem == [books.diem EXCEPT ![Self] = 0, ![d0.owner] = @ + books.diem[Self]]
           wst == [books.wst EXCEPT ![Self] = 0, ![d0.owner] = @ + books.wst[Self]]
<1>3. /\ job' = [job EXCEPT !.stage = "return"] /\ UNCHANGED <<saved, throttle, world, log>>
  BY DEF Finish
<1>4. SameJob /\ job'.stage = "return" /\ job'.supplied = job.supplied
  BY <1>1, <1>2, <1>3 DEF SameJob, Jobs, Callback, Stages
<1>5. books.wst[Self] = 0 /\ PostState(d0, job.pre, Now, job.supplied, job.borrow)
  BY <1>1 DEF InFlight, Advancing
<1>6. /\ diem \in [Holders -> Nat] /\ diem[Self] = 0
      /\ diem[d0.owner] = books.diem[d0.owner] + books.diem[Self]
      /\ \A e \in Executors \ {Self} : diem[e] = books.diem[e]
  BY <1>2 DEF Books
<1>7. /\ wst \in [Holders -> Nat] /\ wst[Self] = 0 /\ wst[d0.owner] = books.wst[d0.owner]
      /\ \A e \in Executors \ {Self} : wst[e] = books.wst[e]
  BY <1>2, <1>5 DEF Books
<1>8. books' \in Books /\ books'.wst = wst /\ books'.diem = diem /\ books'.position = books.position
  <2>1. books' = [books EXCEPT !.diem = diem, !.wst = wst]
    BY DEF Finish, Swept
  <2> HIDE DEF diem, wst
  <2> QED
    BY <1>2, <1>6, <1>7, <2>1 DEF Books
<1> HIDE DEF diem, wst
<1>9. /\ d0' = d0 /\ Self' = Self /\ job'.pre = job.pre /\ log' = log /\ saved' = saved
      /\ job'.repay = job.repay /\ job'.withdraw = job.withdraw /\ job'.borrow = job.borrow
      /\ Owed' = Owed /\ Now' = Now
  BY <1>3, <1>4, <1>8, SameTerms DEF Now
<1>10. CASE Drawing
  <2>1. Drawing'
    BY <1>1, <1>4, <1>9, <1>10 DEF Drawing
  <2> QED
    BY <1>2, <1>3, <1>4, <1>5, <1>6, <1>7, <1>8, <1>9, <2>1, CallbackStep
<1>11. CASE Unwinding
  <2>1. books.diem[Self] \in Nat /\ books.diem[d0.owner] \in Nat /\ saved.diem[d0.owner] \in Nat
    BY <1>2 DEF Books
  <2>2. Received' = Received
    BY <1>1, <1>2, <1>4, <1>6, <1>8, <1>9, <1>11, <2>1 DEF Received, Unwinding
  <2>3. SoldWithinSlippage'
    BY <1>1, <1>9, <1>11, <2>2 DEF SoldWithinSlippage, Unwinding
  <2>4. Unwinding'
    BY <1>1, <1>4, <1>7, <1>8, <1>9, <1>11, <2>3 DEF Unwinding
  <2> QED
    BY <1>2, <1>3, <1>4, <1>5, <1>6, <1>7, <1>8, <1>9, <2>4, CallbackStep
<1> QED
  BY <1>1, <1>10, <1>11 DEF InFlight, Advancing

LEMMA InFlightValidate ==
  ASSUME AuthorizationAssumption, ExecutorAssumption, JobSound, InFlight, FrameDepth',
         ValidateAndFlash
  PROVE  InFlight'
<1>1. job.stage = "validate"
  BY DEF ValidateAndFlash
<1>2. /\ d0 \in Digests /\ d0.type # "REVOKE" /\ d0.owner \in Owners /\ d0.owner \in Holders
      /\ Self \in Executors /\ Self \in Holders /\ d0.owner \notin Executors
  BY <1>1, Executing
<1>3. /\ job \in Jobs /\ books \in Books /\ saved = books /\ Clean(saved, Executors)
      /\ log.donated[Self] \in Nat /\ BooksTyped
  BY <1>1, <1>2 DEF InFlight, BooksTyped, Logs
<1> DEFINE flash == FlashAmount(d0, Now.debt)
           repay == RepayAmount(d0, Now.debt)
           withdraw == WithdrawAmount(d0, Now.collateral)
           next == IF DebtReducing(d0) THEN "repay" ELSE "supply"
           diem == Credit(books.diem, Self, flash)
<1>4. Now \in Position /\ Now.debt \in Nat /\ Now.collateral \in Nat
  BY <1>2, <1>3 DEF Now, Books, Position
<1>5. flash \in Nat /\ repay \in Nat /\ withdraw \in Nat /\ BorrowAmount(d0) \in Nat
  BY <1>2, <1>4, AmountsTyped
<1>6. /\ job' = [job EXCEPT !.pre = Now, !.flash = flash, !.borrow = BorrowAmount(d0),
                            !.repay = repay, !.withdraw = withdraw, !.stage = next]
      /\ UNCHANGED <<saved, throttle, world, log>>
  BY DEF ValidateAndFlash
<1>7. /\ next \in {"repay", "supply"} /\ next \in Stages /\ next \in Callback
      /\ (next = "repay" <=> DebtReducing(d0))
  BY DEF Stages, Callback
<1> HIDE DEF flash, repay, withdraw, next
<1>8. job' \in Jobs /\ job'.stage = next /\ job'.digest = job.digest
  BY <1>3, <1>4, <1>5, <1>6, <1>7 DEF Jobs
<1>9. /\ job'.pre = Now /\ job'.flash = flash /\ job'.borrow = BorrowAmount(d0)
      /\ job'.repay = repay /\ job'.withdraw = withdraw
  BY <1>3, <1>6 DEF Jobs
<1>10. /\ diem \in [Holders -> Nat] /\ diem[Self] = books.diem[Self] + flash
       /\ \A h \in Holders \ {Self} : diem[h] = books.diem[h]
  BY <1>2, <1>3, <1>5 DEF Books, Credit
<1>11. books' \in Books /\ books'.wst = books.wst /\ books'.diem = diem /\ books'.position = books.position
  <2>1. books' = [books EXCEPT !.diem = diem]
    BY <1>3 DEF Books, ValidateAndFlash, flash
  <2> HIDE DEF diem
  <2> QED
    BY <1>3, <1>10, <2>1 DEF Books
<1> HIDE DEF diem
<1>12. d0' = d0 /\ Self' = Self /\ Now' = Now /\ log' = log /\ saved' = saved
  BY <1>6, <1>8, <1>11 DEF d0, Self, Now
<1>13. BooksTyped'
  BY <1>3, <1>6, <1>8, <1>11 DEF BooksTyped
<1>14. Measured'
  BY <1>3, <1>9, <1>12 DEF Measured, Now, flash, repay, withdraw
<1>15. books.wst[Self] = 0 /\ books.diem[Self] = log.donated[Self]
  BY <1>2, <1>3 DEF Clean
<1>16. IF DebtReducing(d0) THEN Unwinding' ELSE Drawing'
  <2>1. CASE DebtReducing(d0)
    BY <1>2, <1>3, <1>7, <1>8, <1>9, <1>10, <1>11, <1>12, <1>15, <2>1 DEF Unwinding, Held
  <2>2. CASE ~DebtReducing(d0)
    BY <1>2, <1>3, <1>7, <1>8, <1>9, <1>10, <1>11, <1>12, <1>15, <2>2 DEF Drawing, Held
  <2> QED
    BY <2>1, <2>2
<1>17. Clean(books, Executors \ {Self})'
  BY <1>2, <1>3, <1>10, <1>11, <1>12 DEF Clean, Holders
<1>18. Advancing'
  BY <1>7, <1>8, <1>16, <1>17 DEF Advancing
<1>19. Clean(saved, Executors)'
  BY <1>3, <1>12 DEF Clean
<1> QED
  BY <1>7, <1>8, <1>13, <1>14, <1>18, <1>19 DEF InFlight

LEMMA InFlightInit ==
  ASSUME AuthorizationAssumption, ExecutorAssumption, ExecutorInit
  PROVE  InFlight
<1>1. /\ job = NoJob /\ saved = books /\ world \in Worlds /\ frames = <<>>
      /\ books = [position |-> InitialPositions, diem |-> [h \in Holders |-> 0],
                  wst |-> [h \in Holders |-> IF h \in Owners THEN InitialWealth[h] ELSE 0]]
      /\ throttle = [e \in Executors |-> [id \in PolicyIds |-> NoFailures]]
      /\ log = [failures |-> {}, succeeded |-> [k \in NonceKeys |-> 0],
                donated |-> [e \in Executors |-> 0]]
  BY DEF ExecutorInit, Init
<1>2. job \in Jobs
  BY <1>1 DEF NoJob, Jobs, Stages, ZeroPosition, Position
<1>3. books \in Books
  BY <1>1 DEF Books, ExecutorAssumption
<1>4. throttle \in [Executors -> [PolicyIds -> Counters]]
  BY <1>1 DEF NoFailures, Counters
<1>5. log \in Logs /\ IsFiniteSet(log.failures)
  BY <1>1, FS_EmptySet DEF Logs
<1>6. Clean(books, Executors)
  BY <1>1 DEF Clean, ExecutorAssumption, Holders
<1>7. job.stage = "idle"
  BY <1>1 DEF NoJob
<1> QED
  BY <1>1, <1>2, <1>3, <1>4, <1>5, <1>6, <1>7
  DEF InFlight, BooksTyped, FrameDepth, Measured, Advancing, Callback

(* Outside the callback nothing but the stage constrains the books.         *)
LEMMA OutsideCallback ==
  ASSUME BooksTyped', FrameDepth', job'.stage \notin Callback,
         job'.stage \in {"idle", "owner"} => Clean(books, Executors)',
         job'.stage \notin {"idle", "owner"} => Clean(saved, Executors)' /\ books' = saved'
  PROVE  InFlight'
BY DEF InFlight, Measured, Advancing

LEMMA InFlightEnter ==
  ASSUME AuthorizationAssumption, ExecutorAssumption, JobSound, InFlight, FrameDepth', Submit
  PROVE  InFlight'
<1>1. PICK stage \in {"validate", "attempt"}, d \in Digests, sender \in Addresses \cup {Null} :
        /\ job' = Entered(d, sender, stage) /\ job.stage = "idle"
        /\ saved' = books /\ UNCHANGED <<books, throttle, world, log>>
  BY DEF Submit, ExecuteOpen, ExecuteRebalance, ExecuteExit, ExecuteAutomationExec,
         ExecuteForceExit, Enter
<1>2. job' \in Jobs /\ job'.stage = stage
  BY <1>1 DEF Entered, NoJob, Jobs, Stages, ZeroPosition, Position
<1>3. BooksTyped' /\ Clean(saved, Executors)'
  BY <1>1, <1>2 DEF InFlight, BooksTyped, Clean
<1> QED
  BY <1>1, <1>2, <1>3, OutsideCallback DEF Callback

LEMMA InFlightReturn ==
  ASSUME AuthorizationAssumption, ExecutorAssumption, JobSound, InFlight, FrameDepth',
         ReturnSuccess
  PROVE  InFlight'
<1>1. job.stage = "return" /\ job.stage \in Callback
  BY DEF ReturnSuccess, Callback, Stages
<1>2. /\ Self \in Executors /\ CounterId \in PolicyIds /\ NonceKey(d0) \in NonceKeys
  BY <1>1, Executing
<1>3. /\ job' = NoJob /\ UNCHANGED <<books, saved, world>>
      /\ throttle' = IF Counted THEN [throttle EXCEPT ![Self][CounterId] = NoFailures] ELSE throttle
  BY DEF ReturnSuccess
<1>4. job' \in Jobs /\ job'.stage = "idle"
  BY <1>3 DEF NoJob, Jobs, Stages, ZeroPosition, Position
<1>5. throttle' \in [Executors -> [PolicyIds -> Counters]]
  <2>1. NoFailures \in Counters
    BY DEF NoFailures, Counters
  <2> QED
    BY <1>2, <1>3, <2>1 DEF InFlight, BooksTyped
<1> DEFINE failures ==
      IF Counted THEN {f \in log.failures : <<f.executor, f.id>> # <<Self, CounterId>>}
      ELSE log.failures
    succeeded == [log.succeeded EXCEPT ![NonceKey(d0)] = @ + 1]
    donated == [log.donated EXCEPT ![Self] = 0]
<1>6. log \in Logs /\ IsFiniteSet(log.failures)
  BY DEF InFlight, BooksTyped
<1>7. failures \subseteq log.failures /\ IsFiniteSet(failures)
  BY <1>6, FS_Subset
<1>8. succeeded \in [NonceKeys -> Nat] /\ donated \in [Executors -> Nat]
  BY <1>2, <1>6 DEF Logs
<1>9. log' \in Logs /\ log'.failures = failures /\ log'.donated = donated
  <2>1. log' = [log EXCEPT !.failures = failures, !.succeeded = succeeded, !.donated = donated]
    BY <1>6 DEF ReturnSuccess, Logs
  <2> HIDE DEF failures, succeeded, donated
  <2> QED
    BY <1>6, <1>7, <1>8, <2>1 DEF Logs
<1>10. BooksTyped'
  BY <1>3, <1>4, <1>5, <1>7, <1>9 DEF InFlight, BooksTyped
<1>11. Clean(books, Executors)'
  <2>1. \A e \in Executors \ {Self} : books.wst[e] = 0 /\ books.diem[e] = log.donated[e]
    BY <1>1 DEF InFlight, Advancing, Clean
  <2>2. books.wst[Self] = 0 /\ books.diem[Self] = 0
    BY <1>1 DEF InFlight, Advancing
  <2>3. \A e \in Executors : donated[e] = IF e = Self THEN 0 ELSE log.donated[e]
    BY <1>6 DEF Logs
  <2> HIDE DEF donated
  <2> QED
    BY <1>3, <1>9, <2>1, <2>2, <2>3 DEF Clean
<1> QED
  BY <1>4, <1>10, <1>11, OutsideCallback DEF Callback

LEMMA InFlightCatch ==
  ASSUME AuthorizationAssumption, ExecutorAssumption, TypeOK, JobSound, InFlight, FrameDepth',
         CatchFailure
  PROVE  InFlight'
<1>1. job.stage = "failed"
  BY DEF CatchFailure
<1>2. Self \in Executors /\ CounterId \in PolicyIds /\ d0.owner \in Owners
  BY <1>1, Executing
<1>3. job' = NoJob /\ UNCHANGED <<books, saved, world>>
  BY DEF CatchFailure
<1>4. job' \in Jobs /\ job'.stage = "idle"
  BY <1>3 DEF NoJob, Jobs, Stages, ZeroPosition, Position
<1>5. /\ log \in Logs /\ IsFiniteSet(log.failures) /\ block \in Nat
      /\ throttle \in [Executors -> [PolicyIds -> Counters]]
  BY DEF InFlight, BooksTyped, TypeOK
<1>6. CASE Counted
  <2> DEFINE counter == throttle[Self][CounterId]
             failure == [executor |-> Self, id |-> CounterId, owner |-> d0.owner, block |-> block,
                         number |-> Cardinality({f \in log.failures :
                                      <<f.executor, f.id>> = <<Self, CounterId>>})]
  <2>1. throttle' = [throttle EXCEPT ![Self][CounterId] = RecordedFailure(@)]
    BY <1>6 DEF CatchFailure
  <2>2. log' = [log EXCEPT !.failures = @ \cup {failure}]
    BY <1>6 DEF CatchFailure
  <2>3. counter \in Counters
    BY <1>2, <1>5
  <2>4. RecordedFailure(counter) \in Counters
    <3> HIDE DEF counter
    <3>1. counter.failed \in Nat
      BY <2>3 DEF Counters
    <3> DEFINE failed == IF counter.failed < 255 THEN counter.failed + 1 ELSE counter.failed
    <3>2. failed \in Nat
      BY <3>1
    <3>3. RecordedFailure(counter) =
            IF InWindow(counter) THEN [counter EXCEPT !.failed = failed]
            ELSE [start |-> block, failed |-> 1]
      BY DEF RecordedFailure
    <3> HIDE DEF failed
    <3> QED
      BY <1>5, <2>3, <3>2, <3>3 DEF Counters
  <2>5. throttle' \in [Executors -> [PolicyIds -> Counters]]
    <3> HIDE DEF counter
    <3>1. throttle' = [throttle EXCEPT ![Self] = [throttle[Self] EXCEPT ![CounterId] = RecordedFailure(counter)]]
      BY <2>1 DEF counter
    <3> QED
      BY <1>2, <1>5, <2>4, <3>1
  <2>6. Cardinality({f \in log.failures : <<f.executor, f.id>> = <<Self, CounterId>>}) \in Nat
    BY <1>5, FS_Subset, FS_CardinalityType
  <2>7. failure \in [executor: Executors, id: PolicyIds, owner: Owners, block: Nat, number: Nat]
    BY <1>2, <1>5, <2>6
  <2> HIDE DEF failure
  <2>8. log' \in Logs /\ IsFiniteSet(log'.failures) /\ log'.donated = log.donated
    <3>1. log.failures \cup {failure} \in SUBSET [executor: Executors, id: PolicyIds, owner: Owners,
                                                   block: Nat, number: Nat]
      BY <1>5, <2>7 DEF Logs
    <3>2. IsFiniteSet(log.failures \cup {failure})
      BY <1>5, FS_AddElement
    <3> DEFINE failures == log.failures \cup {failure}
    <3>3. log' = [log EXCEPT !.failures = failures]
      BY <2>2
    <3> HIDE DEF failures
    <3>4. log' \in Logs /\ log'.failures = failures /\ log'.donated = log.donated
      BY <1>5, <3>1, <3>3 DEF Logs, failures
    <3> QED
      BY <3>2, <3>4 DEF failures
  <2>9. BooksTyped' /\ Clean(books, Executors)'
    BY <1>1, <1>3, <1>4, <2>5, <2>8 DEF InFlight, BooksTyped, Clean
  <2> QED
    BY <1>4, <2>9, OutsideCallback DEF Callback
<1>7. CASE ~Counted
  <2>1. UNCHANGED <<throttle, log>>
    BY <1>7 DEF CatchFailure
  <2>2. BooksTyped' /\ Clean(books, Executors)'
    BY <1>1, <1>3, <1>4, <2>1 DEF InFlight, BooksTyped, Clean
  <2> QED
    BY <1>4, <2>2, OutsideCallback DEF Callback
<1> QED
  BY <1>6, <1>7

LEMMA InFlightDonate ==
  ASSUME AuthorizationAssumption, ExecutorAssumption, JobSound, InFlight, FrameDepth', Donate
  PROVE  InFlight'
<1>1. PICK e \in Executors, amount \in Donations :
        /\ log.donated[e] = 0
        /\ books' = [books EXCEPT !.diem = Credit(@, e, amount)]
        /\ log' = [log EXCEPT !.donated[e] = amount]
  BY DEF Donate
<1>2. /\ job.stage = "idle" /\ UNCHANGED <<job, saved, throttle, world>> /\ amount \in Nat
      /\ books \in Books /\ log \in Logs /\ e \in Holders /\ Executors \subseteq Holders
  BY DEF Donate, ExecutorAssumption, InFlight, BooksTyped, Holders
<1> DEFINE diem == Credit(books.diem, e, amount)
           donated == [log.donated EXCEPT ![e] = amount]
<1>3. /\ diem \in [Holders -> Nat]
      /\ \A h \in Holders : diem[h] = IF h = e THEN books.diem[e] + amount ELSE books.diem[h]
  BY <1>2 DEF Books, Credit
<1>4. /\ donated \in [Executors -> Nat]
      /\ \A x \in Executors : donated[x] = IF x = e THEN amount ELSE log.donated[x]
  BY <1>2 DEF Logs
<1>5. /\ books' = [books EXCEPT !.diem = diem] /\ log' = [log EXCEPT !.donated = donated]
  BY <1>1, <1>2
<1> HIDE DEF diem, donated
<1>6. /\ books' \in Books /\ books'.diem = diem /\ books'.wst = books.wst
      /\ log' \in Logs /\ log'.donated = donated /\ log'.failures = log.failures
  BY <1>2, <1>3, <1>4, <1>5 DEF Books, Logs
<1>7. Clean(books, Executors)'
  BY <1>1, <1>2, <1>3, <1>4, <1>6 DEF InFlight, Clean
<1> QED
  BY <1>2, <1>6, <1>7, OutsideCallback DEF InFlight, BooksTyped, Callback

LEMMA InFlightNext ==
  ASSUME AuthorizationAssumption, ExecutorAssumption, TypeOK, JobSound, InFlight,
         [ExecutorNext]_allVars
  PROVE  InFlight'
<1>1. FrameDepth'
  BY DepthNext DEF InFlight
<1>2. CASE UNCHANGED executorVars
  <2>1. PostState(d0, job.pre, Now, job.supplied, job.borrow) =>
          PostState(d0, job.pre, Now, job.supplied, job.borrow)'
    <3>1. d0' = d0 /\ Now' = Now /\ job' = job /\ world' = world
      BY <1>2 DEF executorVars, Now, d0
    <3> QED
      BY <3>1 DEF PostState, HealthFactor, LeverageBps, LeverageBase
  <2>2. FrameDepth' /\ BooksTyped' /\ Measured'
    BY <1>1, <1>2 DEF executorVars, InFlight, BooksTyped, Measured, d0, Now, Self
  <2>3. Drawing' = Drawing /\ Unwinding' = Unwinding
    BY <1>2 DEF executorVars, Drawing, Unwinding, SoldWithinSlippage, Received, Held, Owed, Now, Self, d0
  <2>4. Advancing'
    BY <1>2, <2>1, <2>3 DEF executorVars, InFlight, Advancing, Clean, Self, d0
  <2> QED
    BY <1>2, <2>2, <2>4 DEF executorVars, InFlight, Clean
<1>3. CASE Submit
  BY <1>1, <1>3, InFlightEnter
<1>4. CASE TryAttempt
  <2>1. job.stage = "attempt" /\ job \in Jobs /\ UNCHANGED <<books, saved, throttle, world, log>>
    BY <1>4 DEF TryAttempt, InFlight, BooksTyped
  <2>2. job' \in Jobs /\ job'.stage = "validate"
    BY <1>4, <2>1 DEF TryAttempt, Jobs, Stages
  <2> QED
    BY <1>1, <2>1, <2>2, OutsideCallback DEF InFlight, BooksTyped, Clean, Callback
<1>5. CASE RevertTransaction \/ RevertAttempt
  <2>1. job.stage \notin {"idle", "owner"} /\ books' = saved /\ UNCHANGED <<saved, throttle, world, log>>
    BY <1>5 DEF RevertTransaction, RevertAttempt, Running
  <2>2. job' \in Jobs /\ job'.stage \in {"idle", "failed"}
    BY <1>5 DEF RevertTransaction, RevertAttempt, NoJob, Jobs, Stages, ZeroPosition, Position,
                InFlight, BooksTyped
  <2>3. BooksTyped' /\ Clean(books, Executors)' /\ Clean(saved, Executors)'
    BY <2>1, <2>2 DEF InFlight, BooksTyped, Clean
  <2> QED
    BY <1>1, <2>1, <2>2, <2>3, OutsideCallback DEF Callback
<1>6. CASE BeginOwnerTransaction \/ OwnerTransaction
  <2>1. job.stage \in {"idle", "owner"} /\ UNCHANGED <<books, saved, throttle, world, log>>
    BY <1>6 DEF BeginOwnerTransaction, OwnerTransaction
  <2>2. job' \in Jobs /\ job'.stage \in {"idle", "owner"}
    BY <1>6 DEF BeginOwnerTransaction, OwnerTransaction, NoJob, Jobs, Stages, ZeroPosition, Position,
                InFlight, BooksTyped
  <2> QED
    BY <1>1, <2>1, <2>2, OutsideCallback DEF InFlight, BooksTyped, Clean, Callback
<1>7. CASE ChangeWorld
  <2>1. job.stage = "idle" /\ UNCHANGED <<job, books, saved, throttle, log>> /\ world' \in Worlds
    BY <1>7, WorldChanges
  <2> QED
    BY <1>1, <2>1, OutsideCallback DEF InFlight, BooksTyped, Clean, Callback
<1>8. CASE TransactionStep
  BY <1>1, <1>4, <1>5, <1>8, InFlightValidate, InFlightSupply, InFlightBorrow, InFlightRepay,
     InFlightWithdraw, InFlightSwap, InFlightSettle, InFlightFinish, InFlightReturn, InFlightCatch
  DEF TransactionStep
<1> QED
  BY <1>1, <1>2, <1>3, <1>6, <1>7, <1>8, InFlightDonate DEF ExecutorNext, Surroundings, allVars

(* What is proved of LoopAuthorization, at the executors' side of it.       *)
LEMMA TypesHold == ExecutorSpec => []TypeOK
BY ExecutorKeepsAuthorization, TypeCorrect, PTL

(* At each stage of the flash callback balances, debt, collateral and loan  *)
(* are what the calls before it left, and a revert finds executors empty    *)
(* (executeOpen, executeRebalance, executeExit, their callbacks and sweep). *)
THEOREM InFlightInductive == ExecutorSpec => []InFlight
<1>1. ExecutorInit => InFlight
  BY InFlightInit, AuthorizationAssumption, ExecutorAssumption
<1>2. TypeOK /\ JobSound /\ InFlight /\ [ExecutorNext]_allVars => InFlight'
  BY InFlightNext, AuthorizationAssumption, ExecutorAssumption
<1> QED
  BY <1>1, <1>2, TypesHold, JobsSound, PTL DEF ExecutorSpec

(* The executors' tokens are typed, nothing is kept between transactions    *)
(* and every loan can be repaid from the action's own proceeds, whatever    *)
(* fee, prices and bounds.                                                  *)
THEOREM BooksAlwaysBalance == ExecutorSpec => []BooksBalance
<1>1. ASSUME TypeOK, JobSound, InFlight
      PROVE  BooksBalance
  <2>1. ExecutorTypeOK
    <3>1. InTransaction <=> job.stage # "idle"
      BY <1>1, FrameLengths DEF InFlight, FrameDepth, InTransaction
    <3> QED
      BY <1>1, <3>1 DEF InFlight, BooksTyped, ExecutorTypeOK
  <2>2. ZeroAfter
    BY <1>1 DEF InFlight, ZeroAfter, Clean
  <2>3. ASSUME job.stage = "settle", job.borrow + job.withdraw > 0
        PROVE  books.diem[Self] >= Owed
    <3>1. job.stage \in Callback
      BY <2>3 DEF Callback, Stages
    <3>2. /\ job.withdraw \in Nat /\ job.borrow \in Nat /\ job.flash \in Nat
          /\ FlashFee(job.flash) \in Nat /\ log.donated[Self] \in Nat
          /\ DebtReducing(d0) => job.borrow = 0
          /\ ~DebtReducing(d0) => job.flash = FlashPrincipal(job.borrow)
      BY <1>1, <3>1, Measures, AuthorizationAssumption, ExecutorAssumption
    <3>3. CASE Drawing
      <4>1. Owed <= job.borrow
        BY <3>2, <3>3, PrincipalRepayable, ExecutorAssumption DEF Owed, Drawing
      <4>2. books.diem[Self] = log.donated[Self] + job.borrow
        BY <2>3, <3>3 DEF Drawing, Held
      <4> QED
        BY <3>2, <4>1, <4>2 DEF Owed
    <3>4. CASE Unwinding
      BY <2>3, <3>2, <3>4 DEF Unwinding
    <3> QED
      BY <1>1, <3>1, <3>3, <3>4 DEF InFlight, Advancing
  <2>4. FlashRepayable
    BY <2>3 DEF FlashRepayable, Owed
  <2> QED
    BY <2>1, <2>2, <2>4 DEF BooksBalance
<1> QED
  BY <1>1, TypesHold, JobsSound, InFlightInductive, PTL

(* A completed action leaves what was signed: less debt and more health, or *)
(* no more debt, no less health and no more leverage than the bounds.       *)
THEOREM OutcomeAsSigned == ExecutorSpec => []SignedOutcome
<1>1. ASSUME TypeOK, JobSound, InFlight, job.stage = "return"
      PROVE  LET before == saved.position[d0.owner] IN
             /\ DebtReducing(d0) =>
                  Now.debt < before.debt /\ HealthFactor(Now) > HealthFactor(before)
             /\ ~DebtReducing(d0) =>
                  /\ Now.debt - before.debt <=
                       (IF d0.type = "OPEN" THEN d0.maxBorrow ELSE d0.maxDebtIncrease)
                  /\ HealthFactor(Now) >= Bounds[d0].minHealth
                  /\ Bounds[d0].maxLeverage # 0 => LeverageBps(Now) <= Bounds[d0].maxLeverage
  <2>1. job.stage \in Callback
    BY <1>1 DEF Callback, Stages
  <2>2. /\ job.pre = saved.position[d0.owner] /\ job.pre.debt \in Nat /\ d0 \in Digests
    BY <1>1, <2>1, Measures, AuthorizationAssumption, ExecutorAssumption DEF Position
  <2>3. PostState(d0, job.pre, Now, job.supplied, job.borrow)
    BY <1>1, <2>1 DEF InFlight, Advancing
  <2>4. ASSUME ~DebtReducing(d0)
        PROVE  Now.debt - job.pre.debt = IF d0.type = "OPEN" THEN d0.maxBorrow ELSE d0.maxDebtIncrease
    <3>1. Now.debt = job.pre.debt + job.borrow
      BY <1>1, <2>1, <2>4 DEF InFlight, Advancing, Drawing, Unwinding
    <3>2. job.borrow = IF d0.type = "OPEN" THEN d0.maxBorrow ELSE d0.maxDebtIncrease
      BY <1>1, <2>1, <2>4 DEF InFlight, Measured, BorrowAmount, DebtReducing
    <3>3. d0.maxBorrow \in Nat /\ d0.maxDebtIncrease \in Nat
      BY <2>2, AuthorizationAssumption DEF AuthorizationAssumption, DigestType
    <3> QED
      BY <2>2, <3>1, <3>2, <3>3
  <2>5. ~DebtReducing(d0) =>
          Now.debt - job.pre.debt <= IF d0.type = "OPEN" THEN d0.maxBorrow ELSE d0.maxDebtIncrease
    <3>1. d0.maxBorrow \in Nat /\ d0.maxDebtIncrease \in Nat
      BY <2>2, AuthorizationAssumption DEF AuthorizationAssumption, DigestType
    <3> QED
      BY <2>4, <3>1
  <2> QED
    BY <2>2, <2>3, <2>5 DEF PostState
<1>2. TypeOK /\ JobSound /\ InFlight => SignedOutcome
  BY <1>1 DEF SignedOutcome
<1> QED
  BY <1>2, TypesHold, JobsSound, InFlightInductive, PTL

(* Unwinding costs the owner no more than the signed slippage on what was   *)
(* sold, and the flash fee.                                                 *)
THEOREM UnwindingCost == ExecutorSpec => []UnwindCostBounded
<1>1. ASSUME TypeOK, JobSound, InFlight, job.stage = "return", DebtReducing(d0),
             Bounds[d0].slippageBps # 0
      PROVE  (Equity(saved, d0.owner) - Equity(books, d0.owner)) * 10000
               <= job.withdraw * Bounds[d0].slippageBps + FlashFee(job.flash) * 10000
  <2> DEFINE limit == job.withdraw * Bounds[d0].slippageBps
             o == d0.owner
  <2>1. job.stage \in Callback
    BY <1>1 DEF Callback, Stages
  <2>2. /\ books \in Books /\ saved \in Books /\ o \in Owners /\ o \in Holders
        /\ job.pre = saved.position[o] /\ job.flash = job.repay
        /\ job.withdraw \in Nat /\ job.flash \in Nat /\ FlashFee(job.flash) \in Nat
        /\ log.donated[Self] \in Nat
    BY <1>1, <2>1, Measures, AuthorizationAssumption, ExecutorAssumption
  <2>3. limit \in Nat
    BY <1>1, <2>2, Executing, ProductNat, AuthorizationAssumption, ExecutorAssumption DEF BoundsType
  <2>4. /\ books.position[o].debt = saved.position[o].debt - job.flash
        /\ books.position[o].collateral = saved.position[o].collateral - job.withdraw
        /\ books.wst[o] = saved.wst[o]
        /\ (job.withdraw - (Owed + (books.diem[o] - saved.diem[o]) - log.donated[Self])) * 10000
             <= limit
    <3>1. Unwinding
      BY <1>1, <2>1 DEF InFlight, Advancing, Drawing
    <3>2. Received = Owed + (books.diem[o] - saved.diem[o]) - log.donated[Self]
      BY <1>1 DEF Received
    <3>3. (job.withdraw - Received) * 10000 <= limit
      BY <1>1, <3>1 DEF Unwinding, SoldWithinSlippage
    <3>4. /\ Now.debt = job.pre.debt - job.repay /\ Now.collateral = job.pre.collateral - job.withdraw
          /\ books.wst[o] = saved.wst[o]
      BY <1>1, <3>1 DEF Unwinding
    <3> HIDE DEF limit
    <3> QED
      BY <2>2, <3>2, <3>3, <3>4 DEF Now
  <2>5. /\ saved.position[o].debt \in Nat /\ saved.position[o].collateral \in Nat
        /\ saved.wst[o] \in Nat /\ saved.diem[o] \in Nat /\ books.diem[o] \in Nat
    BY <2>2 DEF Books, Position
  <2> HIDE DEF limit, o
  <2>6. Equity(saved, o) - Equity(books, o)
          = job.withdraw - job.flash - (books.diem[o] - saved.diem[o])
    BY <2>2, <2>4, <2>5 DEF Equity
  <2>7. (Equity(saved, o) - Equity(books, o)) * 10000 <= limit + FlashFee(job.flash) * 10000
    BY SMT, <2>2, <2>3, <2>4, <2>5, <2>6 DEF Owed
  <2> QED
    BY <2>7 DEF limit, o
<1>2. TypeOK /\ JobSound /\ InFlight => UnwindCostBounded
  BY <1>1 DEF UnwindCostBounded
<1> QED
  BY <1>2, TypesHold, JobsSound, InFlightInductive, PTL

-----------------------------------------------------------------------------
(* The pause.                                                               *)

(* An execution that will draw debt was entered while nothing was paused,   *)
(* and the guardian cannot act before it ends.                              *)
EnteredUnpaused ==
  job.stage \in {"validate", "supply", "borrow"} /\ ~DebtReducing(d0) => ~world.paused

LEMMA EnteredNext ==
  ASSUME JobSound, InFlight, EnteredUnpaused, [ExecutorNext]_allVars
  PROVE  EnteredUnpaused'
<1>1. CASE Submit
  <2>1. PICK d \in Digests :
          \/ ExecuteOpen(d) \/ ExecuteRebalance(d) \/ ExecuteExit(d)
          \/ \E sender \in Addresses : ExecuteAutomationExec(d, sender) \/ ExecuteForceExit(d, sender)
    BY <1>1 DEF Submit
  <2>2. job'.digest = d /\ world' = world
    BY <2>1 DEF ExecuteOpen, ExecuteRebalance, ExecuteExit, ExecuteAutomationExec, ExecuteForceExit,
                Enter, Entered, NoJob
  <2> QED
    BY <2>1, <2>2 DEF EnteredUnpaused, d0, DebtReducing, ExecuteOpen, ExecuteRebalance, ExecuteExit,
                      ExecuteAutomationExec, ExecuteForceExit, Enter, Entered, NoJob
<1>2. CASE TransactionStep
  <2>1. world' = world
    BY <1>2 DEF TransactionStep, TryAttempt, ValidateAndFlash, SupplyStep, BorrowStep, RepayStep,
                WithdrawStep, SwapStep, SettleFlash, Finish, ReturnSuccess, RevertTransaction,
                RevertAttempt, CatchFailure
  <2>2. CASE TryAttempt
    BY <2>2, StageMoves DEF TryAttempt, JobSound, EnteredUnpaused, Moved, DebtReducing, Caught, d0
  <2>3. CASE ValidateAndFlash \/ SupplyStep
    <3>1. job.stage \in {"validate", "supply"} /\ job'.digest = job.digest
      BY <2>3, StageMoves DEF ValidateAndFlash, SupplyStep, Moved
    <3> QED
      BY <2>1, <3>1 DEF EnteredUnpaused, d0
  <2>4. CASE BorrowStep \/ SwapStep \/ RepayStep \/ WithdrawStep \/ SettleFlash \/ Finish \/ RevertAttempt
    BY <2>4, StageMoves DEF Moved, EnteredUnpaused
  <2>5. CASE ReturnSuccess \/ RevertTransaction \/ CatchFailure
    BY <2>5 DEF ReturnSuccess, RevertTransaction, CatchFailure, NoJob, EnteredUnpaused
  <2> QED
    BY <1>2, <2>2, <2>3, <2>4, <2>5 DEF TransactionStep
<1>3. CASE BeginOwnerTransaction \/ OwnerTransaction
  BY <1>3 DEF BeginOwnerTransaction, OwnerTransaction, EnteredUnpaused, NoJob, InFlight, BooksTyped,
              Jobs
<1>4. CASE ChangeWorld \/ Donate \/ Surroundings \/ UNCHANGED allVars
  BY <1>4, WorldChanges DEF Donate, Surroundings, allVars, executorVars, EnteredUnpaused, d0
<1> QED
  BY <1>1, <1>2, <1>3, <1>4 DEF ExecutorNext

(* While the guardian's pause holds nothing is about to draw debt.          *)
THEOREM PausedBeforeBorrowing == ExecutorSpec => []PauseStopsBorrowing
<1>1. ExecutorInit => EnteredUnpaused
  BY DEF ExecutorInit, NoJob, EnteredUnpaused
<1>2. JobSound /\ InFlight /\ EnteredUnpaused /\ [ExecutorNext]_allVars => EnteredUnpaused'
  BY EnteredNext
<1>3. JobSound /\ InFlight /\ EnteredUnpaused => PauseStopsBorrowing
  BY DEF EnteredUnpaused, PauseStopsBorrowing, InFlight, Advancing, Drawing, Callback, Stages
<1> QED
  BY <1>1, <1>2, <1>3, JobsSound, InFlightInductive, PTL DEF ExecutorSpec

-----------------------------------------------------------------------------
(* One success for one spent nonce.                                         *)

(* The nonces under which a success and the authorization's last call go    *)
(* together.                                                                *)
PairedKeys == NonceKeys \ {NonceKey(d) : d \in {x \in Digests : EndsAtRepayment(x)}}

(* The last call of an action, as its validator arms it.                    *)
LastCallOf(d) ==
  IF ~DebtReducing(d) THEN "BORROW"
  ELSE IF \/ d.type \in {"EXIT", "AUTOMATION_EXEC"} /\ d.class = "REPAY_ONLY"
          \/ d.type = "REBALANCE" /\ d.maxCollateralSold = 0
       THEN "REPAY"
  ELSE "WITHDRAW_COLLATERAL"

Settled(s) == \A key \in PairedKeys : s.executed[key] = log.succeeded[key]
Spent(s) == \A key \in PairedKeys :
  s.executed[key] = log.succeeded[key] + (IF key = NonceKey(d0) THEN 1 ELSE 0)

(* A position without collateral has no debt: Morpho writes it off, and     *)
(* lets nobody withdraw or borrow into insolvency.                          *)
NoBadDebt(b) == \A o \in Owners : b.position[o].collateral = 0 => b.position[o].debt = 0

(* A state to fall back to, or before the last call, has as many terminal   *)
(* calls as successes; after it one more, this execution's.                 *)
Spending ==
  /\ \A i \in 1 .. Len(frames) : Settled(frames[i])
  /\ job.stage \notin {"swap", "settle", "finish", "return"} => Settled(state)
  /\ job.stage \in {"swap", "settle", "finish", "return"} => Spent(state)
  /\ job.stage \in {"supply", "borrow", "repay", "withdraw"} =>
       state.context.digest = d0 /\ state.context.terminal = LastCallOf(d0)
  /\ job.stage = "withdraw" => LastCallOf(d0) = "WITHDRAW_COLLATERAL"
  /\ NoBadDebt(books) /\ NoBadDebt(saved)

(* Only a position that owes nothing is solvent without collateral.         *)
LEMMA SolventHasCollateral ==
  ASSUME ExecutorAssumption, world \in Worlds, NEW position \in Position, Solvent(position),
         position.collateral = 0
  PROVE  position.debt = 0
<1>1. /\ position.debt \in Nat /\ Unit \in Nat \ {0} /\ Lltv \in Nat /\ world.price \in Nat
  BY DEF Position, ExecutorAssumption
<1>2. Value(0, world.price) * Lltv = 0
  BY <1>1 DEF Value
<1>3. position.debt * Unit <= 0
  BY <1>2, Zenon DEF Solvent
<1> QED
  BY <1>1, <1>3

LEMMA NoBadDebtNext ==
  ASSUME AuthorizationAssumption, ExecutorAssumption, JobSound, InFlight, InFlight',
         NoBadDebt(books), NoBadDebt(saved), [ExecutorNext]_allVars
  PROVE  NoBadDebt(books') /\ NoBadDebt(saved')
<1>1. books \in Books /\ books' \in Books /\ world \in Worlds
  BY DEF InFlight, BooksTyped
<1>2. ASSUME saved' = saved, d0.owner \in Owners,
             \A o \in Owners \ {d0.owner} : books'.position[o] = books.position[o],
             books'.position[d0.owner].collateral = 0 => books'.position[d0.owner].debt = 0
      PROVE  NoBadDebt(books') /\ NoBadDebt(saved')
  BY <1>2 DEF NoBadDebt
<1>3. CASE SupplyStep
  <2>1. job.stage = "supply" /\ job.stage \in Callback /\ saved' = saved
    BY <1>3 DEF SupplyStep, Callback, Stages
  <2>2. PICK price \in VaultPrices :
          /\ Bounds[d0].equity + ((job.flash * Unit) \div price) # 0
          /\ books' = [books EXCEPT !.wst = Debit(@, d0.owner, Bounds[d0].equity),
                                    !.diem = Debit(@, Self, job.flash),
                                    !.position[d0.owner].collateral =
                                      @ + Bounds[d0].equity + ((job.flash * Unit) \div price)]
    BY <1>3 DEF SupplyStep
  <2> DEFINE added == Bounds[d0].equity + ((job.flash * Unit) \div price)
             position == [books.position EXCEPT ![d0.owner].collateral =
                            @ + Bounds[d0].equity + ((job.flash * Unit) \div price)]
  <2>3. Bounds[d0].equity \in Nat /\ (job.flash * Unit) \div price \in Nat /\ d0.owner \in Owners
    <3>1. job.flash \in Nat /\ Unit \in Nat /\ price \in Nat \ {0} /\ d0.owner \in Owners
      BY <2>1, Measures DEF ExecutorAssumption
    <3>2. job.flash * Unit \in Nat
      BY <3>1, ProductNat
    <3> QED
      BY <2>1, <3>1, <3>2, QuotientNat, Executing DEF BoundsType, Callback
  <2>4. books'.position = position
    BY <1>1, <2>2 DEF Books
  <2>5. books.position \in [Owners -> Position]
    BY <1>1 DEF Books
  <2>6. position[d0.owner].collateral # 0
    <3> DEFINE equity == Bounds[d0].equity
               minted == (job.flash * Unit) \div price
    <3>1. equity + minted # 0 /\ equity \in Nat /\ minted \in Nat
      BY <2>2, <2>3
    <3> HIDE DEF equity, minted
    <3>2. books.position[d0.owner].collateral + equity + minted # 0
      BY <2>3, <2>5, <3>1 DEF Position
    <3>3. position[d0.owner].collateral = books.position[d0.owner].collateral + equity + minted
      BY <2>3, <2>5 DEF Position, equity, minted
    <3> QED
      BY <3>2, <3>3
  <2>7. \A o \in Owners \ {d0.owner} : position[o] = books.position[o]
    BY <2>3, <2>5
  <2> HIDE DEF position
  <2> QED
    BY <1>2, <2>1, <2>3, <2>4, <2>6, <2>7
<1>4. CASE BorrowStep \/ WithdrawStep
  <2>1. job.stage \in Callback /\ saved' = saved /\ Solvent(books'.position[d0.owner])
    BY <1>4 DEF BorrowStep, WithdrawStep, Callback, Stages
  <2>2. d0.owner \in Owners /\ books'.position[d0.owner] \in Position
    BY <1>1, <2>1, Measures DEF Books
  <2>3. \A o \in Owners \ {d0.owner} : books'.position[o] = books.position[o]
    <3>1. books.position \in [Owners -> Position]
      BY <1>1 DEF Books
    <3>2. CASE BorrowStep
      <4>1. books'.position = [books.position EXCEPT ![d0.owner].debt = @ + job.borrow]
        BY <1>1, <3>2 DEF BorrowStep, Books
      <4> QED
        BY <2>2, <3>1, <4>1
    <3>3. CASE WithdrawStep
      <4>1. books'.position = [books.position EXCEPT ![d0.owner].collateral = @ - job.withdraw]
        BY <1>1, <3>3 DEF WithdrawStep, Books
      <4> QED
        BY <2>2, <3>1, <4>1
    <3> QED
      BY <1>4, <3>2, <3>3
  <2> QED
    BY <1>1, <1>2, <2>1, <2>2, <2>3, SolventHasCollateral
<1>5. CASE RepayStep
  <2>1. /\ job.stage = "repay" /\ job.stage \in Callback /\ saved' = saved /\ job.repay # 0
        /\ books' = [books EXCEPT !.position[d0.owner].debt = @ - job.repay,
                                  !.diem = Debit(@, Self, job.repay)]
    BY <1>5 DEF RepayStep, Callback, Stages
  <2>2. /\ d0.owner \in Owners /\ books.position[d0.owner] \in Position
        /\ books.position[d0.owner] = job.pre /\ job.repay \in 0 .. job.pre.debt
    BY <1>1, <2>1, Measures DEF Books, InFlight, Advancing, Unwinding, Now
  <2>3. books.position[d0.owner].collateral # 0
    BY <2>1, <2>2 DEF NoBadDebt, Position
  <2> DEFINE position == [books.position EXCEPT ![d0.owner].debt = @ - job.repay]
  <2>4. books'.position = position /\ books.position \in [Owners -> Position]
    BY <1>1, <2>1 DEF Books
  <2>5. /\ position[d0.owner].collateral = books.position[d0.owner].collateral
        /\ \A o \in Owners \ {d0.owner} : position[o] = books.position[o]
    BY <2>2, <2>4 DEF Position
  <2> HIDE DEF position
  <2> QED
    BY <1>2, <2>1, <2>2, <2>3, <2>4, <2>5
<1>6. CASE ValidateAndFlash \/ SwapStep \/ SettleFlash \/ Donate
  <2>1. saved' = saved
    BY <1>6 DEF ValidateAndFlash, SwapStep, SettleFlash, Donate
  <2>2. \E diem, wst : books' = [books EXCEPT !.wst = wst, !.diem = diem]
    <3>1. \A diem : [books EXCEPT !.diem = diem] = [books EXCEPT !.wst = books.wst, !.diem = diem]
      BY <1>1 DEF Books
    <3>3. CASE SwapStep
      BY <3>3 DEF SwapStep
    <3>4. CASE ValidateAndFlash \/ SettleFlash \/ Donate
      <4>1. \E diem : books' = [books EXCEPT !.diem = diem]
        BY <3>4 DEF ValidateAndFlash, SettleFlash, Donate
      <4> QED
        BY <3>1, <4>1
    <3> QED
      BY <1>6, <3>3, <3>4
  <2>3. books'.position = books.position
    BY <1>1, <2>2 DEF Books
  <2> QED
    BY <2>1, <2>3 DEF NoBadDebt
<1>7. CASE Finish
  <2>1. saved' = saved /\ books' = Swept(books)
    BY <1>7 DEF Finish
  <2>2. books'.position = books.position
    BY <1>1, <2>1 DEF Swept, Books
  <2> QED
    BY <2>1, <2>2 DEF NoBadDebt
<1>8. CASE Submit
  BY <1>8 DEF Submit, ExecuteOpen, ExecuteRebalance, ExecuteExit, ExecuteAutomationExec,
              ExecuteForceExit, Enter
<1>9. CASE RevertTransaction \/ RevertAttempt
  BY <1>9 DEF RevertTransaction, RevertAttempt
<1>10. CASE \/ TryAttempt \/ ReturnSuccess \/ CatchFailure \/ BeginOwnerTransaction
            \/ OwnerTransaction \/ ChangeWorld \/ Surroundings \/ UNCHANGED allVars
  BY <1>10, WorldChanges DEF TryAttempt, ReturnSuccess, CatchFailure, BeginOwnerTransaction, OwnerTransaction,
               Surroundings, allVars, executorVars
<1> QED
  BY <1>3, <1>4, <1>5, <1>6, <1>7, <1>8, <1>9, <1>10 DEF ExecutorNext, TransactionStep

(* What arming and making a call do to the last call and the count of       *)
(* spent ones.                                                              *)
LEMMA ArmedLastCall ==
  ASSUME AuthorizationAssumption, TypeOK, NEW d \in Digests, NEW caller, Validate(d, caller)
  PROVE  /\ state'.executed = state.executed
         /\ state'.context.digest = d /\ state'.context.terminal = LastCallOf(d)
<1>1. /\ d.class \in ClassesOf(d.type) /\ d.maxDebtIncrease \in Nat /\ d.maxCollateralSold \in Nat
      /\ state \in States
  BY DEF AuthorizationAssumption, DigestType, TypeOK
<1>2. ASSUME NEW terminal, NEW a, NEW b, NEW c, NEW e, NEW f,
             ArmContext(Context(d, terminal, a, b, c, e, f))
      PROVE  /\ state'.executed = state.executed
             /\ state'.context.digest = d /\ state'.context.terminal = terminal
  BY <1>1, <1>2 DEF ArmContext, Context, States
<1>3. CASE ValidateOpen(d, caller)
  BY <1>2, <1>3 DEF ValidateOpen, LastCallOf, DebtReducing
<1>4. CASE ValidateRebalance(d, caller)
  <2> DEFINE terminal == IF d.maxDebtIncrease > 0 THEN "BORROW"
                         ELSE IF d.maxCollateralSold > 0 THEN "WITHDRAW_COLLATERAL" ELSE "REPAY"
  <2>1. terminal = LastCallOf(d)
    BY <1>1, <1>4 DEF ValidateRebalance, LastCallOf, DebtReducing, RiskIncreasing
  <2> QED
    BY <1>2, <1>4, <2>1 DEF ValidateRebalance
<1>5. CASE ValidateExit(d, caller)
  BY <1>2, <1>5 DEF ValidateExit, LastCallOf, DebtReducing
<1>6. CASE ValidateAutomationExec(d, caller)
  BY <1>2, <1>6 DEF ValidateAutomationExec, LastCallOf, DebtReducing
<1>7. CASE ValidateForceExit(d, caller)
  BY <1>2, <1>7 DEF ValidateForceExit, LastCallOf, DebtReducing
<1> QED
  BY <1>3, <1>4, <1>5, <1>6, <1>7 DEF Validate

LEMMA MorphoEffect ==
  ASSUME AuthorizationAssumption, TypeOK, NEW selector, NEW amount, CallMorpho(selector, amount)
  PROVE  /\ selector # state.context.terminal =>
              /\ state'.executed = state.executed
              /\ state'.context.digest = state.context.digest
              /\ state'.context.terminal = state.context.terminal
         /\ selector = state.context.terminal =>
              state'.executed = [state.executed EXCEPT ![NonceKey(state.context.digest)] = @ + 1]
<1>1. state \in States /\ state.context \in Contexts
  BY DEF TypeOK, States
<1>2. CASE ExecuteMorphoStep(selector, amount)
  <2>1. /\ selector # state.context.terminal
        /\ state' = [state EXCEPT !.context.step = @ + 1,
                                  !.lastCall = <<state.context.digest, selector, amount>>]
    BY <1>2 DEF ExecuteMorphoStep
  <2> QED
    BY <1>1, <2>1 DEF States, Contexts
<1>3. CASE ExecuteMorphoTerminal(selector, amount)
  <2>1. selector = state.context.terminal
    BY <1>3 DEF ExecuteMorphoTerminal
  <2>2. state'.executed = [state.executed EXCEPT ![NonceKey(state.context.digest)] = @ + 1]
    BY <1>1, <1>3 DEF ExecuteMorphoTerminal, RecordActivity, ConsumeNonce, States
  <2> QED
    BY <2>1, <2>2
<1> QED
  BY <1>2, <1>3 DEF CallMorpho, ExecuteMorpho

(* The copies a step of the call stack leaves are among the state before it *)
(* and the copies there were.                                               *)
LEMMA CopiesKept ==
  ASSUME TypeOK,
         BeginTransaction \/ EnterFrame \/ LeaveFrame \/ RevertFrame \/ EndTransaction
  PROVE  /\ \A i \in 1 .. Len(frames') :
              frames'[i] = state \/ \E j \in 1 .. Len(frames) : frames'[i] = frames[j]
         /\ BeginTransaction \/ EnterFrame \/ LeaveFrame => state' = state
         /\ RevertFrame => \E j \in 1 .. Len(frames) : state' = frames[j]
         /\ EndTransaction => state'.executed = state.executed
<1>1. frames \in Seq(States) /\ state \in States /\ Len(frames) \in Nat
  BY LenProperties DEF TypeOK
<1>2. CASE BeginTransaction
  BY <1>2 DEF BeginTransaction, RevertFrame, EndTransaction, InTransaction
<1>3. CASE EnterFrame
  <2>1. frames' = Append(frames, state) /\ state' = state /\ frames # <<>>
    BY <1>3 DEF EnterFrame, InTransaction
  <2>2. Len(frames') = Len(frames) + 1
    BY <1>1, <2>1, AppendProperties
  <2>3. \A i \in 1 .. Len(frames) + 1 :
          frames'[i] = IF i = Len(frames) + 1 THEN state ELSE frames[i]
    BY <1>1, <2>1, AppendProperties
  <2>4. ~RevertFrame /\ ~EndTransaction
    BY <1>1, <2>2, FrameLengths
  <2> QED
    BY <1>1, <2>1, <2>2, <2>3, <2>4
<1>4. CASE LeaveFrame \/ RevertFrame
  <2> DEFINE n == Len(frames) - 1
  <2>1. n \in Nat /\ frames' = SubSeq(frames, 1, n) /\ Len(frames) = n + 1
    BY <1>1, <1>4, FrameLengths DEF LeaveFrame, RevertFrame, InTransaction
  <2>2. \A i \in 1 .. n : frames[i] \in States
    BY <1>1, <2>1, ElementOfSeq
  <2>3. RevertFrame => state' = frames[n + 1]
    BY <1>1 DEF RevertFrame
  <2> HIDE DEF n
  <2>4. Len(frames') = n /\ \A i \in 1 .. n : frames'[i] = frames[i]
    <3>1. \A i \in 1 .. n - 1 + 1 : SubSeq(frames, 1, n)[i] = frames[1 + i - 1]
      BY <2>1, <2>2, SubSeqProperties
    <3>2. Len(SubSeq(frames, 1, n)) = n
      BY <2>1, <2>2, SubSeqProperties
    <3> QED
      BY <2>1, <3>1, <3>2
  <2>5. ~EndTransaction \/ RevertFrame
    BY <1>4 DEF LeaveFrame, EndTransaction
  <2>6. EndTransaction => state'.executed = state.executed
    BY <1>1 DEF EndTransaction, States
  <2>7. ~EnterFrame /\ ~BeginTransaction
    BY <1>1, <2>1, <2>4, FrameLengths
  <2>8. LeaveFrame => state' = state
    BY DEF LeaveFrame
  <2> QED
    BY <2>1, <2>3, <2>4, <2>6, <2>7, <2>8
<1>5. CASE EndTransaction
  <2>1. frames' = <<>> /\ Len(frames) = 1 /\ state'.executed = state.executed
    BY <1>1, <1>5 DEF EndTransaction, States
  <2>2. Len(frames') = 0
    BY <2>1
  <2>3. ~BeginTransaction /\ ~EnterFrame /\ ~LeaveFrame
    BY <2>1, <2>2, FrameLengths DEF LeaveFrame
  <2>4. RevertFrame => state' = frames[1]
    BY <2>1 DEF RevertFrame
  <2> QED
    BY <1>1, <2>1, <2>2, <2>3, <2>4
<1> QED
  BY <1>2, <1>3, <1>4, <1>5

LEMMA SpendingCalls ==
  ASSUME AuthorizationAssumption, ExecutorAssumption, TypeOK, JobSound, InFlight, Spending,
         ValidateAndFlash \/ SupplyStep \/ BorrowStep \/ RepayStep \/ WithdrawStep
  PROVE  /\ job'.stage \in {"supply", "borrow", "repay", "withdraw"} =>
              /\ \A key \in PairedKeys : state'.executed[key] = log.succeeded[key]
              /\ state'.context.digest = d0 /\ state'.context.terminal = LastCallOf(d0)
         /\ job'.stage = "withdraw" => LastCallOf(d0) = "WITHDRAW_COLLATERAL"
         /\ job'.stage \in {"swap", "settle"} =>
              \A key \in PairedKeys : state'.executed[key] =
                log.succeeded[key] + (IF key = NonceKey(d0) THEN 1 ELSE 0)
         /\ job'.stage \in {"supply", "borrow", "repay", "withdraw", "swap", "settle"}
<1>1. job.stage \in {"validate", "supply", "borrow", "repay", "withdraw"}
  BY DEF ValidateAndFlash, SupplyStep, BorrowStep, RepayStep, WithdrawStep
<1>2. /\ d0 \in Digests /\ d0.owner \in Owners /\ NonceKey(d0) \in NonceKeys
      /\ state.executed \in [NonceKeys -> Nat] /\ log.succeeded \in [NonceKeys -> Nat]
      /\ PairedKeys \subseteq NonceKeys /\ Settled(state)
  BY <1>1, Executing DEF TypeOK, States, InFlight, BooksTyped, Logs, PairedKeys, Spending
<1>3. ASSUME state'.executed = [state.executed EXCEPT ![NonceKey(d0)] = @ + 1]
      PROVE  \A key \in PairedKeys : state'.executed[key] =
               log.succeeded[key] + (IF key = NonceKey(d0) THEN 1 ELSE 0)
  BY <1>2, <1>3 DEF Settled
<1>4. CASE ValidateAndFlash
  <2>1. job'.stage \in {"repay", "supply"}
    BY <1>4, StageMoves DEF Moved
  <2>2. PICK caller : Validate(d0, caller)
    BY <1>4 DEF ValidateAndFlash
  <2> QED
    BY <1>2, <2>1, <2>2, ArmedLastCall DEF Settled
<1>5. ASSUME job.stage # "validate"
      PROVE  state.context.digest = d0 /\ state.context.terminal = LastCallOf(d0)
  BY <1>1, <1>5 DEF Spending
<1>6. CASE SupplyStep
  <2>1. job.stage = "supply" /\ job'.stage = "borrow"
    BY <1>6, StageMoves DEF SupplyStep, Moved
  <2>2. PICK amount : CallMorpho("SUPPLY_COLLATERAL", amount)
    BY <1>6 DEF SupplyStep
  <2>3. LastCallOf(d0) # "SUPPLY_COLLATERAL"
    BY DEF LastCallOf
  <2> QED
    BY <1>2, <1>5, <2>1, <2>2, <2>3, MorphoEffect DEF Settled
<1>7. CASE BorrowStep
  <2>1. job.stage = "borrow" /\ job'.stage = "settle" /\ CallMorpho("BORROW", job.borrow)
    BY <1>7, StageMoves DEF BorrowStep, Moved
  <2>2. ~DebtReducing(d0)
    BY <2>1 DEF InFlight, Advancing, Drawing, Callback, Stages
  <2>3. LastCallOf(d0) = "BORROW"
    BY <2>2 DEF LastCallOf
  <2>4. state'.executed = [state.executed EXCEPT ![NonceKey(d0)] = @ + 1]
    BY <1>5, <2>1, <2>3, MorphoEffect
  <2> QED
    BY <1>3, <2>1, <2>4
<1>8. CASE WithdrawStep
  <2>1. /\ job.stage = "withdraw" /\ job'.stage = "swap"
        /\ CallMorpho("WITHDRAW_COLLATERAL", job.withdraw)
    BY <1>8, StageMoves DEF WithdrawStep, Moved
  <2>2. LastCallOf(d0) = "WITHDRAW_COLLATERAL"
    BY <2>1 DEF Spending
  <2>3. state'.executed = [state.executed EXCEPT ![NonceKey(d0)] = @ + 1]
    BY <1>5, <2>1, <2>2, MorphoEffect
  <2> QED
    BY <1>3, <2>1, <2>3
<1>9. CASE RepayStep
  <2>1. /\ job.stage = "repay" /\ CallMorpho("REPAY", job.repay) /\ job.repay # 0
        /\ job' = [job EXCEPT !.stage =
                     IF job.withdraw = 0 /\ d0.type # "FORCE_EXIT" THEN "settle" ELSE "withdraw"]
    BY <1>9 DEF RepayStep
  <2>2. job \in Jobs /\ job.stage \in Callback
    BY <2>1 DEF InFlight, BooksTyped, Callback, Stages
  <2>3. job'.stage = IF job.withdraw = 0 /\ d0.type # "FORCE_EXIT" THEN "settle" ELSE "withdraw"
    BY <2>1, <2>2 DEF Jobs
  <2>4. /\ DebtReducing(d0) /\ job.withdraw = WithdrawAmount(d0, job.pre.collateral)
        /\ job.repay \in 0 .. job.pre.debt /\ job.pre = saved.position[d0.owner]
        /\ job.pre \in Position
    BY <2>1, <2>2, Measures DEF InFlight, Advancing, Measured, Unwinding
  <2>5. /\ d0.class \in ClassesOf(d0.type) /\ d0.maxCollateralSold \in Nat
        /\ d0.type \in PrimaryTypes /\ d0.type # "REVOKE"
    BY <1>1, <1>2, Executing DEF AuthorizationAssumption, DigestType
  <2>6. LastCallOf(d0) \in {"REPAY", "WITHDRAW_COLLATERAL"}
    BY <2>4 DEF LastCallOf
  <2>7. CASE LastCallOf(d0) = "REPAY"
    <3>1. job.withdraw = 0 /\ d0.type # "FORCE_EXIT"
      <4>1. \/ d0.type \in {"EXIT", "AUTOMATION_EXEC"} /\ d0.class = "REPAY_ONLY"
            \/ d0.type = "REBALANCE" /\ d0.maxCollateralSold = 0
        BY <2>4, <2>7 DEF LastCallOf
      <4> QED
        BY <2>4, <4>1 DEF WithdrawAmount
    <3>2. state'.executed = [state.executed EXCEPT ![NonceKey(d0)] = @ + 1]
      BY <1>5, <2>1, <2>7, MorphoEffect
    <3> QED
      BY <1>3, <2>3, <3>1, <3>2
  <2>8. CASE LastCallOf(d0) = "WITHDRAW_COLLATERAL"
    <3>1. /\ state'.executed = state.executed /\ state'.context.digest = d0
          /\ state'.context.terminal = LastCallOf(d0)
      BY <1>5, <2>1, <2>8, MorphoEffect
    <3>2. CASE job.withdraw = 0 /\ d0.type # "FORCE_EXIT"
      <4>1. d0.type = "EXIT" /\ d0.class # "REPAY_ONLY" /\ d0.maxCollateralSold = 0
        <5>1. d0.type # "AUTOMATION_EXEC"
          <6>1. ASSUME d0.type = "AUTOMATION_EXEC" PROVE FALSE
            <7>1. job.pre.collateral = 0
              BY <2>4, <2>8, <3>2, <6>1 DEF LastCallOf, WithdrawAmount
            <7>2. job.pre.debt = 0
              BY <1>2, <2>4, <7>1 DEF Spending, NoBadDebt
            <7> QED
              BY <2>1, <2>4, <7>2
          <6> QED
            BY <6>1
        <5>2. d0.type # "OPEN" /\ d0.type \in {"EXIT", "REBALANCE"}
          BY <2>4, <2>5, <3>2, <5>1 DEF DebtReducing, PrimaryTypes
        <5> QED
          BY <2>4, <2>5, <2>8, <3>2, <5>2 DEF LastCallOf, WithdrawAmount, ClassesOf
      <4>2. NonceKey(d0) \notin PairedKeys
        BY <1>2, <4>1 DEF PairedKeys, EndsAtRepayment
      <4> QED
        BY <1>2, <2>3, <3>1, <3>2, <4>2 DEF Settled
    <3>3. CASE ~(job.withdraw = 0 /\ d0.type # "FORCE_EXIT")
      BY <1>2, <2>3, <2>8, <3>1, <3>3 DEF Settled
    <3> QED
      BY <3>2, <3>3
  <2> QED
    BY <2>6, <2>7, <2>8
<1> QED
  BY <1>4, <1>6, <1>7, <1>8, <1>9

(* Owners' own calls spend nothing.                                         *)
LEMMA OwnersSpendNothing ==
  ASSUME TypeOK, \/ \E o \in Owners : OwnerCall(o)
                 \/ \E d \in Digests : ExecuteRevoke(d)
                 \/ \E key \in NonceKeys : CancelNonce(key)
  PROVE  state'.executed = state.executed /\ frames' = frames
<1>1. state \in States
  BY DEF TypeOK
<1>2. ASSUME NEW o \in Owners, OwnerCall(o) PROVE state'.executed = state.executed
  BY <1>1, <1>2 DEF OwnerCall, CreatePolicy, UpdatePolicy, Revoke, States
<1>3. ASSUME NEW d \in Digests, ExecuteRevoke(d) PROVE state'.executed = state.executed
  BY <1>1, <1>3 DEF ExecuteRevoke, States
<1>4. ASSUME NEW key \in NonceKeys, CancelNonce(key) PROVE state'.executed = state.executed
  BY <1>1, <1>4 DEF CancelNonce, ConsumeNonce, States
<1> QED
  BY <1>2, <1>3, <1>4, CallsKeepFrames

LEMMA SpendingInit ==
  ASSUME AuthorizationAssumption, ExecutorAssumption, ExecutorInit
  PROVE  Spending
<1>1. /\ frames = <<>> /\ job.stage = "idle" /\ Len(frames) = 0
      /\ state.executed = [k \in NonceKeys |-> 0] /\ log.succeeded = [k \in NonceKeys |-> 0]
      /\ books.position = InitialPositions /\ saved = books
  BY DEF ExecutorInit, Init, NoJob
<1> QED
  BY <1>1 DEF Spending, Settled, PairedKeys, NoBadDebt, ExecutorAssumption

LEMMA SpendingNext ==
  ASSUME AuthorizationAssumption, ExecutorAssumption, TypeOK, JobSound, InFlight, InFlight',
         Spending, [ExecutorNext]_allVars
  PROVE  Spending'
<1> DEFINE settled(s) == \A key \in PairedKeys : s.executed[key] = log'.succeeded[key]
           spent(s) == \A key \in PairedKeys : s.executed[key] =
             log'.succeeded[key] + (IF key = NonceKey(d0') THEN 1 ELSE 0)
           after == {"swap", "settle", "finish", "return"}
           calls == {"supply", "borrow", "repay", "withdraw"}
<1>1. NoBadDebt(books') /\ NoBadDebt(saved')
  BY NoBadDebtNext DEF Spending
<1>2. ASSUME \A i \in 1 .. Len(frames') : settled(frames'[i]),
             job'.stage \notin after => settled(state'),
             job'.stage \in after => spent(state'),
             job'.stage \in calls => state'.context.digest = d0' /\ state'.context.terminal = LastCallOf(d0'),
             job'.stage = "withdraw" => LastCallOf(d0') = "WITHDRAW_COLLATERAL"
      PROVE  Spending'
  BY <1>1, <1>2 DEF Spending, Settled, Spent, NoBadDebt
<1>3. /\ \A i \in 1 .. Len(frames) : \A key \in PairedKeys : frames[i].executed[key] = log.succeeded[key]
      /\ job.stage \notin after => \A key \in PairedKeys : state.executed[key] = log.succeeded[key]
      /\ job.stage \in after => \A key \in PairedKeys : state.executed[key] =
           log.succeeded[key] + (IF key = NonceKey(d0) THEN 1 ELSE 0)
  BY DEF Spending, Settled, Spent
<1>4. CASE Submit
  <2>1. PICK stage \in {"validate", "attempt"} :
          /\ job.stage = "idle" /\ job'.stage = stage /\ BeginTransaction /\ log' = log
    BY <1>4, ZenonT(40) DEF Submit, ExecuteOpen, ExecuteRebalance, ExecuteExit, ExecuteAutomationExec,
                ExecuteForceExit, Enter, Entered, NoJob
  <2>2. state' = state /\ \A i \in 1 .. Len(frames') :
          frames'[i] = state \/ \E j \in 1 .. Len(frames) : frames'[i] = frames[j]
    BY <2>1, CopiesKept
  <2>3. settled(state) /\ \A j \in 1 .. Len(frames) : settled(frames[j])
    BY <1>3, <2>1
  <2> HIDE DEF settled, spent
  <2>4. settled(state') /\ \A i \in 1 .. Len(frames') : settled(frames'[i])
    BY <2>2, <2>3
  <2> QED
    BY <1>2, <2>1, <2>4
<1>5. CASE TryAttempt
  <2>1. job.stage = "attempt" /\ job'.stage = "validate" /\ EnterFrame /\ log' = log
    BY <1>5, StageMoves DEF TryAttempt, Moved
  <2>2. state' = state /\ \A i \in 1 .. Len(frames') :
          frames'[i] = state \/ \E j \in 1 .. Len(frames) : frames'[i] = frames[j]
    BY <2>1, CopiesKept
  <2>3. settled(state) /\ \A j \in 1 .. Len(frames) : settled(frames[j])
    BY <1>3, <2>1
  <2> HIDE DEF settled, spent
  <2>4. settled(state') /\ \A i \in 1 .. Len(frames') : settled(frames'[i])
    BY <2>2, <2>3
  <2> QED
    BY <1>2, <2>1, <2>4
<1>6. CASE ValidateAndFlash \/ SupplyStep \/ BorrowStep \/ RepayStep \/ WithdrawStep
  <2>1. log' = log /\ frames' = frames
    BY <1>6, CallsKeepFrames
    DEF ValidateAndFlash, SupplyStep, BorrowStep, RepayStep, WithdrawStep
  <2>2. d0' = d0
    BY <1>6, StageMoves DEF Moved, d0
  <2>3. /\ job'.stage \in calls =>
             /\ settled(state')
             /\ state'.context.digest = d0' /\ state'.context.terminal = LastCallOf(d0')
        /\ job'.stage = "withdraw" => LastCallOf(d0') = "WITHDRAW_COLLATERAL"
        /\ job'.stage \in {"swap", "settle"} => spent(state')
        /\ job'.stage \in {"supply", "borrow", "repay", "withdraw", "swap", "settle"}
    BY <1>6, <2>1, <2>2, SpendingCalls
  <2>4. \A j \in 1 .. Len(frames) : settled(frames[j])
    BY <1>3, <2>1
  <2> HIDE DEF settled, spent
  <2>5. \A i \in 1 .. Len(frames') : settled(frames'[i])
    BY <2>1, <2>4
  <2> QED
    BY <1>2, <2>3, <2>5
<1>7. CASE SwapStep \/ SettleFlash \/ Finish
  <2>1. /\ job.stage \in {"swap", "settle", "finish"} /\ job'.stage \in {"settle", "finish", "return"}
        /\ d0' = d0 /\ log' = log
    BY <1>7, StageMoves DEF SwapStep, SettleFlash, Finish, Moved, d0
  <2>2. state' = state /\ \A i \in 1 .. Len(frames') :
          \E j \in 1 .. Len(frames) : frames'[i] = frames[j]
    <3>1. CASE UNCHANGED vars
      BY <3>1 DEF vars
    <3>2. CASE LeaveFrame
      <4>1. frames \in Seq(States) /\ Len(frames) \in Nat /\ Len(frames) > 1
        BY <3>2, LenProperties DEF TypeOK, LeaveFrame
      <4> DEFINE n == Len(frames) - 1
      <4>2. n \in Nat /\ \A i \in 1 .. n : frames[i] \in States
        BY <4>1, ElementOfSeq
      <4>3. frames' = SubSeq(frames, 1, n) /\ state' = state
        BY <3>2 DEF LeaveFrame
      <4> HIDE DEF n
      <4>4. \A i \in 1 .. n - 1 + 1 : SubSeq(frames, 1, n)[i] = frames[1 + i - 1]
        BY <4>2, SubSeqProperties
      <4>5. Len(SubSeq(frames, 1, n)) = n
        BY <4>2, SubSeqProperties
      <4> QED
        BY <4>1, <4>2, <4>3, <4>4, <4>5 DEF n
    <3> QED
      BY <1>7, <3>1, <3>2 DEF SwapStep, SettleFlash, Finish
  <2>3. \A j \in 1 .. Len(frames) : settled(frames[j])
    BY <1>3, <2>1
  <2>4. spent(state')
    BY <1>3, <2>1, <2>2
  <2> HIDE DEF settled, spent
  <2>5. \A i \in 1 .. Len(frames') : settled(frames'[i])
    BY <2>2, <2>3
  <2> QED
    BY <1>2, <2>1, <2>4, <2>5
<1>8. CASE ReturnSuccess
  <2>1. /\ job.stage = "return" /\ job'.stage = "idle" /\ EndTransaction
        /\ log' = [log EXCEPT
             !.failures = IF Counted THEN {f \in @ : <<f.executor, f.id>> # <<Self, CounterId>>} ELSE @,
             !.succeeded[NonceKey(d0)] = @ + 1,
             !.donated[Self] = 0]
    BY <1>8 DEF ReturnSuccess, NoJob
  <2>2. Len(frames') = 0 /\ state'.executed = state.executed
    BY <2>1, FrameLengths, CopiesKept
  <2>3. log \in Logs /\ NonceKey(d0) \in NonceKeys /\ PairedKeys \subseteq NonceKeys
    BY <2>1, Executing DEF InFlight, BooksTyped, PairedKeys
  <2>4. \A key \in PairedKeys :
          log'.succeeded[key] = log.succeeded[key] + (IF key = NonceKey(d0) THEN 1 ELSE 0)
    <3>1. log'.succeeded = [log.succeeded EXCEPT ![NonceKey(d0)] = @ + 1]
      BY <2>1, <2>3 DEF Logs
    <3>2. log.succeeded \in [NonceKeys -> Nat]
      BY <2>3 DEF Logs
    <3> QED
      BY <2>3, <3>1, <3>2
  <2>5. settled(state')
    BY <1>3, <2>1, <2>2, <2>4
  <2> HIDE DEF settled, spent
  <2> QED
    BY <1>2, <2>1, <2>2, <2>5
<1>9. CASE CatchFailure
  <2>1. job.stage = "failed" /\ job'.stage = "idle" /\ EndTransaction
    BY <1>9 DEF CatchFailure, NoJob
  <2>2. log'.succeeded = log.succeeded
    <3>1. log \in Logs
      BY DEF InFlight, BooksTyped
    <3>2. log' = log \/ \E failures : log' = [log EXCEPT !.failures = failures]
      BY <1>9 DEF CatchFailure
    <3> QED
      BY <3>1, <3>2 DEF Logs
  <2>3. Len(frames') = 0 /\ state'.executed = state.executed
    BY <2>1, FrameLengths, CopiesKept
  <2>4. settled(state')
    BY <1>3, <2>1, <2>2, <2>3
  <2> HIDE DEF settled, spent
  <2> QED
    BY <1>2, <2>1, <2>3, <2>4
<1>10. CASE RevertTransaction \/ RevertAttempt
  <2>1. RevertFrame /\ log' = log /\ job'.stage \in {"idle", "failed"}
    BY <1>10, StageMoves DEF RevertTransaction, RevertAttempt, NoJob, Moved
  <2>2. /\ \E j \in 1 .. Len(frames) : state' = frames[j]
        /\ \A i \in 1 .. Len(frames') : \E j \in 1 .. Len(frames) : frames'[i] = frames[j]
    <3>1. frames \in Seq(States) /\ Len(frames) \in Nat /\ Len(frames) > 0
      BY <2>1, FrameLengths DEF TypeOK, RevertFrame, InTransaction
    <3> DEFINE n == Len(frames) - 1
    <3>2. n \in Nat /\ \A i \in 1 .. n : frames[i] \in States
      BY <3>1, ElementOfSeq
    <3>3. frames' = SubSeq(frames, 1, n) /\ state' = frames[Len(frames)]
      BY <2>1 DEF RevertFrame
    <3> HIDE DEF n
    <3>4. \A i \in 1 .. n - 1 + 1 : SubSeq(frames, 1, n)[i] = frames[1 + i - 1]
      BY <3>2, SubSeqProperties
    <3>5. Len(SubSeq(frames, 1, n)) = n
      BY <3>2, SubSeqProperties
    <3>6. \A i \in 1 .. n : frames'[i] = frames[i] /\ i \in 1 .. Len(frames)
      <4>1. \A i \in 1 .. n : SubSeq(frames, 1, n)[i] = frames[i]
        BY <3>2, <3>4
      <4>2. \A i \in 1 .. n : i \in 1 .. Len(frames)
        BY <3>1 DEF n
      <4> QED
        BY <3>3, <4>1, <4>2
    <3>7. Len(frames') = n
      BY <3>3, <3>5, Zenon
    <3>8. Len(frames) \in 1 .. Len(frames)
      BY <3>1
    <3> QED
      BY <3>3, <3>6, <3>7, <3>8, Zenon
  <2>3. \A j \in 1 .. Len(frames) : settled(frames[j])
    BY <1>3, <2>1
  <2> HIDE DEF settled, spent
  <2>4. settled(state')
    BY <2>2, <2>3
  <2>5. \A i \in 1 .. Len(frames') : settled(frames'[i])
    BY <2>2, <2>3
  <2> QED
    BY <1>2, <2>1, <2>4, <2>5
<1>11. CASE BeginOwnerTransaction
  <2>1. /\ job.stage = "idle" /\ job'.stage = "owner" /\ BeginTransaction /\ log' = log
    BY <1>11 DEF BeginOwnerTransaction, InFlight, BooksTyped, Jobs
  <2>2. state' = state /\ \A i \in 1 .. Len(frames') :
          frames'[i] = state \/ \E j \in 1 .. Len(frames) : frames'[i] = frames[j]
    BY <2>1, CopiesKept
  <2>3. settled(state) /\ \A j \in 1 .. Len(frames) : settled(frames[j])
    BY <1>3, <2>1
  <2> HIDE DEF settled, spent
  <2>4. settled(state') /\ \A i \in 1 .. Len(frames') : settled(frames'[i])
    BY <2>2, <2>3
  <2> QED
    BY <1>2, <2>1, <2>4
<1>12. CASE OwnerTransaction
  <2>1. job.stage = "owner" /\ log' = log /\ job'.stage \in {"owner", "idle"}
    BY <1>12 DEF OwnerTransaction, NoJob
  <2>2. state'.executed = state.executed /\ (frames' = frames \/ Len(frames') = 0)
    BY <1>12, OwnersSpendNothing, CopiesKept, FrameLengths DEF OwnerTransaction
  <2>3. settled(state')
    BY <1>3, <2>1, <2>2
  <2>4. \A j \in 1 .. Len(frames) : settled(frames[j])
    BY <1>3, <2>1
  <2> HIDE DEF settled, spent
  <2>5. \A i \in 1 .. Len(frames') : settled(frames'[i])
    BY <2>2, <2>4
  <2> QED
    BY <1>2, <2>1, <2>3, <2>5
<1>13. CASE ChangeWorld \/ Donate \/ Surroundings \/ UNCHANGED allVars
  <2>1. state' = state /\ frames' = frames /\ job' = job
    BY <1>13, WorldChanges DEF Donate, Surroundings, allVars, vars, executorVars, AdvanceBlock,
                 BumpRegistry, ChangeConditions
  <2>2. log'.succeeded = log.succeeded
    BY <1>13, WorldChanges DEF Donate, Surroundings, allVars, executorVars, InFlight, BooksTyped, Logs
  <2>3. d0' = d0
    BY <2>1 DEF d0
  <2> QED
    BY <1>1, <2>1, <2>2, <2>3 DEF Spending, Settled, Spent, NoBadDebt
<1> QED
  BY <1>4, <1>5, <1>6, <1>7, <1>8, <1>9, <1>10, <1>11, <1>12, <1>13
  DEF ExecutorNext, TransactionStep

(* While a flow runs its own context is armed, and its last call alone      *)
(* spends the nonce, in every copy a revert can bring back                  *)
(* (LoopExecutorBase and LoopAuthorization.executeMorpho).                  *)
THEOREM SpendingInductive == ExecutorSpec => []Spending
<1>1. ExecutorInit => Spending
  BY SpendingInit, AuthorizationAssumption, ExecutorAssumption
<1>2. TypeOK /\ JobSound /\ InFlight /\ InFlight' /\ Spending /\ [ExecutorNext]_allVars => Spending'
  BY SpendingNext, AuthorizationAssumption, ExecutorAssumption
<1> QED
  BY <1>1, <1>2, TypesHold, JobsSound, InFlightInductive, PTL DEF ExecutorSpec

(* What executes was admitted once, and no debt is drawn past a pause.      *)
THEOREM ExecutesUnderAuthority == ExecutorSpec => []ExecutedUnderAuthority
<1>1. ASSUME TypeOK, InFlight, Spending, NonceAccounting
      PROVE  SuccessSpendsNonce
  <2>1. ASSUME job.stage = "idle", NEW key \in PairedKeys
        PROVE  log.succeeded[key] = state.executed[key] /\ log.succeeded[key] <= 1
    <3>1. state.executed[key] = log.succeeded[key]
      BY <1>1, <2>1 DEF Spending, Settled
    <3>2. key \in NonceKeys /\ state.executed[key] \in Nat
      BY <1>1 DEF PairedKeys, TypeOK, States
    <3> QED
      BY <1>1, <3>1, <3>2 DEF NonceAccounting
  <2> QED
    BY <2>1 DEF SuccessSpendsNonce, SpentWithFinalCall, PairedKeys
<1>2. ExecutorSpec => []NonceAccounting
  BY ExecutorKeepsAuthorization, NoncesSpentOnce, PTL
<1>3. TypeOK /\ InFlight /\ Spending /\ NonceAccounting /\ PauseStopsBorrowing => ExecutedUnderAuthority
  BY <1>1 DEF ExecutedUnderAuthority
<1> QED
  BY <1>2, <1>3, TypesHold, InFlightInductive, SpendingInductive, PausedBeforeBorrowing, PTL

-----------------------------------------------------------------------------
(* The throttle.                                                            *)

FailedUnder(e, id) == {f \in log.failures : f.executor = e /\ f.id = id}

(* A counter and the failures since the last success: those of its window   *)
(* are counted, those an attempt window before it are fewer than the        *)
(* maximum, since the window they fell in was over by then and its first    *)
(* failure lies further back.                                               *)
CounterSound(counter, failures) ==
  /\ counter.start = 0 => failures = {}
  /\ counter.start <= block /\ counter.failed <= MaxFailedAttempts
  /\ \A f \in failures : f.block <= block /\ f.block <= counter.start + AttemptWindow
  /\ Cardinality({f \in failures : f.block >= counter.start}) <= counter.failed
  /\ counter.start # 0 => Cardinality({f \in failures : f.block > counter.start}) < counter.failed
  /\ \A first \in Nat : first + AttemptWindow >= counter.start =>
       Cardinality({f \in failures : f.block >= first /\ f.block < counter.start})
         < MaxFailedAttempts
  /\ \A first \in Nat :
       Cardinality({f \in failures : f.block \in first .. first + AttemptWindow})
         < 2 * MaxFailedAttempts

(* Every counter is sound, and what executes was not throttled.             *)
Throttling ==
  /\ block \in Nat \ {0}
  /\ \A e \in Executors, id \in PolicyIds : CounterSound(throttle[e][id], FailedUnder(e, id))
  /\ job.stage \notin {"idle", "owner"} /\ Counted => ~Throttled(Self, CounterId)

(* Counting the failures of a part of a finite set.                         *)
LEMMA PartCounts ==
  ASSUME NEW F, IsFiniteSet(F), NEW A \in SUBSET F, NEW B \in SUBSET F
  PROVE  /\ Cardinality(A) \in Nat /\ Cardinality(B) \in Nat
         /\ IsFiniteSet(A) /\ IsFiniteSet(B)
         /\ A \subseteq B => Cardinality(A) <= Cardinality(B)
         /\ Cardinality(A \cup B) \in Nat
         /\ Cardinality(A \cup B) <= Cardinality(A) + Cardinality(B)
<1>1. IsFiniteSet(A) /\ IsFiniteSet(B)
  BY FS_Subset
<1>2. Cardinality(A) \in Nat /\ Cardinality(B) \in Nat
  BY <1>1, FS_CardinalityType
<1>3. A \subseteq B => Cardinality(A) <= Cardinality(B)
  BY <1>1, FS_Subset
<1>4. /\ IsFiniteSet(A \cup B)
      /\ Cardinality(A \cup B) = Cardinality(A) + Cardinality(B) - Cardinality(A \cap B)
  BY <1>1, FS_Union
<1>5. A \cap B \in SUBSET A
  OBVIOUS
<1>6. Cardinality(A \cap B) \in Nat
  BY <1>1, <1>5, FS_Subset, FS_CardinalityType
<1>7. Cardinality(A \cup B) \in Nat
  BY <1>4, FS_CardinalityType
<1> QED
  BY <1>1, <1>2, <1>3, <1>4, <1>6, <1>7

(* One more failure raises a count by one at most.                          *)
LEMMA OneMore ==
  ASSUME NEW F, IsFiniteSet(F), NEW new, NEW A \in SUBSET (F \cup {new})
  PROVE  /\ Cardinality(A) \in Nat /\ Cardinality(A \cap F) \in Nat
         /\ Cardinality(A) <= Cardinality(A \cap F) + 1
         /\ new \notin A => A = A \cap F
<1>1. A \cap F \in SUBSET F
  OBVIOUS
<1>2. IsFiniteSet(A \cap F) /\ Cardinality(A \cap F) \in Nat
  BY <1>1, FS_Subset, FS_CardinalityType
<1>4. /\ IsFiniteSet((A \cap F) \cup {new})
      /\ Cardinality((A \cap F) \cup {new}) =
           IF new \in A \cap F THEN Cardinality(A \cap F) ELSE Cardinality(A \cap F) + 1
  BY <1>2, FS_AddElement
<1>5. CASE new \in A /\ new \notin F
  <2>1. A = (A \cap F) \cup {new} /\ new \notin A \cap F
    BY <1>5
  <2>2. Cardinality((A \cap F) \cup {new}) = Cardinality(A \cap F) + 1
    BY <1>4, <2>1
  <2>3. Cardinality(A) = Cardinality(A \cap F) + 1
    BY <2>1, <2>2
  <2> QED
    BY <1>2, <1>5, <2>3
<1>6. CASE ~(new \in A /\ new \notin F)
  <2>1. A = A \cap F
    BY <1>6
  <2> QED
    BY <1>2, <2>1
<1> QED
  BY <1>5, <1>6

(* A failure recorded while the counter does not throttle keeps it sound.   *)
LEMMA CounterRecords ==
  ASSUME ExecutorAssumption, block \in Nat \ {0}, NEW counter \in Counters,
         NEW F, IsFiniteSet(F), \A f \in F : f.block \in Nat, NEW new, new.block = block,
         CounterSound(counter, F), ~(InWindow(counter) /\ counter.failed >= MaxFailedAttempts)
  PROVE  CounterSound(RecordedFailure(counter), F \cup {new}) /\ RecordedFailure(counter) \in Counters
<1> DEFINE G == F \cup {new}
           after == RecordedFailure(counter)
           from(s, n) == {f \in s : f.block >= n}
           past(s, n) == {f \in s : f.block > n}
           between(s, a, b) == {f \in s : f.block >= a /\ f.block < b}
           within(s, a) == {f \in s : f.block \in a .. a + AttemptWindow}
<1>1. /\ counter.start \in Nat /\ counter.failed \in Nat /\ AttemptWindow \in Nat
      /\ MaxFailedAttempts \in 1 .. 255 /\ block \in Nat /\ block > 0
  BY DEF Counters, ExecutorAssumption
<1>2. /\ counter.start = 0 => F = {}
      /\ counter.start <= block /\ counter.failed <= MaxFailedAttempts
      /\ \A f \in F : f.block <= block /\ f.block <= counter.start + AttemptWindow
      /\ Cardinality(from(F, counter.start)) <= counter.failed
      /\ counter.start # 0 => Cardinality(past(F, counter.start)) < counter.failed
      /\ \A first \in Nat : first + AttemptWindow >= counter.start =>
           Cardinality(between(F, first, counter.start)) < MaxFailedAttempts
      /\ \A first \in Nat : Cardinality(within(F, first)) < 2 * MaxFailedAttempts
  BY DEF CounterSound
<1>3. IsFiniteSet(G) /\ \A f \in G : f.block \in Nat /\ f.block <= block
  BY <1>1, <1>2, FS_AddElement
<1>4. /\ \A n : from(G, n) \cap F = from(F, n) /\ past(G, n) \cap F = past(F, n)
      /\ \A a, b : between(G, a, b) \cap F = between(F, a, b)
      /\ \A a : within(G, a) \cap F = within(F, a)
  OBVIOUS
<1>5. /\ \A n : from(G, n) \in SUBSET G /\ past(G, n) \in SUBSET G
      /\ \A a, b : between(G, a, b) \in SUBSET G
      /\ \A a : within(G, a) \in SUBSET G
  OBVIOUS
<1>6. /\ after \in Counters /\ after.start # 0 /\ after.start <= block
      /\ after.failed <= MaxFailedAttempts /\ after.start \in Nat /\ after.failed \in Nat
  BY <1>1, <1>2 DEF RecordedFailure, InWindow, Counters
<1>7. \A f \in G : f.block <= block /\ f.block <= after.start + AttemptWindow
  BY <1>1, <1>2, <1>3 DEF RecordedFailure, InWindow, Counters
<1>8. \A n : /\ Cardinality(from(G, n)) \in Nat /\ Cardinality(from(F, n)) \in Nat
             /\ Cardinality(past(G, n)) \in Nat /\ Cardinality(past(F, n)) \in Nat
             /\ Cardinality(from(G, n)) <= Cardinality(from(F, n)) + 1
             /\ Cardinality(past(G, n)) <= Cardinality(past(F, n)) + 1
  <2> HIDE DEF from, past, G
  <2>1. \A A \in SUBSET G : /\ Cardinality(A) \in Nat /\ Cardinality(A \cap F) \in Nat
                            /\ Cardinality(A) <= Cardinality(A \cap F) + 1
    BY OneMore DEF G
  <2> QED
    BY <1>4, <1>5, <2>1
<1>9. /\ Cardinality(from(G, after.start)) <= after.failed
      /\ Cardinality(past(G, after.start)) < after.failed
  <2>1. CASE InWindow(counter)
    <3>1. after.start = counter.start /\ after.failed = counter.failed + 1 /\ counter.start # 0
      BY <1>1, <2>1 DEF RecordedFailure, InWindow, Counters
    <3> HIDE DEF from, past, after, G
    <3> QED
      BY <1>1, <1>2, <1>8, <3>1
  <2>2. CASE ~InWindow(counter)
    <3>1. after.start = block /\ after.failed = 1
      BY <2>2 DEF RecordedFailure
    <3>2. from(F, block) = {} /\ past(F, block) = {}
      BY <1>1, <1>2, <2>2 DEF InWindow
    <3>3. past(G, block) = {}
      BY <1>1, <1>3
    <3>4. Cardinality({}) = 0
      BY FS_EmptySet
    <3> HIDE DEF from, past, after, G
    <3> QED
      <4>1. from(G, after.start) = from(G, block) /\ past(G, after.start) = past(G, block)
        BY <3>1
      <4>2. Cardinality(from(G, block)) \in Nat /\ Cardinality(from(G, block)) <= Cardinality(from(F, block)) + 1
        BY <1>8
      <4>3. Cardinality(from(G, block)) <= 1
        BY <3>2, <3>4, <4>2
      <4> QED
        BY <3>1, <3>3, <3>4, <4>1, <4>3
  <2> QED
    BY <2>1, <2>2
<1>10. ASSUME NEW first \in Nat, first + AttemptWindow >= after.start
       PROVE  Cardinality(between(G, first, after.start)) < MaxFailedAttempts
  <2>1. new \notin between(G, first, after.start)
    BY <1>1, <1>6
  <2>2. between(G, first, after.start) = between(F, first, after.start)
    BY <2>1
  <2>3. CASE InWindow(counter)
    <3>1. after.start = counter.start
      BY <2>3 DEF RecordedFailure
    <3> HIDE DEF between, after, G
    <3> QED
      BY <1>2, <1>10, <2>2, <3>1
  <2>4. CASE ~InWindow(counter)
    <3>1. after.start = block
      BY <2>4 DEF RecordedFailure
    <3>2. CASE counter.start = 0
      <4>1. between(F, first, after.start) = {}
        BY <1>2, <3>2
      <4> HIDE DEF between, after, G
      <4> QED
        BY <1>1, <2>2, <4>1, FS_EmptySet
    <3>3. CASE counter.start # 0
      <4>1. first > counter.start
        BY <1>1, <1>10, <2>4, <3>1, <3>3 DEF InWindow
      <4>2. /\ between(F, first, after.start) \in SUBSET F /\ past(F, counter.start) \in SUBSET F
            /\ between(F, first, after.start) \subseteq past(F, counter.start)
        BY <1>1, <4>1
      <4> HIDE DEF between, past, after, G
      <4>3. /\ Cardinality(between(F, first, after.start)) \in Nat
            /\ Cardinality(past(F, counter.start)) \in Nat
            /\ Cardinality(between(F, first, after.start)) <= Cardinality(past(F, counter.start))
        BY <4>2, PartCounts
      <4> QED
        BY <1>1, <1>2, <2>2, <3>3, <4>3
    <3> QED
      BY <3>2, <3>3
  <2> QED
    BY <2>3, <2>4
<1>11. ASSUME NEW first \in Nat
       PROVE  Cardinality(within(G, first)) < 2 * MaxFailedAttempts
  <2>1. CASE first + AttemptWindow >= after.start
    <3>1. within(G, first) \subseteq between(G, first, after.start) \cup from(G, after.start)
      BY <1>1, <1>3, <1>6
    <3>2. Cardinality(between(G, first, after.start)) < MaxFailedAttempts
      BY <1>10, <2>1
    <3>3. between(G, first, after.start) \cup from(G, after.start) \in SUBSET G
      BY <1>5
    <3> HIDE DEF within, between, from, after, G
    <3>4. /\ Cardinality(between(G, first, after.start)) \in Nat
          /\ Cardinality(from(G, after.start)) \in Nat
          /\ Cardinality(between(G, first, after.start) \cup from(G, after.start)) \in Nat
          /\ Cardinality(between(G, first, after.start) \cup from(G, after.start)) <=
               Cardinality(between(G, first, after.start)) + Cardinality(from(G, after.start))
      BY <1>3, <1>5, PartCounts
    <3>5. /\ Cardinality(within(G, first)) \in Nat
          /\ Cardinality(within(G, first)) <=
               Cardinality(between(G, first, after.start) \cup from(G, after.start))
      BY <1>3, <1>5, <3>1, <3>3, PartCounts
    <3> QED
      BY <1>1, <1>6, <1>9, <3>2, <3>4, <3>5
  <2>2. CASE first + AttemptWindow < after.start
    <3>1. new \notin within(G, first)
      BY <1>1, <1>6, <2>2
    <3>2. within(G, first) = within(F, first)
      BY <3>1
    <3> QED
      BY <1>2, <3>2
  <2> QED
    BY <1>1, <1>6, <2>1, <2>2
<1>12. /\ Cardinality({f \in G : f.block >= after.start}) <= after.failed
       /\ Cardinality({f \in G : f.block > after.start}) < after.failed
       /\ \A first \in Nat : first + AttemptWindow >= after.start =>
            Cardinality({f \in G : f.block >= first /\ f.block < after.start}) < MaxFailedAttempts
       /\ \A first \in Nat : Cardinality({f \in G : f.block \in first .. first + AttemptWindow})
            < 2 * MaxFailedAttempts
  BY <1>9, <1>10, <1>11
<1> HIDE DEF after, G
<1>13. CounterSound(after, G)
  BY <1>6, <1>7, <1>12 DEF CounterSound
<1> QED
  BY <1>6, <1>13 DEF after, G

LEMMA ThrottlingInit ==
  ASSUME AuthorizationAssumption, ExecutorAssumption, ExecutorInit, TypeOK
  PROVE  Throttling
<1>1. block \in Nat \ {0}
  BY DEF ExecutorInit, Init
<1>2. job.stage = "idle"
  BY DEF ExecutorInit, NoJob
<1>3. ASSUME NEW e \in Executors, NEW id \in PolicyIds
      PROVE  CounterSound(throttle[e][id], FailedUnder(e, id))
  <2>1. throttle[e][id].start = 0 /\ throttle[e][id].failed = 0 /\ FailedUnder(e, id) = {}
    BY <1>3 DEF ExecutorInit, NoFailures, FailedUnder
  <2> QED
    BY <1>1, <2>1, FS_EmptySet DEF CounterSound, ExecutorAssumption
<1> QED
  BY <1>1, <1>2, <1>3 DEF Throttling

(* Time passing keeps a counter sound.                                      *)
LEMMA CounterAges ==
  ASSUME NEW counter \in Counters, NEW F, \A f \in F : f.block \in Nat,
         block \in Nat, block' \in Nat, block <= block', CounterSound(counter, F)
  PROVE  /\ counter.start = 0 => F = {}
         /\ counter.start <= block'
         /\ \A f \in F : f.block <= block'
BY DEF CounterSound, Counters

LEMMA BlockMoves ==
  ASSUME TypeOK, JobSound, InFlight, [ExecutorNext]_allVars
  PROVE  \/ block' = block
         \/ block' = block + 1 /\ job.stage = "idle" /\ UNCHANGED executorVars
<1>1. CASE Submit \/ TransactionStep \/ BeginOwnerTransaction \/ OwnerTransaction \/ ChangeWorld
           \/ Donate \/ UNCHANGED allVars
  <2>1. ASSUME \/ BeginTransaction \/ EnterFrame \/ LeaveFrame \/ RevertFrame \/ EndTransaction
               \/ UNCHANGED vars
        PROVE  block' = block
    BY <2>1 DEF BeginTransaction, EnterFrame, LeaveFrame, RevertFrame, EndTransaction, vars
  <2> QED
    BY <1>1, WorldChanges, <2>1, CallsKeepFrames
    DEF Submit, ExecuteOpen, ExecuteRebalance, ExecuteExit, ExecuteAutomationExec, ExecuteForceExit,
        Enter, TransactionStep, TryAttempt, ValidateAndFlash, SupplyStep, BorrowStep, RepayStep,
        WithdrawStep, SwapStep, SettleFlash, Finish, ReturnSuccess, RevertTransaction, RevertAttempt,
        CatchFailure, BeginOwnerTransaction, OwnerTransaction, Donate, allVars
<1>2. CASE Surroundings
  <2>1. CASE AdvanceBlock
    <3>1. Len(frames) = 0
      BY <2>1, FrameLengths DEF AdvanceBlock, InTransaction
    <3>2. job.stage = "idle"
      BY <3>1 DEF InFlight, FrameDepth
    <3> QED
      BY <1>2, <2>1, <3>2 DEF AdvanceBlock, Surroundings
  <2> QED
    BY <1>2, <2>1 DEF Surroundings, BumpRegistry, ChangeConditions
<1> QED
  BY <1>1, <1>2 DEF ExecutorNext

(* What is recorded changes only as an attempt ends.                        *)
LEMMA RecordMoves ==
  ASSUME InFlight, [ExecutorNext]_allVars
  PROVE  \/ ReturnSuccess \/ CatchFailure
         \/ throttle' = throttle /\ log'.failures = log.failures
<1>1. log \in Logs
  BY DEF InFlight, BooksTyped
<1>2. CASE Donate
  BY <1>1, <1>2 DEF Donate, Logs
<1>3. CASE Submit
  BY <1>3 DEF Submit, ExecuteOpen, ExecuteRebalance, ExecuteExit, ExecuteAutomationExec,
              ExecuteForceExit, Enter
<1>4. CASE TransactionStep
  BY <1>4 DEF TransactionStep, TryAttempt, ValidateAndFlash, SupplyStep, BorrowStep, RepayStep,
              WithdrawStep, SwapStep, SettleFlash, Finish, RevertTransaction, RevertAttempt
<1>5. CASE BeginOwnerTransaction \/ OwnerTransaction \/ ChangeWorld \/ Surroundings \/ UNCHANGED allVars
  BY <1>5, WorldChanges DEF BeginOwnerTransaction, OwnerTransaction, Surroundings, allVars, executorVars
<1> QED
  BY <1>2, <1>3, <1>4, <1>5 DEF ExecutorNext

(* An execution in progress was let in by its counter.                      *)
LEMMA AdmittedUnthrottled ==
  ASSUME TypeOK, JobSound, InFlight, Throttling, [ExecutorNext]_allVars
  PROVE  job'.stage \notin {"idle", "owner"} /\ Counted' => ~Throttled(Self, CounterId)'
<1>1. CASE Submit
  <2>1. PICK d \in Digests, sender \in Addresses \cup {Null} :
          /\ job'.digest = d /\ throttle' = throttle
          /\ d.type = "AUTOMATION_EXEC" => ~Throttled(Executor, d.policyId)
          /\ d.type = "FORCE_EXIT" /\ d.kind = "KEEPER_PERMISSIONLESS" =>
               ~Throttled(ForceExitExecutor, 0)
    BY <1>1 DEF Submit, ExecuteOpen, ExecuteRebalance, ExecuteExit, ExecuteAutomationExec,
                ExecuteForceExit, Enter, Entered, NoJob
  <2>2. block' = block
    BY <1>1 DEF Submit, ExecuteOpen, ExecuteRebalance, ExecuteExit, ExecuteAutomationExec,
                ExecuteForceExit, Enter, BeginTransaction
  <2> QED
    BY <2>1, <2>2 DEF Counted, Caught, Self, CounterId, ExecutorFor, d0, Throttled, InWindow
<1>2. CASE ReturnSuccess \/ CatchFailure
  BY <1>2 DEF ReturnSuccess, CatchFailure, NoJob
<1>3. CASE BeginOwnerTransaction
  BY <1>3 DEF BeginOwnerTransaction, InFlight, BooksTyped, Jobs
<1>4. CASE job'.digest = job.digest /\ job.stage \notin {"idle", "owner"} /\ throttle' = throttle
  <2>1. block' = block
    BY <1>4, BlockMoves
  <2> QED
    BY <1>4, <2>1 DEF Throttling, Counted, Caught, Self, CounterId, d0, Throttled, InWindow
<1>5. CASE TransactionStep
  <2>1. ReturnSuccess \/ CatchFailure \/ RevertTransaction \/ job'.digest = job.digest
    BY <1>5, StageMoves DEF TransactionStep, Moved
  <2>2. RevertTransaction => job' = NoJob
    BY DEF RevertTransaction
  <2>3. job.stage \notin {"idle", "owner"}
    BY <1>5 DEF TransactionStep, TryAttempt, ValidateAndFlash, SupplyStep, BorrowStep, RepayStep,
              WithdrawStep, SwapStep, SettleFlash, Finish, ReturnSuccess, RevertTransaction,
              RevertAttempt, CatchFailure, Running
  <2> QED
    BY <1>2, <1>4, <2>1, <2>2, <2>3, RecordMoves DEF NoJob
<1>6. CASE OwnerTransaction
  BY <1>6 DEF OwnerTransaction, NoJob
<1>7. CASE ChangeWorld \/ Donate \/ Surroundings \/ UNCHANGED allVars
  <2>1. job' = job /\ throttle' = throttle
    BY <1>7, WorldChanges DEF Donate, Surroundings, allVars, executorVars
  <2> QED
    BY <1>4, <2>1
<1> QED
  BY <1>1, <1>3, <1>5, <1>6, <1>7 DEF ExecutorNext

LEMMA ThrottlingNext ==
  ASSUME AuthorizationAssumption, ExecutorAssumption, TypeOK, JobSound, InFlight,
         Throttling, [ExecutorNext]_allVars
  PROVE  Throttling'
<1>1. /\ throttle \in [Executors -> [PolicyIds -> Counters]] /\ log \in Logs
      /\ IsFiniteSet(log.failures) /\ block \in Nat \ {0}
      /\ \A f \in log.failures : f.block \in Nat
  BY DEF InFlight, BooksTyped, Throttling, Logs
<1>2. block' \in Nat \ {0} /\ block <= block'
  BY <1>1, BlockMoves
<1>3. ASSUME NEW e \in Executors, NEW id \in PolicyIds,
             throttle'[e][id] = throttle[e][id], FailedUnder(e, id)' = FailedUnder(e, id)
      PROVE  CounterSound(throttle[e][id], FailedUnder(e, id))'
  <2> DEFINE counter == throttle[e][id]
             failed == FailedUnder(e, id)
  <2>1. CounterSound(counter, failed)
    BY DEF Throttling
  <2>2. counter \in Counters /\ \A f \in failed : f.block \in Nat
    BY <1>1 DEF FailedUnder
  <2>3. throttle'[e][id] = counter /\ FailedUnder(e, id)' = failed
    BY <1>3
  <2> HIDE DEF counter, failed
  <2>4. counter.start <= block' /\ \A f \in failed : f.block <= block'
    BY <1>1, <1>2, <2>1, <2>2, CounterAges
  <2> QED
    BY <2>1, <2>3, <2>4 DEF CounterSound
<1>4. ASSUME NEW e \in Executors, NEW id \in PolicyIds
      PROVE  CounterSound(throttle[e][id], FailedUnder(e, id))'
  <2>1. CASE throttle' = throttle /\ log'.failures = log.failures
    BY <1>3, <2>1 DEF FailedUnder
  <2>2. CASE ReturnSuccess
    <3>1. /\ job.stage = "return"
          /\ throttle' = IF Counted THEN [throttle EXCEPT ![Self][CounterId] = NoFailures] ELSE throttle
          /\ log'.failures = IF Counted
               THEN {f \in log.failures : <<f.executor, f.id>> # <<Self, CounterId>>}
               ELSE log.failures
      BY <1>1, <2>2 DEF ReturnSuccess, Logs
    <3>2. CASE ~Counted
      BY <2>1, <3>1, <3>2
    <3>3. CASE Counted /\ e = Self /\ id = CounterId
      <4>1. throttle'[e][id] = NoFailures /\ FailedUnder(e, id)' = {}
        BY <1>1, <3>1, <3>3 DEF FailedUnder
      <4>2. throttle'[e][id].start = 0 /\ throttle'[e][id].failed = 0
        BY <4>1 DEF NoFailures
      <4> QED
        BY <1>2, <4>1, <4>2, FS_EmptySet DEF CounterSound, ExecutorAssumption
    <3>4. CASE Counted /\ ~(e = Self /\ id = CounterId)
      <4>1. throttle'[e][id] = throttle[e][id] /\ FailedUnder(e, id)' = FailedUnder(e, id)
        BY <1>1, <3>1, <3>4 DEF FailedUnder
      <4> QED
        BY <1>3, <4>1
    <3> QED
      BY <3>2, <3>3, <3>4
  <2>3. CASE CatchFailure
    <3>1. CASE ~Counted
      BY <2>1, <2>3, <3>1 DEF CatchFailure
    <3>2. CASE Counted
      <4> DEFINE new == [executor |-> Self, id |-> CounterId, owner |-> d0.owner, block |-> block,
                 number |-> Cardinality({f \in log.failures : <<f.executor, f.id>> = <<Self, CounterId>>})]
      <4>1. /\ job.stage = "failed"
            /\ throttle' = [throttle EXCEPT ![Self][CounterId] = RecordedFailure(@)]
            /\ log'.failures = log.failures \cup {new}
        BY <1>1, <2>3, <3>2, ZenonT(40) DEF CatchFailure, Logs
      <4>2. new.executor = Self /\ new.id = CounterId /\ new.block = block
        OBVIOUS
      <4> HIDE DEF new
      <4>3. Self \in Executors /\ CounterId \in PolicyIds
        BY <4>1, Executing
      <4>4. CASE e = Self /\ id = CounterId
        <5>1. /\ throttle'[e][id] = RecordedFailure(throttle[e][id])
              /\ FailedUnder(e, id)' = FailedUnder(e, id) \cup {new}
          <6>1. throttle'[e][id] = RecordedFailure(throttle[e][id])
            BY <1>1, <4>1, <4>3, <4>4
          <6>2. FailedUnder(e, id)' = FailedUnder(e, id) \cup {new}
            BY <4>1, <4>2, <4>4 DEF FailedUnder
          <6> QED
            BY <6>1, <6>2
        <5>2. /\ CounterSound(throttle[e][id], FailedUnder(e, id))
              /\ throttle[e][id] \in Counters
              /\ \A f \in FailedUnder(e, id) : f.block \in Nat
          <6>1. CounterSound(throttle[e][id], FailedUnder(e, id))
            BY DEF Throttling
          <6>2. throttle[e][id] \in Counters
            BY <1>1
          <6>3. \A f \in FailedUnder(e, id) : f.block \in Nat
            BY <1>1 DEF FailedUnder
          <6> QED
            BY <6>1, <6>2, <6>3
        <5>3. ~(InWindow(throttle[e][id]) /\ throttle[e][id].failed >= MaxFailedAttempts)
          BY <3>2, <4>1, <4>4 DEF Throttling, Throttled
        <5>4. FailedUnder(e, id) \in SUBSET log.failures
          BY DEF FailedUnder
        <5>5. IsFiniteSet(FailedUnder(e, id))
          BY <1>1, <5>4, FS_Subset
        <5>6. CounterSound(RecordedFailure(throttle[e][id]), FailedUnder(e, id) \cup {new})
          BY <1>1, <4>2, <5>2, <5>3, <5>5, CounterRecords
        <5>7. block' = block
          BY <4>1, BlockMoves
        <5> QED
          BY <5>1, <5>6, <5>7 DEF CounterSound
      <4>5. CASE ~(e = Self /\ id = CounterId)
        <5>1. throttle'[e][id] = throttle[e][id] /\ FailedUnder(e, id)' = FailedUnder(e, id)
          BY <1>1, <4>1, <4>2, <4>5 DEF FailedUnder
        <5> QED
          BY <1>3, <5>1
      <4> QED
        BY <4>4, <4>5
    <3> QED
      BY <3>1, <3>2
  <2> QED
    BY <2>1, <2>2, <2>3, RecordMoves
<1>5. job'.stage \notin {"idle", "owner"} /\ Counted' => ~Throttled(Self, CounterId)'
  BY AdmittedUnthrottled
<1> QED
  BY <1>2, <1>4, <1>5 DEF Throttling

LEMMA ThrottlingInductive == ExecutorSpec => []Throttling
<1>1. ExecutorInit /\ TypeOK => Throttling
  BY ThrottlingInit, AuthorizationAssumption, ExecutorAssumption
<1>2. TypeOK /\ JobSound /\ InFlight /\ Throttling /\ [ExecutorNext]_allVars => Throttling'
  BY ThrottlingNext, AuthorizationAssumption, ExecutorAssumption
<1> QED
  BY <1>1, <1>2, TypesHold, JobsSound, InFlightInductive, PTL DEF ExecutorSpec

(* Without a success in between, any attempt window of blocks sees fewer    *)
(* failed attempts under one counter than twice the maximum.                *)
THEOREM ThrottleBounds == ExecutorSpec => []ThrottleBoundsFailures
<1>1. ASSUME Throttling PROVE ThrottleBoundsFailures
  <2>1. ASSUME NEW e \in Executors, NEW id \in PolicyIds, NEW first \in 1 .. LastSubmission
        PROVE  Cardinality({f \in log.failures : /\ f.executor = e /\ f.id = id
                                                 /\ f.block \in first .. first + AttemptWindow})
                 < 2 * MaxFailedAttempts
    <3>1. first \in Nat
      BY ExecutorAssumption DEF ExecutorAssumption
    <3>2. Cardinality({f \in FailedUnder(e, id) : f.block \in first .. first + AttemptWindow})
            < 2 * MaxFailedAttempts
      BY <1>1, <3>1 DEF Throttling, CounterSound
    <3>3. {f \in FailedUnder(e, id) : f.block \in first .. first + AttemptWindow} =
            {f \in log.failures : /\ f.executor = e /\ f.id = id
                                  /\ f.block \in first .. first + AttemptWindow}
      BY DEF FailedUnder
    <3> QED
      BY <3>2, <3>3
  <2> QED
    BY <2>1 DEF ThrottleBoundsFailures
<1> QED
  BY <1>1, ThrottlingInductive, PTL

(* A throttled counter runs out: no attempt, of whichever keeper, owner or  *)
(* executor, touches it until its window is over, and that is at most       *)
(* AttemptWindow blocks after it began.                                     *)
Unprolonged ==
  \A e \in Executors, id \in PolicyIds : Throttled(e, id) => throttle'[e][id] = throttle[e][id]
TermEnds ==
  \A e \in Executors, id \in PolicyIds :
    Throttled(e, id) => throttle[e][id].start \in 1 .. block /\ block - throttle[e][id].start <= AttemptWindow

THEOREM ThrottleRunsOut == ExecutorSpec => [][Unprolonged]_allVars /\ []TermEnds
<1>1. ASSUME InFlight, Throttling, [ExecutorNext]_allVars
      PROVE  Unprolonged
  <2> SUFFICES ASSUME NEW e \in Executors, NEW id \in PolicyIds, Throttled(e, id)
               PROVE  throttle'[e][id] = throttle[e][id]
    BY DEF Unprolonged
  <2>1. throttle \in [Executors -> [PolicyIds -> Counters]]
    BY <1>1 DEF InFlight, BooksTyped
  <2>2. CASE throttle' = throttle
    BY <2>2
  <2>3. CASE ReturnSuccess \/ CatchFailure
    <3>1. job.stage \notin {"idle", "owner"}
      BY <2>3 DEF ReturnSuccess, CatchFailure
    <3>2. Counted => <<e, id>> # <<Self, CounterId>>
      BY <1>1, <3>1 DEF Throttling
    <3>3. \/ throttle' = throttle
          \/ Counted /\ \E counter : throttle' = [throttle EXCEPT ![Self][CounterId] = counter]
      BY <2>3 DEF ReturnSuccess, CatchFailure
    <3> QED
      BY <2>1, <3>2, <3>3
  <2> QED
    BY <1>1, <2>2, <2>3, RecordMoves
<1>2. ASSUME InFlight, Throttling
      PROVE  TermEnds
  <2> SUFFICES ASSUME NEW e \in Executors, NEW id \in PolicyIds, Throttled(e, id)
               PROVE  /\ throttle[e][id].start \in 1 .. block
                      /\ block - throttle[e][id].start <= AttemptWindow
    BY DEF TermEnds
  <2>1. throttle[e][id].start \in Nat
    BY <1>2 DEF InFlight, BooksTyped, Counters
  <2>2. block \in Nat /\ throttle[e][id].start <= block
    BY <1>2 DEF Throttling, CounterSound
  <2>3. throttle[e][id].start # 0 /\ block <= throttle[e][id].start + AttemptWindow /\ AttemptWindow \in Nat
    BY ExecutorAssumption DEF Throttled, InWindow, ExecutorAssumption
  <2> QED
    BY <2>1, <2>2, <2>3
<1> QED
  BY <1>1, <1>2, InFlightInductive, ThrottlingInductive, PTL DEF ExecutorSpec
=============================================================================
