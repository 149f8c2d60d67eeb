------------------------- MODULE LoopAuthorization -------------------------
(***************************************************************************)
(* contracts/v2/LoopAuthorization.sol with the libraries it calls while it *)
(* validates an action and forwards it to Morpho: LoopV1ActionValidation,  *)
(* LoopV1ActionContext and LoopV1MorphoValidation.                         *)
(*                                                                         *)
(* A transaction is a stack of call frames.  `state' is everything the EVM *)
(* rolls back when a frame reverts: the contract's storage, the transient  *)
(* action context and what Morpho did for it; `frames' holds the copies    *)
(* the open frames fall back to.  A call that reverts and is caught leaves *)
(* no trace, so only successful calls are actions.                         *)
(***************************************************************************)
EXTENDS Integers, Sequences, FiniteSets

CONSTANTS
  Owners,              \* position owners
  Executor,            \* LoopExecutorV2, the registry's executor of five action types
  ForceExitExecutor,   \* LoopForceExitExecutor
  Keepers,             \* addresses on the registry's permissionlessCallerAllowed list
  Operators,           \* addresses with the registry's operatorRecoveryRole
  Digests,             \* the action digests some owner has signed
  PolicyTerms,         \* the [type, kind, class] an owner may create a policy with
  Hashes,              \* policy hashes, of which
  ZeroHash,            \* bytes32(0), the hash of a policy that was never created
  Conditions,          \* the registry and oracle conditions that may come and go
  Amounts,             \* token amounts an executor may pass to Morpho
  InitialActivity,     \* the registry's ownerActivityBlocks when the contract starts
  RecoveryBlocks,      \* registry.operatorRecoveryNBlocks()
  MaxPolicyExpiry,     \* registry.maxPolicyExpiryBlocks(class)
  Null,                \* the zero a cleared transient slot holds
  MaxBlock,            \* bound: last block
  MaxVersion,          \* bound: last registry version
  MaxPolicies,         \* bound: policies per owner
  MaxDepth             \* bound: nested call frames

PrimaryTypes == {"OPEN", "REBALANCE", "EXIT", "FORCE_EXIT", "REVOKE", "AUTOMATION_EXEC"}
ExecutionKinds == {"OWNER_DIRECT", "KEEPER_PERMISSIONLESS", "OPERATOR_RECOVERY"}
PolicyClasses == {"OPEN", "REBALANCE", "EXIT", "REPAY_ONLY", "DELEVERAGE_ONLY", "FORCE_EXIT"}
Selectors == {"SUPPLY_COLLATERAL", "BORROW", "REPAY", "WITHDRAW_COLLATERAL"}

(* The degraded conditions a ForceExit digest can acknowledge, and all the  *)
(* conditions validation reads: DRIFT is a failed validateExternalConfig,   *)
(* COOLING an unfinished harvest cooling, NEAR_LIQUIDATION a position       *)
(* within forceExitBufferBps, BLOCKED any other risk-up bit of the bitmap.  *)
CriticalRisks == {"ORACLE", "CURVE", "SEQUENCER", "VAULT"}
AllConditions == CriticalRisks \cup {"DRIFT", "COOLING", "NEAR_LIQUIDATION", "BLOCKED"}

Addresses == Owners \cup {Executor, ForceExitExecutor} \cup Keepers \cup Operators
Blocks == 1 .. MaxBlock

(* A signed digest.  `class' is the policy class its validator passes on    *)
(* (REPAY_ONLY for a repayOnly exit), [validFrom, validUntil] the blocks    *)
(* the deadline and quote bounds leave, `attested' the outcome of the       *)
(* EIP-1271 preimage check, `target' the policy a Revoke digest names.      *)
DigestType ==
  [type: PrimaryTypes, owner: Owners, kind: ExecutionKinds, class: PolicyClasses,
   policyId: Nat, nonce: Nat, executor: Addresses, version: Nat,
   validFrom: Nat, validUntil: Nat, notBefore: Nat, notAfter: Nat,
   mevWaived: BOOLEAN, attested: BOOLEAN, hash: Hashes, acknowledged: SUBSET CriticalRisks,
   minBorrow: Nat, maxBorrow: Nat, maxDebtIncrease: Nat, minRepay: Nat,
   maxCollateralSold: Nat, target: Nat]

NonceKey(d) == [owner |-> d.owner, policyId |-> d.policyId, type |-> d.type, nonce |-> d.nonce]
NonceKeys == {NonceKey(d) : d \in Digests}

(* The policy classes a validator can pass on for each action type.         *)
ClassesOf(type) ==
  CASE type \in {"OPEN", "REBALANCE", "FORCE_EXIT"} -> {type}
    [] type = "EXIT" -> {"EXIT", "REPAY_ONLY"}
    [] OTHER -> PolicyClasses

(* Digests no validator accepts whatever the state (zero-equity OPEN, exits *)
(* accepting third-party repay, foreign market parameters) are left out.    *)
(* An OPEN digest with a zero borrow band would make executeMorpho skip the *)
(* band (LoopV1MorphoValidation 67); Morpho itself refuses to borrow zero.  *)
ASSUME AuthorizationAssumption ==
  /\ Digests \subseteq DigestType
  /\ \A d \in Digests : d.class \in ClassesOf(d.type) /\ (d.type = "OPEN" => d.maxBorrow > 0)
  /\ ZeroHash \in Hashes
  /\ Amounts \subseteq Nat
  /\ Conditions \subseteq AllConditions
  /\ PolicyTerms \subseteq [type: PrimaryTypes, kind: ExecutionKinds, class: PolicyClasses]
  /\ InitialActivity \in [Owners -> Nat]
  /\ RecoveryBlocks \in Nat /\ MaxPolicyExpiry \in Nat
  /\ MaxBlock \in Nat \ {0} /\ MaxVersion \in Nat \ {0} /\ MaxPolicies \in Nat
  /\ MaxDepth \in Nat \ {0}
  /\ Null \notin Digests /\ Null \notin Selectors

VARIABLES
  state,      \* what a revert rolls back
  frames,     \* the copies of `state' the open call frames revert to
  block,      \* block.number, and block.timestamp counted in blocks
  registry    \* the registry's version and the conditions that hold now

vars == <<state, frames, block, registry>>

(* Struct Policy of LoopAuthorization; an owner's policy ids are 1, 2, ...  *)
Policies ==
  [type: PrimaryTypes, kind: ExecutionKinds, class: PolicyClasses, hash: Hashes,
   expiry: Nat, revoked: Nat, minRepay: Nat, maxCollateralSold: Nat]

EmptyPolicy ==
  [type |-> "OPEN", kind |-> "OWNER_DIRECT", class |-> "OPEN", hash |-> ZeroHash,
   expiry |-> 0, revoked |-> 0, minRepay |-> 0, maxCollateralSold |-> 0]

Contexts ==
  [digest: Digests \cup {Null}, terminal: Selectors \cup {Null}, step: Nat, minBorrow: Nat,
   maxBorrow: Nat, minRepay: Nat, maxCollateral: Nat, maxDebtIncrease: Nat]

ClearContext ==
  [digest |-> Null, terminal |-> Null, step |-> 0, minBorrow |-> 0, maxBorrow |-> 0,
   minRepay |-> 0, maxCollateral |-> 0, maxDebtIncrease |-> 0]

(* The last six fields are history: nonces cancelled by their owner,        *)
(* terminal calls per nonce, funds paid out per digest, block of the last   *)
(* terminal per owner and, in the current transaction, the last call to     *)
(* Morpho as <<digest, selector, amount>> and the owners whose policies     *)
(* were written.                                                            *)
States ==
  [policies: [Owners -> Seq(Policies)], nonces: SUBSET NonceKeys,
   lastSigned: [Owners -> Nat], activity: [Owners -> Nat],
   context: Contexts,
   cancelled: SUBSET NonceKeys, executed: [NonceKeys -> Nat],
   released: [Digests -> Nat], lastTerminal: [Owners -> Nat],
   lastCall: (Digests \X Selectors \X Amounts) \cup {<<>>}, edited: SUBSET Owners]

InTransaction == frames # <<>>
Committed == IF InTransaction THEN frames[1] ELSE state

Init ==
  /\ state = [policies |-> [o \in Owners |-> <<>>], nonces |-> {},
              lastSigned |-> [o \in Owners |-> 0], activity |-> InitialActivity,
              context |-> ClearContext, cancelled |-> {},
              executed |-> [k \in NonceKeys |-> 0],
              released |-> [d \in Digests |-> 0],
              lastTerminal |-> InitialActivity, lastCall |-> <<>>, edited |-> {}]
  /\ frames = <<>>
  /\ block = 1
  /\ registry = [version |-> 1, conditions |-> {}]

-----------------------------------------------------------------------------
(* The EVM around the contract. *)

BeginTransaction ==
  /\ ~InTransaction
  /\ frames' = <<state>>
  /\ UNCHANGED <<state, block, registry>>

EnterFrame ==
  /\ InTransaction
  /\ Len(frames) < MaxDepth
  /\ frames' = Append(frames, state)
  /\ UNCHANGED <<state, block, registry>>

LeaveFrame ==
  /\ Len(frames) > 1
  /\ frames' = SubSeq(frames, 1, Len(frames) - 1)
  /\ UNCHANGED <<state, block, registry>>

RevertFrame ==
  /\ InTransaction
  /\ state' = frames[Len(frames)]
  /\ frames' = SubSeq(frames, 1, Len(frames) - 1)
  /\ UNCHANGED <<block, registry>>

EndTransaction ==
  /\ Len(frames) = 1
  /\ frames' = <<>>
  /\ state' = [state EXCEPT !.context = ClearContext, !.lastCall = <<>>, !.edited = {}]
  /\ UNCHANGED <<block, registry>>

AdvanceBlock ==
  /\ ~InTransaction
  /\ block < MaxBlock
  /\ block' = block + 1
  /\ UNCHANGED <<state, frames, registry>>

(* Governance commits a registry batch: the version every digest is signed *)
(* under moves on.                                                         *)
BumpRegistry ==
  /\ ~InTransaction
  /\ registry.version < MaxVersion
  /\ registry' = [registry EXCEPT !.version = @ + 1]
  /\ UNCHANGED <<state, frames, block>>

ChangeConditions ==
  /\ ~InTransaction
  /\ \E now \in SUBSET Conditions : registry' = [registry EXCEPT !.conditions = now]
  /\ UNCHANGED <<state, frames, block>>

-----------------------------------------------------------------------------
(* Validation: the digest, its policy, its caller and the live conditions. *)

ExecutorFor(type) == IF type = "FORCE_EXIT" THEN ForceExitExecutor ELSE Executor

ContextClear == state.context.digest = Null

PolicyExists(o, id) == id \in DOMAIN state.policies[o]

PolicyOf(o, id) == IF PolicyExists(o, id) THEN state.policies[o][id] ELSE EmptyPolicy

ValidIdentity(d) == d.executor = ExecutorFor(d.type) /\ d.version = registry.version

ValidFreshness(d) == block \in d.validFrom .. d.validUntil

Permissionless(class) == class \in {"REPAY_ONLY", "DELEVERAGE_ONLY"}

GraceOnlyPolicy(d) ==  \* mutant of ValidPolicy: a revocation is forgotten once its block is over
  d.policyId # 0 =>
    /\ PolicyExists(d.owner, d.policyId)
    /\ LET policy == PolicyOf(d.owner, d.policyId) IN
         /\ policy.type = d.type /\ policy.kind = d.kind /\ policy.class = d.class
         /\ policy.expiry # 0 => block <= policy.expiry
         /\ policy.revoked # 0 => block > policy.revoked
ValidPolicy(d) ==
  d.policyId # 0 =>
    /\ PolicyExists(d.owner, d.policyId)
    /\ LET policy == PolicyOf(d.owner, d.policyId) IN
         /\ policy.type = d.type /\ policy.kind = d.kind /\ policy.class = d.class
         /\ policy.expiry # 0 => block <= policy.expiry
         /\ policy.revoked = 0
    /\ d.kind = "KEEPER_PERMISSIONLESS" => Permissionless(d.class)

LastSigned(o) == IF state.lastSigned[o] # 0 THEN state.lastSigned[o] ELSE state.activity[o]

ValidExecutionKind(d, caller) ==
  CASE d.kind = "OWNER_DIRECT" -> caller = d.owner
    [] d.kind = "KEEPER_PERMISSIONLESS" -> caller \in Keepers
    [] d.kind = "OPERATOR_RECOVERY" ->
         /\ caller \in Operators
         /\ LastSigned(d.owner) # 0
         /\ \/ block >= LastSigned(d.owner) + RecoveryBlocks
            \/ "NEAR_LIQUIDATION" \in registry.conditions

ValidHarvest == "COOLING" \notin registry.conditions

ValidRiskUp == registry.conditions \cap {"ORACLE", "SEQUENCER", "VAULT", "BLOCKED"} = {}

(* validateEvidence has no effect and reads only the submitter's input:     *)
(* the submitter may always choose evidence that passes it.                 *)
ValidCommon(d, caller) ==
  /\ ContextClear
  /\ "DRIFT" \notin registry.conditions
  /\ ValidIdentity(d)
  /\ ValidFreshness(d)
  /\ ValidPolicy(d)
  /\ ValidExecutionKind(d, caller)
  /\ d.mevWaived
  /\ d.type = "OPEN" => ValidHarvest

Context(d, terminal, minBorrow, maxBorrow, minRepay, maxCollateral, maxDebtIncrease) ==
  [digest |-> d, terminal |-> terminal, step |-> 0, minBorrow |-> minBorrow,
   maxBorrow |-> maxBorrow, minRepay |-> minRepay, maxCollateral |-> maxCollateral,
   maxDebtIncrease |-> maxDebtIncrease]

ArmContext(context) ==
  /\ state' = [state EXCEPT !.context = context]
  /\ UNCHANGED <<frames, block, registry>>

ValidateOpen(d, caller) ==
  /\ InTransaction
  /\ d.type = "OPEN"
  /\ ValidCommon(d, caller)
  /\ ValidRiskUp
  /\ d.attested
  /\ ArmContext(Context(d, "BORROW", d.minBorrow, d.maxBorrow, 0, 0, 0))

(* The bounds of a Rebalance choose its mode.                               *)
SellingIsRiskUp(d) == d.maxCollateralSold > 0  \* mutant of RiskIncreasing: the modes are swapped
RiskIncreasing(d) == d.maxDebtIncrease > 0

ValidateRebalance(d, caller) ==
  /\ InTransaction
  /\ d.type = "REBALANCE"
  /\ ~(RiskIncreasing(d) /\ d.maxCollateralSold > 0)
  /\ ValidCommon(d, caller)
  /\ RiskIncreasing(d) => ValidHarvest /\ ValidRiskUp /\ d.attested
  /\ LET terminal == IF d.maxDebtIncrease > 0 THEN "BORROW"
                     ELSE IF d.maxCollateralSold > 0 THEN "WITHDRAW_COLLATERAL" ELSE "REPAY"
     IN ArmContext(Context(d, terminal, 0, 0, 0, d.maxCollateralSold, d.maxDebtIncrease))

ValidateExit(d, caller) ==
  /\ InTransaction
  /\ d.type = "EXIT"
  /\ ValidCommon(d, caller)
  /\ LET repayOnly == d.class = "REPAY_ONLY" IN
       ArmContext(Context(d, IF repayOnly THEN "REPAY" ELSE "WITHDRAW_COLLATERAL", 0, 0,
                          d.minRepay, IF repayOnly THEN 0 ELSE d.maxCollateralSold, 0))

(* policyId 0 skips ValidPolicy, and the policy read is then the empty one. *)
ValidateAutomationExec(d, caller) ==
  /\ InTransaction
  /\ d.type = "AUTOMATION_EXEC"
  /\ Permissionless(d.class)
  /\ ValidCommon(d, caller)
  /\ LET policy == PolicyOf(d.owner, d.policyId) IN
       /\ d.hash = policy.hash
       /\ block \in d.notBefore .. d.notAfter
       /\ IF d.class = "REPAY_ONLY"
          THEN ArmContext(Context(d, "REPAY", 0, 0, policy.minRepay, 0, 0))
          ELSE ArmContext(Context(d, "WITHDRAW_COLLATERAL", 0, 0, policy.minRepay,
                                  policy.maxCollateralSold, 0))

(* LoopForceExitAuthorizer.validateForceExitDigest, called by               *)
(* validateForceExit: at most one critical override, and every degraded     *)
(* condition that holds now acknowledged.                                   *)
ValidForceExitDigest(d) ==
  /\ ValidIdentity(d)
  /\ d.policyId = 0
  /\ ValidFreshness(d)
  /\ "DRIFT" \notin registry.conditions
  /\ Cardinality(d.acknowledged) <= 1
  /\ registry.conditions \cap CriticalRisks \subseteq d.acknowledged
  /\ d.attested

ValidateForceExit(d, caller) ==
  /\ InTransaction
  /\ d.type = "FORCE_EXIT"
  /\ ContextClear
  /\ ValidForceExitDigest(d)
  /\ ValidExecutionKind(d, caller)
  /\ ArmContext(Context(d, "WITHDRAW_COLLATERAL", 0, 0, d.minRepay, d.maxCollateralSold, 0))

-----------------------------------------------------------------------------
(* executeMorpho: one call of the armed action's programme, made by the     *)
(* executor the digest names.                                               *)

Programme(context) ==
  CASE context.terminal = "BORROW" -> <<"SUPPLY_COLLATERAL", "BORROW">>
    [] context.terminal = "REPAY" -> <<"REPAY">>
    [] context.terminal = "WITHDRAW_COLLATERAL" -> <<"REPAY", "WITHDRAW_COLLATERAL">>

TerminalFirst(context, selector) ==  \* mutant of InSequence: the terminal call may come at once
  \/ selector = context.terminal
  \/ context.step < Len(Programme(context)) /\ selector = Programme(context)[context.step + 1]
InSequence(context, selector) ==
  /\ context.step < Len(Programme(context))
  /\ selector = Programme(context)[context.step + 1]

FloorOnly(context, selector, amount) ==  \* mutant of InBounds: the borrow band has no ceiling
  CASE selector = "SUPPLY_COLLATERAL" -> TRUE
    [] selector = "BORROW" -> amount >= context.minBorrow
    [] selector = "REPAY" -> amount >= context.minRepay
    [] selector = "WITHDRAW_COLLATERAL" -> amount <= context.maxCollateral
InBounds(context, selector, amount) ==
  CASE selector = "SUPPLY_COLLATERAL" -> TRUE
    [] selector = "BORROW" ->
         IF context.minBorrow # 0 \/ context.maxBorrow # 0
         THEN amount \in context.minBorrow .. context.maxBorrow
         ELSE context.maxDebtIncrease # 0 => amount <= context.maxDebtIncrease
    [] selector = "REPAY" -> amount >= context.minRepay
    [] selector = "WITHDRAW_COLLATERAL" -> amount <= context.maxCollateral

Releases(selector) == selector \in {"BORROW", "WITHDRAW_COLLATERAL"}

ValidMorphoCall(selector, amount) ==
  /\ InTransaction
  /\ ~ContextClear
  /\ InBounds(state.context, selector, amount)
  /\ InSequence(state.context, selector)

(* A call before the terminal one only moves the step.                      *)
ExecuteMorphoStep(selector, amount) ==
  /\ ValidMorphoCall(selector, amount)
  /\ selector # state.context.terminal
  /\ state' = [state EXCEPT !.context.step = @ + 1,
                            !.lastCall = <<state.context.digest, selector, amount>>]
  /\ UNCHANGED <<frames, block, registry>>

(* _consumeNonce: a spent bit is refused, a fresh one set.                  *)
UncancelledNonce(key) == key \notin state.cancelled  \* mutant of FreshNonce: sees only cancellations
FreshNonce(key) == key \notin state.nonces

UnrecordedNonce(after, key) == after  \* mutant of ConsumeNonce: the word is never written back
ConsumeNonce(after, key) == [after EXCEPT !.nonces = @ \cup {key}]

(* The owner's activity, here and in the registry (recordOwnerActivity).    *)
RecordFirstActivity(after, o) ==  \* mutant of RecordActivity: only the first action is recorded
  [after EXCEPT !.lastSigned[o] = IF @ = 0 THEN block ELSE @, !.activity[o] = block]
RecordActivity(after, o) == [after EXCEPT !.lastSigned[o] = block, !.activity[o] = block]

(* The terminal call consumes the nonce, records the owner's activity and   *)
(* clears the context.                                                      *)
ExecuteMorphoTerminal(selector, amount) ==
  /\ ValidMorphoCall(selector, amount)
  /\ selector = state.context.terminal
  /\ LET d == state.context.digest
         key == NonceKey(d)
         forwarded == [state EXCEPT
           !.context = ClearContext,
           !.executed[key] = @ + 1,
           !.released[d] = @ + (IF Releases(selector) THEN amount ELSE 0),
           !.lastTerminal[d.owner] = block,
           !.lastCall = <<d, selector, amount>>]
     IN /\ FreshNonce(key)
        /\ state' = RecordActivity(ConsumeNonce(forwarded, key), d.owner)
  /\ UNCHANGED <<frames, block, registry>>

-----------------------------------------------------------------------------
(* Policies and nonces, called by their owner.                              *)

CreatePolicy(o, terms, hash, expiry) ==
  /\ InTransaction
  /\ terms.type # "FORCE_EXIT"
  /\ terms.kind = "KEEPER_PERMISSIONLESS" => Permissionless(terms.class)
  /\ expiry <= block + MaxPolicyExpiry
  /\ Len(state.policies[o]) < MaxPolicies
  /\ state' = [state EXCEPT !.policies[o] =
                 Append(@, [type |-> terms.type, kind |-> terms.kind, class |-> terms.class,
                            hash |-> hash, expiry |-> expiry, revoked |-> 0,
                            minRepay |-> 0, maxCollateralSold |-> 0]),
                            !.edited = @ \cup {o}]
  /\ UNCHANGED <<frames, block, registry>>

RevivingUpdate(o, id, hash, expiry) ==  \* mutant of UpdatePolicy: the whole struct is rewritten
  /\ InTransaction
  /\ PolicyExists(o, id)
  /\ expiry <= block + MaxPolicyExpiry
  /\ state' = [state EXCEPT !.policies[o][id] = [@ EXCEPT !.hash = hash, !.expiry = expiry,
                                                         !.revoked = 0],
                            !.edited = @ \cup {o}]
  /\ UNCHANGED <<frames, block, registry>>
UpdatePolicy(o, id, hash, expiry) ==
  /\ InTransaction
  /\ PolicyExists(o, id)
  /\ expiry <= block + MaxPolicyExpiry
  /\ state' = [state EXCEPT !.policies[o][id] = [@ EXCEPT !.hash = hash, !.expiry = expiry],
                            !.edited = @ \cup {o}]
  /\ UNCHANGED <<frames, block, registry>>

Revoke(o, id) ==
  /\ InTransaction
  /\ PolicyExists(o, id)
  /\ state' = [state EXCEPT !.policies[o][id].revoked = block, !.edited = @ \cup {o}]
  /\ UNCHANGED <<frames, block, registry>>

(* The signed revocation anyone may submit; a repeat changes nothing.       *)
ExecuteRevoke(d) ==
  /\ InTransaction
  /\ d.type = "REVOKE"
  /\ ValidIdentity(d)
  /\ ValidFreshness(d)
  /\ PolicyExists(d.owner, d.target)
  /\ state.policies[d.owner][d.target].revoked = 0
  /\ state' = [state EXCEPT !.policies[d.owner][d.target].revoked = block,
                            !.edited = @ \cup {d.owner}]
  /\ UNCHANGED <<frames, block, registry>>

(* Only one-shot nonces, under policy 0, can be cancelled.                  *)
CancelNonce(key) ==
  /\ InTransaction
  /\ key.policyId = 0
  /\ FreshNonce(key)
  /\ state' = ConsumeNonce([state EXCEPT !.cancelled = @ \cup {key}], key)
  /\ UNCHANGED <<frames, block, registry>>

-----------------------------------------------------------------------------
Validate(d, caller) ==
  \/ ValidateOpen(d, caller)
  \/ ValidateRebalance(d, caller)
  \/ ValidateExit(d, caller)
  \/ ValidateAutomationExec(d, caller)
  \/ ValidateForceExit(d, caller)

ExecuteMorpho(selector, amount) ==
  ExecuteMorphoStep(selector, amount) \/ ExecuteMorphoTerminal(selector, amount)

OwnerCall(o) ==
  \/ \E terms \in PolicyTerms, hash \in Hashes, expiry \in 0 .. MaxBlock + MaxPolicyExpiry :
       CreatePolicy(o, terms, hash, expiry)
  \/ \E id \in 1 .. MaxPolicies, hash \in Hashes, expiry \in 0 .. MaxBlock + MaxPolicyExpiry :
       UpdatePolicy(o, id, hash, expiry)
  \/ \E id \in 1 .. MaxPolicies : Revoke(o, id)

Environment ==
  \/ BeginTransaction
  \/ EnterFrame
  \/ LeaveFrame
  \/ RevertFrame
  \/ EndTransaction
  \/ AdvanceBlock
  \/ BumpRegistry
  \/ ChangeConditions

Next ==
  \/ Environment
  \/ \E d \in Digests, caller \in Addresses : Validate(d, caller)
  \/ \E selector \in Selectors, amount \in Amounts : ExecuteMorpho(selector, amount)
  \/ \E o \in Owners : OwnerCall(o)
  \/ \E d \in Digests : ExecuteRevoke(d)
  \/ \E key \in NonceKeys : CancelNonce(key)

Spec == Init /\ [][Next]_vars

-----------------------------------------------------------------------------
(* Properties *)

TypeOK ==
  /\ state \in States
  /\ frames \in Seq(States)
  /\ block \in Nat
  /\ registry \in [version: Nat, conditions: SUBSET AllConditions]

(* A nonce is spent exactly when one terminal call ran under it or its      *)
(* owner cancelled it: never both, never twice, whatever mix of nested      *)
(* reverts, retries and digests that share a nonce came before (NonceAlready*)
(* Used in _consumeNonce; PROTOCOL 6.4 "Nonce model").                      *)
NonceAccounting ==
  \A key \in NonceKeys :
    state.executed[key] + (IF key \in state.cancelled THEN 1 ELSE 0)
      = (IF key \in state.nonces THEN 1 ELSE 0)

(* The accounting, of well-typed states.                                    *)
NoncesAccounted == TypeOK /\ NonceAccounting

(* What an owner signed away under one digest: debt or collateral.          *)
ReleaseCap(d) ==
  CASE d.type = "OPEN" -> d.maxBorrow
    [] d.type = "REBALANCE" -> d.maxDebtIncrease + d.maxCollateralSold
    [] d.type \in {"EXIT", "FORCE_EXIT"} /\ d.class # "REPAY_ONLY" -> d.maxCollateralSold
    [] OTHER -> 0

(* Over the whole life of a digest the executor receives no more of the     *)
(* owner's position than the digest's bound, however often it is submitted. *)
SpendWithinSignature == \A d \in Digests : state.released[d] <= ReleaseCap(d)

TerminalStep == \E key \in NonceKeys : state'.executed[key] > state.executed[key]
TerminalDigest == state'.lastCall[1]
TerminalSelector == state'.lastCall[2]

(* Debt is drawn only right after collateral was supplied, and collateral   *)
(* leaves only right after debt was repaid, at least the signed minimum of  *)
(* it, in the same transaction and under the same digest: no reverted frame *)
(* and no context left behind by another action breaks the pair.            *)
PairedRelease ==
  [][TerminalStep /\ Releases(TerminalSelector) =>
       /\ state.lastCall # <<>>
       /\ state.lastCall[1] = TerminalDigest
       /\ state.lastCall[2] = (IF TerminalSelector = "BORROW" THEN "SUPPLY_COLLATERAL" ELSE "REPAY")
       /\ TerminalDigest.type \in {"EXIT", "FORCE_EXIT"} =>
            state.lastCall[3] >= TerminalDigest.minRepay]_vars

(* An action completes only under authority still in force: the digest's    *)
(* registry version and window are current, its policy was not revoked      *)
(* before this transaction and, unless the owner wrote policies within the  *)
(* transaction, has the digest's terms and hash and has not expired         *)
(* ("revocation wins over any pending automation proposal", PROTOCOL 8).    *)
AuthorityInForce ==
  [][TerminalStep =>
       LET d == TerminalDigest
           before == frames[1].policies[d.owner]
           now == PolicyOf(d.owner, d.policyId)
       IN /\ d.version = registry.version /\ block \in d.validFrom .. d.validUntil
          /\ d.policyId \in DOMAIN before => before[d.policyId].revoked = 0
          /\ d.policyId # 0 => PolicyExists(d.owner, d.policyId)
          /\ d.policyId # 0 /\ d.owner \notin state.edited =>
               /\ <<now.type, now.kind, now.class>> = <<d.type, d.kind, d.class>>
               /\ now.expiry # 0 => block <= now.expiry
               /\ d.type = "AUTOMATION_EXEC" => now.hash = d.hash]_vars

(* Across transactions a policy keeps its type, kind and class, and a       *)
(* revocation is never undone or moved back, by updatePolicy or otherwise.  *)
PolicyHistory ==
  [][\A o \in Owners : \A id \in DOMAIN Committed.policies[o] :
       LET old == Committed.policies[o][id]
           new == Committed'.policies[o][id]
       IN /\ id \in DOMAIN Committed'.policies[o]
          /\ <<new.type, new.kind, new.class>> = <<old.type, old.kind, old.class>>
          /\ new.revoked >= old.revoked]_vars

(* Debt grows only while no risk-up condition, harvest cooling or external  *)
(* drift holds, whichever action type drew it (PROTOCOL 7.1, the risk-up    *)
(* mask of LoopV1ActionValidation).                                         *)
RiskUpGated ==
  [][TerminalStep /\ TerminalSelector = "BORROW" =>
       registry.conditions \cap {"ORACLE", "SEQUENCER", "VAULT", "BLOCKED", "COOLING", "DRIFT"} = {}]_vars

(* An operator acts for an owner only RecoveryBlocks after the last action  *)
(* anyone completed for that owner, unless the position is near liquidation;*)
(* an owner never seen acting is out of an operator's reach.                *)
RecoveryNeedsInactivity ==
  [][TerminalStep /\ TerminalDigest.kind = "OPERATOR_RECOVERY" =>
       LET last == state.lastTerminal[TerminalDigest.owner]
       IN /\ last # 0
          /\ \/ "NEAR_LIQUIDATION" \in registry.conditions
             \/ block >= last + RecoveryBlocks]_vars

(* The contract implements the ledger of one-shot actions its owners rely on*)
Ledger == INSTANCE SignedActionLedger WITH
            Actions <- Digests, Keys <- NonceKeys,
            KeyOf <- [d \in Digests |-> NonceKey(d)],
            Cap <- [d \in Digests |-> ReleaseCap(d)],
            spent <- Committed.nonces, paid <- Committed.released
ImplementsLedger == Ledger!Spec
=============================================================================
