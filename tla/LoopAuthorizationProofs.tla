----------------------- MODULE LoopAuthorizationProofs -----------------------
(***************************************************************************)
(* Type correctness and the safety of one-shot authority in                *)
(* LoopAuthorization, for any owners, digests, amounts and bounds.         *)
(***************************************************************************)
EXTENDS LoopAuthorization, SequenceTheorems, TLAPS

(* Reading and writing one policy keeps an owner's list of policies.        *)
LEMMA PolicyWritten ==
  ASSUME NEW ps \in Seq(Policies), NEW id \in DOMAIN ps, NEW p \in Policies
  PROVE  [ps EXCEPT ![id] = p] \in Seq(Policies)
BY ExceptSeq

(* The step a revert, a return or a new frame takes keeps the stack of      *)
(* copies a stack of well-formed copies.                                    *)
LEMMA FramesTyped ==
  ASSUME NEW S, NEW fs \in Seq(S), NEW s \in S
  PROVE  /\ Append(fs, s) \in Seq(S)
         /\ fs # <<>> => SubSeq(fs, 1, Len(fs) - 1) \in Seq(S) /\ fs[Len(fs)] \in S
<1>1. Append(fs, s) \in Seq(S)
  BY AppendProperties
<1>2. ASSUME fs # <<>> PROVE SubSeq(fs, 1, Len(fs) - 1) \in Seq(S) /\ fs[Len(fs)] \in S
  <2>1. Len(fs) \in Nat /\ Len(fs) > 0
    BY <1>2, LenProperties, EmptySeq
  <2>2. \A i \in 1 .. Len(fs) : fs[i] \in S
    BY ElementOfSeq
  <2>3. SubSeq(fs, 1, Len(fs) - 1) \in Seq(S)
    BY <2>1, <2>2, SubSeqProperties
  <2> QED
    BY <2>1, <2>2, <2>3
<1> QED
  BY <1>1, <1>2

(* Every context a validator arms is a context.                             *)
LEMMA ContextTyped ==
  ASSUME NEW d \in Digests, NEW terminal \in Selectors, NEW a \in Nat, NEW b \in Nat,
         NEW c \in Nat, NEW e \in Nat, NEW f \in Nat
  PROVE  Context(d, terminal, a, b, c, e, f) \in Contexts
BY DEF Context, Contexts

LEMMA ClearContextTyped == ClearContext \in Contexts
BY DEF ClearContext, Contexts

(* Arming a well-formed context leaves the rest as it was.                  *)
LEMMA ArmTyped ==
  ASSUME TypeOK, NEW context \in Contexts, ArmContext(context)
  PROVE  TypeOK'
BY DEF TypeOK, ArmContext, States

(* A policy read, or the empty one in its place, is a policy.               *)
LEMMA PolicyTyped ==
  ASSUME AuthorizationAssumption, state \in States, NEW o \in Owners, NEW id \in Nat
  PROVE  PolicyOf(o, id) \in Policies
<1>1. state.policies[o] \in Seq(Policies)
  BY DEF States
<1>2. EmptyPolicy \in Policies
  BY DEF EmptyPolicy, Policies, PrimaryTypes, ExecutionKinds, PolicyClasses, AuthorizationAssumption
<1> QED
  BY <1>1, <1>2, ElementOfSeq, LenProperties DEF PolicyOf, PolicyExists

-----------------------------------------------------------------------------
(* Type correctness.                                                        *)

LEMMA TypeInit ==
  ASSUME AuthorizationAssumption, Init
  PROVE  TypeOK
<1>1. state \in States
  BY ClearContextTyped DEF Init, States, AuthorizationAssumption
<1> QED
  BY <1>1, EmptySeq DEF Init, TypeOK

(* The EVM's own steps move copies of the state around.                     *)
LEMMA TypeEnvironment ==
  ASSUME AuthorizationAssumption, TypeOK, Environment
  PROVE  TypeOK'
<1> USE DEF TypeOK
<1>1. CASE BeginTransaction
  BY <1>1 DEF BeginTransaction
<1>2. CASE EnterFrame
  BY <1>2, FramesTyped DEF EnterFrame
<1>3. CASE LeaveFrame
  <2>1. frames # <<>>
    BY <1>3 DEF LeaveFrame
  <2> QED
    BY <1>3, <2>1, FramesTyped DEF LeaveFrame
<1>4. CASE RevertFrame
  BY <1>4, FramesTyped DEF RevertFrame, InTransaction
<1>5. CASE EndTransaction
  <2>1. state' \in States
    BY <1>5, ClearContextTyped DEF EndTransaction, States
  <2> QED
    BY <1>5, <2>1, EmptySeq DEF EndTransaction
<1>6. CASE AdvanceBlock
  BY <1>6 DEF AdvanceBlock
<1>7. CASE BumpRegistry
  <2>1. registry \in [version: Nat, conditions: SUBSET AllConditions]
    OBVIOUS
  <2>2. [registry EXCEPT !.version = @ + 1] \in [version: Nat, conditions: SUBSET AllConditions]
    <3> HIDE DEF TypeOK
    <3> QED
      BY <2>1
  <2> QED
    BY <1>7, <2>2 DEF BumpRegistry
<1>8. CASE ChangeConditions
  <2>1. PICK now \in SUBSET Conditions : registry' = [registry EXCEPT !.conditions = now]
    BY <1>8 DEF ChangeConditions
  <2>2. now \in SUBSET AllConditions
    BY DEF AuthorizationAssumption
  <2> QED
    BY <1>8, <2>1, <2>2 DEF ChangeConditions
<1> QED
  BY <1>1, <1>2, <1>3, <1>4, <1>5, <1>6, <1>7, <1>8 DEF Environment

(* What a validator arms is a context of the digest it validated.           *)
LEMMA TypeValidate ==
  ASSUME AuthorizationAssumption, TypeOK,
         NEW d \in Digests, NEW caller \in Addresses, Validate(d, caller)
  PROVE  TypeOK'
<1>1. /\ d.minBorrow \in Nat /\ d.maxBorrow \in Nat /\ d.maxDebtIncrease \in Nat
      /\ d.minRepay \in Nat /\ d.maxCollateralSold \in Nat
      /\ d.owner \in Owners /\ d.policyId \in Nat
  BY DEF AuthorizationAssumption, DigestType
<1>2. {"BORROW", "REPAY", "WITHDRAW_COLLATERAL"} \subseteq Selectors
  BY DEF Selectors
<1>3. CASE ValidateOpen(d, caller)
  BY <1>1, <1>2, <1>3, ContextTyped, ArmTyped DEF ValidateOpen
<1>4. CASE ValidateRebalance(d, caller)
  BY <1>1, <1>2, <1>4, ContextTyped, ArmTyped DEF ValidateRebalance
<1>5. CASE ValidateExit(d, caller)
  BY <1>1, <1>2, <1>5, ContextTyped, ArmTyped DEF ValidateExit
<1>6. CASE ValidateAutomationExec(d, caller)
  <2> DEFINE policy == PolicyOf(d.owner, d.policyId)
  <2>1. policy.minRepay \in Nat /\ policy.maxCollateralSold \in Nat
    BY <1>1, PolicyTyped DEF TypeOK, Policies
  <2> QED
    BY <1>2, <1>6, <2>1, ContextTyped, ArmTyped DEF ValidateAutomationExec
<1>7. CASE ValidateForceExit(d, caller)
  BY <1>1, <1>2, <1>7, ContextTyped, ArmTyped DEF ValidateForceExit
<1> QED
  BY <1>3, <1>4, <1>5, <1>6, <1>7 DEF Validate

(* The digest a non-clear context holds is one somebody signed.             *)
LEMMA ArmedDigest ==
  ASSUME TypeOK, ~ContextClear
  PROVE  state.context \in Contexts /\ state.context.digest \in Digests
BY DEF TypeOK, States, Contexts, ContextClear

LEMMA NonceTyped ==
  ASSUME NEW s \in States, NEW key \in NonceKeys
  PROVE  ConsumeNonce(s, key) \in States
BY DEF ConsumeNonce, States

LEMMA ActivityTyped ==
  ASSUME NEW s \in States, NEW o \in Owners, block \in Nat
  PROVE  RecordActivity(s, o) \in States
BY DEF RecordActivity, States

LEMMA TypeExecuteMorpho ==
  ASSUME AuthorizationAssumption, TypeOK,
         NEW selector \in Selectors, NEW amount \in Amounts, ExecuteMorpho(selector, amount)
  PROVE  TypeOK'
<1>1. state.context \in Contexts /\ state.context.digest \in Digests
  BY ArmedDigest DEF ExecuteMorpho, ExecuteMorphoStep, ExecuteMorphoTerminal, ValidMorphoCall
<1>2. amount \in Nat
  BY DEF AuthorizationAssumption
<1>3. CASE ExecuteMorphoStep(selector, amount)
  <2>1. [state.context EXCEPT !.step = @ + 1] \in Contexts
    BY <1>1 DEF Contexts
  <2> QED
    BY <1>1, <1>3, <2>1 DEF ExecuteMorphoStep, TypeOK, States
<1>4. CASE ExecuteMorphoTerminal(selector, amount)
  <2> DEFINE d == state.context.digest
             key == NonceKey(d)
  <2>1. d \in Digests /\ d.owner \in Owners /\ key \in NonceKeys
    BY <1>1 DEF AuthorizationAssumption, DigestType, NonceKeys
  <2> DEFINE paid == IF Releases(selector) THEN amount ELSE 0
             forwarded == [state EXCEPT
               !.context = ClearContext,
               !.executed[key] = @ + 1,
               !.released[d] = @ + paid,
               !.lastTerminal[d.owner] = block,
               !.lastCall = <<d, selector, amount>>]
  <2>2. paid \in Nat /\ block \in Nat
    BY <1>2 DEF TypeOK
  <2>3. forwarded \in States
    <3>1. state \in States
      BY DEF TypeOK
    <3>2. [state.executed EXCEPT ![key] = @ + 1] \in [NonceKeys -> Nat]
      BY <3>1, <2>1 DEF States
    <3>3. [state.released EXCEPT ![d] = @ + paid] \in [Digests -> Nat]
      <4> HIDE DEF paid, d
      <4> QED
        BY <3>1, <2>1, <2>2 DEF States
    <3>4. [state.lastTerminal EXCEPT ![d.owner] = block] \in [Owners -> Nat]
      BY <3>1, <2>1, <2>2 DEF States
    <3> HIDE DEF d, key, paid
    <3> QED
      BY <3>1, <3>2, <3>3, <3>4, <2>1, ClearContextTyped DEF States
  <2>4. state' = RecordActivity(ConsumeNonce(forwarded, key), d.owner)
    BY <1>4 DEF ExecuteMorphoTerminal
  <2>5. state' \in States
    <3> HIDE DEF d, key, forwarded
    <3> QED
      BY <2>1, <2>2, <2>3, <2>4, NonceTyped, ActivityTyped
  <2> QED
    BY <1>4, <2>5 DEF ExecuteMorphoTerminal, TypeOK
<1> QED
  BY <1>3, <1>4 DEF ExecuteMorpho

LEMMA TypeOwnerCall ==
  ASSUME AuthorizationAssumption, TypeOK, NEW o \in Owners, OwnerCall(o)
  PROVE  TypeOK'
<1> DEFINE Written(ps) == state' = [state EXCEPT !.policies[o] = ps, !.edited = @ \cup {o}]
<1>1. state.policies[o] \in Seq(Policies) /\ block \in Nat
  BY DEF TypeOK, States
<1>2. ASSUME NEW ps \in Seq(Policies), Written(ps), UNCHANGED <<frames, block, registry>>
      PROVE  TypeOK'
  BY <1>2 DEF TypeOK, States
<1>3. ASSUME NEW id \in DOMAIN state.policies[o]
      PROVE  state.policies[o][id] \in Policies
  BY <1>1, <1>3, ElementOfSeq, LenProperties
<1>4. ASSUME NEW terms \in PolicyTerms, NEW hash \in Hashes,
             NEW expiry \in 0 .. MaxBlock + MaxPolicyExpiry, CreatePolicy(o, terms, hash, expiry)
      PROVE  TypeOK'
  <2> DEFINE new == [type |-> terms.type, kind |-> terms.kind, class |-> terms.class,
                     hash |-> hash, expiry |-> expiry, revoked |-> 0,
                     minRepay |-> 0, maxCollateralSold |-> 0]
  <2>1. new \in Policies
    BY <1>4 DEF AuthorizationAssumption, Policies
  <2>2. Written(Append(state.policies[o], new)) /\ UNCHANGED <<frames, block, registry>>
    BY <1>4 DEF CreatePolicy
  <2> QED
    <3> HIDE DEF new, Written
    <3> QED
      BY <1>1, <1>2, <2>1, <2>2, AppendProperties
<1>5. ASSUME NEW id \in 1 .. MaxPolicies, NEW hash \in Hashes,
             NEW expiry \in 0 .. MaxBlock + MaxPolicyExpiry, UpdatePolicy(o, id, hash, expiry)
      PROVE  TypeOK'
  <2> DEFINE new == [state.policies[o][id] EXCEPT !.hash = hash, !.expiry = expiry]
  <2>1. id \in DOMAIN state.policies[o]
    BY <1>5 DEF UpdatePolicy, PolicyExists
  <2>2. new \in Policies
    <3>1. state.policies[o][id] \in Policies /\ expiry \in Nat
      BY <1>3, <2>1
    <3> QED
      BY <3>1 DEF Policies
  <2>3. Written([state.policies[o] EXCEPT ![id] = new]) /\ UNCHANGED <<frames, block, registry>>
    <3>1. state \in States /\ state.policies[o][id] \in Policies
      BY <1>3, <2>1 DEF TypeOK
    <3>2. state' = [state EXCEPT !.policies[o][id] = [@ EXCEPT !.hash = hash, !.expiry = expiry],
                                 !.edited = @ \cup {o}]
      BY <1>5 DEF UpdatePolicy
    <3> QED
      BY <3>1, <3>2, <1>1, <1>5, <2>1 DEF UpdatePolicy, States, Policies
  <2> QED
    <3> HIDE DEF new, Written
    <3> QED
      BY <1>1, <1>2, <2>1, <2>2, <2>3, PolicyWritten
<1>6. ASSUME NEW id \in 1 .. MaxPolicies, Revoke(o, id)
      PROVE  TypeOK'
  <2> DEFINE new == [state.policies[o][id] EXCEPT !.revoked = block]
  <2>1. id \in DOMAIN state.policies[o]
    BY <1>6 DEF Revoke, PolicyExists
  <2>2. new \in Policies
    BY <1>1, <1>3, <2>1 DEF Policies
  <2>3. Written([state.policies[o] EXCEPT ![id] = new]) /\ UNCHANGED <<frames, block, registry>>
    BY <1>1, <1>6, <2>1 DEF Revoke, TypeOK, States, Policies
  <2> QED
    <3> HIDE DEF new, Written
    <3> QED
      BY <1>1, <1>2, <2>1, <2>2, <2>3, PolicyWritten
<1> QED
  BY <1>4, <1>5, <1>6 DEF OwnerCall

LEMMA TypeExecuteRevoke ==
  ASSUME AuthorizationAssumption, TypeOK, NEW d \in Digests, ExecuteRevoke(d)
  PROVE  TypeOK'
<1> DEFINE ps == state.policies[d.owner]
           new == [ps[d.target] EXCEPT !.revoked = block]
<1>1. d.owner \in Owners /\ block \in Nat
  BY DEF AuthorizationAssumption, DigestType, TypeOK
<1>2. ps \in Seq(Policies) /\ d.target \in DOMAIN ps
  BY <1>1 DEF ExecuteRevoke, PolicyExists, TypeOK, States
<1>3. new \in Policies
  <2>1. ps[d.target] \in Policies
    BY <1>2, ElementOfSeq, LenProperties
  <2> QED
    BY <1>1, <2>1 DEF Policies
<1>4. /\ state' = [state EXCEPT !.policies[d.owner] = [ps EXCEPT ![d.target] = new],
                               !.edited = @ \cup {d.owner}]
      /\ UNCHANGED <<frames, block, registry>>
  BY <1>1, <1>2 DEF ExecuteRevoke, TypeOK, States
<1>5. [ps EXCEPT ![d.target] = new] \in Seq(Policies)
  BY <1>2, <1>3, PolicyWritten
<1> QED
  <2> HIDE DEF new
  <2> QED
    BY <1>1, <1>4, <1>5 DEF TypeOK, States

LEMMA TypeCancelNonce ==
  ASSUME TypeOK, NEW key \in NonceKeys, CancelNonce(key)
  PROVE  TypeOK'
<1>1. [state EXCEPT !.cancelled = @ \cup {key}] \in States
  BY DEF TypeOK, States
<1> QED
  BY <1>1, NonceTyped DEF CancelNonce, TypeOK

LEMMA TypeNext ==
  ASSUME AuthorizationAssumption, TypeOK, [Next]_vars
  PROVE  TypeOK'
<1>1. CASE UNCHANGED vars
  BY <1>1 DEF TypeOK, vars
<1> QED
  BY <1>1, TypeEnvironment, TypeValidate, TypeExecuteMorpho, TypeOwnerCall,
     TypeExecuteRevoke, TypeCancelNonce DEF Next

(* Every reachable state, and every copy a revert can bring back, is well   *)
(* formed: contexts hold signed digests, spent nonces belong to them.       *)
THEOREM TypeCorrect == Spec => []TypeOK
<1>1. Init => TypeOK
  BY TypeInit, AuthorizationAssumption
<1>2. TypeOK /\ [Next]_vars => TypeOK'
  BY TypeNext, AuthorizationAssumption
<1> QED
  BY <1>1, <1>2, PTL DEF Spec

-----------------------------------------------------------------------------
(* One-shot authority.  NonceAccounting and SpendWithinSignature speak of   *)
(* `state' alone, but a revert makes any copy in `frames' the state again,  *)
(* and what a call may release is read from the armed context: the          *)
(* inductive invariant says of every copy that it is accounted for, that a  *)
(* digest whose nonce is fresh has been paid nothing, and that the bounds   *)
(* of an armed context are within its digest's cap.                         *)

NonceAccounted(s) ==
  \A key \in NonceKeys :
    s.executed[key] + (IF key \in s.cancelled THEN 1 ELSE 0) = (IF key \in s.nonces THEN 1 ELSE 0)

SpendBounded(s) ==
  \A d \in Digests :
    /\ s.released[d] <= ReleaseCap(d)
    /\ NonceKey(d) \notin s.nonces => s.released[d] = 0

(* No function of the contract writes the bounds a stored policy holds.     *)
PoliciesBlank(s) == \A o \in Owners : \A id \in DOMAIN s.policies[o] :
  s.policies[o][id].maxCollateralSold = 0

ContextWithinCap(c) ==
  c.digest # Null =>
    /\ c.terminal \in {"BORROW", "REPAY", "WITHDRAW_COLLATERAL"}
    /\ c.terminal = "BORROW" =>
         \/ c.maxBorrow # 0 /\ c.maxBorrow <= ReleaseCap(c.digest)
         \/ /\ c.minBorrow = 0 /\ c.maxBorrow = 0
            /\ c.maxDebtIncrease # 0 /\ c.maxDebtIncrease <= ReleaseCap(c.digest)
    /\ c.terminal = "WITHDRAW_COLLATERAL" => c.maxCollateral <= ReleaseCap(c.digest)

Safe(s) ==
  NonceAccounted(s) /\ SpendBounded(s) /\ PoliciesBlank(s) /\ ContextWithinCap(s.context)

OneShot ==
  /\ TypeOK
  /\ Safe(state)
  /\ \A i \in DOMAIN frames : Safe(frames[i])

LEMMA CapNat ==
  ASSUME AuthorizationAssumption, NEW d \in Digests
  PROVE  ReleaseCap(d) \in Nat
BY DEF AuthorizationAssumption, DigestType, ReleaseCap

LEMMA SafeClear == ContextWithinCap(ClearContext)
BY DEF ContextWithinCap, ClearContext

LEMMA SafeInit ==
  ASSUME AuthorizationAssumption, Init
  PROVE  OneShot
<1>1. TypeOK
  BY TypeInit
<1>2. NonceAccounted(state)
  BY DEF Init, NonceAccounted
<1>3. SpendBounded(state)
  BY CapNat DEF Init, SpendBounded
<1>4. PoliciesBlank(state)
  BY EmptySeq DEF Init, PoliciesBlank
<1>5. ContextWithinCap(state.context)
  BY SafeClear DEF Init
<1>6. \A i \in DOMAIN frames : Safe(frames[i])
  BY EmptySeq DEF Init
<1> QED
  BY <1>1, <1>2, <1>3, <1>4, <1>5, <1>6 DEF OneShot, Safe

(* A call that leaves the frames alone has only the new state to answer for.*)
LEMMA SafeCall ==
  ASSUME OneShot, TypeOK', frames' = frames, Safe(state)'
  PROVE  OneShot'
BY DEF OneShot

LEMMA SafeEnvironment ==
  ASSUME AuthorizationAssumption, OneShot, Environment
  PROVE  OneShot'
<1>1. TypeOK /\ TypeOK'
  BY TypeEnvironment DEF OneShot
<1>2. frames \in Seq(States) /\ Len(frames) \in Nat /\ DOMAIN frames = 1 .. Len(frames)
  BY <1>1, LenProperties DEF TypeOK
<1>3. CASE BeginTransaction
  BY <1>1, <1>3 DEF BeginTransaction, OneShot
<1>4. CASE EnterFrame
  <2>1. \A i \in DOMAIN frames' : Safe(frames'[i])
    BY <1>1, <1>2, <1>4, AppendProperties DEF EnterFrame, OneShot, TypeOK
  <2> QED
    BY <1>1, <1>4, <2>1 DEF EnterFrame, OneShot
<1>5. ASSUME frames # <<>>, frames' = SubSeq(frames, 1, Len(frames) - 1)
      PROVE  /\ \A i \in DOMAIN frames' : Safe(frames'[i])
             /\ Safe(frames[Len(frames)])
  <2>1. Len(frames) > 0
    BY <1>2, <1>5, EmptySeq
  <2>2. \A i \in 1 .. Len(frames) : frames[i] \in States
    BY <1>2, ElementOfSeq
  <2>3. DOMAIN frames' \subseteq DOMAIN frames /\ \A i \in DOMAIN frames' : frames'[i] = frames[i]
    BY <1>2, <1>5, <2>1, <2>2, SubSeqProperties
  <2> QED
    BY <1>2, <2>1, <2>3 DEF OneShot
<1>6. CASE LeaveFrame
  BY <1>1, <1>2, <1>5, <1>6, EmptySeq DEF LeaveFrame, OneShot
<1>7. CASE RevertFrame
  BY <1>1, <1>5, <1>7 DEF RevertFrame, InTransaction, OneShot
<1>8. CASE EndTransaction
  <2>1. Safe(state)'
    BY <1>1, <1>8, SafeClear DEF EndTransaction, OneShot, Safe, NonceAccounted, SpendBounded,
                                 PoliciesBlank, TypeOK, States
  <2> QED
    BY <1>1, <1>8, <2>1, EmptySeq DEF EndTransaction, OneShot
<1>9. CASE AdvanceBlock \/ BumpRegistry \/ ChangeConditions
  BY <1>1, <1>9 DEF AdvanceBlock, BumpRegistry, ChangeConditions, OneShot
<1> QED
  BY <1>3, <1>4, <1>6, <1>7, <1>8, <1>9 DEF Environment

(* Arming a context within its digest's cap.                                *)
LEMMA SafeArm ==
  ASSUME OneShot, TypeOK', NEW context, ArmContext(context), ContextWithinCap(context)
  PROVE  OneShot'
<1>1. state' = [state EXCEPT !.context = context] /\ state \in States
  BY DEF ArmContext, OneShot, TypeOK
<1>2. Safe(state)'
  BY <1>1 DEF OneShot, Safe, NonceAccounted, SpendBounded, PoliciesBlank, States
<1> QED
  BY <1>2, SafeCall DEF ArmContext

LEMMA SafeValidate ==
  ASSUME AuthorizationAssumption, OneShot,
         NEW d \in Digests, NEW caller \in Addresses, Validate(d, caller)
  PROVE  OneShot'
<1>1. TypeOK /\ TypeOK'
  BY TypeValidate DEF OneShot
<1>2. /\ d.maxBorrow \in Nat /\ d.maxDebtIncrease \in Nat /\ d.maxCollateralSold \in Nat
      /\ d.owner \in Owners /\ d.policyId \in Nat
      /\ d.class \in ClassesOf(d.type) /\ (d.type = "OPEN" => d.maxBorrow > 0)
  BY DEF AuthorizationAssumption, DigestType
<1>3. CASE ValidateOpen(d, caller)
  <2>1. ContextWithinCap(Context(d, "BORROW", d.minBorrow, d.maxBorrow, 0, 0, 0))
    BY <1>2, <1>3 DEF ValidateOpen, ContextWithinCap, Context, ReleaseCap
  <2> QED
    BY <1>1, <1>3, <2>1, SafeArm DEF ValidateOpen
<1>4. CASE ValidateRebalance(d, caller)
  <2> DEFINE terminal == IF d.maxDebtIncrease > 0 THEN "BORROW"
                         ELSE IF d.maxCollateralSold > 0 THEN "WITHDRAW_COLLATERAL" ELSE "REPAY"
             context == Context(d, terminal, 0, 0, 0, d.maxCollateralSold, d.maxDebtIncrease)
  <2>1. ContextWithinCap(context)
    BY <1>2, <1>4 DEF ValidateRebalance, ContextWithinCap, Context, ReleaseCap
  <2>2. ArmContext(context)
    BY <1>4 DEF ValidateRebalance
  <2> QED
    BY <1>1, <2>1, <2>2, SafeArm
<1>5. CASE ValidateExit(d, caller)
  <2> DEFINE repayOnly == d.class = "REPAY_ONLY"
             context == Context(d, IF repayOnly THEN "REPAY" ELSE "WITHDRAW_COLLATERAL", 0, 0,
                                d.minRepay, IF repayOnly THEN 0 ELSE d.maxCollateralSold, 0)
  <2>1. ContextWithinCap(context)
    BY <1>2, <1>5 DEF ValidateExit, ContextWithinCap, Context, ReleaseCap
  <2>2. ArmContext(context)
    BY <1>5 DEF ValidateExit
  <2> QED
    BY <1>1, <2>1, <2>2, SafeArm
<1>6. CASE ValidateAutomationExec(d, caller)
  <2> DEFINE policy == PolicyOf(d.owner, d.policyId)
  <2>1. policy.maxCollateralSold = 0
    BY <1>2 DEF PolicyOf, PolicyExists, EmptyPolicy, OneShot, Safe, PoliciesBlank
  <2>2. ReleaseCap(d) = 0
    BY <1>6 DEF ValidateAutomationExec, ReleaseCap
  <2>3. ASSUME NEW terminal \in {"REPAY", "WITHDRAW_COLLATERAL"}
        PROVE  ContextWithinCap(Context(d, terminal, 0, 0, policy.minRepay, 0, 0))
    BY <2>2, <2>3 DEF ContextWithinCap, Context
  <2>4. \E terminal \in {"REPAY", "WITHDRAW_COLLATERAL"} :
          ArmContext(Context(d, terminal, 0, 0, policy.minRepay, 0, 0))
    BY <1>6, <2>1 DEF ValidateAutomationExec
  <2> QED
    BY <1>1, <2>3, <2>4, SafeArm
<1>7. CASE ValidateForceExit(d, caller)
  <2>1. d.class = "FORCE_EXIT"
    BY <1>2, <1>7 DEF ValidateForceExit, ClassesOf
  <2>2. ContextWithinCap(Context(d, "WITHDRAW_COLLATERAL", 0, 0, d.minRepay, d.maxCollateralSold, 0))
    BY <1>2, <1>7, <2>1 DEF ValidateForceExit, ContextWithinCap, Context, ReleaseCap
  <2> QED
    BY <1>1, <1>7, <2>2, SafeArm DEF ValidateForceExit
<1> QED
  BY <1>3, <1>4, <1>5, <1>6, <1>7 DEF Validate

(* A call that pays out pays at most the cap of the digest it acts for.     *)
LEMMA PaidWithinCap ==
  ASSUME AuthorizationAssumption, OneShot, NEW selector \in Selectors, NEW amount \in Amounts,
         ValidMorphoCall(selector, amount), selector = state.context.terminal
  PROVE  (IF Releases(selector) THEN amount ELSE 0) <= ReleaseCap(state.context.digest)
<1> DEFINE c == state.context
           d == c.digest
<1>1. c \in Contexts /\ d \in Digests
  BY ArmedDigest DEF OneShot, ValidMorphoCall
<1>2. amount \in Nat /\ ReleaseCap(d) \in Nat /\ c.minBorrow \in Nat /\ c.maxBorrow \in Nat
      /\ c.maxCollateral \in Nat /\ c.maxDebtIncrease \in Nat
  BY <1>1, CapNat DEF AuthorizationAssumption, Contexts
<1>3. ContextWithinCap(c) /\ d # Null
  BY DEF OneShot, Safe, ValidMorphoCall, ContextClear
<1>4. CASE selector = "BORROW"
  BY <1>2, <1>3, <1>4 DEF ValidMorphoCall, InBounds, ContextWithinCap
<1>5. CASE selector = "WITHDRAW_COLLATERAL"
  BY <1>2, <1>3, <1>5 DEF ValidMorphoCall, InBounds, ContextWithinCap
<1> QED
  BY <1>2, <1>4, <1>5 DEF Releases

LEMMA SafeExecuteMorpho ==
  ASSUME AuthorizationAssumption, OneShot,
         NEW selector \in Selectors, NEW amount \in Amounts, ExecuteMorpho(selector, amount)
  PROVE  OneShot'
<1>1. TypeOK /\ TypeOK' /\ state \in States
  BY TypeExecuteMorpho DEF OneShot, TypeOK
<1>2. state.context \in Contexts /\ state.context.digest \in Digests
  BY ArmedDigest, <1>1 DEF ExecuteMorpho, ExecuteMorphoStep, ExecuteMorphoTerminal, ValidMorphoCall
<1>3. CASE ExecuteMorphoStep(selector, amount)
  <2>1. /\ state'.context = [state.context EXCEPT !.step = @ + 1]
        /\ state'.policies = state.policies /\ state'.nonces = state.nonces
        /\ state'.cancelled = state.cancelled /\ state'.executed = state.executed
        /\ state'.released = state.released
    BY <1>1, <1>3 DEF ExecuteMorphoStep, States
  <2>2. ContextWithinCap(state.context)'
    BY <1>2, <2>1 DEF OneShot, Safe, ContextWithinCap, Contexts
  <2>3. Safe(state)'
    BY <2>1, <2>2 DEF OneShot, Safe, NonceAccounted, SpendBounded, PoliciesBlank
  <2> QED
    BY <1>1, <1>3, <2>3, SafeCall DEF ExecuteMorphoStep
<1>4. CASE ExecuteMorphoTerminal(selector, amount)
  <2> DEFINE d == state.context.digest
             key == NonceKey(d)
             paid == IF Releases(selector) THEN amount ELSE 0
  <2>1. d \in Digests /\ key \in NonceKeys
    BY <1>2 DEF NonceKeys
  <2>2. key \notin state.nonces
    BY <1>4 DEF ExecuteMorphoTerminal, FreshNonce
  <2>3. paid <= ReleaseCap(d)
    BY <1>4, PaidWithinCap DEF ExecuteMorphoTerminal
  <2>4. /\ state'.policies = state.policies /\ state'.nonces = state.nonces \cup {key}
        /\ state'.cancelled = state.cancelled /\ state'.context = ClearContext
        /\ state'.executed = [state.executed EXCEPT ![key] = @ + 1]
        /\ state'.released = [state.released EXCEPT ![d] = @ + paid]
    BY <1>1, <1>4 DEF ExecuteMorphoTerminal, RecordActivity, ConsumeNonce, States
  <2>5. NonceAccounted(state)'
    <3> SUFFICES ASSUME NEW k \in NonceKeys
                 PROVE  state'.executed[k] + (IF k \in state'.cancelled THEN 1 ELSE 0)
                          = (IF k \in state'.nonces THEN 1 ELSE 0)
      BY DEF NonceAccounted
    <3>1. /\ state.executed \in [NonceKeys -> Nat]
          /\ state.executed[k] + (IF k \in state.cancelled THEN 1 ELSE 0)
               = (IF k \in state.nonces THEN 1 ELSE 0)
      BY <1>1 DEF OneShot, Safe, NonceAccounted, States
    <3> HIDE DEF key
    <3> QED
      BY <2>1, <2>2, <2>4, <3>1
  <2>6. SpendBounded(state)'
    <3> SUFFICES ASSUME NEW e \in Digests
                 PROVE  /\ state'.released[e] <= ReleaseCap(e)
                        /\ NonceKey(e) \notin state'.nonces => state'.released[e] = 0
      BY DEF SpendBounded
    <3>1. /\ state.released \in [Digests -> Nat]
          /\ state.released[e] <= ReleaseCap(e)
          /\ NonceKey(e) \notin state.nonces => state.released[e] = 0
      BY <1>1 DEF OneShot, Safe, SpendBounded, States
    <3>2. paid \in Nat
      BY DEF AuthorizationAssumption
    <3> HIDE DEF d, paid
    <3>3. CASE e = d
      BY <2>1, <2>2, <2>3, <2>4, <3>1, <3>2, <3>3
    <3>4. CASE e # d
      BY <2>1, <2>4, <3>1, <3>4
    <3> QED
      BY <3>3, <3>4
  <2>7. PoliciesBlank(state)' /\ ContextWithinCap(state.context)'
    BY <2>4, SafeClear DEF OneShot, Safe, PoliciesBlank
  <2> QED
    BY <1>1, <1>4, <2>5, <2>6, <2>7, SafeCall DEF ExecuteMorphoTerminal, Safe
<1> QED
  BY <1>3, <1>4 DEF ExecuteMorpho

(* Writing one policy with blank bounds.                                    *)
LEMMA SafeWrite ==
  ASSUME OneShot, TypeOK', NEW o \in Owners, NEW ps,
         state' = [state EXCEPT !.policies[o] = ps, !.edited = @ \cup {o}],
         frames' = frames, \A id \in DOMAIN ps : ps[id].maxCollateralSold = 0
  PROVE  OneShot'
<1>1. state \in States
  BY DEF OneShot, TypeOK
<1>2. Safe(state)'
  BY <1>1 DEF OneShot, Safe, NonceAccounted, SpendBounded, PoliciesBlank, States
<1> QED
  BY <1>2, SafeCall

LEMMA SafeOwnerCall ==
  ASSUME AuthorizationAssumption, OneShot, NEW o \in Owners, OwnerCall(o)
  PROVE  OneShot'
<1>1. TypeOK /\ TypeOK' /\ state \in States
  BY TypeOwnerCall DEF OneShot, TypeOK
<1>2. /\ state.policies[o] \in Seq(Policies)
      /\ \A id \in DOMAIN state.policies[o] : state.policies[o][id].maxCollateralSold = 0
      /\ \A id \in DOMAIN state.policies[o] : state.policies[o][id] \in Policies
  <2>1. state.policies[o] \in Seq(Policies)
    BY <1>1 DEF States
  <2> QED
    BY <2>1, ElementOfSeq, LenProperties DEF OneShot, Safe, PoliciesBlank
<1>3. ASSUME NEW terms \in PolicyTerms, NEW hash \in Hashes,
             NEW expiry \in 0 .. MaxBlock + MaxPolicyExpiry, CreatePolicy(o, terms, hash, expiry)
      PROVE  OneShot'
  <2> DEFINE new == [type |-> terms.type, kind |-> terms.kind, class |-> terms.class,
                     hash |-> hash, expiry |-> expiry, revoked |-> 0,
                     minRepay |-> 0, maxCollateralSold |-> 0]
             ps == Append(state.policies[o], new)
  <2>1. new.maxCollateralSold = 0 /\ new \in Policies
    BY <1>3 DEF AuthorizationAssumption, Policies
  <2>2. state' = [state EXCEPT !.policies[o] = ps, !.edited = @ \cup {o}] /\ frames' = frames
    BY <1>3 DEF CreatePolicy
  <2>3. \A id \in DOMAIN ps : ps[id].maxCollateralSold = 0
    <3> HIDE DEF new
    <3> QED
      BY <1>2, <2>1, AppendProperties, LenProperties
  <2> HIDE DEF ps
  <2> QED
    BY <1>1, <2>2, <2>3, SafeWrite
<1>4. ASSUME NEW id \in DOMAIN state.policies[o], NEW new, new.maxCollateralSold = 0,
             state' = [state EXCEPT !.policies[o] = [@ EXCEPT ![id] = new], !.edited = @ \cup {o}],
             frames' = frames
      PROVE  OneShot'
  <2> DEFINE ps == [state.policies[o] EXCEPT ![id] = new]
  <2>1. state' = [state EXCEPT !.policies[o] = ps, !.edited = @ \cup {o}]
    BY <1>1, <1>4 DEF States
  <2>2. \A i \in DOMAIN ps : ps[i].maxCollateralSold = 0
    BY <1>2, <1>4
  <2>3. frames' = frames
    BY <1>4
  <2> HIDE DEF ps
  <2> QED
    BY <1>1, <2>1, <2>2, <2>3, SafeWrite
<1>5. ASSUME NEW id \in 1 .. MaxPolicies, NEW hash \in Hashes,
             NEW expiry \in 0 .. MaxBlock + MaxPolicyExpiry, UpdatePolicy(o, id, hash, expiry)
      PROVE  OneShot'
  <2> DEFINE new == [state.policies[o][id] EXCEPT !.hash = hash, !.expiry = expiry]
  <2>1. id \in DOMAIN state.policies[o]
    BY <1>5 DEF UpdatePolicy, PolicyExists
  <2>2. new.maxCollateralSold = 0
    BY <1>2, <2>1 DEF Policies
  <2>3. /\ state' = [state EXCEPT !.policies[o] = [@ EXCEPT ![id] = new], !.edited = @ \cup {o}]
        /\ frames' = frames
    BY <1>1, <1>2, <1>5, <2>1 DEF UpdatePolicy, States, Policies
  <2> HIDE DEF new
  <2> QED
    BY <1>4, <2>1, <2>2, <2>3
<1>6. ASSUME NEW id \in 1 .. MaxPolicies, Revoke(o, id)
      PROVE  OneShot'
  <2> DEFINE new == [state.policies[o][id] EXCEPT !.revoked = block]
  <2>1. id \in DOMAIN state.policies[o]
    BY <1>6 DEF Revoke, PolicyExists
  <2>2. new.maxCollateralSold = 0
    BY <1>2, <2>1 DEF Policies
  <2>3. /\ state' = [state EXCEPT !.policies[o] = [@ EXCEPT ![id] = new], !.edited = @ \cup {o}]
        /\ frames' = frames
    BY <1>1, <1>2, <1>6, <2>1 DEF Revoke, States, Policies
  <2> HIDE DEF new
  <2> QED
    BY <1>4, <2>1, <2>2, <2>3
<1> QED
  BY <1>3, <1>5, <1>6 DEF OwnerCall

LEMMA SafeExecuteRevoke ==
  ASSUME AuthorizationAssumption, OneShot, NEW d \in Digests, ExecuteRevoke(d)
  PROVE  OneShot'
<1> DEFINE ps == state.policies[d.owner]
           new == [ps[d.target] EXCEPT !.revoked = block]
           next == [ps EXCEPT ![d.target] = new]
<1>1. TypeOK /\ TypeOK' /\ state \in States /\ d.owner \in Owners
  BY TypeExecuteRevoke DEF OneShot, TypeOK, AuthorizationAssumption, DigestType
<1>2. /\ ps \in Seq(Policies) /\ d.target \in DOMAIN ps
      /\ \A id \in DOMAIN ps : ps[id].maxCollateralSold = 0
  BY <1>1 DEF ExecuteRevoke, PolicyExists, States, OneShot, Safe, PoliciesBlank
<1>3. new.maxCollateralSold = 0
  <2>1. ps[d.target] \in Policies
    BY <1>2, ElementOfSeq, LenProperties
  <2> QED
    BY <1>2, <2>1 DEF Policies
<1>4. /\ state' = [state EXCEPT !.policies[d.owner] = next, !.edited = @ \cup {d.owner}]
      /\ frames' = frames
  BY <1>1, <1>2 DEF ExecuteRevoke, States
<1>5. \A id \in DOMAIN next : next[id].maxCollateralSold = 0
  <2> HIDE DEF new
  <2> QED
    BY <1>2, <1>3
<1> HIDE DEF next
<1> QED
  BY <1>1, <1>4, <1>5, SafeWrite

LEMMA SafeCancelNonce ==
  ASSUME OneShot, NEW key \in NonceKeys, CancelNonce(key)
  PROVE  OneShot'
<1>1. TypeOK /\ TypeOK' /\ state \in States
  BY TypeCancelNonce DEF OneShot, TypeOK
<1>2. /\ key \notin state.nonces
      /\ state'.policies = state.policies /\ state'.context = state.context
      /\ state'.executed = state.executed /\ state'.released = state.released
      /\ state'.nonces = state.nonces \cup {key} /\ state'.cancelled = state.cancelled \cup {key}
  BY <1>1 DEF CancelNonce, FreshNonce, ConsumeNonce, States
<1>3. NonceAccounted(state)'
  <2> SUFFICES ASSUME NEW k \in NonceKeys
               PROVE  state'.executed[k] + (IF k \in state'.cancelled THEN 1 ELSE 0)
                        = (IF k \in state'.nonces THEN 1 ELSE 0)
    BY DEF NonceAccounted
  <2>1. /\ state.executed \in [NonceKeys -> Nat]
        /\ state.executed[k] + (IF k \in state.cancelled THEN 1 ELSE 0)
             = (IF k \in state.nonces THEN 1 ELSE 0)
    BY <1>1 DEF OneShot, Safe, NonceAccounted, States
  <2> QED
    BY <1>2, <2>1
<1>4. SpendBounded(state)' /\ PoliciesBlank(state)' /\ ContextWithinCap(state.context)'
  BY <1>2 DEF OneShot, Safe, SpendBounded, PoliciesBlank
<1> QED
  BY <1>1, <1>3, <1>4, SafeCall DEF CancelNonce, Safe

LEMMA SafeNext ==
  ASSUME AuthorizationAssumption, OneShot, [Next]_vars
  PROVE  OneShot'
<1>1. CASE UNCHANGED vars
  BY <1>1 DEF OneShot, TypeOK, vars
<1> QED
  BY <1>1, SafeEnvironment, SafeValidate, SafeExecuteMorpho, SafeOwnerCall,
     SafeExecuteRevoke, SafeCancelNonce DEF Next

(* In the state and in every copy a revert can bring back nonces are        *)
(* accounted for, releases are within the signature and an armed context    *)
(* allows no more than its digest (validate..., executeMorpho).             *)
THEOREM OneShotInductive == Spec => []OneShot
<1>1. Init => OneShot
  BY SafeInit, AuthorizationAssumption
<1>2. OneShot /\ [Next]_vars => OneShot'
  BY SafeNext, AuthorizationAssumption
<1> QED
  BY <1>1, <1>2, PTL DEF Spec

(* A nonce is spent by exactly one terminal call or one cancellation, across*)
(* any nesting of calls and reverts (_consumeNonce).                        *)
THEOREM NoncesSpentOnce == Spec => []NonceAccounting
<1>1. OneShot => NonceAccounting
  BY DEF OneShot, Safe, NonceAccounted, NonceAccounting
<1> QED
  BY <1>1, OneShotInductive, PTL

(* The same of well-typed states, as the runs check it.                     *)
THEOREM NoncesAccountedFor == Spec => []NoncesAccounted
BY TypeCorrect, NoncesSpentOnce, PTL DEF NoncesAccounted

(* No digest ever releases more of its owner's position than it was signed  *)
(* for, however often and in whatever frames it is submitted.               *)
THEOREM SignedSpendBounded == Spec => []SpendWithinSignature
<1>1. OneShot => SpendWithinSignature
  BY DEF OneShot, Safe, SpendBounded, SpendWithinSignature
<1> QED
  BY <1>1, OneShotInductive, PTL
=============================================================================
