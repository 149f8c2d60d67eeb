-------------------- MODULE LoopAuthorizationLedgerProofs --------------------
(***************************************************************************)
(* What LoopAuthorization's steps may never do, and that it implements the *)
(* ledger of one-shot actions, for any owners, digests, amounts and bounds.*)
(* OneShot says what is true of each copy of the state; what is proved     *)
(* here needs how the copies are ordered, and what the contract still      *)
(* remembers of the check that armed a context.                            *)
(***************************************************************************)
EXTENDS LoopAuthorizationProofs

(* Two digests that share a nonce are never both paid.                      *)
OneSpender(s) ==
  \A d, e \in Digests :
    NonceKey(d) = NonceKey(e) /\ s.released[d] # 0 /\ s.released[e] # 0 => d = e

(* The activity an operator's recovery is measured from is the last         *)
(* terminal call, whichever of the two records it is read from.             *)
ActivityIsTerminal(s) ==
  \A o \in Owners :
    s.lastTerminal[o] = (IF s.lastSigned[o] # 0 THEN s.lastSigned[o] ELSE s.activity[o])

RevokedInPast(s) == \A o \in Owners : \A id \in DOMAIN s.policies[o] :
  s.policies[o][id].revoked <= block

(* A context past its first call remembers that call.                       *)
FirstCallMade(s) ==
  LET c == s.context IN
  c.digest # Null =>
    /\ c.digest.type \in {"EXIT", "FORCE_EXIT"} =>
         c.terminal # "BORROW" /\ c.minRepay = c.digest.minRepay
    /\ c.step # 0 =>
         /\ s.lastCall # <<>>
         /\ s.lastCall[1] = c.digest
         /\ s.lastCall[2] = Programme(c)[1]
         /\ s.lastCall[2] = "REPAY" => s.lastCall[3] >= c.minRepay

Kept(s) == OneSpender(s) /\ ActivityIsTerminal(s) /\ RevokedInPast(s) /\ FirstCallMade(s)

(* An armed context holds the authority its validator checked: registry,    *)
(* block and the state the transaction began with do not change under it.   *)
InForce(s) ==
  s.context.digest # Null =>
    LET d == s.context.digest
        before == frames[1].policies[d.owner]
        now == s.policies[d.owner]
    IN /\ InTransaction
       /\ d.version = registry.version /\ block \in d.validFrom .. d.validUntil
       /\ d.policyId \in DOMAIN before => before[d.policyId].revoked = 0
       /\ d.policyId # 0 => d.policyId \in DOMAIN now
       /\ d.policyId # 0 /\ d.owner \notin s.edited =>
            /\ <<now[d.policyId].type, now[d.policyId].kind, now[d.policyId].class>>
                 = <<d.type, d.kind, d.class>>
            /\ now[d.policyId].expiry # 0 => block <= now[d.policyId].expiry
            /\ d.type = "AUTOMATION_EXEC" => now[d.policyId].hash = d.hash
       /\ s.context.terminal = "BORROW" =>
            registry.conditions \cap {"ORACLE", "SEQUENCER", "VAULT", "BLOCKED", "COOLING", "DRIFT"} = {}
       /\ d.kind = "OPERATOR_RECOVERY" =>
            /\ s.lastTerminal[d.owner] # 0
            /\ \/ "NEAR_LIQUIDATION" \in registry.conditions
               \/ block >= s.lastTerminal[d.owner] + RecoveryBlocks

(* What a later copy of the state keeps of an earlier one.                  *)
PoliciesSince(s, t) ==
  \A o \in Owners : \A id \in DOMAIN s.policies[o] :
    /\ id \in DOMAIN t.policies[o]
    /\ t.policies[o][id].type = s.policies[o][id].type
    /\ t.policies[o][id].kind = s.policies[o][id].kind
    /\ t.policies[o][id].class = s.policies[o][id].class
    /\ t.policies[o][id].revoked >= s.policies[o][id].revoked

SpentSince(s, t) ==
  /\ s.nonces \subseteq t.nonces
  /\ \A d \in Digests : NonceKey(d) \in s.nonces => t.released[d] = s.released[d]
  /\ \A key \in NonceKeys : s.executed[key] <= t.executed[key]

Since(s, t) == PoliciesSince(s, t) /\ SpentSince(s, t)

Idle(s) == s.context.digest = Null

History ==
  /\ OneShot
  /\ Kept(state) /\ InForce(state)
  /\ \A i \in DOMAIN frames : Kept(frames[i]) /\ InForce(frames[i]) /\ Since(frames[i], state)
  /\ \A i, j \in DOMAIN frames : i <= j => Since(frames[i], frames[j])
  /\ Idle(Committed)

-----------------------------------------------------------------------------
(* A policy of a well-formed copy is a policy.                              *)
LEMMA StoredPolicy ==
  ASSUME NEW s \in States, NEW o \in Owners, NEW id \in DOMAIN s.policies[o]
  PROVE  s.policies[o][id] \in Policies
<1>1. s.policies[o] \in Seq(Policies)
  BY DEF States
<1> QED
  BY <1>1, ElementOfSeq, LenProperties

LEMMA SinceReflexive ==
  ASSUME NEW s \in States
  PROVE  Since(s, s)
<1>1. PoliciesSince(s, s)
  BY StoredPolicy DEF PoliciesSince, Policies
<1>2. s.executed \in [NonceKeys -> Nat]
  BY DEF States
<1>3. SpentSince(s, s)
  BY <1>2 DEF SpentSince
<1> QED
  BY <1>1, <1>3 DEF Since

LEMMA SinceTransitive ==
  ASSUME NEW s \in States, NEW t \in States, NEW u \in States, Since(s, t), Since(t, u)
  PROVE  Since(s, u)
<1>1. PoliciesSince(s, u)
  <2> SUFFICES ASSUME NEW o \in Owners, NEW id \in DOMAIN s.policies[o]
               PROVE  /\ id \in DOMAIN u.policies[o]
                      /\ u.policies[o][id].type = s.policies[o][id].type
                      /\ u.policies[o][id].kind = s.policies[o][id].kind
                      /\ u.policies[o][id].class = s.policies[o][id].class
                      /\ u.policies[o][id].revoked >= s.policies[o][id].revoked
    BY DEF PoliciesSince
  <2>1. id \in DOMAIN t.policies[o] /\ id \in DOMAIN u.policies[o]
    BY DEF Since, PoliciesSince
  <2>2. /\ s.policies[o][id].revoked \in Nat /\ t.policies[o][id].revoked \in Nat
        /\ u.policies[o][id].revoked \in Nat
    BY <2>1, StoredPolicy DEF Policies
  <2> QED
    BY <2>1, <2>2 DEF Since, PoliciesSince
<1>2. SpentSince(s, u)
  <2>1. /\ s.executed \in [NonceKeys -> Nat] /\ t.executed \in [NonceKeys -> Nat]
        /\ u.executed \in [NonceKeys -> Nat]
    BY DEF States
  <2>2. s.nonces \subseteq t.nonces /\ t.nonces \subseteq u.nonces
    BY DEF Since, SpentSince
  <2>3. ASSUME NEW d \in Digests, NonceKey(d) \in s.nonces
        PROVE  u.released[d] = s.released[d]
    BY <2>2, <2>3 DEF Since, SpentSince
  <2>4. ASSUME NEW key \in NonceKeys
        PROVE  s.executed[key] <= u.executed[key]
    <3>1. s.executed[key] <= t.executed[key] /\ t.executed[key] <= u.executed[key]
      BY DEF Since, SpentSince
    <3> QED
      BY <2>1, <3>1
  <2> QED
    BY <2>2, <2>3, <2>4 DEF SpentSince
<1> QED
  BY <1>1, <1>2 DEF Since

(* The stack holds well-formed copies at 1, 2, ..., its length.             *)
LEMMA Copies ==
  ASSUME TypeOK
  PROVE  /\ state \in States
         /\ Len(frames) \in Nat /\ DOMAIN frames = 1 .. Len(frames)
         /\ \A i \in DOMAIN frames : frames[i] \in States
         /\ frames # <<>> => Len(frames) > 0 /\ 1 \in DOMAIN frames
         /\ frames = <<>> => DOMAIN frames = {}
<1>1. frames \in Seq(States)
  BY DEF TypeOK
<1>2. Len(frames) \in Nat /\ DOMAIN frames = 1 .. Len(frames)
  BY <1>1, LenProperties
<1>3. \A i \in DOMAIN frames : frames[i] \in States
  BY <1>1, <1>2, ElementOfSeq
<1>4. frames # <<>> => Len(frames) > 0
  BY <1>1, <1>2, EmptySeq
<1>5. frames = <<>> => DOMAIN frames = {}
  BY EmptySeq
<1> QED
  BY <1>2, <1>3, <1>4, <1>5 DEF TypeOK

(* A call changes the state only: what was true of the copies stays true.   *)
LEMMA HistoryCall ==
  ASSUME History, OneShot', InTransaction, UNCHANGED <<frames, block, registry>>,
         Since(state, state'), Kept(state)', InForce(state)'
  PROVE  History'
<1>1. TypeOK /\ state \in States /\ state' \in States
  BY DEF History, OneShot, TypeOK
<1>2. ASSUME NEW i \in DOMAIN frames'
      PROVE  (Kept(frames[i]) /\ InForce(frames[i]) /\ Since(frames[i], state))'
  <2>1. i \in DOMAIN frames /\ frames'[i] = frames[i] /\ frames[i] \in States
    BY <1>1, <1>2, Copies
  <2>2. Kept(frames[i]) /\ InForce(frames[i]) /\ Since(frames[i], state)
    BY <2>1 DEF History
  <2>3. Since(frames[i], state)'
    BY <1>1, <2>1, <2>2, SinceTransitive
  <2>4. Kept(frames[i])'
    BY <2>1, <2>2 DEF Kept, OneSpender, ActivityIsTerminal, RevokedInPast, FirstCallMade
  <2>5. InForce(frames[i])'
    BY <2>1, <2>2 DEF InForce, InTransaction
  <2> QED
    BY <2>3, <2>4, <2>5
<1>3. (\A i, j \in DOMAIN frames : i <= j => Since(frames[i], frames[j]))'
  BY DEF History
<1>4. Idle(Committed)'
  BY DEF History, Idle, Committed, InTransaction
<1> QED
  BY <1>2, <1>3, <1>4 DEF History

-----------------------------------------------------------------------------
(* The EVM's own steps.                                                     *)

LEMMA HistoryInit ==
  ASSUME AuthorizationAssumption, Init
  PROVE  History
<1>1. OneShot
  BY SafeInit
<1>2. DOMAIN frames = {}
  BY EmptySeq DEF Init
<1>3. OneSpender(state)
  BY DEF Init, OneSpender
<1>4. ActivityIsTerminal(state)
  BY DEF Init, ActivityIsTerminal
<1>5. RevokedInPast(state)
  BY EmptySeq DEF Init, RevokedInPast
<1>6. state.context.digest = Null /\ Committed = state
  BY DEF Init, ClearContext, Committed, InTransaction
<1> QED
  BY <1>1, <1>2, <1>3, <1>4, <1>5, <1>6 DEF History, Kept, FirstCallMade, InForce, Idle

(* An idle copy has nothing in force to lose, and keeps its past.           *)
LEMMA IdleInForce ==
  ASSUME NEW s, Idle(s)
  PROVE  InForce(s) /\ InForce(s)' /\ FirstCallMade(s)
BY DEF Idle, InForce, FirstCallMade

(* What is true of a copy stays true while the block, the registry and the  *)
(* bottom of the stack do.                                                  *)
LEMMA PlaceKept ==
  ASSUME NEW i, NEW j, frames'[i] = frames[j], Kept(frames[j]), InForce(frames[j]),
         frames' # <<>>, frames'[1] = frames[1], UNCHANGED <<block, registry>>
  PROVE  (Kept(frames[i]) /\ InForce(frames[i]))'
<1>1. Kept(frames[i])'
  BY DEF Kept, OneSpender, ActivityIsTerminal, RevokedInPast, FirstCallMade
<1>2. InForce(frames[i])'
  BY DEF InForce, InTransaction
<1> QED
  BY <1>1, <1>2

LEMMA StateKept ==
  ASSUME NEW i, frames'[i] = state, Kept(state), InForce(state),
         frames' # <<>>, frames'[1] = frames[1], UNCHANGED <<block, registry>>
  PROVE  (Kept(frames[i]) /\ InForce(frames[i]))'
<1>1. Kept(frames[i])'
  BY DEF Kept, OneSpender, ActivityIsTerminal, RevokedInPast, FirstCallMade
<1>2. InForce(frames[i])'
  BY DEF InForce, InTransaction
<1> QED
  BY <1>1, <1>2

LEMMA HistoryEnvironment ==
  ASSUME AuthorizationAssumption, History, Environment
  PROVE  History'
<1>1. OneShot /\ OneShot' /\ TypeOK /\ TypeOK'
  BY SafeEnvironment DEF History, OneShot
<1>2. /\ state \in States
      /\ frames \in Seq(States) /\ Len(frames) \in Nat /\ DOMAIN frames = 1 .. Len(frames)
      /\ \A i \in DOMAIN frames : frames[i] \in States
  BY <1>1, Copies DEF TypeOK
<1>3. CASE BeginTransaction
  <2>1. frames' = <<state>> /\ UNCHANGED <<state, block, registry>>
    BY <1>3 DEF BeginTransaction
  <2>2. Idle(state) /\ Idle(Committed)'
    BY <1>3, <2>1 DEF BeginTransaction, History, Committed, InTransaction, Idle
  <2>3. Kept(state)' /\ InForce(state)'
    BY <2>1, <2>2, IdleInForce, ZenonT(40)
       DEF History, Kept, OneSpender, ActivityIsTerminal, RevokedInPast, FirstCallMade, InForce, Idle
  <2>4. Since(state, state)
    BY <1>2, SinceReflexive
  <2>5. DOMAIN frames' = {1} /\ frames'[1] = state
    BY <2>1
  <2> QED
    BY <1>1, <2>1, <2>2, <2>3, <2>4, <2>5 DEF History
<1>4. CASE EnterFrame
  <2>1. frames' = Append(frames, state) /\ frames # <<>> /\ UNCHANGED <<state, block, registry>>
    BY <1>4 DEF EnterFrame, InTransaction
  <2> DEFINE n == Len(frames)
  <2>2. n > 0 /\ n \in Nat
    BY <1>1, <2>1, Copies
  <2>3. /\ DOMAIN frames' = 1 .. n + 1 /\ frames'[n + 1] = state
        /\ \A i \in 1 .. n : frames'[i] = frames[i]
    BY <1>2, <2>1, AppendProperties
  <2>4. frames'[1] = frames[1] /\ frames' # <<>>
    BY <2>2, <2>3, EmptySeq
  <2>6. Kept(state)' /\ InForce(state)'
    BY <2>1, <2>4, ZenonT(40) DEF History, Kept, OneSpender, ActivityIsTerminal, RevokedInPast, FirstCallMade,
                      InForce, InTransaction
  <2>7. Since(state, state) /\ \A i \in 1 .. n : Since(frames[i], state)
    BY <1>2, SinceReflexive DEF History
  <2>8. ASSUME NEW i \in DOMAIN frames'
        PROVE  (Kept(frames[i]) /\ InForce(frames[i]) /\ Since(frames[i], state))'
    <3>1. CASE i = n + 1
      BY <2>1, <2>3, <2>4, <2>7, <3>1, StateKept DEF History
    <3>2. CASE i \in 1 .. n
      <4>1. Kept(frames[i]) /\ InForce(frames[i]) /\ frames'[i] = frames[i]
        BY <1>2, <2>3, <3>2 DEF History
      <4>2. Since(frames[i], state)'
        BY <2>1, <2>3, <2>7, <3>2
      <4> QED
        BY <2>1, <2>4, <4>1, <4>2, PlaceKept
    <3> QED
      BY <2>2, <2>3, <3>1, <3>2
  <2>9. (\A i, j \in DOMAIN frames : i <= j => Since(frames[i], frames[j]))'
    <3> SUFFICES ASSUME NEW i \in 1 .. n + 1, NEW j \in 1 .. n + 1, i <= j
                 PROVE  Since(frames'[i], frames'[j])
      BY <2>3
    <3>1. CASE j = n + 1
      BY <2>2, <2>3, <2>7, <3>1
    <3>2. CASE j # n + 1
      BY <1>2, <2>2, <2>3, <3>2 DEF History
    <3> QED
      BY <3>1, <3>2
  <2>10. Idle(Committed)'
    BY <2>1, <2>4 DEF History, Committed, InTransaction, Idle
  <2> QED
    BY <1>1, <2>6, <2>8, <2>9, <2>10 DEF History
<1>5. ASSUME frames # <<>>, frames' = SubSeq(frames, 1, Len(frames) - 1),
             UNCHANGED <<block, registry>>
      PROVE  /\ Len(frames) \in DOMAIN frames
             /\ DOMAIN frames' \subseteq DOMAIN frames
             /\ \A i \in DOMAIN frames' : frames'[i] = frames[i]
             /\ (\A i \in DOMAIN frames : Kept(frames[i]) /\ InForce(frames[i]))'
             /\ (\A i, j \in DOMAIN frames : i <= j => Since(frames[i], frames[j]))'
             /\ frames' # <<>> => frames'[1] = frames[1]
             /\ frames' = <<>> => Len(frames) = 1
  <2> DEFINE n == Len(frames)
  <2>1. n > 0 /\ n \in Nat
    BY <1>1, <1>5, Copies
  <2>2. \A i \in 1 .. n : frames[i] \in States
    BY <1>2
  <2>3. /\ Len(frames') = n - 1 /\ DOMAIN frames' = 1 .. n - 1
        /\ \A i \in 1 .. n - 1 : frames'[i] = frames[i]
    BY <1>2, <1>5, <2>1, <2>2, SubSeqProperties
  <2>4. frames' # <<>> => 1 \in DOMAIN frames' /\ frames'[1] = frames[1]
    BY <1>1, <2>1, <2>3, EmptySeq, Copies DEF TypeOK
  <2>5. frames' = <<>> => n = 1
    BY <2>1, <2>3
  <2>6. ASSUME NEW i \in DOMAIN frames'
        PROVE  (Kept(frames[i]) /\ InForce(frames[i]))'
    <3>1. Kept(frames[i]) /\ InForce(frames[i]) /\ frames'[i] = frames[i] /\ frames' # <<>>
      BY <1>2, <2>1, <2>3, <2>6, EmptySeq DEF History
    <3>2. frames'[1] = frames[1]
      BY <2>4, <3>1
    <3> QED
      BY <1>5, <3>1, <3>2, PlaceKept
  <2>7. (\A i, j \in DOMAIN frames : i <= j => Since(frames[i], frames[j]))'
    BY <1>2, <2>1, <2>3 DEF History
  <2> QED
    BY <1>2, <2>1, <2>3, <2>4, <2>5, <2>6, <2>7
<1>6. CASE LeaveFrame
  <2>1. frames # <<>> /\ frames' = SubSeq(frames, 1, Len(frames) - 1) /\ UNCHANGED <<state, block, registry>>
    BY <1>2, <1>6, EmptySeq DEF LeaveFrame
  <2>2. Len(frames) > 1
    BY <1>6 DEF LeaveFrame
  <2>3. frames' # <<>> /\ frames'[1] = frames[1]
    BY <1>5, <2>1, <2>2
  <2>4. Kept(state)' /\ InForce(state)'
    BY <2>1, <2>3, <2>2, <1>2, EmptySeq, ZenonT(40)
       DEF History, Kept, OneSpender, ActivityIsTerminal, RevokedInPast, FirstCallMade, InForce, InTransaction
  <2>5. (\A i \in DOMAIN frames : Since(frames[i], state))'
    BY <1>5, <2>1 DEF History
  <2>6. Idle(Committed)'
    BY <2>1, <2>3 DEF History, Committed, InTransaction, Idle
  <2> QED
    BY <1>1, <1>5, <2>1, <2>4, <2>5, <2>6 DEF History
<1>7. CASE RevertFrame
  <2> DEFINE n == Len(frames)
  <2>1. /\ frames # <<>> /\ frames' = SubSeq(frames, 1, n - 1)
        /\ state' = frames[n] /\ UNCHANGED <<block, registry>>
    BY <1>7 DEF RevertFrame, InTransaction
  <2>2. /\ n \in DOMAIN frames /\ n \in Nat
        /\ Kept(frames[n]) /\ InForce(frames[n])
        /\ \A i \in DOMAIN frames : Since(frames[i], frames[n])
    BY <1>2, <1>5, <2>1 DEF History
  <2>3. Kept(state)'
    BY <2>1, <2>2 DEF Kept, OneSpender, ActivityIsTerminal, RevokedInPast, FirstCallMade
  <2>4. InForce(state)' /\ Idle(Committed)'
    <3>1. CASE frames' = <<>>
      <4>1. state' = frames[1]
        BY <1>5, <2>1, <3>1
      <4>2. Idle(state)'
        BY <2>1, <4>1 DEF History, Committed, InTransaction, Idle
      <4> QED
        BY <3>1, <4>2 DEF InForce, Idle, Committed, InTransaction
    <3>2. CASE frames' # <<>>
      <4>1. frames'[1] = frames[1]
        BY <1>5, <2>1, <3>2
      <4>2. Idle(Committed)'
        BY <2>1, <3>2, <4>1 DEF History, Committed, InTransaction, Idle
      <4> QED
        BY <2>1, <2>2, <3>2, <4>1, <4>2 DEF InForce, InTransaction
    <3> QED
      BY <3>1, <3>2
  <2>5. (\A i \in DOMAIN frames : Since(frames[i], state))'
    BY <1>5, <2>1, <2>2
  <2> QED
    BY <1>1, <1>5, <2>1, <2>3, <2>4, <2>5 DEF History
<1>8. CASE EndTransaction
  <2>1. /\ frames' = <<>> /\ UNCHANGED <<block, registry>>
        /\ state'.policies = state.policies /\ state'.released = state.released
        /\ state'.lastSigned = state.lastSigned /\ state'.activity = state.activity
        /\ state'.lastTerminal = state.lastTerminal /\ state'.context = ClearContext
    BY <1>2, <1>8 DEF EndTransaction, States
  <2>2. state'.context.digest = Null /\ DOMAIN frames' = {}
    BY <2>1, EmptySeq DEF ClearContext
  <2>3. Kept(state)'
    BY <2>1, <2>2 DEF History, Kept, OneSpender, ActivityIsTerminal, RevokedInPast, FirstCallMade
  <2>4. InForce(state)' /\ Idle(Committed)'
    BY <2>1, <2>2 DEF InForce, Idle, Committed, InTransaction
  <2> QED
    BY <1>1, <2>2, <2>3, <2>4 DEF History
<1>9. CASE AdvanceBlock \/ BumpRegistry \/ ChangeConditions
  <2>1. frames = <<>> /\ UNCHANGED <<state, frames>> /\ block' >= block
    BY <1>1, <1>9 DEF AdvanceBlock, BumpRegistry, ChangeConditions, InTransaction, TypeOK
  <2>2. DOMAIN frames' = {} /\ Committed = state /\ Idle(state)
    BY <2>1, EmptySeq DEF History, Committed, InTransaction
  <2>3. RevokedInPast(state)'
    <3> SUFFICES ASSUME NEW o \in Owners, NEW id \in DOMAIN state.policies[o]
                 PROVE  state.policies[o][id].revoked <= block'
      BY <2>1 DEF RevokedInPast
    <3>1. state.policies[o][id].revoked \in Nat /\ state.policies[o][id].revoked <= block
      BY <1>2, StoredPolicy DEF Policies, History, Kept, RevokedInPast
    <3> QED
      BY <1>1, <2>1, <3>1 DEF TypeOK
  <2>4. Kept(state)'
    BY <2>1, <2>3 DEF History, Kept, OneSpender, ActivityIsTerminal, FirstCallMade
  <2>5. InForce(state)' /\ Idle(Committed)'
    BY <2>1, <2>2 DEF InForce, Idle, Committed, InTransaction
  <2> QED
    BY <1>1, <2>2, <2>4, <2>5 DEF History
<1> QED
  BY <1>3, <1>4, <1>6, <1>7, <1>8, <1>9 DEF Environment

-----------------------------------------------------------------------------
(* Validation: what a validator has checked when it arms a context.         *)

Checked(d, terminal) ==
  /\ d.version = registry.version /\ block \in d.validFrom .. d.validUntil
  /\ d.policyId # 0 =>
       LET policy == state.policies[d.owner][d.policyId] IN
         /\ d.policyId \in DOMAIN state.policies[d.owner]
         /\ policy.type = d.type /\ policy.kind = d.kind /\ policy.class = d.class
         /\ policy.expiry # 0 => block <= policy.expiry
         /\ policy.revoked = 0
         /\ d.type = "AUTOMATION_EXEC" => policy.hash = d.hash
  /\ terminal = "BORROW" =>
       registry.conditions \cap {"ORACLE", "SEQUENCER", "VAULT", "BLOCKED", "COOLING", "DRIFT"} = {}
  /\ d.kind = "OPERATOR_RECOVERY" =>
       /\ LastSigned(d.owner) # 0
       /\ \/ "NEAR_LIQUIDATION" \in registry.conditions
          \/ block >= LastSigned(d.owner) + RecoveryBlocks

LEMMA CommonChecked ==
  ASSUME NEW d \in Digests, NEW caller, NEW terminal, ValidCommon(d, caller),
         d.type = "AUTOMATION_EXEC" => d.hash = PolicyOf(d.owner, d.policyId).hash,
         terminal = "BORROW" => ValidRiskUp /\ ValidHarvest
  PROVE  Checked(d, terminal)
<1>1. /\ d.version = registry.version /\ block \in d.validFrom .. d.validUntil
      /\ "DRIFT" \notin registry.conditions
  BY DEF ValidCommon, ValidIdentity, ValidFreshness
<1>2. ASSUME d.policyId # 0
      PROVE  LET policy == state.policies[d.owner][d.policyId] IN
               /\ d.policyId \in DOMAIN state.policies[d.owner]
               /\ policy.type = d.type /\ policy.kind = d.kind /\ policy.class = d.class
               /\ policy.expiry # 0 => block <= policy.expiry
               /\ policy.revoked = 0
               /\ d.type = "AUTOMATION_EXEC" => policy.hash = d.hash
  BY <1>2 DEF ValidCommon, ValidPolicy, PolicyOf, PolicyExists
<1>3. terminal = "BORROW" =>
        registry.conditions \cap {"ORACLE", "SEQUENCER", "VAULT", "BLOCKED", "COOLING", "DRIFT"} = {}
  BY <1>1 DEF ValidRiskUp, ValidHarvest
<1>4. d.kind = "OPERATOR_RECOVERY" =>
        /\ LastSigned(d.owner) # 0
        /\ \/ "NEAR_LIQUIDATION" \in registry.conditions
           \/ block >= LastSigned(d.owner) + RecoveryBlocks
  BY DEF ValidCommon, ValidExecutionKind
<1> QED
  BY <1>1, <1>2, <1>3, <1>4 DEF Checked

(* A policy not revoked now was not revoked when the transaction began.     *)
LEMMA HistoryArm ==
  ASSUME AuthorizationAssumption, History, OneShot', InTransaction,
         NEW d \in Digests, NEW terminal, NEW a, NEW b, NEW c, NEW e, NEW f,
         ArmContext(Context(d, terminal, a, b, c, e, f)), Checked(d, terminal),
         d.type \in {"EXIT", "FORCE_EXIT"} => terminal # "BORROW" /\ c = d.minRepay
  PROVE  History'
<1> DEFINE context == Context(d, terminal, a, b, c, e, f)
           o == d.owner
<1>1. TypeOK /\ state \in States /\ frames[1] \in States /\ 1 \in DOMAIN frames
  BY Copies DEF History, OneShot, InTransaction
<1>2. /\ state' = [state EXCEPT !.context = context]
      /\ UNCHANGED <<frames, block, registry>>
  BY DEF ArmContext
<1>3. /\ context.digest = d /\ context.terminal = terminal /\ context.step = 0
      /\ context.minRepay = c
  BY DEF Context
<1> HIDE DEF context
<1>4. /\ state'.policies = state.policies /\ state'.nonces = state.nonces
      /\ state'.lastSigned = state.lastSigned /\ state'.activity = state.activity
      /\ state'.context = context /\ state'.executed = state.executed
      /\ state'.released = state.released /\ state'.lastTerminal = state.lastTerminal
  BY <1>1, <1>2 DEF States
<1>5. o \in Owners /\ d.policyId \in Nat
  BY DEF AuthorizationAssumption, DigestType
<1>6. Kept(state)'
  BY <1>2, <1>3, <1>4
     DEF History, Kept, OneSpender, ActivityIsTerminal, RevokedInPast, FirstCallMade
<1>7. Since(state, state')
  BY <1>1, <1>4, SinceReflexive DEF Since, PoliciesSince, SpentSince
<1>8. ASSUME d.policyId \in DOMAIN frames[1].policies[o]
      PROVE  frames[1].policies[o][d.policyId].revoked = 0
  <2>1. Since(frames[1], state)
    BY <1>1 DEF History
  <2>2. d.policyId # 0
    <3>1. frames[1].policies[o] \in Seq(Policies)
      BY <1>1, <1>5 DEF States
    <3> QED
      BY <1>8, <3>1, LenProperties
  <2>3. /\ state.policies[o][d.policyId].revoked = 0
        /\ state.policies[o][d.policyId].revoked >= frames[1].policies[o][d.policyId].revoked
    BY <1>5, <1>8, <2>1, <2>2 DEF Checked, Since, PoliciesSince
  <2>4. frames[1].policies[o][d.policyId].revoked \in Nat
    BY <1>1, <1>5, <1>8, StoredPolicy DEF Policies
  <2> QED
    BY <2>3, <2>4
<1>9. d.kind = "OPERATOR_RECOVERY" =>
        /\ state.lastTerminal[o] # 0
        /\ \/ "NEAR_LIQUIDATION" \in registry.conditions
           \/ block >= state.lastTerminal[o] + RecoveryBlocks
  BY <1>5 DEF Checked, LastSigned, History, Kept, ActivityIsTerminal
<1>10. InForce(state)'
  BY <1>2, <1>3, <1>4, <1>8, <1>9, SMTT(40) DEF InForce, InTransaction, Checked
<1> QED
  BY <1>2, <1>6, <1>7, <1>10, HistoryCall

LEMMA HistoryValidate ==
  ASSUME AuthorizationAssumption, History,
         NEW d \in Digests, NEW caller \in Addresses, Validate(d, caller)
  PROVE  History'
<1>1. OneShot' /\ InTransaction
  BY SafeValidate DEF History, Validate, ValidateOpen, ValidateRebalance, ValidateExit,
                      ValidateAutomationExec, ValidateForceExit
<1>2. CASE ValidateOpen(d, caller)
  <2>1. Checked(d, "BORROW")
    BY <1>2, CommonChecked DEF ValidateOpen, ValidCommon
  <2> QED
    BY <1>1, <1>2, <2>1, HistoryArm DEF ValidateOpen
<1>3. CASE ValidateRebalance(d, caller)
  <2> DEFINE terminal == IF d.maxDebtIncrease > 0 THEN "BORROW"
                         ELSE IF d.maxCollateralSold > 0 THEN "WITHDRAW_COLLATERAL" ELSE "REPAY"
  <2>1. Checked(d, terminal)
    BY <1>3, CommonChecked DEF ValidateRebalance, RiskIncreasing
  <2>2. ArmContext(Context(d, terminal, 0, 0, 0, d.maxCollateralSold, d.maxDebtIncrease))
    BY <1>3 DEF ValidateRebalance
  <2> HIDE DEF terminal
  <2> QED
    BY <1>1, <1>3, <2>1, <2>2, HistoryArm DEF ValidateRebalance
<1>4. CASE ValidateExit(d, caller)
  <2> DEFINE terminal == IF d.class = "REPAY_ONLY" THEN "REPAY" ELSE "WITHDRAW_COLLATERAL"
             sold == IF d.class = "REPAY_ONLY" THEN 0 ELSE d.maxCollateralSold
  <2>1. terminal # "BORROW"
    OBVIOUS
  <2>2. Checked(d, terminal)
    BY <1>4, <2>1, CommonChecked DEF ValidateExit
  <2>3. ArmContext(Context(d, terminal, 0, 0, d.minRepay, sold, 0))
    BY <1>4 DEF ValidateExit
  <2> HIDE DEF terminal, sold
  <2> QED
    BY <1>1, <2>1, <2>2, <2>3, HistoryArm
<1>5. CASE ValidateAutomationExec(d, caller)
  <2> DEFINE policy == PolicyOf(d.owner, d.policyId)
  <2>1. ASSUME NEW terminal \in {"REPAY", "WITHDRAW_COLLATERAL"}
        PROVE  Checked(d, terminal)
    BY <1>5, <2>1, CommonChecked DEF ValidateAutomationExec
  <2>2. \/ ArmContext(Context(d, "REPAY", 0, 0, policy.minRepay, 0, 0))
        \/ ArmContext(Context(d, "WITHDRAW_COLLATERAL", 0, 0, policy.minRepay,
                              policy.maxCollateralSold, 0))
    BY <1>5 DEF ValidateAutomationExec
  <2>3. d.type = "AUTOMATION_EXEC"
    BY <1>5 DEF ValidateAutomationExec
  <2> HIDE DEF policy
  <2> QED
    BY <1>1, <2>1, <2>2, <2>3, HistoryArm
<1>6. CASE ValidateForceExit(d, caller)
  <2>1. Checked(d, "WITHDRAW_COLLATERAL")
    BY <1>6 DEF ValidateForceExit, ValidForceExitDigest, ValidIdentity, ValidFreshness,
                ValidExecutionKind, Checked
  <2> QED
    BY <1>1, <1>6, <2>1, HistoryArm DEF ValidateForceExit
<1> QED
  BY <1>2, <1>3, <1>4, <1>5, <1>6 DEF Validate

-----------------------------------------------------------------------------
(* Calls to Morpho.                                                         *)

LEMMA SinceSame ==
  ASSUME NEW s \in States, NEW t \in States, t.policies = s.policies,
         t.nonces = s.nonces, t.released = s.released, t.executed = s.executed
  PROVE  Since(s, t)
BY SinceReflexive DEF Since, PoliciesSince, SpentSince

(* A call before the terminal one is the first of two.                      *)
LEMMA StepIsFirst ==
  ASSUME TypeOK, OneShot, NEW selector, NEW amount, ExecuteMorphoStep(selector, amount)
  PROVE  state.context.step = 0 /\ selector = Programme(state.context)[1]
<1> DEFINE c == state.context
<1>1. c.step \in Nat /\ c.terminal \in {"BORROW", "REPAY", "WITHDRAW_COLLATERAL"}
  BY ArmedDigest DEF ExecuteMorphoStep, ValidMorphoCall, OneShot, Safe, ContextWithinCap,
                     ContextClear, Contexts
<1>2. c.step < Len(Programme(c)) /\ selector = Programme(c)[c.step + 1] /\ selector # c.terminal
  BY DEF ExecuteMorphoStep, ValidMorphoCall, InSequence
<1>3. CASE c.terminal = "BORROW"
  BY <1>1, <1>2, <1>3 DEF Programme
<1>4. CASE c.terminal = "REPAY"
  BY <1>1, <1>2, <1>4 DEF Programme
<1>5. CASE c.terminal = "WITHDRAW_COLLATERAL"
  BY <1>1, <1>2, <1>5 DEF Programme
<1> QED
  BY <1>1, <1>3, <1>4, <1>5

LEMMA HistoryStep ==
  ASSUME AuthorizationAssumption, History,
         NEW selector \in Selectors, NEW amount \in Amounts, ExecuteMorphoStep(selector, amount)
  PROVE  History'
<1> DEFINE c == state.context
<1>1. TypeOK /\ OneShot /\ OneShot' /\ state \in States /\ state' \in States
  BY SafeExecuteMorpho DEF History, OneShot, TypeOK, ExecuteMorpho
<1>2. c \in Contexts /\ c.digest \in Digests /\ InTransaction
  BY <1>1, ArmedDigest DEF ExecuteMorphoStep, ValidMorphoCall
<1>3. /\ state' = [state EXCEPT !.context.step = @ + 1, !.lastCall = <<c.digest, selector, amount>>]
      /\ UNCHANGED <<frames, block, registry>>
  BY DEF ExecuteMorphoStep
<1>4. /\ state'.policies = state.policies /\ state'.nonces = state.nonces
      /\ state'.lastSigned = state.lastSigned /\ state'.activity = state.activity
      /\ state'.executed = state.executed /\ state'.edited = state.edited
      /\ state'.released = state.released /\ state'.lastTerminal = state.lastTerminal
      /\ state'.lastCall = <<c.digest, selector, amount>>
      /\ state'.context = [c EXCEPT !.step = @ + 1]
  BY <1>1, <1>3 DEF States
<1>5. /\ state'.context.digest = c.digest /\ state'.context.terminal = c.terminal
      /\ state'.context.minRepay = c.minRepay
  BY <1>2, <1>4 DEF Contexts
<1>6. selector = Programme(c)[1]
  BY <1>1, StepIsFirst
<1>7. selector = "REPAY" => amount >= c.minRepay
  BY DEF ExecuteMorphoStep, ValidMorphoCall, InBounds
<1>8. Programme(state'.context) = Programme(c)
  BY <1>5 DEF Programme
<1>9. FirstCallMade(state)'
  BY <1>2, <1>4, <1>5, <1>6, <1>7, <1>8 DEF History, Kept, FirstCallMade
<1>10. Kept(state)'
  BY <1>3, <1>4, <1>9 DEF History, Kept, OneSpender, ActivityIsTerminal, RevokedInPast
<1>11. InForce(state)'
  BY <1>3, <1>4, <1>5 DEF History, InForce, InTransaction
<1> QED
  BY <1>1, <1>2, <1>3, <1>4, <1>10, <1>11, SinceSame, HistoryCall

(* What the terminal call writes.                                           *)
LEMMA TerminalEffect ==
  ASSUME AuthorizationAssumption, TypeOK, NEW selector \in Selectors, NEW amount \in Amounts,
         ExecuteMorphoTerminal(selector, amount)
  PROVE  LET d == state.context.digest
             paid == IF Releases(selector) THEN amount ELSE 0
         IN /\ InTransaction /\ UNCHANGED <<frames, block, registry>>
            /\ d \in Digests /\ d.owner \in Owners
            /\ NonceKey(d) \in NonceKeys /\ NonceKey(d) \notin state.nonces
            /\ state'.policies = state.policies
            /\ state'.nonces = state.nonces \cup {NonceKey(d)}
            /\ state'.lastSigned = [state.lastSigned EXCEPT ![d.owner] = block]
            /\ state'.activity = [state.activity EXCEPT ![d.owner] = block]
            /\ state'.lastTerminal = [state.lastTerminal EXCEPT ![d.owner] = block]
            /\ state'.context = ClearContext
            /\ state'.executed = [state.executed EXCEPT ![NonceKey(d)] = @ + 1]
            /\ state'.released = [state.released EXCEPT ![d] = @ + paid]
            /\ state'.lastCall = <<d, selector, amount>>
<1>1. state \in States
  BY DEF TypeOK
<1>2. InTransaction /\ state.context.digest \in Digests
  BY ArmedDigest DEF ExecuteMorphoTerminal, ValidMorphoCall
<1>3. NonceKey(state.context.digest) \in NonceKeys /\ state.context.digest.owner \in Owners
  BY <1>2 DEF NonceKeys, AuthorizationAssumption, DigestType
<1> QED
  BY <1>1, <1>2, <1>3
     DEF ExecuteMorphoTerminal, RecordActivity, ConsumeNonce, FreshNonce, States

LEMMA HistoryTerminal ==
  ASSUME AuthorizationAssumption, History,
         NEW selector \in Selectors, NEW amount \in Amounts, ExecuteMorphoTerminal(selector, amount)
  PROVE  History'
<1>1. TypeOK /\ OneShot /\ OneShot' /\ state \in States
  BY SafeExecuteMorpho DEF History, OneShot, TypeOK, ExecuteMorpho
<1> DEFINE d == state.context.digest
           paid == IF Releases(selector) THEN amount ELSE 0
           key == NonceKey(d)
<1>2. /\ InTransaction /\ UNCHANGED <<frames, block, registry>>
      /\ d \in Digests /\ d.owner \in Owners /\ key \in NonceKeys /\ key \notin state.nonces
      /\ state'.policies = state.policies /\ state'.nonces = state.nonces \cup {key}
      /\ state'.lastSigned = [state.lastSigned EXCEPT ![d.owner] = block]
      /\ state'.activity = [state.activity EXCEPT ![d.owner] = block]
      /\ state'.lastTerminal = [state.lastTerminal EXCEPT ![d.owner] = block]
      /\ state'.context.digest = Null
      /\ state'.executed = [state.executed EXCEPT ![key] = @ + 1]
      /\ state'.released = [state.released EXCEPT ![d] = @ + paid]
  BY <1>1, TerminalEffect DEF ClearContext
<1>3. /\ state.released \in [Digests -> Nat] /\ state.executed \in [NonceKeys -> Nat]
      /\ state.lastSigned \in [Owners -> Nat] /\ state.activity \in [Owners -> Nat]
      /\ state.lastTerminal \in [Owners -> Nat]
  BY <1>1 DEF States
<1>4. \A e \in Digests : NonceKey(e) = key => state.released[e] = 0
  BY <1>1, <1>2 DEF OneShot, Safe, SpendBounded
<1> HIDE DEF d, paid, key
<1>5. OneSpender(state)'
  <2> SUFFICES ASSUME NEW e \in Digests, NEW f \in Digests, NonceKey(e) = NonceKey(f),
                      state'.released[e] # 0, state'.released[f] # 0
               PROVE  e = f
    BY DEF OneSpender
  <2>1. \A g \in Digests : g # d => state'.released[g] = state.released[g]
    BY <1>2, <1>3
  <2>2. CASE e = d \/ f = d
    BY <1>4, <2>1, <2>2 DEF key
  <2>3. CASE e # d /\ f # d
    BY <2>1, <2>3 DEF History, Kept, OneSpender
  <2> QED
    BY <2>2, <2>3
<1>6. ActivityIsTerminal(state)'
  BY <1>2, <1>3 DEF History, Kept, ActivityIsTerminal
<1>7. RevokedInPast(state)' /\ FirstCallMade(state)' /\ InForce(state)'
  BY <1>2 DEF History, Kept, RevokedInPast, FirstCallMade, InForce
<1>8. PoliciesSince(state, state')
  BY <1>1, <1>2, SinceReflexive DEF Since, PoliciesSince
<1>9. SpentSince(state, state')
  <2>1. ASSUME NEW e \in Digests, NonceKey(e) \in state.nonces
        PROVE  state'.released[e] = state.released[e]
    BY <1>2, <1>3, <2>1 DEF key
  <2>2. \A k \in NonceKeys : state.executed[k] <= state'.executed[k]
    BY <1>2, <1>3
  <2> QED
    BY <1>2, <2>1, <2>2 DEF SpentSince
<1> QED
  BY <1>1, <1>2, <1>5, <1>6, <1>7, <1>8, <1>9, HistoryCall DEF Kept, Since

-----------------------------------------------------------------------------
(* Policies and nonces.                                                     *)

(* Policies written beside an armed context leave its authority in force.   *)
LEMMA InForceWritten ==
  ASSUME InForce(state), NEW o, UNCHANGED <<frames, block, registry>>,
         state'.context = state.context, state'.lastTerminal = state.lastTerminal,
         state'.edited = state.edited \cup {o},
         state.context.digest # Null =>
           /\ state.context.digest.policyId # 0 =>
                state.context.digest.policyId \in DOMAIN state'.policies[state.context.digest.owner]
           /\ o # state.context.digest.owner =>
                state'.policies[state.context.digest.owner] = state.policies[state.context.digest.owner]
  PROVE  InForce(state)'
<1> SUFFICES ASSUME state.context.digest # Null
             PROVE  InForce(state)'
  BY ZenonT(4) DEF InForce
<1> DEFINE d == state.context.digest
<1>1. CASE o = d.owner
  BY <1>1, ZenonT(4) DEF InForce, InTransaction
<1>2. CASE o # d.owner
  BY <1>2, ZenonT(4) DEF InForce, InTransaction
<1> QED
  BY <1>1, <1>2

(* Writing an owner's policies so that none is lost, retyped or revived.    *)
LEMMA HistoryWrite ==
  ASSUME History, OneShot', InTransaction, NEW o \in Owners, NEW ps,
         state' = [state EXCEPT !.policies[o] = ps, !.edited = @ \cup {o}],
         UNCHANGED <<frames, block, registry>>,
         \A id \in DOMAIN state.policies[o] :
           LET old == state.policies[o][id] IN
             /\ id \in DOMAIN ps
             /\ ps[id].type = old.type /\ ps[id].kind = old.kind /\ ps[id].class = old.class
             /\ ps[id].revoked >= old.revoked,
         \A id \in DOMAIN ps : ps[id].revoked <= block
  PROVE  History'
<1>1. TypeOK /\ state \in States
  BY DEF History, OneShot, TypeOK
<1>2. /\ state'.nonces = state.nonces /\ state'.edited = state.edited \cup {o}
      /\ state'.lastSigned = state.lastSigned /\ state'.activity = state.activity
      /\ state'.executed = state.executed /\ state'.context = state.context
      /\ state'.released = state.released /\ state'.lastTerminal = state.lastTerminal
      /\ state'.lastCall = state.lastCall
      /\ state'.policies = [state.policies EXCEPT ![o] = ps]
  BY <1>1 DEF States
<1>3. state'.policies[o] = ps /\ \A p \in Owners : p # o => state'.policies[p] = state.policies[p]
  BY <1>1, <1>2 DEF States
<1>4. RevokedInPast(state)'
  BY <1>3 DEF History, Kept, RevokedInPast
<1>5. Kept(state)'
  BY <1>2, <1>4 DEF History, Kept, OneSpender, ActivityIsTerminal, FirstCallMade
<1>6. PoliciesSince(state, state')
  <2> SUFFICES ASSUME NEW p \in Owners, NEW id \in DOMAIN state.policies[p]
               PROVE  /\ id \in DOMAIN state'.policies[p]
                      /\ state'.policies[p][id].type = state.policies[p][id].type
                      /\ state'.policies[p][id].kind = state.policies[p][id].kind
                      /\ state'.policies[p][id].class = state.policies[p][id].class
                      /\ state'.policies[p][id].revoked >= state.policies[p][id].revoked
    BY DEF PoliciesSince
  <2>1. CASE p = o
    BY <1>3, <2>1
  <2>2. CASE p # o
    BY <1>1, <1>3, <2>2, SinceReflexive DEF Since, PoliciesSince
  <2> QED
    BY <2>1, <2>2
<1>7. SpentSince(state, state')
  BY <1>1, <1>2, SinceReflexive DEF Since, SpentSince
<1>8. ASSUME state.context.digest # Null
      PROVE  /\ state.context.digest.policyId # 0 =>
                  state.context.digest.policyId \in DOMAIN state'.policies[state.context.digest.owner]
             /\ o # state.context.digest.owner =>
                  state'.policies[state.context.digest.owner] = state.policies[state.context.digest.owner]
  <2> DEFINE d == state.context.digest
  <2>1. d.owner \in Owners
    BY <1>1, <1>8, ArmedDigest, AuthorizationAssumption DEF ContextClear, AuthorizationAssumption, DigestType
  <2>2. d.policyId # 0 => d.policyId \in DOMAIN state.policies[d.owner]
    BY <1>8 DEF History, InForce
  <2> HIDE DEF d
  <2>3. d.policyId # 0 => d.policyId \in DOMAIN state'.policies[d.owner]
    BY <1>6, <2>1, <2>2 DEF PoliciesSince
  <2>4. o # d.owner => state'.policies[d.owner] = state.policies[d.owner]
    BY <1>3, <2>1
  <2> QED
    BY <2>3, <2>4 DEF d
<1>9. InForce(state)'
  BY <1>2, <1>8, InForceWritten DEF History
<1> QED
  BY <1>5, <1>6, <1>7, <1>9, HistoryCall DEF Since

(* Changing one policy.                                                     *)
LEMMA HistoryRewrite ==
  ASSUME History, OneShot', InTransaction, NEW o \in Owners, NEW id \in DOMAIN state.policies[o],
         NEW new,
         LET old == state.policies[o][id] IN
           /\ new.type = old.type /\ new.kind = old.kind /\ new.class = old.class
           /\ new.revoked >= old.revoked /\ new.revoked <= block,
         state' = [state EXCEPT !.policies[o] = [@ EXCEPT ![id] = new], !.edited = @ \cup {o}],
         UNCHANGED <<frames, block, registry>>
  PROVE  History'
<1> DEFINE ps == [state.policies[o] EXCEPT ![id] = new]
<1>1. state \in States
  BY DEF History, OneShot, TypeOK
<1>2. state' = [state EXCEPT !.policies[o] = ps, !.edited = @ \cup {o}]
  BY <1>1 DEF States
<1>3. \A i \in DOMAIN state.policies[o] : state.policies[o][i].revoked <= block
  BY DEF History, Kept, RevokedInPast
<1>4. \A i \in DOMAIN state.policies[o] :
        LET old == state.policies[o][i] IN
          /\ i \in DOMAIN ps
          /\ ps[i].type = old.type /\ ps[i].kind = old.kind /\ ps[i].class = old.class
          /\ ps[i].revoked >= old.revoked
  <2> TAKE i \in DOMAIN state.policies[o]
  <2>1. state.policies[o][i].revoked \in Nat
    BY <1>1, StoredPolicy DEF Policies
  <2>2. CASE i = id
    BY <2>2
  <2>3. CASE i # id
    BY <2>1, <2>3
  <2> QED
    BY <2>2, <2>3
<1>5. \A i \in DOMAIN ps : ps[i].revoked <= block
  BY <1>3
<1> HIDE DEF ps
<1> QED
  BY <1>2, <1>4, <1>5, HistoryWrite

LEMMA HistoryOwnerCall ==
  ASSUME AuthorizationAssumption, History, NEW o \in Owners, OwnerCall(o)
  PROVE  History'
<1>1. /\ OneShot' /\ InTransaction /\ UNCHANGED <<frames, block, registry>>
      /\ state \in States /\ block \in Nat
  BY SafeOwnerCall DEF History, OneShot, TypeOK, OwnerCall, CreatePolicy, UpdatePolicy, Revoke
<1>2. state.policies[o] \in Seq(Policies)
  BY <1>1 DEF States
<1>3. \A id \in DOMAIN state.policies[o] :
        /\ state.policies[o][id] \in Policies /\ state.policies[o][id].revoked \in Nat
        /\ state.policies[o][id].revoked <= block
  BY <1>1, StoredPolicy DEF Policies, History, Kept, RevokedInPast
<1>4. ASSUME NEW terms \in PolicyTerms, NEW hash \in Hashes,
             NEW expiry \in 0 .. MaxBlock + MaxPolicyExpiry, CreatePolicy(o, terms, hash, expiry)
      PROVE  History'
  <2> DEFINE new == [type |-> terms.type, kind |-> terms.kind, class |-> terms.class,
                     hash |-> hash, expiry |-> expiry, revoked |-> 0,
                     minRepay |-> 0, maxCollateralSold |-> 0]
             ps == Append(state.policies[o], new)
  <2>1. new.revoked = 0
    OBVIOUS
  <2>2. state' = [state EXCEPT !.policies[o] = ps, !.edited = @ \cup {o}]
    BY <1>4 DEF CreatePolicy
  <2> HIDE DEF new
  <2>3. /\ Len(state.policies[o]) \in Nat
        /\ DOMAIN state.policies[o] = 1 .. Len(state.policies[o])
        /\ DOMAIN ps = 1 .. Len(state.policies[o]) + 1
        /\ \A id \in 1 .. Len(state.policies[o]) : ps[id] = state.policies[o][id]
        /\ ps[Len(state.policies[o]) + 1] = new
    BY <1>2, LenProperties
  <2> HIDE DEF ps
  <2>4. \A id \in DOMAIN state.policies[o] :
          LET old == state.policies[o][id] IN
            /\ id \in DOMAIN ps
            /\ ps[id].type = old.type /\ ps[id].kind = old.kind /\ ps[id].class = old.class
            /\ ps[id].revoked >= old.revoked
    BY <1>3, <2>3
  <2>5. ASSUME NEW id \in DOMAIN ps
        PROVE  ps[id].revoked <= block
    <3>1. CASE id \in 1 .. Len(state.policies[o])
      BY <1>3, <2>3, <3>1
    <3>2. CASE id = Len(state.policies[o]) + 1
      BY <1>1, <2>1, <2>3, <3>2
    <3> QED
      BY <2>3, <2>5, <3>1, <3>2
  <2> QED
    BY <1>1, <2>2, <2>4, <2>5, HistoryWrite
<1>5. ASSUME NEW id \in 1 .. MaxPolicies, NEW hash \in Hashes,
             NEW expiry \in 0 .. MaxBlock + MaxPolicyExpiry, UpdatePolicy(o, id, hash, expiry)
      PROVE  History'
  <2> DEFINE new == [state.policies[o][id] EXCEPT !.hash = hash, !.expiry = expiry]
  <2>1. id \in DOMAIN state.policies[o]
    BY <1>5 DEF UpdatePolicy, PolicyExists
  <2>2. LET old == state.policies[o][id] IN
          /\ new.type = old.type /\ new.kind = old.kind /\ new.class = old.class
          /\ new.revoked >= old.revoked /\ new.revoked <= block
    BY <1>3, <2>1 DEF Policies
  <2>3. state' = [state EXCEPT !.policies[o] = [@ EXCEPT ![id] = new], !.edited = @ \cup {o}]
    BY <1>1, <1>3, <1>5, <2>1 DEF UpdatePolicy, States, Policies
  <2> HIDE DEF new
  <2> QED
    BY <1>1, <2>1, <2>2, <2>3, HistoryRewrite
<1>6. ASSUME NEW id \in 1 .. MaxPolicies, Revoke(o, id)
      PROVE  History'
  <2> DEFINE new == [state.policies[o][id] EXCEPT !.revoked = block]
  <2>1. id \in DOMAIN state.policies[o]
    BY <1>6 DEF Revoke, PolicyExists
  <2>2. LET old == state.policies[o][id] IN
          /\ new.type = old.type /\ new.kind = old.kind /\ new.class = old.class
          /\ new.revoked >= old.revoked /\ new.revoked <= block
    BY <1>1, <1>3, <2>1 DEF Policies
  <2>3. state' = [state EXCEPT !.policies[o] = [@ EXCEPT ![id] = new], !.edited = @ \cup {o}]
    BY <1>1, <1>3, <1>6, <2>1 DEF Revoke, States, Policies
  <2> HIDE DEF new
  <2> QED
    BY <1>1, <2>1, <2>2, <2>3, HistoryRewrite
<1> QED
  BY <1>4, <1>5, <1>6 DEF OwnerCall

LEMMA HistoryExecuteRevoke ==
  ASSUME AuthorizationAssumption, History, NEW d \in Digests, ExecuteRevoke(d)
  PROVE  History'
<1> DEFINE o == d.owner
           id == d.target
           new == [state.policies[o][id] EXCEPT !.revoked = block]
<1>1. /\ OneShot' /\ InTransaction /\ UNCHANGED <<frames, block, registry>>
      /\ state \in States /\ block \in Nat /\ o \in Owners
  BY SafeExecuteRevoke DEF History, OneShot, TypeOK, ExecuteRevoke, AuthorizationAssumption, DigestType
<1>2. id \in DOMAIN state.policies[o] /\ state.policies[o][id] \in Policies
  BY <1>1, StoredPolicy DEF ExecuteRevoke, PolicyExists
<1>3. LET old == state.policies[o][id] IN
        /\ new.type = old.type /\ new.kind = old.kind /\ new.class = old.class
        /\ new.revoked >= old.revoked /\ new.revoked <= block
  BY <1>1, <1>2 DEF Policies, History, Kept, RevokedInPast
<1>4. state' = [state EXCEPT !.policies[o] = [@ EXCEPT ![id] = new], !.edited = @ \cup {o}]
  BY <1>1, <1>2 DEF ExecuteRevoke, States, Policies
<1> HIDE DEF new
<1> QED
  BY <1>1, <1>2, <1>3, <1>4, HistoryRewrite

LEMMA HistoryCancelNonce ==
  ASSUME History, NEW key \in NonceKeys, CancelNonce(key)
  PROVE  History'
<1>1. TypeOK /\ OneShot /\ OneShot' /\ state \in States /\ InTransaction
  BY SafeCancelNonce DEF History, OneShot, TypeOK, CancelNonce
<1>2. /\ state'.policies = state.policies /\ state'.nonces = state.nonces \cup {key}
      /\ state'.lastSigned = state.lastSigned /\ state'.activity = state.activity
      /\ state'.executed = state.executed /\ state'.context = state.context
      /\ state'.released = state.released /\ state'.lastTerminal = state.lastTerminal
      /\ state'.lastCall = state.lastCall /\ state'.edited = state.edited
      /\ UNCHANGED <<frames, block, registry>>
  BY <1>1 DEF CancelNonce, ConsumeNonce, States
<1>3. Kept(state)'
  BY <1>2 DEF History, Kept, OneSpender, ActivityIsTerminal, RevokedInPast, FirstCallMade
<1>4. InForce(state)'
  BY <1>2 DEF History, InForce, InTransaction
<1>5. Since(state, state')
  BY <1>1, <1>2, SinceReflexive DEF Since, PoliciesSince, SpentSince
<1> QED
  BY <1>1, <1>2, <1>3, <1>4, <1>5, HistoryCall

LEMMA HistoryNext ==
  ASSUME AuthorizationAssumption, History, [Next]_vars
  PROVE  History'
<1>1. CASE UNCHANGED vars
  <2>1. UNCHANGED <<state, frames, block, registry>>
    BY <1>1 DEF vars
  <2>2. OneShot'
    BY <1>1, SafeNext DEF History
  <2>3. Kept(state)' /\ InForce(state)'
    BY <2>1, ZenonT(40) DEF History, Kept, OneSpender, ActivityIsTerminal, RevokedInPast, FirstCallMade,
                InForce, InTransaction
  <2>4. ASSUME NEW i \in DOMAIN frames
        PROVE  (Kept(frames[i]) /\ InForce(frames[i]) /\ Since(frames[i], state))'
    <3>1. Kept(frames[i]) /\ InForce(frames[i]) /\ Since(frames[i], state)
      BY <2>4 DEF History
    <3> QED
      BY <2>1, <3>1, ZenonT(40) DEF Kept, OneSpender, ActivityIsTerminal, RevokedInPast, FirstCallMade,
                        InForce, InTransaction
  <2>5. (\A i, j \in DOMAIN frames : i <= j => Since(frames[i], frames[j]))'
    BY <2>1 DEF History
  <2>6. Idle(Committed)'
    BY <2>1 DEF History, Idle, Committed, InTransaction
  <2> QED
    BY <2>1, <2>2, <2>3, <2>4, <2>5, <2>6 DEF History
<1> QED
  BY <1>1, HistoryEnvironment, HistoryValidate, HistoryStep, HistoryTerminal, HistoryOwnerCall,
     HistoryExecuteRevoke, HistoryCancelNonce DEF Next, ExecuteMorpho

(* Every copy a revert can bring back is one the present state grew out of *)
(* (the call frames of LoopAuthorization and its callers).                  *)
THEOREM HistoryInductive == Spec => []History
<1>1. Init => History
  BY HistoryInit, AuthorizationAssumption
<1>2. History /\ [Next]_vars => History'
  BY HistoryNext, AuthorizationAssumption
<1> QED
  BY <1>1, <1>2, PTL DEF Spec

-----------------------------------------------------------------------------
(* The refinement: what the world outside a transaction sees.               *)

(* The committed copy is a copy.                                            *)
LEMMA CommittedCopy ==
  ASSUME History
  PROVE  Committed \in States /\ Safe(Committed) /\ OneSpender(Committed)
<1>1. TypeOK /\ OneShot
  BY DEF History, OneShot
<1>2. CASE InTransaction
  BY <1>1, <1>2, Copies DEF History, OneShot, Kept, Committed, InTransaction
<1>3. CASE ~InTransaction
  BY <1>1, <1>3, Copies DEF History, OneShot, Kept, Committed
<1> QED
  BY <1>2, <1>3

(* Only the end of a transaction commits anything, and what it commits grew *)
(* out of what was committed before.                                        *)
LEMMA CommittedSince ==
  ASSUME AuthorizationAssumption, History, [Next]_vars
  PROVE  Since(Committed, Committed')
<1>1. TypeOK /\ TypeOK' /\ Committed \in States
  BY CommittedCopy, TypeNext DEF History, OneShot
<1>2. /\ state \in States /\ state' \in States
      /\ frames \in Seq(States) /\ Len(frames) \in Nat /\ DOMAIN frames = 1 .. Len(frames)
      /\ \A i \in DOMAIN frames : frames[i] \in States
      /\ frames # <<>> => Len(frames) > 0
  BY <1>1, Copies DEF TypeOK
<1>3. CASE EndTransaction
  <2>1. frames # <<>> /\ 1 \in DOMAIN frames /\ frames' = <<>>
    <3>1. Len(frames) = 1 /\ frames' = <<>>
      BY <1>3 DEF EndTransaction
    <3> QED
      BY <1>2, <3>1, EmptySeq
  <2>2. Committed = frames[1] /\ Committed' = state' /\ Since(frames[1], state)
    BY <2>1 DEF Committed, InTransaction, History
  <2>3. Since(state, state')
    <3>1. /\ state'.policies = state.policies /\ state'.nonces = state.nonces
          /\ state'.released = state.released /\ state'.executed = state.executed
      BY <1>2, <1>3 DEF EndTransaction, States
    <3> QED
      BY <1>2, <3>1, SinceSame
  <2> QED
    BY <1>2, <2>1, <2>2, <2>3, SinceTransitive
<1>4. ASSUME ~EndTransaction
      PROVE  Committed' = Committed
  <2>1. CASE UNCHANGED vars
    BY <2>1 DEF vars, Committed, InTransaction
  <2>2. CASE InTransaction /\ UNCHANGED frames
    BY <2>2 DEF Committed, InTransaction
  <2>3. CASE UNCHANGED <<state, frames>>
    BY <2>3 DEF Committed, InTransaction
  <2>4. CASE BeginTransaction
    <3>1. frames = <<>> /\ frames' = <<state>>
      BY <2>4 DEF BeginTransaction, InTransaction
    <3>2. frames' # <<>> /\ frames'[1] = state
      BY <3>1
    <3> QED
      BY <3>1, <3>2 DEF Committed, InTransaction
  <2>5. CASE EnterFrame
    <3>1. frames # <<>> /\ frames' = Append(frames, state)
      BY <2>5 DEF EnterFrame, InTransaction
    <3>2. frames' # <<>> /\ frames'[1] = frames[1]
      BY <1>2, <3>1, AppendProperties, EmptySeq
    <3> QED
      BY <3>1, <3>2 DEF Committed, InTransaction
  <2>6. ASSUME frames # <<>>, frames' = SubSeq(frames, 1, Len(frames) - 1)
        PROVE  /\ Len(frames) = 1 => frames' = <<>>
               /\ Len(frames) # 1 => frames' # <<>> /\ frames'[1] = frames[1]
    <3>1. \A i \in 1 .. Len(frames) : frames[i] \in States
      BY <1>2
    <3>2. /\ frames' \in Seq(States) /\ Len(frames') = Len(frames) - 1
          /\ \A i \in 1 .. Len(frames) - 1 : frames'[i] = frames[i]
      BY <1>1, <1>2, <2>6, <3>1, SubSeqProperties DEF TypeOK
    <3>3. Len(frames) # 1 => Len(frames') > 0 /\ frames'[1] = frames[1]
      BY <1>2, <2>6, <3>2
    <3>4. Len(frames') = 0 <=> frames' = <<>>
      BY <3>2, EmptySeq
    <3> QED
      BY <1>2, <3>2, <3>3, <3>4
  <2>7. CASE LeaveFrame
    <3>1. /\ frames # <<>> /\ frames' = SubSeq(frames, 1, Len(frames) - 1)
          /\ Len(frames) # 1
      BY <1>2, <2>7, EmptySeq DEF LeaveFrame
    <3> QED
      BY <2>6, <3>1 DEF Committed, InTransaction
  <2>8. CASE RevertFrame
    <3>1. /\ frames # <<>> /\ frames' = SubSeq(frames, 1, Len(frames) - 1)
          /\ state' = frames[Len(frames)]
      BY <2>8 DEF RevertFrame, InTransaction
    <3> QED
      BY <2>6, <3>1 DEF Committed, InTransaction
  <2>9. CASE AdvanceBlock \/ BumpRegistry \/ ChangeConditions
    BY <2>3, <2>9 DEF AdvanceBlock, BumpRegistry, ChangeConditions
  <2>10. ASSUME NEW d \in Digests, NEW caller \in Addresses, Validate(d, caller)
         PROVE  InTransaction /\ UNCHANGED frames
    BY <2>10 DEF Validate, ValidateOpen, ValidateRebalance, ValidateExit, ValidateAutomationExec,
                 ValidateForceExit, ArmContext
  <2>11. ASSUME NEW selector \in Selectors, NEW amount \in Amounts, ExecuteMorpho(selector, amount)
         PROVE  InTransaction /\ UNCHANGED frames
    BY <2>11 DEF ExecuteMorpho, ExecuteMorphoStep, ExecuteMorphoTerminal, ValidMorphoCall
  <2>12. ASSUME NEW o \in Owners, OwnerCall(o)
         PROVE  InTransaction /\ UNCHANGED frames
    BY <2>12 DEF OwnerCall, CreatePolicy, UpdatePolicy, Revoke
  <2>13. ASSUME NEW d \in Digests, ExecuteRevoke(d)
         PROVE  InTransaction /\ UNCHANGED frames
    BY <2>13 DEF ExecuteRevoke
  <2>14. ASSUME NEW key \in NonceKeys, CancelNonce(key)
         PROVE  InTransaction /\ UNCHANGED frames
    BY <2>14 DEF CancelNonce
  <2> QED
    BY <1>4, <2>1, <2>2, <2>4, <2>5, <2>7, <2>8, <2>9, <2>10, <2>11, <2>12, <2>13, <2>14
       DEF Next, Environment
<1> QED
  BY <1>1, <1>3, <1>4, SinceReflexive

(* A transaction settles the digests it paid for.                           *)
LEMMA LedgerStep ==
  ASSUME AuthorizationAssumption, History, [Next]_vars
  PROVE  Ledger!Next
<1>1. (Committed \in States /\ Safe(Committed) /\ OneSpender(Committed))'
  <2>1. History' /\ frames' \in Seq(States) /\ state' \in States
    BY HistoryNext DEF History, OneShot, TypeOK
  <2>2. CASE frames' = <<>>
    BY <2>1, <2>2 DEF History, OneShot, Kept, Committed, InTransaction
  <2>3. CASE frames' # <<>>
    <3>1. 1 \in DOMAIN frames' /\ frames'[1] \in States
      BY <2>1, <2>3, EmptySeq, LenProperties, ElementOfSeq
    <3> QED
      BY <2>1, <2>3, <3>1 DEF History, OneShot, Kept, Committed, InTransaction
  <2> QED
    BY <2>2, <2>3
<1> DEFINE s == Committed
           t == Committed'
           settled == {d \in Digests : t.released[d] # s.released[d]}
           struck == {k \in t.nonces : k \notin s.nonces /\ \A d \in settled : k # NonceKey(d)}
<1>2. /\ s \in States /\ SpendBounded(s)
      /\ t \in States /\ SpendBounded(t) /\ OneSpender(t)
  BY <1>1, CommittedCopy DEF Safe, SpendBounded, OneSpender
<1>3. /\ s.nonces \subseteq t.nonces
      /\ \A d \in Digests : NonceKey(d) \in s.nonces => t.released[d] = s.released[d]
  BY CommittedSince DEF Since, SpentSince
<1>4. /\ s.nonces \in SUBSET NonceKeys /\ s.released \in [Digests -> Nat]
      /\ t.nonces \in SUBSET NonceKeys /\ t.released \in [Digests -> Nat]
  BY <1>2 DEF States
<1> HIDE DEF s, t
<1>5. ASSUME NEW d \in settled
      PROVE  /\ d \in Digests /\ NonceKey(d) \notin s.nonces /\ NonceKey(d) \in t.nonces
             /\ s.released[d] = 0 /\ t.released[d] # 0 /\ t.released[d] <= ReleaseCap(d)
  <2>1. d \in Digests /\ NonceKey(d) \notin s.nonces
    BY <1>3, <1>5
  <2>2. s.released[d] = 0
    BY <1>2, <2>1 DEF SpendBounded
  <2> QED
    BY <1>2, <1>5, <2>1, <2>2 DEF SpendBounded
<1>6. settled \in SUBSET Digests /\ struck \in SUBSET NonceKeys
  BY <1>4
<1>7. Ledger!Settle(settled, struck)
  <2> DEFINE keyOf == [d \in Digests |-> NonceKey(d)]
             cap == [d \in Digests |-> ReleaseCap(d)]
  <2>1. \A d \in settled : keyOf[d] = NonceKey(d) /\ cap[d] = ReleaseCap(d)
    BY <1>6
  <2>2. \A d \in settled : keyOf[d] \notin s.nonces \cup struck
    BY <1>5, <2>1
  <2>3. \A d, e \in settled : keyOf[d] = keyOf[e] => d = e
    BY <1>2, <1>5, <2>1 DEF OneSpender
  <2>4. t.nonces = s.nonces \cup {keyOf[d] : d \in settled} \cup struck
    BY <1>3, <1>5, <2>1
  <2>5. DOMAIN t.released = Digests /\ \A d \in Digests \ settled : t.released[d] = s.released[d]
    BY <1>4
  <2>6. \A d \in settled : t.released[d] <= s.released[d] + cap[d]
    BY <1>4, <1>5, <2>1, CapNat
  <2> HIDE DEF settled, struck
  <2> QED
    BY <2>2, <2>3, <2>4, <2>5, <2>6 DEF Ledger!Settle, s, t
<1> QED
  BY <1>6, <1>7 DEF Ledger!Next

(* Seen from outside its transactions, the contract is a ledger of one-shot *)
(* actions: a transaction settles some of the actions owners signed, each   *)
(* under a key nothing spent before, pays out at most each one's cap, and   *)
(* may strike keys out; nothing inside a transaction, no frame, revert,     *)
(* context or retry, shows (LoopAuthorization.executeMorpho, cancelNonce).  *)
THEOREM LedgerImplemented == Spec => ImplementsLedger
<1>1. Init => Ledger!Init
  BY DEF Init, Ledger!Init, Committed, InTransaction
<1>2. History /\ [Next]_vars => [Ledger!Next]_<<Committed.nonces, Committed.released>>
  BY LedgerStep, AuthorizationAssumption
<1> QED
  BY <1>1, <1>2, HistoryInductive, PTL DEF Spec, ImplementsLedger, Ledger!Spec

-----------------------------------------------------------------------------
(* Action properties.  Four of them are about the step that completes an    *)
(* action: it is a terminal call to Morpho, since a revert never moves a    *)
(* count of terminal calls up.                                              *)

LEMMA TerminalStepIsTerminalCall ==
  ASSUME AuthorizationAssumption, History, Next, TerminalStep
  PROVE  \E selector \in Selectors, amount \in Amounts : ExecuteMorphoTerminal(selector, amount)
<1>1. TypeOK /\ OneShot /\ state \in States
  BY DEF History, OneShot, TypeOK
<1>2. PICK key \in NonceKeys : state'.executed[key] > state.executed[key]
  BY DEF TerminalStep
<1>3. state.executed[key] \in Nat /\ state'.executed # state.executed
  BY <1>1, <1>2 DEF States
<1>4. ~BeginTransaction /\ ~EnterFrame /\ ~LeaveFrame /\ ~AdvanceBlock /\ ~BumpRegistry
      /\ ~ChangeConditions
  BY <1>3 DEF BeginTransaction, EnterFrame, LeaveFrame, AdvanceBlock, BumpRegistry, ChangeConditions
<1>5. ~EndTransaction
  BY <1>1, <1>3 DEF EndTransaction, States
<1>6. ~RevertFrame
  <2> SUFFICES ASSUME RevertFrame PROVE FALSE
    OBVIOUS
  <2>1. Len(frames) \in DOMAIN frames /\ frames[Len(frames)] \in States
    BY <1>1, Copies DEF RevertFrame, InTransaction
  <2>2. Since(frames[Len(frames)], state)
    BY <2>1 DEF History
  <2>3. state'.executed[key] <= state.executed[key] /\ state'.executed[key] \in Nat
    BY <2>1, <2>2 DEF RevertFrame, Since, SpentSince, States
  <2> QED
    BY <1>2, <1>3, <2>3
<1>7. ASSUME NEW d \in Digests, NEW caller \in Addresses
      PROVE  ~Validate(d, caller)
  <2>1. ASSUME NEW context PROVE ~ArmContext(context)
    BY <1>1, <1>3 DEF ArmContext, States
  <2> QED
    BY <2>1 DEF Validate, ValidateOpen, ValidateRebalance, ValidateExit, ValidateAutomationExec,
                ValidateForceExit
<1>8. ASSUME NEW selector, NEW amount PROVE ~ExecuteMorphoStep(selector, amount)
  BY <1>1, <1>3 DEF ExecuteMorphoStep, States
<1>9. ASSUME NEW o \in Owners PROVE ~OwnerCall(o)
  BY <1>1, <1>3 DEF OwnerCall, CreatePolicy, UpdatePolicy, Revoke, States
<1>10. ASSUME NEW d \in Digests PROVE ~ExecuteRevoke(d)
  BY <1>1, <1>3 DEF ExecuteRevoke, States
<1>11. ASSUME NEW k \in NonceKeys PROVE ~CancelNonce(k)
  BY <1>1, <1>3 DEF CancelNonce, ConsumeNonce, States
<1> QED
  BY <1>4, <1>5, <1>6, <1>7, <1>8, <1>9, <1>10, <1>11 DEF Next, Environment, ExecuteMorpho

(* What completing an action finds: the digest armed in the context.        *)
LEMMA TerminalStepFinds ==
  ASSUME AuthorizationAssumption, History, Next, TerminalStep
  PROVE  /\ InTransaction /\ state.context.digest # Null /\ state.context.digest \in Digests
         /\ TerminalDigest = state.context.digest
         /\ TerminalSelector = state.context.terminal
         /\ \E amount \in Amounts : ExecuteMorphoTerminal(TerminalSelector, amount)
<1>1. PICK selector \in Selectors, amount \in Amounts : ExecuteMorphoTerminal(selector, amount)
  BY TerminalStepIsTerminalCall
<1>2. TypeOK
  BY DEF History, OneShot
<1>3. state'.lastCall = <<state.context.digest, selector, amount>>
  BY <1>1, <1>2, TerminalEffect
<1>4. /\ InTransaction /\ state.context.digest # Null /\ state.context.digest \in Digests
      /\ selector = state.context.terminal
  BY <1>1, <1>2, ArmedDigest DEF ExecuteMorphoTerminal, ValidMorphoCall, ContextClear
<1>5. TerminalDigest = state.context.digest /\ TerminalSelector = selector
  BY <1>3 DEF TerminalDigest, TerminalSelector
<1> QED
  BY <1>1, <1>4, <1>5

(* Collateral in before debt out, debt repaid before collateral out: the    *)
(* call before a releasing one is its counterpart, of the same digest and,  *)
(* for exits, of at least the signed repayment (executeMorpho's sequence).  *)
THEOREM ReleasesPaired == Spec => PairedRelease
<1> DEFINE Paired ==
      TerminalStep /\ Releases(TerminalSelector) =>
        /\ state.lastCall # <<>>
        /\ state.lastCall[1] = TerminalDigest
        /\ state.lastCall[2] = (IF TerminalSelector = "BORROW" THEN "SUPPLY_COLLATERAL" ELSE "REPAY")
        /\ TerminalDigest.type \in {"EXIT", "FORCE_EXIT"} =>
             state.lastCall[3] >= TerminalDigest.minRepay
<1>1. ASSUME AuthorizationAssumption, History, Next PROVE Paired
  <2> SUFFICES ASSUME TerminalStep, Releases(TerminalSelector)
               PROVE  /\ state.lastCall # <<>>
                      /\ state.lastCall[1] = TerminalDigest
                      /\ state.lastCall[2] = (IF TerminalSelector = "BORROW"
                                              THEN "SUPPLY_COLLATERAL" ELSE "REPAY")
                      /\ TerminalDigest.type \in {"EXIT", "FORCE_EXIT"} =>
                           state.lastCall[3] >= TerminalDigest.minRepay
    OBVIOUS
  <2> DEFINE c == state.context
  <2>1. /\ c.digest # Null /\ TerminalDigest = c.digest /\ TerminalSelector = c.terminal
        /\ \E amount \in Amounts : ExecuteMorphoTerminal(c.terminal, amount)
    BY <1>1, TerminalStepFinds
  <2>2. c.step \in Nat /\ c.step < Len(Programme(c)) /\ c.terminal = Programme(c)[c.step + 1]
    <3>1. c \in Contexts
      BY <1>1 DEF History, OneShot, TypeOK, States
    <3> QED
      BY <2>1, <3>1 DEF ExecuteMorphoTerminal, ValidMorphoCall, InSequence, Contexts
  <2>3. FirstCallMade(state)
    BY <1>1 DEF History, Kept
  <2>4. CASE c.terminal = "BORROW"
    <3>1. c.step # 0 /\ Programme(c)[1] = "SUPPLY_COLLATERAL"
      BY <2>2, <2>4 DEF Programme
    <3>2. /\ state.lastCall # <<>> /\ state.lastCall[1] = c.digest
          /\ state.lastCall[2] = Programme(c)[1]
          /\ c.digest.type \notin {"EXIT", "FORCE_EXIT"}
      BY <2>1, <2>3, <2>4, <3>1 DEF FirstCallMade
    <3> QED
      BY <2>1, <2>4, <3>1, <3>2
  <2>5. CASE c.terminal = "WITHDRAW_COLLATERAL"
    <3>1. c.step # 0 /\ Programme(c)[1] = "REPAY"
      BY <2>2, <2>5 DEF Programme
    <3>2. /\ state.lastCall # <<>> /\ state.lastCall[1] = c.digest
          /\ state.lastCall[2] = Programme(c)[1]
          /\ state.lastCall[2] = "REPAY" => state.lastCall[3] >= c.minRepay
          /\ c.digest.type \in {"EXIT", "FORCE_EXIT"} => c.minRepay = c.digest.minRepay
      BY <2>1, <2>3, <3>1 DEF FirstCallMade
    <3> QED
      BY <2>1, <2>5, <3>1, <3>2
  <2> QED
    BY <2>1, <2>4, <2>5 DEF Releases
<1>2. History /\ [Next]_vars => [Paired]_vars
  BY <1>1, AuthorizationAssumption
<1> QED
  BY <1>2, HistoryInductive, PTL DEF Spec, PairedRelease

(* An action completes under the registry version, the window and the       *)
(* policy it was validated under, not revoked when its transaction began:   *)
(* the contract never re-reads them between validate... and the last call.  *)
THEOREM AuthorityStaysInForce == Spec => AuthorityInForce
<1> DEFINE Authorized ==
      TerminalStep =>
       LET d == TerminalDigest
           before == frames[1].policies[d.owner]
           now == PolicyOf(d.owner, d.policyId)
       IN /\ d.version = registry.version /\ block \in d.validFrom .. d.validUntil
          /\ d.policyId \in DOMAIN before => before[d.policyId].revoked = 0
          /\ d.policyId # 0 => PolicyExists(d.owner, d.policyId)
          /\ d.policyId # 0 /\ d.owner \notin state.edited =>
               /\ <<now.type, now.kind, now.class>> = <<d.type, d.kind, d.class>>
               /\ now.expiry # 0 => block <= now.expiry
               /\ d.type = "AUTOMATION_EXEC" => now.hash = d.hash
<1>1. ASSUME AuthorizationAssumption, History, Next PROVE Authorized
  <2> SUFFICES ASSUME TerminalStep PROVE Authorized
    OBVIOUS
  <2>1. state.context.digest # Null /\ TerminalDigest = state.context.digest
    BY <1>1, TerminalStepFinds
  <2>2. InForce(state)
    BY <1>1 DEF History
  <2> QED
    BY <2>1, <2>2 DEF InForce, PolicyOf, PolicyExists
<1>2. History /\ [Next]_vars => [Authorized]_vars
  BY <1>1, AuthorizationAssumption
<1> QED
  BY <1>2, HistoryInductive, PTL DEF Spec, AuthorityInForce

(* No transaction loses a policy, changes its terms or undoes a revocation  *)
(* (createPolicy, updatePolicy, revoke, executeRevoke).                     *)
THEOREM PoliciesKeepHistory == Spec => PolicyHistory
<1> DEFINE Continued ==
      \A o \in Owners : \A id \in DOMAIN Committed.policies[o] :
       LET old == Committed.policies[o][id]
           new == Committed'.policies[o][id]
       IN /\ id \in DOMAIN Committed'.policies[o]
          /\ <<new.type, new.kind, new.class>> = <<old.type, old.kind, old.class>>
          /\ new.revoked >= old.revoked
<1>1. AuthorizationAssumption /\ History /\ [Next]_vars => Continued
  BY CommittedSince DEF Since, PoliciesSince
<1>2. History /\ [Next]_vars => [Continued]_vars
  BY <1>1, AuthorizationAssumption
<1> QED
  BY <1>2, HistoryInductive, PTL DEF Spec, PolicyHistory

(* No action that draws debt completes while a risk-up condition, harvest   *)
(* cooling or drift holds (validateOpen, validateRebalance).                *)
THEOREM DebtDrawnWhenSafe == Spec => RiskUpGated
<1> DEFINE Gated ==
      TerminalStep /\ TerminalSelector = "BORROW" =>
        registry.conditions \cap {"ORACLE", "SEQUENCER", "VAULT", "BLOCKED", "COOLING", "DRIFT"} = {}
<1>1. AuthorizationAssumption /\ History /\ Next => Gated
  BY TerminalStepFinds DEF History, InForce
<1>2. History /\ [Next]_vars => [Gated]_vars
  BY <1>1, AuthorizationAssumption
<1> QED
  BY <1>2, HistoryInductive, PTL DEF Spec, RiskUpGated

(* An operator's recovery completes only for an owner seen acting, and only *)
(* after RecoveryBlocks of her inactivity or near liquidation               *)
(* (validateExecutionKind).                                                 *)
THEOREM OperatorsWait == Spec => RecoveryNeedsInactivity
<1> DEFINE Waited ==
      TerminalStep /\ TerminalDigest.kind = "OPERATOR_RECOVERY" =>
       LET last == state.lastTerminal[TerminalDigest.owner]
       IN /\ last # 0
          /\ \/ "NEAR_LIQUIDATION" \in registry.conditions
             \/ block >= last + RecoveryBlocks
<1>1. ASSUME AuthorizationAssumption, History, Next PROVE Waited
  <2> SUFFICES ASSUME TerminalStep, TerminalDigest.kind = "OPERATOR_RECOVERY"
               PROVE  LET last == state.lastTerminal[TerminalDigest.owner]
                      IN /\ last # 0
                         /\ \/ "NEAR_LIQUIDATION" \in registry.conditions
                            \/ block >= last + RecoveryBlocks
    OBVIOUS
  <2>1. state.context.digest # Null /\ TerminalDigest = state.context.digest
    BY <1>1, TerminalStepFinds
  <2> QED
    BY <1>1, <2>1 DEF History, InForce
<1>2. History /\ [Next]_vars => [Waited]_vars
  BY <1>1, AuthorizationAssumption
<1> QED
  BY <1>2, HistoryInductive, PTL DEF Spec, RecoveryNeedsInactivity
=============================================================================
