---------------------------- MODULE GovernanceProofs ----------------------------
(***************************************************************************)
(* Governance for any venues, facts, roles, accounts, delays and batches:  *)
(* the registry keeps its own notice, keys stay apart, pauses are bounded,  *)
(* risk rises only on sound sources and a debt is never understated.  The   *)
(* parts are proved one by one, then put on the chain they share.           *)
(***************************************************************************)
EXTENDS MCGovernance, NumberLemmas

-----------------------------------------------------------------------------
(* LoopRegistry: what a batch may do to the configuration.                  *)

registryState == <<block, registryVars>>
RegistryNext == RegistryStep \/ RegistryTick

Configs ==
  [version: Nat, venue: [Sources -> Venues \cup {NoVenue}], remembered: SUBSET Sources,
   feeTier: Nat, fingerprint: [Sources -> Facts \cup {NoFacts}]]
Waiting == [Sources -> [facts: Facts \cup {NoFacts}, effectiveBlock: Nat]]
Pairs == [config: Configs, pending: Waiting]

Notices == [source: Sources, facts: Facts, block: Nat]

(* A source's facts were announced with their notice over by a block.       *)
AnnouncedBy(notices, source, facts, due) ==
  \E a \in notices : a.source = source /\ a.facts = facts /\ due >= a.block + RegistryDelay

(* Applied facts have served their notice, pending ones will have by the    *)
(* block they wait for; a configuration in the middle of a batch too.       *)
NoticeServed(notices, now, cfg, pending) ==
  /\ \A s \in Sources :
       cfg.fingerprint[s] # NoFacts => AnnouncedBy(notices, s, cfg.fingerprint[s], now)
  /\ \A s \in Sources :
       /\ pending[s].facts = NoFacts <=> pending[s].effectiveBlock = 0
       /\ pending[s].facts # NoFacts =>
            /\ s \in cfg.remembered
            /\ AnnouncedBy(notices, s, pending[s].facts, pending[s].effectiveBlock)

SoundPairs ==
  {pair \in Pairs : NoticeServed(announced.facts, block, pair.config, pair.pending)}

(* The batch that waits is the one announced last, due as announced.        *)
BatchAnnounced ==
  queues.batch.effectiveBlock # 0 =>
    /\ queues.batch.ops \in Batches
    /\ announced.batch.ops = queues.batch.ops /\ announced.batch.version = queues.batch.version
    /\ queues.batch.effectiveBlock = announced.batch.block + RegistryDelay

RegistryInv ==
  /\ RegistryTypeOK /\ block \in Nat \ {0}
  /\ announced.facts \in SUBSET Notices /\ \A a \in announced.facts : a.block <= block
  /\ DOMAIN queues = {"batch", "fingerprint"} /\ DOMAIN announced = {"batch", "facts"}
  /\ NoticeServed(announced.facts, block, config, queues.fingerprint) /\ BatchAnnounced

LEMMA NoFactsApart == NoFacts \notin Facts
BY DEF NoFacts, Facts

LEMMA ApplySound ==
  ASSUME RegistryInv, NEW op \in Operations, NEW pair \in SoundPairs, Applicable(op, pair)
  PROVE  Apply(op, pair) \in SoundPairs
<1>1. /\ pair \in Pairs /\ NoticeServed(announced.facts, block, pair.config, pair.pending)
      /\ pair.config \in Configs /\ pair.pending \in Waiting
  BY DEF SoundPairs, Pairs
<1>2. CASE op.op = "VENUE"
  <2>1. op.source \in Sources /\ op.venue \in Venues \cup {NoVenue}
    BY <1>2 DEF Operations
  <2> DEFINE cfg == [pair.config EXCEPT !.venue[op.source] = op.venue,
                                        !.remembered = @ \cup {op.source}]
  <2>2. Apply(op, pair) = [pair EXCEPT !.config = cfg]
    BY <1>1, <1>2 DEF Apply, Pairs, Configs
  <2>3. /\ cfg \in Configs /\ cfg.fingerprint = pair.config.fingerprint
        /\ pair.config.remembered \subseteq cfg.remembered
    BY <1>1, <2>1 DEF Configs
  <2> HIDE DEF cfg
  <2>4. NoticeServed(announced.facts, block, cfg, pair.pending)
    BY <1>1, <2>3 DEF NoticeServed
  <2> QED
    BY <1>1, <2>2, <2>3, <2>4 DEF SoundPairs, Pairs
<1>3. CASE op.op = "FINGERPRINT"
  <2>1. /\ op.source \in Sources /\ pair.pending[op.source].effectiveBlock # 0
        /\ block >= pair.pending[op.source].effectiveBlock
    BY <1>3 DEF Operations, Applicable
  <2> DEFINE facts == pair.pending[op.source].facts
             cfg == [pair.config EXCEPT !.fingerprint[op.source] = facts]
             left == [pair.pending EXCEPT ![op.source] = NoFingerprint]
  <2>2. facts \in Facts \cup {NoFacts} /\ facts # NoFacts
    BY <1>1, <2>1 DEF NoticeServed, Waiting
  <2>3. Apply(op, pair) = [pair EXCEPT !.config = cfg, !.pending = left]
    BY <1>1, <1>3 DEF Apply, Dequeued, Pairs, Configs
  <2>4. /\ cfg \in Configs /\ cfg.remembered = pair.config.remembered
        /\ \A s \in Sources : cfg.fingerprint[s] =
             IF s = op.source THEN facts ELSE pair.config.fingerprint[s]
    BY <1>1, <2>1, <2>2 DEF Configs
  <2>5. /\ left \in Waiting
        /\ \A s \in Sources : left[s] = IF s = op.source THEN NoFingerprint ELSE pair.pending[s]
    BY <1>1, <2>1 DEF Waiting, NoFingerprint
  <2>6. AnnouncedBy(announced.facts, op.source, facts, block)
    <3>1. AnnouncedBy(announced.facts, op.source, facts, pair.pending[op.source].effectiveBlock)
      BY <1>1, <2>1, <2>2 DEF NoticeServed
    <3>2. pair.pending[op.source].effectiveBlock \in Nat /\ block \in Nat
      BY <1>1, <2>1 DEF Waiting, RegistryInv
    <3>3. \A a \in announced.facts : a.block + RegistryDelay \in Nat
      BY RegistryAssumption DEF RegistryInv, Notices, RegistryAssumption
    <3> QED
      BY <2>1, <3>1, <3>2, <3>3 DEF AnnouncedBy
  <2> HIDE DEF facts, cfg, left
  <2>7. NoticeServed(announced.facts, block, cfg, left)
    BY <1>1, <2>4, <2>5, <2>6 DEF NoticeServed, NoFingerprint
  <2> QED
    BY <1>1, <2>3, <2>4, <2>5, <2>7 DEF SoundPairs, Pairs
<1>4. CASE op.op = "FEE_TIER"
  <2>1. op.value \in Nat
    BY <1>4 DEF Operations
  <2> DEFINE cfg == [pair.config EXCEPT !.feeTier = op.value]
  <2>2. Apply(op, pair) = [pair EXCEPT !.config = cfg]
    BY <1>1, <1>4 DEF Apply, Pairs, Configs
  <2>3. /\ cfg \in Configs /\ cfg.fingerprint = pair.config.fingerprint
        /\ pair.config.remembered = cfg.remembered
    BY <1>1, <2>1 DEF Configs
  <2> HIDE DEF cfg
  <2>4. NoticeServed(announced.facts, block, cfg, pair.pending)
    BY <1>1, <2>3 DEF NoticeServed
  <2> QED
    BY <1>1, <2>2, <2>3, <2>4 DEF SoundPairs, Pairs
<1> QED
  BY <1>2, <1>3, <1>4 DEF Applicable, Operations

(* However long the batch, what it leaves behind is sound.                  *)
LEMMA CourseSound ==
  ASSUME RegistryInv, NEW ops \in Batches
  PROVE  /\ Len(ops) \in Nat
         /\ Course(ops) \in [0 .. Len(ops) -> SoundPairs]
<1> DEFINE n == Len(ops)
           start == [config |-> config, pending |-> queues.fingerprint]
           step == [ix \in (1 .. n) \X SoundPairs |->
                      IF Applicable(ops[ix[1]], ix[2]) THEN Apply(ops[ix[1]], ix[2]) ELSE ix[2]]
           body(run) == [i \in 0 .. n |->
                           IF i = 0 THEN start
                           ELSE IF Applicable(ops[i], run[i - 1]) THEN Apply(ops[i], run[i - 1])
                                ELSE run[i - 1]]
<1>1. n \in Nat /\ \A i \in 1 .. n : ops[i] \in Operations
  BY RegistryAssumption DEF RegistryAssumption
<1>2. start \in SoundPairs
  BY DEF RegistryInv, RegistryTypeOK, SoundPairs, Pairs, Configs, Waiting
<1>3. \A i \in 1 .. n, x \in SoundPairs :
        step[<<i, x>>] = IF Applicable(ops[i], x) THEN Apply(ops[i], x) ELSE x
  OBVIOUS
<1>4. \A i \in 1 .. n, x \in SoundPairs : step[<<i, x>>] \in SoundPairs
  BY <1>1, <1>3, ApplySound
<1>5. Course(ops) = CHOOSE run : run = body(run)
  BY DEF Course
<1> HIDE DEF n, start, step
<1>6. PICK g \in Runs(n, SoundPairs, start, step) : TRUE
  <2>1. n \in Nat /\ StaysIn(n, SoundPairs, step)
    BY <1>1, <1>4 DEF StaysIn
  <2> QED
    BY <1>2, <2>1, SegmentRecursion
<1>7. g = body(g)
  <2>1. /\ g \in [0 .. n -> SoundPairs] /\ g[0] = start
        /\ \A i \in 1 .. n : g[i] = step[<<i, g[i - 1]>>]
        /\ \A i \in 1 .. n : i - 1 \in 0 .. n /\ g[i - 1] \in SoundPairs
    BY <1>1, <1>6 DEF Runs
  <2>2. ASSUME NEW i \in 0 .. n PROVE g[i] = body(g)[i]
    <3>1. CASE i = 0
      BY <2>1, <3>1
    <3>2. CASE i # 0
      <4>1. i \in 1 .. n /\ i - 1 \in 0 .. n /\ g[i - 1] \in SoundPairs
        BY <1>1, <2>1, <3>2
      <4>2. g[i] = step[<<i, g[i - 1]>>]
        BY <2>1, <4>1
      <4> QED
        BY <1>3, <3>2, <4>1, <4>2
    <3> QED
      BY <3>1, <3>2
  <2> QED
    BY <2>1, <2>2
<1> DEFINE f == Course(ops)
<1>8. f = body(f)
  BY <1>5, <1>7
<1> HIDE DEF f
<1> DEFINE reached == {i \in 0 .. n : f[i] \in SoundPairs}
<1>9. 0 .. n \subseteq reached
  <2>1. 0 \in reached
    BY <1>1, <1>2, <1>8
  <2>2. ASSUME NEW i \in 0 .. n, i < n, i \in reached PROVE i + 1 \in reached
    <3>1. i + 1 \in 1 .. n /\ f[i] \in SoundPairs /\ (i + 1) - 1 = i /\ i + 1 # 0
      BY <1>1, <2>2
    <3>2. f[i + 1] = step[<<i + 1, f[i]>>]
      BY <1>3, <1>8, <3>1
    <3> QED
      BY <1>4, <3>1, <3>2
  <2> HIDE DEF reached
  <2> QED
    BY <1>1, <2>1, <2>2, SegmentInduction
<1>10. f \in [0 .. n -> SoundPairs]
  <2>1. f = [i \in 0 .. n |-> f[i]]
    BY <1>8
  <2> QED
    BY <1>9, <2>1
<1> QED
  BY <1>1, <1>10 DEF f, n

(* Notice once served stays served.                                         *)
LEMMA ServedLater ==
  ASSUME NEW notices, NEW more \in SUBSET Notices, notices \subseteq more,
         NEW now \in Nat, NEW later \in Nat, now <= later,
         NEW cfg, NEW pending, NoticeServed(notices, now, cfg, pending)
  PROVE  NoticeServed(more, later, cfg, pending)
<1>1. ASSUME NEW s, NEW facts, NEW due \in Nat, NEW after \in Nat, due <= after,
             AnnouncedBy(notices, s, facts, due)
      PROVE  AnnouncedBy(more, s, facts, after)
  BY <1>1, RegistryAssumption DEF AnnouncedBy, Notices, RegistryAssumption
<1>2. \A s, facts, due : AnnouncedBy(notices, s, facts, due) => AnnouncedBy(more, s, facts, due)
  BY DEF AnnouncedBy
<1> QED
  BY <1>1, <1>2 DEF NoticeServed

LEMMA RegistryInitInv ==
  ASSUME ClockInit, RegistryInit
  PROVE  RegistryInv
<1>1. RegistryTypeOK
  BY RegistryAssumption
  DEF RegistryInit, RegistryTypeOK, NoBatch, NoFingerprint, RegistryAssumption
<1>2. NoticeServed(announced.facts, block, config, queues.fingerprint)
  BY DEF RegistryInit, NoticeServed, NoFingerprint
<1> QED
  BY <1>1, <1>2 DEF ClockInit, RegistryInit, RegistryInv, NoBatch, BatchAnnounced

(* A committed batch leaves what its course left.                           *)
LEMMA CommitSound ==
  ASSUME RegistryInv, NEW ops \in Batches, NEW version \in Nat, NEW waiting,
         CommitBatch(ops, version, waiting)
  PROVE  /\ config' \in Configs /\ config'.version = version
         /\ config' = [Course(ops)[Len(ops)].config EXCEPT !.version = version]
         /\ queues' = [batch |-> waiting, fingerprint |-> queues'.fingerprint]
         /\ queues'.fingerprint \in Waiting
         /\ NoticeServed(announced.facts, block, config', queues'.fingerprint)
<1> DEFINE last == Course(ops)[Len(ops)]
<1>1. last \in SoundPairs
  BY CourseSound
<1>2. /\ config' = [last.config EXCEPT !.version = version]
      /\ queues' = [batch |-> waiting, fingerprint |-> last.pending]
  BY DEF CommitBatch
<1>3. /\ last.config \in Configs /\ last.pending \in Waiting
      /\ NoticeServed(announced.facts, block, last.config, last.pending)
  BY <1>1 DEF SoundPairs, Pairs
<1> HIDE DEF last
<1>4. /\ config' \in Configs /\ config'.version = version
      /\ config'.fingerprint = last.config.fingerprint
      /\ config'.remembered = last.config.remembered
  BY <1>2, <1>3 DEF Configs
<1>5. NoticeServed(announced.facts, block, config', queues'.fingerprint)
  BY <1>2, <1>3, <1>4 DEF NoticeServed
<1> QED
  BY <1>2, <1>3, <1>4, <1>5 DEF last

LEMMA RegistryTyped ==
  ASSUME RegistryInv
  PROVE  /\ config \in Configs /\ queues.fingerprint \in Waiting
         /\ queues.batch \in [ops: Batches \cup {<<>>}, version: Nat, effectiveBlock: Nat]
         /\ block \in Nat /\ block + RegistryDelay \in Nat \ {0}
BY RegistryAssumption
DEF RegistryInv, RegistryTypeOK, Configs, Waiting, RegistryAssumption

(* The parts of the invariant a step of configuration has to show.          *)
LEMMA RegistryAfter ==
  ASSUME RegistryInv, UNCHANGED block,
         config' \in Configs, queues'.fingerprint \in Waiting,
         queues'.batch \in [ops: Batches \cup {<<>>}, version: Nat, effectiveBlock: Nat],
         DOMAIN queues' = {"batch", "fingerprint"}, DOMAIN announced' = {"batch", "facts"},
         gates' \in [bootstrapClosed: BOOLEAN, allowlist: BOOLEAN], live' \in [Venues -> Views],
         settings' \in [adapter: BOOLEAN, freshness: BOOLEAN],
         announced'.facts \in SUBSET Notices, \A a \in announced'.facts : a.block <= block,
         NoticeServed(announced'.facts, block, config', queues'.fingerprint),
         BatchAnnounced'
  PROVE  RegistryInv'
<1>1. /\ config' \in [version: Nat, venue: [Sources -> Venues \cup {NoVenue}],
                      remembered: SUBSET Sources, feeTier: Nat,
                      fingerprint: [Sources -> Facts \cup {NoFacts}]]
      /\ queues'.fingerprint \in
           [Sources -> [facts: Facts \cup {NoFacts}, effectiveBlock: Nat]]
  BY DEF Configs, Waiting
<1>2. \A s \in Sources :
        /\ queues'.fingerprint[s].facts = NoFacts <=> queues'.fingerprint[s].effectiveBlock = 0
        /\ queues'.fingerprint[s].facts # NoFacts => s \in config'.remembered
  BY DEF NoticeServed
<1>3. RegistryTypeOK'
  <2>1. \A s \in Sources : LET pending == queues'.fingerprint[s]
          IN (pending.facts = NoFacts <=> pending.effectiveBlock = 0)
               /\ (pending.facts # NoFacts => s \in config'.remembered)
    BY <1>2
  <2> QED
    BY <1>1, <2>1, Zenon DEF RegistryTypeOK
<1> QED
  BY <1>3 DEF RegistryInv

LEMMA BatchUpdateInv ==
  ASSUME RegistryInv, NEW ops \in Batches, NEW version \in Nat, BatchUpdate(ops, version),
         UNCHANGED block
  PROVE  RegistryInv'
<1>1. /\ gates' = gates /\ settings' = settings /\ live' = live
      /\ gates \in [bootstrapClosed: BOOLEAN, allowlist: BOOLEAN] /\ live \in [Venues -> Views]
      /\ settings \in [adapter: BOOLEAN, freshness: BOOLEAN]
      /\ announced.facts \in SUBSET Notices /\ \A a \in announced.facts : a.block <= block
  BY DEF BatchUpdate, RegistryInv, RegistryTypeOK
<1>2. CASE ~gates.bootstrapClosed
  <2>1. CommitBatch(ops, version, queues.batch) /\ announced' = announced
    BY <1>2 DEF BatchUpdate
  <2>2. /\ config' \in Configs /\ queues'.fingerprint \in Waiting
        /\ queues' = [batch |-> queues.batch, fingerprint |-> queues'.fingerprint]
        /\ NoticeServed(announced.facts, block, config', queues'.fingerprint)
    BY <2>1, CommitSound
  <2>3. queues'.batch = queues.batch /\ DOMAIN queues' = {"batch", "fingerprint"}
    BY <2>2
  <2>4. BatchAnnounced' /\ DOMAIN announced' = {"batch", "facts"}
    BY <2>1, <2>3 DEF RegistryInv, BatchAnnounced
  <2> QED
    BY <1>1, <2>1, <2>2, <2>3, <2>4, RegistryTyped, RegistryAfter
<1>3. CASE gates.bootstrapClosed
  <2>1. /\ queues' = [queues EXCEPT !.batch = QueuedBatch(ops, version)]
        /\ announced' = [announced EXCEPT !.batch =
                           [ops |-> ops, version |-> version, block |-> block]]
        /\ config' = config
    BY <1>3 DEF BatchUpdate
  <2>2. /\ DOMAIN queues' = {"batch", "fingerprint"} /\ queues'.fingerprint = queues.fingerprint
        /\ queues'.batch = QueuedBatch(ops, version)
    BY <2>1 DEF RegistryInv
  <2>3. /\ announced'.facts = announced.facts /\ DOMAIN announced' = {"batch", "facts"}
        /\ announced'.batch = [ops |-> ops, version |-> version, block |-> block]
    BY <2>1 DEF RegistryInv
  <2>4. queues'.batch \in [ops: Batches \cup {<<>>}, version: Nat, effectiveBlock: Nat]
    BY <2>2, RegistryTyped DEF QueuedBatch
  <2>5. BatchAnnounced'
    BY <2>2, <2>3 DEF BatchAnnounced, QueuedBatch
  <2>6. NoticeServed(announced'.facts, block, config', queues'.fingerprint)
    BY <2>1, <2>2, <2>3 DEF RegistryInv
  <2> QED
    BY <1>1, <2>1, <2>2, <2>3, <2>4, <2>5, <2>6, RegistryTyped, RegistryAfter
<1> QED
  BY <1>2, <1>3

LEMMA ApplyBatchInv ==
  ASSUME RegistryInv, NEW ops \in Batches, ApplyBatchUpdate(ops), UNCHANGED block
  PROVE  RegistryInv'
<1>1. /\ gates' = gates /\ settings' = settings /\ live' = live
      /\ gates \in [bootstrapClosed: BOOLEAN, allowlist: BOOLEAN] /\ live \in [Venues -> Views]
      /\ settings \in [adapter: BOOLEAN, freshness: BOOLEAN]
      /\ announced.facts \in SUBSET Notices /\ \A a \in announced.facts : a.block <= block
  BY DEF ApplyBatchUpdate, RegistryInv, RegistryTypeOK
<1>2. /\ CommitBatch(ops, queues.batch.version, NoBatch)
      /\ announced' = [announced EXCEPT !.batch = NoNotice]
      /\ queues.batch.version \in Nat
  BY RegistryTyped DEF ApplyBatchUpdate
<1>3. /\ config' \in Configs /\ queues'.fingerprint \in Waiting
      /\ queues' = [batch |-> NoBatch, fingerprint |-> queues'.fingerprint]
      /\ NoticeServed(announced.facts, block, config', queues'.fingerprint)
  BY <1>2, CommitSound
<1>4. queues'.batch = NoBatch /\ DOMAIN queues' = {"batch", "fingerprint"}
  BY <1>3
<1>5. announced'.facts = announced.facts /\ DOMAIN announced' = {"batch", "facts"}
  BY <1>2 DEF RegistryInv
<1>6. BatchAnnounced' /\ NoBatch \in [ops: Batches \cup {<<>>}, version: Nat, effectiveBlock: Nat]
  BY <1>4 DEF BatchAnnounced, NoBatch
<1> QED
  BY <1>1, <1>3, <1>4, <1>5, <1>6, RegistryAfter

(* A fingerprint queued names the venue as it is, and was announced by now. *)
LEMMA QueueFingerprintInv ==
  ASSUME RegistryInv, NEW source \in Sources, QueueExternalFingerprintUpdate(source),
         UNCHANGED block
  PROVE  RegistryInv'
<1> DEFINE facts == LiveFacts(source)
           notices == FirstAnnounced(source, facts)
           due == block + RegistryDelay
<1>1. /\ config' = config /\ gates' = gates /\ settings' = settings /\ live' = live
      /\ gates \in [bootstrapClosed: BOOLEAN, allowlist: BOOLEAN] /\ live \in [Venues -> Views]
      /\ settings \in [adapter: BOOLEAN, freshness: BOOLEAN]
      /\ announced.facts \in SUBSET Notices /\ \A a \in announced.facts : a.block <= block
      /\ block \in Nat /\ due \in Nat \ {0} /\ RegistryDelay \in Nat
  BY RegistryTyped, RegistryAssumption
  DEF QueueExternalFingerprintUpdate, RegistryInv, RegistryTypeOK, RegistryAssumption
<1>2. facts \in Facts /\ facts # NoFacts
  <2>1. config.venue[source] \in Venues
    BY RegistryTyped DEF QueueExternalFingerprintUpdate, Readable, Configs
  <2>2. live[config.venue[source]] \in [shape: Nat, level: Nat, readable: BOOLEAN]
    BY <1>1, <2>1, RegistryAssumption DEF RegistryAssumption
  <2> QED
    BY <2>1, <2>2 DEF LiveFacts, Facts, NoFacts
<1>3. /\ queues' = [queues EXCEPT !.fingerprint[source] = [facts |-> facts, effectiveBlock |-> due]]
      /\ announced' = [announced EXCEPT !.facts = notices]
      /\ source \in config.remembered
  BY DEF QueueExternalFingerprintUpdate
<1> HIDE DEF facts, due
<1>4. /\ notices \in SUBSET Notices /\ announced.facts \subseteq notices
      /\ \A a \in notices : a.block <= block
      /\ AnnouncedBy(notices, source, facts, due)
  <2>1. CASE \E a \in announced.facts : a.source = source /\ a.facts = facts
    <3>1. notices = announced.facts
      BY <2>1 DEF FirstAnnounced
    <3>2. \A a \in announced.facts : due >= a.block + RegistryDelay
      BY <1>1 DEF Notices, due
    <3> QED
      BY <1>1, <2>1, <3>1, <3>2 DEF AnnouncedBy
  <2>2. CASE ~\E a \in announced.facts : a.source = source /\ a.facts = facts
    <3> DEFINE new == [source |-> source, facts |-> facts, block |-> block]
    <3>1. notices = announced.facts \cup {new}
      BY <2>2 DEF FirstAnnounced
    <3>2. /\ new \in Notices /\ new.block = block /\ new.source = source /\ new.facts = facts
          /\ due >= new.block + RegistryDelay
      BY <1>1, <1>2 DEF Notices, due
    <3> HIDE DEF new, notices
    <3> QED
      BY <1>1, <3>1, <3>2 DEF AnnouncedBy
  <2> QED
    BY <2>1, <2>2
<1> HIDE DEF notices
<1>5. /\ announced'.facts = notices /\ announced'.batch = announced.batch
      /\ DOMAIN announced' = {"batch", "facts"}
  <2>1. DOMAIN announced = {"batch", "facts"}
    BY DEF RegistryInv
  <2> QED
    BY <1>3, <2>1
<1>6. /\ queues'.batch = queues.batch /\ DOMAIN queues' = {"batch", "fingerprint"}
      /\ queues'.fingerprint =
           [queues.fingerprint EXCEPT ![source] = [facts |-> facts, effectiveBlock |-> due]]
  BY <1>3 DEF RegistryInv
<1>7. queues'.fingerprint \in Waiting
  BY <1>1, <1>2, <1>6, RegistryTyped DEF Waiting
<1>8. NoticeServed(notices, block, config, queues.fingerprint)
  BY <1>1, <1>4, ServedLater DEF RegistryInv
<1>9. NoticeServed(notices, block, config, queues'.fingerprint)
  <2>1. \A s \in Sources : queues'.fingerprint[s] =
          IF s = source THEN [facts |-> facts, effectiveBlock |-> due] ELSE queues.fingerprint[s]
    BY <1>6, RegistryTyped DEF Waiting
  <2> QED
    BY <1>1, <1>2, <1>3, <1>4, <1>8, <2>1 DEF NoticeServed
<1>10. BatchAnnounced'
  BY <1>5, <1>6 DEF RegistryInv, BatchAnnounced
<1> QED
  BY <1>1, <1>4, <1>5, <1>6, <1>7, <1>9, <1>10, RegistryTyped, RegistryAfter

LEMMA RegistryNextInv ==
  ASSUME RegistryInv, [RegistryNext]_registryState
  PROVE  RegistryInv'
<1>1. /\ gates \in [bootstrapClosed: BOOLEAN, allowlist: BOOLEAN] /\ live \in [Venues -> Views]
      /\ settings \in [adapter: BOOLEAN, freshness: BOOLEAN]
      /\ announced.facts \in SUBSET Notices /\ \A a \in announced.facts : a.block <= block
      /\ DOMAIN queues = {"batch", "fingerprint"} /\ DOMAIN announced = {"batch", "facts"}
      /\ NoticeServed(announced.facts, block, config, queues.fingerprint)
  BY DEF RegistryInv, RegistryTypeOK
<1>2. CASE RegistryStep
  <2>1. UNCHANGED block
    BY <1>2 DEF RegistryStep
  <2>2. CASE \E ops \in Batches, version \in Proposed : BatchUpdate(ops, version)
    BY <2>1, <2>2, BatchUpdateInv, RegistryAssumption DEF Proposed, RegistryAssumption
  <2>3. CASE \E ops \in Batches : ApplyBatchUpdate(ops)
    BY <2>1, <2>3, ApplyBatchInv
  <2>4. CASE CancelPendingBatch
    <3>1. /\ queues'.batch = NoBatch /\ queues'.fingerprint = queues.fingerprint
          /\ DOMAIN queues' = {"batch", "fingerprint"} /\ DOMAIN announced' = {"batch", "facts"}
          /\ announced'.facts = announced.facts
          /\ UNCHANGED <<config, gates, settings, live>>
      BY <1>1, <2>4 DEF CancelPendingBatch
    <3>2. BatchAnnounced' /\ NoBatch \in [ops: Batches \cup {<<>>}, version: Nat, effectiveBlock: Nat]
      BY <3>1 DEF BatchAnnounced, NoBatch
    <3> QED
      BY <1>1, <2>1, <3>1, <3>2, RegistryTyped, RegistryAfter
  <2>5. CASE CloseBootstrap \/ \E enforced \in BOOLEAN : SetSpendAllowlistEnforced(enforced)
    <3>1. /\ gates' \in [bootstrapClosed: BOOLEAN, allowlist: BOOLEAN]
          /\ UNCHANGED <<config, queues, settings, live, announced>>
      BY <1>1, <2>5 DEF CloseBootstrap, SetSpendAllowlistEnforced
    <3>2. BatchAnnounced'
      BY <3>1 DEF RegistryInv, BatchAnnounced
    <3> QED
      BY <1>1, <2>1, <3>1, <3>2, RegistryTyped, RegistryAfter
  <2>6. CASE \E s \in Sources : QueueExternalFingerprintUpdate(s)
    BY <2>1, <2>6, QueueFingerprintInv
  <2>7. CASE \E venue \in Restless : VenueChanges(venue)
    <3>1. live' \in [Venues -> Views] /\ UNCHANGED <<config, queues, gates, settings, announced>>
      <4>1. PICK venue \in Restless : VenueChanges(venue)
        BY <2>7
      <4>2. PICK view \in Views : live' = [live EXCEPT ![venue] = view]
        BY <4>1 DEF VenueChanges
      <4>3. live' \in [Venues -> Views]
        BY <1>1, <4>2
      <4> QED
        BY <4>1, <4>3 DEF VenueChanges
    <3>2. BatchAnnounced'
      BY <3>1 DEF RegistryInv, BatchAnnounced
    <3> QED
      BY <1>1, <2>1, <3>1, <3>2, RegistryTyped, RegistryAfter
  <2>8. CASE \/ \E registered \in BOOLEAN : SetLoopRiskOracleAdapter(registered)
             \/ \E nonZero \in BOOLEAN : SetSourceFreshnessThreshold(nonZero)
    <3>1. /\ settings' \in [adapter: BOOLEAN, freshness: BOOLEAN]
          /\ UNCHANGED <<config, queues, gates, live, announced>>
      BY <1>1, <2>8 DEF SetLoopRiskOracleAdapter, SetSourceFreshnessThreshold
    <3>2. BatchAnnounced'
      BY <3>1 DEF RegistryInv, BatchAnnounced
    <3> QED
      BY <1>1, <2>1, <3>1, <3>2, RegistryTyped, RegistryAfter
  <2> QED
    BY <1>2, <2>2, <2>3, <2>4, <2>5, <2>6, <2>7, <2>8 DEF RegistryStep
<1>3. CASE RegistryTick
  <2>1. block' = block + 1 /\ UNCHANGED registryVars /\ block \in Nat
    BY <1>3, RegistryTyped DEF RegistryTick, Tick
  <2>2. NoticeServed(announced.facts, block', config, queues.fingerprint)
    BY <1>1, <2>1, ServedLater
  <2>3. RegistryTypeOK' /\ BatchAnnounced'
    BY <2>1 DEF RegistryInv, RegistryTypeOK, BatchAnnounced, registryVars
  <2>4. block' \in Nat \ {0} /\ \A a \in announced.facts : a.block <= block'
    BY <1>1, <2>1 DEF Notices
  <2> QED
    BY <1>1, <2>1, <2>2, <2>3, <2>4 DEF RegistryInv, registryVars
<1>4. CASE UNCHANGED registryState
  BY <1>4 DEF registryState, registryVars, RegistryInv, RegistryTypeOK, BatchAnnounced
<1> QED
  BY <1>2, <1>3, <1>4 DEF RegistryNext

(* What is queued is what was announced last, and every fingerprint in force*)
(* served its own notice, through whole and failing batches                 *)
(* (batchUpdate, applyBatchUpdate, queueExternalFingerprintUpdate).         *)
THEOREM RegistryInductive == RegistrySpec => []RegistryInv
<1>1. ClockInit /\ RegistryInit => RegistryInv
  BY RegistryInitInv
<1>2. RegistryInv /\ [RegistryNext]_registryState => RegistryInv'
  BY RegistryNextInv
<1> QED
  BY <1>1, <1>2, PTL DEF RegistrySpec, RegistryNext, registryState

-----------------------------------------------------------------------------
(* An action that passes validation meets only venues announced             *)
(* RegistryDelay blocks ago, through any sequence of batches of any length  *)
(* (LoopRegistry.sol, batchUpdate, applyBatchUpdate; LoopFingerprintRegistry*)
(* queueExternalFingerprintUpdate, validateExternalConfig).                 *)
THEOREM NoticeGiven == RegistrySpec => [](RegistryTypeOK /\ VenuesAnnounced)
<1>1. ASSUME RegistryInv PROVE VenuesAnnounced
  <2> SUFFICES ASSUME NEW type \in {"OPEN", "EXIT"}, ValidationEnabled, Validates(type),
                      NEW s \in Required(type), config.venue[s] # NoVenue
               PROVE  \E a \in announced.facts :
                        /\ a.source = s /\ block >= a.block + RegistryDelay
                        /\ a.facts.venue = config.venue[s]
                        /\ a.facts.shape = live[config.venue[s]].shape
                        /\ WithinTolerance(a.facts.level, live[config.venue[s]].level)
    BY DEF VenuesAnnounced
  <2>1. s \in Sources
    BY DEF Required
  <2>2. Matches(s)
    BY DEF Validates
  <2>3. PICK a \in announced.facts :
          /\ a.source = s /\ a.facts = config.fingerprint[s] /\ block >= a.block + RegistryDelay
    BY <1>1, <2>1, <2>2 DEF RegistryInv, NoticeServed, AnnouncedBy, Matches
  <2>4. /\ a.facts.venue = config.venue[s]
        /\ a.facts.shape = live[config.venue[s]].shape
        /\ WithinTolerance(a.facts.level, live[config.venue[s]].level)
    BY <2>2, <2>3 DEF Matches, LiveFacts
  <2> QED
    BY <2>3, <2>4
<1>2. RegistryInv => RegistryTypeOK /\ VenuesAnnounced
  BY <1>1 DEF RegistryInv
<1> QED
  BY <1>2, RegistryInductive, PTL

(* Which calls change the configuration, and to what.                       *)
LEMMA ConfigMoves ==
  ASSUME RegistryInv, [RegistryNext]_registryState, config' # config
  PROVE  \/ \E ops \in Batches, version \in Nat :
              /\ ~gates.bootstrapClosed /\ NewVersion(version)
              /\ CommitBatch(ops, version, queues.batch)
         \/ \E ops \in Batches : ApplyBatchUpdate(ops)
<1>1. CASE RegistryStep
  BY <1>1, RegistryAssumption
  DEF RegistryStep, BatchUpdate, CancelPendingBatch, CloseBootstrap, SetSpendAllowlistEnforced,
      SetLoopRiskOracleAdapter, SetSourceFreshnessThreshold,
      QueueExternalFingerprintUpdate, VenueChanges, Proposed, RegistryAssumption
<1>2. CASE RegistryTick \/ UNCHANGED registryState
  BY <1>2 DEF RegistryTick, registryState, registryVars
<1> QED
  BY <1>1, <1>2 DEF RegistryNext

LEMMA VersionRises ==
  ASSUME RegistryInv, [RegistryNext]_registryState, config' # config
  PROVE  config'.version > config.version
<1>1. CASE \E ops \in Batches, version \in Nat :
             NewVersion(version) /\ CommitBatch(ops, version, queues.batch)
  BY <1>1, CommitSound DEF NewVersion
<1>2. CASE \E ops \in Batches : ApplyBatchUpdate(ops)
  <2>1. PICK ops \in Batches : ApplyBatchUpdate(ops)
    BY <1>2
  <2>2. queues.batch.version \in Nat
    BY RegistryTyped
  <2>3. config'.version = queues.batch.version /\ NewVersion(queues.batch.version)
    BY <2>1, <2>2, CommitSound DEF ApplyBatchUpdate
  <2> QED
    BY <2>3 DEF NewVersion
<1> QED
  BY <1>1, <1>2, ConfigMoves

(* A digest signed under one version of the registry never meets another    *)
(* batch's configuration; a market stops being ready only by a batch, by a  *)
(* venue's own change or by the two setters that no timelock guards, and    *)
(* these leave the bootstrap regime closed and the venues checked           *)
(* (LoopRegistry.sol, _commitBatch, closeBootstrap,                         *)
(* setSpendAllowlistEnforced, setLoopRiskOracleAdapter,                     *)
(* setSourceFreshnessThreshold).                                            *)
THEOREM RegistryVersioned == RegistrySpec => VersionedAndReady
<1>1. RegistryInv /\ [RegistryNext]_registryState =>
        [config' # config => config'.version > config.version]_registryState
  BY VersionRises
<1>2. RegistryInv /\ [RegistryNext]_registryState =>
        [ProductionReady /\ ~ProductionReady' =>
           \/ config' # config \/ live' # live
           \/ settings' # settings /\ Guarded']_registryState
  <2> SUFFICES ASSUME RegistryInv, RegistryNext, ProductionReady, config' = config, live' = live
               PROVE  /\ Guarded'
                      /\ settings' = settings => ProductionReady'
    BY DEF registryState, registryVars, ProductionReady
  <2>1. gates'.bootstrapClosed /\ gates'.allowlist
    <3>1. gates \in [bootstrapClosed: BOOLEAN, allowlist: BOOLEAN]
      BY DEF RegistryInv, RegistryTypeOK
    <3>2. gates' = gates \/ \E enforced \in BOOLEAN : SetSpendAllowlistEnforced(enforced)
      BY DEF RegistryNext, RegistryStep, RegistryTick, BatchUpdate, ApplyBatchUpdate,
             CancelPendingBatch, CloseBootstrap, QueueExternalFingerprintUpdate, VenueChanges,
             SetLoopRiskOracleAdapter, SetSourceFreshnessThreshold, ProductionReady, Guarded,
             registryVars
    <3> QED
      BY <3>1, <3>2 DEF SetSpendAllowlistEnforced, ProductionReady, Guarded
  <2>2. ASSUME NEW type, Validates(type) PROVE Validates(type)'
    BY <2>2 DEF Validates, ValidationEnabled, Matches, Readable, LiveFacts, Required
  <2> QED
    BY <2>1, <2>2 DEF ProductionReady, Guarded
<1> QED
  BY <1>1, <1>2, RegistryInductive, PTL
  DEF RegistrySpec, RegistryNext, registryState, VersionedAndReady, VersionBindsConfig,
      ReadinessStable

(* Once bootstrap is closed the configuration changes only by the batch     *)
(* announced last, whole, RegistryDelay blocks after its announcement       *)
(* (LoopRegistry.sol, batchUpdate, applyBatchUpdate, cancelPendingBatch).   *)
THEOREM BatchesTimelocked == RegistrySpec => BatchTimelock
<1>1. RegistryInv /\ [RegistryNext]_registryState =>
        [gates.bootstrapClosed /\ config' # config =>
           /\ announced.batch.ops # <<>>
           /\ block >= announced.batch.block + RegistryDelay
           /\ config' = [Course(announced.batch.ops)[Len(announced.batch.ops)].config
                           EXCEPT !.version = announced.batch.version]]_registryState
  <2> SUFFICES ASSUME RegistryInv, RegistryNext, gates.bootstrapClosed, config' # config
               PROVE  /\ announced.batch.ops # <<>>
                      /\ block >= announced.batch.block + RegistryDelay
                      /\ config' = [Course(announced.batch.ops)[Len(announced.batch.ops)].config
                                      EXCEPT !.version = announced.batch.version]
    OBVIOUS
  <2>1. PICK ops \in Batches : ApplyBatchUpdate(ops)
    BY ConfigMoves
  <2>2. /\ announced.batch.ops = ops /\ announced.batch.version = queues.batch.version
        /\ block >= announced.batch.block + RegistryDelay
    BY <2>1 DEF ApplyBatchUpdate, RegistryInv, BatchAnnounced
  <2>3. config' = [Course(ops)[Len(ops)].config EXCEPT !.version = queues.batch.version]
    BY <2>1 DEF ApplyBatchUpdate, CommitBatch
  <2>4. ops # <<>>
    BY RegistryAssumption DEF RegistryAssumption
  <2> QED
    BY <2>2, <2>3, <2>4
<1> QED
  BY <1>1, RegistryInductive, PTL DEF RegistrySpec, RegistryNext, registryState, BatchTimelock

-----------------------------------------------------------------------------
(* CriticalRoles: the separation of keys and the timelock.                  *)

rVars == <<block, roleVars>>
RolesNext == RolesStep \/ RolesTick

(* What is pending is what was announced last, due RoleDelay blocks later.  *)
PendingAnnounced ==
  \A r \in RoleIds :
    pendingRoles[r].next # NoOne =>
      /\ pendingRoles[r].next = roleLog[r].next
      /\ pendingRoles[r].effectiveBlock = roleLog[r].block + RoleDelay

RolesInv == RolesTypeOK /\ PendingAnnounced /\ KeysSeparate

USE DEF rVars, roleVars

LEMMA RolesInitInv ==
  ASSUME ClockInit, RolesInit
  PROVE  RolesInv
BY DEF ClockInit, RolesInit, RolesInv, RolesTypeOK, PendingAnnounced, KeysSeparate, NoPending,
       RoleIds

(* A key that passed the check against its counterpart's holder may become  *)
(* the holder itself.                                                       *)
LEMMA SeparateKept ==
  ASSUME RolesTypeOK, KeysSeparate, NEW role \in RoleIds, NEW next \in Holders,
         next # NoOne, Separate(role, next), roles' = [roles EXCEPT ![role] = next]
  PROVE  KeysSeparate'
<1>1. role # "INDEXER_SIGNER" => roles'["INDEXER_SIGNER"] = roles["INDEXER_SIGNER"]
  BY DEF RolesTypeOK, RoleIds
<1>2. role # "ANCHOR_SUBMITTER" => roles'["ANCHOR_SUBMITTER"] = roles["ANCHOR_SUBMITTER"]
  BY DEF RolesTypeOK, RoleIds
<1>3. roles'[role] = next
  BY DEF RolesTypeOK
<1>4. CASE role = "INDEXER_SIGNER"
  BY <1>2, <1>3, <1>4 DEF Separate, Counterpart, KeysSeparate
<1>5. CASE role = "ANCHOR_SUBMITTER"
  BY <1>1, <1>3, <1>5 DEF Separate, Counterpart, KeysSeparate
<1>6. CASE role \notin {"INDEXER_SIGNER", "ANCHOR_SUBMITTER"}
  BY <1>1, <1>2, <1>6 DEF KeysSeparate
<1> QED
  BY <1>4, <1>5, <1>6

LEMMA SetRoleInv ==
  ASSUME RolesInv, NEW role \in RoleIds, NEW next \in Holders, SetRole(role, next),
         UNCHANGED block
  PROVE  RolesInv'
<1>1. block \in Nat \ {0} /\ block + RoleDelay \in Nat \ {0}
  BY RolesAssumption DEF RolesInv, RolesTypeOK
<1>2. CASE roles[role] = NoOne
  <2>1. roles' = [roles EXCEPT ![role] = next] /\ UNCHANGED <<pendingRoles, roleLog>>
    BY <1>2 DEF SetRole
  <2>2. KeysSeparate'
    BY <2>1, SeparateKept DEF SetRole, RolesInv
  <2> QED
    BY <2>1, <2>2 DEF RolesInv, RolesTypeOK, PendingAnnounced
<1>3. CASE roles[role] # NoOne
  <2>1. /\ pendingRoles' =
             [pendingRoles EXCEPT ![role] = [next |-> next, effectiveBlock |-> block + RoleDelay]]
        /\ roleLog' = [roleLog EXCEPT ![role] = [next |-> next, block |-> block]]
        /\ UNCHANGED roles
    BY <1>3 DEF SetRole, QueueRole
  <2>2. KeysSeparate'
    BY <2>1 DEF RolesInv, KeysSeparate
  <2>3. RolesTypeOK'
    BY <1>1, <2>1, RolesAssumption DEF SetRole, RolesInv, RolesTypeOK
  <2>4. PendingAnnounced'
    BY <1>1, <2>1 DEF RolesInv, RolesTypeOK, PendingAnnounced
  <2> QED
    BY <2>2, <2>3, <2>4 DEF RolesInv
<1> QED
  BY <1>2, <1>3

LEMMA ApplyRoleInv ==
  ASSUME RolesInv, NEW role \in RoleIds, ApplyRole(role), UNCHANGED block
  PROVE  RolesInv'
<1>1. pendingRoles[role].next \in Holders
  BY DEF ApplyRole, RolesInv, RolesTypeOK
<1>2. /\ roles' = [roles EXCEPT ![role] = pendingRoles[role].next]
      /\ pendingRoles' = [pendingRoles EXCEPT ![role] = NoPending]
      /\ UNCHANGED roleLog
  BY DEF ApplyRole, Cleared
<1>3. KeysSeparate'
  BY <1>1, <1>2, SeparateKept, RolesAssumption DEF ApplyRole, RolesInv
<1>4. RolesTypeOK'
  BY <1>1, <1>2 DEF RolesInv, RolesTypeOK, NoPending
<1>5. PendingAnnounced'
  BY <1>2 DEF RolesInv, RolesTypeOK, PendingAnnounced, NoPending
<1> QED
  BY <1>3, <1>4, <1>5 DEF RolesInv

LEMMA RolesNextInv ==
  ASSUME RolesInv, [RolesNext]_rVars
  PROVE  RolesInv'
<1>1. CASE UNCHANGED rVars
  BY <1>1 DEF RolesInv, RolesTypeOK, PendingAnnounced, KeysSeparate
<1>2. CASE RolesTick
  BY <1>2 DEF RolesTick, Tick, RolesInv, RolesTypeOK, PendingAnnounced, KeysSeparate
<1>3. CASE RolesStep
  <2>1. PICK role \in RoleIds : (\E next \in Holders : SetRole(role, next)) \/ ApplyRole(role)
    BY <1>3, RolesAssumption DEF RolesStep
  <2> QED
    BY <1>3, <2>1, SetRoleInv, ApplyRoleInv DEF RolesStep
<1> QED
  BY <1>1, <1>2, <1>3 DEF RolesNext

LEMMA RolesInductive == RolesSpec => []RolesInv
<1>1. ClockInit /\ RolesInit => RolesInv
  BY RolesInitInv
<1>2. RolesInv /\ [RolesNext]_rVars => RolesInv'
  BY RolesNextInv
<1> QED
  BY <1>1, <1>2, PTL DEF RolesSpec, RolesNext

-----------------------------------------------------------------------------
(* The indexer's signing key and the anchor's submitting key never coincide,*)
(* in whatever order any number of updates are set, superseded and applied  *)
(* (LoopRegistry.sol, _enforceKeySeparation).                               *)
THEOREM KeysStaySeparate == RolesSpec => []KeysSeparate
BY RolesInductive, PTL DEF RolesInv

LEMMA HandedOverAsAnnounced ==
  ASSUME RolesInv, RolesNext
  PROVE  HandedOver
<1> SUFFICES ASSUME NEW role \in Roles, roles[role] # NoOne, roles'[role] # roles[role]
             PROVE  /\ roles'[role] = roleLog[role].next /\ roles'[role] # NoOne
                    /\ block >= roleLog[role].block + RoleDelay
  BY DEF HandedOver
<1>1. PICK r \in Roles : (\E next \in Holders : SetRole(r, next)) \/ ApplyRole(r)
  BY DEF RolesNext, RolesStep, RolesTick
<1>2. role \in RoleIds /\ r \in RoleIds
  BY RolesAssumption
<1>3. r = role
  BY <1>1, <1>2 DEF SetRole, ApplyRole, RolesInv, RolesTypeOK
<1>4. ApplyRole(role)
  BY <1>1, <1>3 DEF SetRole
<1> QED
  BY <1>2, <1>4 DEF ApplyRole, RolesInv, RolesTypeOK, PendingAnnounced

(* A held role only ever passes to the holder announced last, after the     *)
(* whole delay, and no step puts one key into both roles (LoopRegistry.sol, *)
(* _setCriticalRole, applyRoleUpdate, _enforceKeySeparation).               *)
THEOREM RolesGoverned == RolesSpec => KeysGoverned
<1>1. RolesInv /\ [RolesNext]_rVars => [HandedOver /\ KeysSeparate']_rVars
  BY HandedOverAsAnnounced, RolesNextInv DEF RolesInv
<1> QED
  BY <1>1, RolesInductive, PTL DEF RolesSpec, RolesNext, KeysGoverned

HIDE DEF rVars, roleVars

-----------------------------------------------------------------------------
(* EmergencyGuardian: pauses and their records.                             *)

gVars == <<block, guardianVars>>
GuardianNext == GuardianStep \/ GuardianTick

(* The contract's own record agrees with what happened: the rate limit's    *)
(* block is that of the last toggle, and the expiry of a pause, held or run *)
(* out, counts from the last act that set or extended it.                   *)
RecordsAgree ==
  \A t \in Pauseable :
    /\ lastToggleBlock[t] = toggles[t].last
    /\ t \in pauseBitmap => pauseExpiryBlocks[t] = toggles[t].endorsed + AutoExpire

GuardianInv == GuardianTypeOK /\ RecordsAgree

USE DEF gVars, guardianVars

LEMMA GuardianInitInv ==
  ASSUME ClockInit, GuardianInit
  PROVE  GuardianInv
BY GuardianAssumption
   DEF ClockInit, GuardianInit, GuardianInv, GuardianTypeOK, RecordsAgree, NoToggle, Incidents

(* Toggling one type gives it a fresh record and leaves the other's alone.  *)
LEMMA PauseInv ==
  ASSUME GuardianInv, NEW t \in Pauseable, NEW caller \in Accounts,
         Pause(t, caller), UNCHANGED block
  PROVE  GuardianInv'
<1>1. block \in Nat /\ block + AutoExpire \in Nat
  BY GuardianAssumption DEF GuardianInv, GuardianTypeOK
<1>2. toggles' \in [Pauseable -> [count: Nat, last: Nat, endorsed: Nat]]
  BY <1>1 DEF GuardianInv, GuardianTypeOK, Pause
<1>3. GuardianTypeOK'
  BY <1>1, <1>2 DEF GuardianInv, GuardianTypeOK, Pause
<1>4. RecordsAgree'
  BY <1>1 DEF GuardianInv, GuardianTypeOK, RecordsAgree, Pause
<1> QED
  BY <1>3, <1>4 DEF GuardianInv

LEMMA UnpauseInv ==
  ASSUME GuardianInv, NEW t \in Pauseable, NEW caller \in Accounts,
         Unpause(t, caller), UNCHANGED block
  PROVE  GuardianInv'
<1>1. block \in Nat
  BY DEF GuardianInv, GuardianTypeOK
<1>2. toggles' \in [Pauseable -> [count: Nat, last: Nat, endorsed: Nat]]
  BY <1>1 DEF GuardianInv, GuardianTypeOK, Unpause
<1>3. GuardianTypeOK'
  BY <1>1, <1>2 DEF GuardianInv, GuardianTypeOK, Unpause
<1>4. RecordsAgree'
  BY <1>1 DEF GuardianInv, GuardianTypeOK, RecordsAgree, Unpause
<1> QED
  BY <1>3, <1>4 DEF GuardianInv

LEMMA ReaffirmInv ==
  ASSUME GuardianInv, NEW t \in Pauseable, NEW caller \in Accounts,
         ReaffirmPause(t, caller), UNCHANGED block
  PROVE  GuardianInv'
<1>1. block \in Nat /\ block + AutoExpire \in Nat
  BY GuardianAssumption DEF GuardianInv, GuardianTypeOK
<1>2. toggles' \in [Pauseable -> [count: Nat, last: Nat, endorsed: Nat]]
  BY <1>1 DEF GuardianInv, GuardianTypeOK, ReaffirmPause
<1>3. GuardianTypeOK'
  BY <1>1, <1>2 DEF GuardianInv, GuardianTypeOK, ReaffirmPause, ReaffirmedExpiry
<1>4. RecordsAgree'
  BY <1>1 DEF GuardianInv, GuardianTypeOK, RecordsAgree, ReaffirmPause, ReaffirmedExpiry
<1> QED
  BY <1>3, <1>4 DEF GuardianInv

LEMMA GuardianNextInv ==
  ASSUME GuardianInv, [GuardianNext]_gVars
  PROVE  GuardianInv'
<1>1. CASE UNCHANGED gVars
  BY <1>1 DEF GuardianInv, GuardianTypeOK, RecordsAgree
<1>2. CASE GuardianTick
  BY <1>2 DEF GuardianTick, Tick, GuardianInv, GuardianTypeOK, RecordsAgree
<1>3. ASSUME GuardianStep PROVE GuardianInv'
  <2>1. UNCHANGED block
    BY <1>3 DEF GuardianStep
  <2>2. PICK caller \in Accounts :
          \/ \E t \in Pauseable :
               Pause(t, caller) \/ Unpause(t, caller) \/ ReaffirmPause(t, caller)
          \/ \E next \in Incidents : SetIncidentState(next, caller)
          \/ ClearIncidentState(caller)
          \/ \E next \in Accounts : RotateGuardianRole(next, caller)
    BY <1>3 DEF GuardianStep
  <2>3. CASE \E t \in Pauseable :
               Pause(t, caller) \/ Unpause(t, caller) \/ ReaffirmPause(t, caller)
    BY <2>1, <2>3, PauseInv, UnpauseInv, ReaffirmInv
  <2>4. CASE \E next \in Incidents : SetIncidentState(next, caller)
    BY <2>1, <2>4 DEF SetIncidentState, GuardianInv, GuardianTypeOK, RecordsAgree
  <2>5. CASE ClearIncidentState(caller)
    BY <2>1, <2>5 DEF ClearIncidentState, GuardianInv, GuardianTypeOK, RecordsAgree, Incidents
  <2>6. CASE \E next \in Accounts : RotateGuardianRole(next, caller)
    BY <2>1, <2>6 DEF RotateGuardianRole, GuardianInv, GuardianTypeOK, RecordsAgree
  <2> QED
    BY <2>2, <2>3, <2>4, <2>5, <2>6
<1> QED
  BY <1>1, <1>2, <1>3 DEF GuardianNext

LEMMA GuardianInductive == GuardianSpec => []GuardianInv
<1>1. ClockInit /\ GuardianInit => GuardianInv
  BY GuardianInitInv
<1>2. GuardianInv /\ [GuardianNext]_gVars => GuardianInv'
  BY GuardianNextInv
<1> QED
  BY <1>1, <1>2, PTL DEF GuardianSpec, GuardianNext

-----------------------------------------------------------------------------
(* Types, and the guardian is never governance itself, whoever is rotated   *)
(* in (EmergencyGuardian.sol, constructor and rotateGuardianRole).          *)
THEOREM GuardianTypeCorrect == GuardianSpec => []GuardianTypeOK
BY GuardianInductive, PTL DEF GuardianInv

(* A pause never outlasts AutoExpire from the last act that set or extended *)
(* it, for every expiry and any number of reaffirmations.                   *)
THEOREM PausesExpire == GuardianSpec => []PauseBounded
<1>1. GuardianInv => PauseBounded
  BY GuardianAssumption
     DEF GuardianInv, GuardianTypeOK, RecordsAgree, PauseBounded, IsPaused
<1> QED
  BY <1>1, GuardianInductive, PTL

(* Toggles of one type are RateLimit apart whoever makes them.              *)
THEOREM TogglesRateLimited == GuardianSpec => ToggleRate
<1>1. GuardianInv /\ [GuardianNext]_gVars =>
        [\A t \in Pauseable :
           toggles'[t].count # toggles[t].count =>
             toggles[t].last = 0 \/ block >= toggles[t].last + RateLimit]_gVars
  <2> SUFFICES ASSUME GuardianInv, GuardianNext, NEW t \in Pauseable,
                      toggles'[t].count # toggles[t].count
               PROVE  toggles[t].last = 0 \/ block >= toggles[t].last + RateLimit
    OBVIOUS
  <2>1. PICK caller \in Accounts, u \in Pauseable :
          Pause(u, caller) \/ Unpause(u, caller) \/ ReaffirmPause(u, caller)
    BY DEF GuardianNext, GuardianStep, GuardianTick, SetIncidentState, ClearIncidentState,
           RotateGuardianRole
  <2>2. u = t
    BY <2>1 DEF Pause, Unpause, ReaffirmPause, GuardianInv, GuardianTypeOK
  <2>3. ~ReaffirmPause(t, caller)
    BY DEF ReaffirmPause, GuardianInv, GuardianTypeOK
  <2>4. ~RateLimited(t)
    BY <2>1, <2>2, <2>3 DEF Pause, Unpause
  <2> QED
    BY <2>4, GuardianAssumption DEF RateLimited, GuardianInv, GuardianTypeOK, RecordsAgree
<1> QED
  BY <1>1, GuardianInductive, PTL DEF GuardianSpec, GuardianNext, ToggleRate

(* Only a toggle starts a pause: a pause that ran out is never revived by   *)
(* governance, by a rotation or by a later block.                           *)
THEOREM PausesStartedByToggles == GuardianSpec => OnlyTogglesPause
<1>1. GuardianInv /\ [GuardianNext]_gVars =>
        [\A t \in Pauseable :
           ~IsPaused(t) /\ IsPaused(t)' => toggles'[t].count # toggles[t].count]_gVars
  <2> SUFFICES ASSUME GuardianInv, GuardianNext, NEW t \in Pauseable,
                      ~IsPaused(t), IsPaused(t)'
               PROVE  toggles'[t].count # toggles[t].count
    OBVIOUS
  <2>1. ~GuardianTick
    BY DEF GuardianTick, Tick, IsPaused, GuardianInv, GuardianTypeOK
  <2>2. GuardianStep /\ UNCHANGED block
    BY <2>1 DEF GuardianNext, GuardianStep
  <2>3. PICK caller \in Accounts, u \in Pauseable :
          Pause(u, caller) \/ Unpause(u, caller) \/ ReaffirmPause(u, caller)
    BY <2>2 DEF GuardianStep, SetIncidentState, ClearIncidentState, RotateGuardianRole, IsPaused
  <2>4. CASE u # t
    BY <2>2, <2>3, <2>4 DEF Pause, Unpause, ReaffirmPause, IsPaused, GuardianInv, GuardianTypeOK
  <2>5. CASE u = t
    <3>1. Pause(t, caller)
      BY <2>3, <2>5 DEF Unpause, ReaffirmPause, IsPaused
    <3> QED
      BY <3>1 DEF Pause, GuardianInv, GuardianTypeOK
  <2> QED
    BY <2>4, <2>5
<1> QED
  BY <1>1, GuardianInductive, PTL DEF GuardianSpec, GuardianNext, OnlyTogglesPause

(* Together: a pause is always the guardian's own act, and its acts are     *)
(* spaced, whatever happens in between.                                     *)
THEOREM PausesDisciplined == GuardianSpec => PauseDiscipline
BY TogglesRateLimited, PausesStartedByToggles DEF PauseDiscipline

HIDE DEF gVars, guardianVars

-----------------------------------------------------------------------------
(* RiskOracle: what the bitmap vouches for.                                 *)

rkVars == <<block, guardianVars, riskVars>>

(* What ties the feed's own record of the sequencer to its history: it says *)
(* up since the last block of the last outage, or later.                    *)
OutageKnown ==
  /\ block \in Nat /\ outage \in Nat
  /\ feed \in [positive : BOOLEAN, updated : Nat]
  /\ uptime \in [up : BOOLEAN, started : Nat]
  /\ uptime.up => outage <= uptime.started
  /\ unread \subseteq ReadContracts

LEMMA OutageInit == ClockInit /\ RiskInit => OutageKnown
BY DEF ClockInit, RiskInit, OutageKnown

LEMMA OutageFeeds ==
  ASSUME OutageKnown, FeedsStep, UNCHANGED block
  PROVE  OutageKnown'
<1>1. CASE UpdateFeed
  BY <1>1 DEF UpdateFeed, OutageKnown
<1>2. CASE SwitchSequencer
  BY <1>2 DEF SwitchSequencer, OutageKnown
<1>3. CASE MoveNav \/ TradeOnCurve
  BY <1>3 DEF MoveNav, TradeOnCurve, OutageKnown
<1>4. CASE BreakReads
  BY <1>4 DEF BreakReads, OutageKnown
<1> QED
  BY <1>1, <1>2, <1>3, <1>4 DEF FeedsStep

LEMMA OutageNext ==
  ASSUME OutageKnown, [RiskNext]_rkVars
  PROVE  OutageKnown'
<1>1. CASE FeedsStep /\ UNCHANGED block
  BY <1>1, OutageFeeds
<1>2. CASE UNCHANGED <<block, feedVars>>
  BY <1>2 DEF feedVars, OutageKnown
<1>3. CASE Tick /\ FeedsTick
  BY <1>3 DEF Tick, FeedsTick, OutageKnown
<1> QED
  BY <1>1, <1>2, <1>3 DEF RiskNext, rkVars, riskVars, GuardianStep, HealthStep

-----------------------------------------------------------------------------
(* What each clear bit says of its source.                                  *)

LEMMA ClearBits ==
  ASSUME ValidateLiveStateBitmap
  PROVE  /\ "CONFIG" \notin unread /\ ~MorphoMissing
         /\ ~ChainlinkStale /\ ~SequencerDownOrGrace /\ ~NavMissing
         /\ GuardianBits \cap RiskUpHardBlock = {}
BY DEF ValidateLiveStateBitmap, ComputeStateBitmap, RiskUpHardBlock

LEMMA ClearGuardian ==
  ASSUME "GUARDIAN" \notin unread, GuardianBits \cap RiskUpHardBlock = {}
  PROVE  /\ \A u \in Pauseable : ~IsPaused(u)
         /\ incidentState \notin {"INVESTIGATING", "MITIGATING"}
BY DEF GuardianBits, RiskUpHardBlock

LEMMA ClearReads ==
  ASSUME OutageKnown, "CONFIG" \notin unread, "GUARDIAN" \notin unread,
         ~MorphoMissing, ~ChainlinkStale, ~SequencerDownOrGrace, ~NavMissing
  PROVE  unread \subseteq {"CURVE"} \cup (IF Heartbeat = 0 THEN {"FEED"} ELSE {})
<1>1. "MORPHO" \notin unread /\ "ORACLE" \notin unread
  BY DEF MorphoMissing, OraclePrice, Answered
<1>2. "SEQUENCER" \notin unread /\ "VAULT" \notin unread
  BY DEF SequencerDownOrGrace, NavMissing
<1>3. Heartbeat # 0 => "FEED" \notin unread
  BY DEF ChainlinkStale
<1> QED
  BY <1>1, <1>2, <1>3 DEF OutageKnown, ReadContracts

LEMMA ClearFeeds ==
  ASSUME OutageKnown, ~ChainlinkStale, ~SequencerDownOrGrace
  PROVE  /\ uptime.up /\ block >= outage + Grace
         /\ Heartbeat # 0 => feed.positive /\ block - feed.updated <= Heartbeat
<1>1. Grace \in Nat /\ Heartbeat \in Nat
  BY RiskAssumption
<1>2. uptime.up /\ block >= uptime.started + Grace
  BY <1>1 DEF SequencerDownOrGrace, OutageKnown
<1>3. Heartbeat # 0 => feed.positive /\ block <= feed.updated + Heartbeat
  BY <1>1 DEF ChainlinkStale, OutageKnown
<1> QED
  BY <1>1, <1>2, <1>3 DEF OutageKnown

(* Risk may rise only Grace after the last outage of the sequencer, on a    *)
(* recent price, under no pause and no open incident, with every source but *)
(* the pool answering (LoopRiskOracleAdapter.computeStateBitmap together    *)
(* with LoopExecutorBase._requireNotPaused).                                *)
THEOREM RiskRisesOnSoundSources == RiskSpec => []RiskRisesWhenSound
<1>1. ClockInit /\ RiskInit => OutageKnown
  BY OutageInit
<1>2. OutageKnown /\ [RiskNext]_rkVars => OutageKnown'
  BY OutageNext
<1>3. OutageKnown => RiskRisesWhenSound
  BY ClearBits, ClearGuardian, ClearReads, ClearFeeds
  DEF RiskRisesWhenSound, RiskMayRise, RequireNotPaused
<1> QED
  BY <1>1, <1>2, <1>3, PTL DEF RiskSpec, rkVars

-----------------------------------------------------------------------------
(* What a position owes, as the adapter and as Morpho round it.             *)

(* Shares bought with a loan, rounded up, stay covered by the assets, each   *)
(* of which VirtualShares shares may stand for.                             *)
LEMMA SharesBought ==
  ASSUME NEW A \in Nat, NEW V \in Nat \ {0}, NEW S \in Nat, NEW a \in Nat, S <= A * V
  PROVE  /\ (a * (S + V) + A) \div (A + 1) \in Nat
         /\ S + (a * (S + V) + A) \div (A + 1) <= (A + a) * V
<1>1. S + V <= (A + 1) * V
  OBVIOUS
<1>2. a * (S + V) <= (a * V) * (A + 1)
  <2>1. (S + V) * a <= ((A + 1) * V) * a
    BY <1>1, Monotone
  <2>2. ((A + 1) * V) * a = (a * V) * (A + 1)
    OBVIOUS
  <2> QED
    BY <2>1, <2>2
<1> DEFINE n == a * (S + V) + A
           w == a * V
<1>3. n \in Nat /\ w \in Nat /\ A + 1 \in Nat \ {0}
  OBVIOUS
<1>4. n < (w + 1) * (A + 1)
  BY <1>2
<1> HIDE DEF n
<1>5. n \div (A + 1) \in Nat /\ n \div (A + 1) < w + 1
  BY <1>3, <1>4, DivBounds, DivBelow
<1>6. (A + a) * V = A * V + w
  OBVIOUS
<1> HIDE DEF w
<1>7. n \div (A + 1) \in Nat /\ S + n \div (A + 1) <= (A + a) * V
  <2>1. A * V \in Nat
    OBVIOUS
  <2> DEFINE q == n \div (A + 1)
  <2>2. q \in Nat /\ q < w + 1
    BY <1>5
  <2> HIDE DEF q
  <2>3. S + q <= A * V + w
    BY <1>3, <2>1, <2>2
  <2>4. S + q <= (A + a) * V
    BY <1>6, <2>3
  <2> QED
    BY <2>2, <2>4 DEF q
<1> QED
  BY <1>7 DEF n

(* Shares given back with a repayment, rounded down, leave the rest covered;*)
(* who gives back no more than there is repays no more than is owed.        *)
LEMMA SharesGivenBack ==
  ASSUME NEW A \in Nat, NEW V \in Nat \ {0}, NEW S \in Nat, NEW a \in Nat, S <= A * V,
         (a * (S + V)) \div (A + 1) <= S
  PROVE  /\ (a * (S + V)) \div (A + 1) \in Nat /\ a <= A
         /\ S - (a * (S + V)) \div (A + 1) <= (A - a) * V
<1> DEFINE n == a * (S + V)
           q == n \div (A + 1)
           T == S - (A - a) * V
<1>1. n \in Nat /\ A + 1 \in Nat \ {0} /\ T \in Int /\ S + V \in Nat /\ V \in Nat
  OBVIOUS
<1>2. q \in Nat
  BY <1>1, DivBounds
<1>3. a <= A
  <2>1. ASSUME a >= A + 1 PROVE FALSE
    <3>1. (A + 1) * (S + V) <= a * (S + V)
      BY <1>1, <2>1, Monotone
    <3>2. (S + V) * (A + 1) <= n
      BY <3>1
    <3>3. S + V <= q
      BY <1>1, <3>2, DivAbove
    <3> HIDE DEF q
    <3> QED
      BY <1>2, <3>3 DEF q
  <2> QED
    BY <2>1
<1>4. T * (A + 1) <= n
  <2>1. S * (A + 1 - a) <= (A * V) * (A + 1 - a)
    BY <1>3, Monotone
  <2>2. n - T * (A + 1) = (A * V) * (A + 1 - a) - S * (A + 1 - a)
    OBVIOUS
  <2> QED
    BY <2>1, <2>2
<1>5. T <= q
  BY <1>1, <1>4, DivAbove
<1> QED
  BY <1>2, <1>3, <1>5

(* A debt rounded up by the adapter's own ratio covers Morpho's.            *)
LEMMA CeilingsCompare ==
  ASSUME NEW A \in Nat, NEW V \in Nat \ {0}, NEW S \in Nat \ {0}, NEW s \in Nat, S <= A * V
  PROVE  /\ (s * A + S - 1) \div S \in Nat /\ (s * (A + 1) + S + V - 1) \div (S + V) \in Nat
         /\ (s * (A + 1) + S + V - 1) \div (S + V) <= (s * A + S - 1) \div S
<1> DEFINE q == (s * A + S - 1) \div S
           r == (s * (A + 1) + S + V - 1) \div (S + V)
<1>1. s * A \in Nat /\ s * (A + 1) \in Nat /\ A # 0
  OBVIOUS
<1>2. /\ s * A + S - 1 \in Nat /\ s * (A + 1) + S + V - 1 \in Nat /\ S + V \in Nat \ {0}
  BY <1>1
<1>3. q \in Nat /\ r \in Nat /\ s * A + S - 1 < q * S + S
  BY <1>2, DivBounds
<1> HIDE DEF q
<1>4. s * A <= q * S
  <2>1. q * S \in Nat
    BY <1>3
  <2> QED
    BY <1>1, <1>3, <2>1
<1>5. q * V >= s
  <2>1. S * q <= (A * V) * q
    BY <1>3, Monotone
  <2>2. (q * V - s) * A >= 0
    <3>1. (q * V - s) * A = (A * V) * q - s * A
      BY <1>3
    <3>2. S * q = q * S
      BY <1>3
    <3> QED
      BY <1>1, <1>3, <1>4, <2>1, <3>1, <3>2
  <2>3. q * V - s >= 0
    BY <1>1, <1>3, <2>2, ProductSign
  <2> QED
    BY <1>3, <2>3
<1>6. s * (A + 1) <= q * (S + V)
  <2>1. s * (A + 1) = s * A + s /\ q * (S + V) = q * S + q * V
    BY <1>3
  <2>2. q * S \in Nat /\ q * V \in Nat
    BY <1>3
  <2> QED
    BY <1>1, <1>4, <1>5, <2>1, <2>2
<1>7. s * (A + 1) + S + V - 1 < (q + 1) * (S + V)
  <2>1. (q + 1) * (S + V) = q * (S + V) + S + V /\ q * (S + V) \in Nat
    BY <1>3
  <2> QED
    BY <1>1, <1>6, <2>1
<1>8. r < q + 1
  BY <1>2, <1>3, <1>7, DivBelow
<1> HIDE DEF r
<1>9. r <= q
  BY <1>3, <1>8
<1> QED
  BY <1>3, <1>9 DEF q, r

(* The shares in the market are covered by its assets, the owner's are      *)
(* among them.                                                              *)
SharesCovered ==
  /\ RiskTypeOK /\ block \in Nat
  /\ position.shares <= market.shares
  /\ market.shares <= market.assets * VirtualShares

LEMMA CoveredInit ==
  ASSUME ClockInit, RiskInit
  PROVE  SharesCovered
BY RiskAssumption DEF ClockInit, RiskInit, SharesCovered, RiskTypeOK, RiskAssumption

LEMMA TradeCovered ==
  ASSUME SharesCovered, NEW assets \in Nat, NEW shares \in Nat, NEW mine \in BOOLEAN,
         Trade(assets, shares, mine), UNCHANGED <<block, feedVars>>,
         shares <= assets * VirtualShares,
         mine => position.shares + shares >= market.shares,
         ~mine => position.shares <= shares
  PROVE  SharesCovered'
<1>1. /\ market \in [assets : Nat, shares : Nat, pending : Nat, price : Prices]
      /\ position \in [shares : Nat, collateral : Collaterals]
      /\ position.shares <= market.shares
  BY DEF SharesCovered, RiskTypeOK
<1>2. /\ market' \in [assets : Nat, shares : Nat, pending : Nat, price : Prices]
      /\ market'.assets = assets /\ market'.shares = shares
  BY <1>1 DEF Trade
<1>3. /\ position'.shares = position.shares + (IF mine THEN shares - market.shares ELSE 0)
      /\ position'.collateral = position.collateral /\ DOMAIN position' = {"shares", "collateral"}
      /\ position' = [position EXCEPT !.shares = position'.shares]
  BY <1>1 DEF Trade
<1>4. position'.shares \in Nat /\ position'.shares <= shares
  <2>1. CASE mine
    BY <1>1, <1>3, <2>1
  <2>2. CASE ~mine
    BY <1>1, <1>3, <2>2
  <2> QED
    BY <2>1, <2>2
<1>5. position' \in [shares : Nat, collateral : Collaterals]
  BY <1>1, <1>3, <1>4
<1> QED
  BY <1>2, <1>4, <1>5 DEF SharesCovered, RiskTypeOK, feedVars

LEMMA AccruedCovers ==
  ASSUME SharesCovered
  PROVE  /\ Accrued \in Nat /\ VirtualShares \in Nat \ {0} /\ market.shares \in Nat
         /\ position.shares \in Nat /\ market.assets \in Nat
         /\ market.shares <= Accrued * VirtualShares
<1>1. /\ market.assets \in Nat /\ market.shares \in Nat /\ market.pending \in Nat
      /\ VirtualShares \in Nat \ {0} /\ position.shares \in Nat
      /\ market.shares <= market.assets * VirtualShares
  BY RiskAssumption DEF SharesCovered, RiskTypeOK, RiskAssumption
<1>2. market.assets * VirtualShares <= (market.assets + market.pending) * VirtualShares
  BY <1>1, Monotone
<1>3. market.assets * VirtualShares \in Nat /\ (market.assets + market.pending) * VirtualShares \in Nat
  BY <1>1
<1> QED
  BY <1>1, <1>2, <1>3 DEF Accrued

LEMMA BorrowCovered ==
  ASSUME SharesCovered, NEW assets \in Nat, NEW mine \in BOOLEAN, Borrow(assets, mine),
         UNCHANGED <<block, feedVars>>
  PROVE  SharesCovered'
<1>1. /\ SharesUp(assets) \in Nat
      /\ market.shares + SharesUp(assets) <= (Accrued + assets) * VirtualShares
  BY AccruedCovers, SharesBought DEF SharesUp
<1>2. Trade(Accrued + assets, market.shares + SharesUp(assets), mine)
  BY DEF Borrow
<1>3. position.shares <= market.shares
  BY DEF SharesCovered
<1>4. Accrued + assets \in Nat /\ market.shares + SharesUp(assets) \in Nat
  BY <1>1, AccruedCovers
<1>5. /\ mine => position.shares + (market.shares + SharesUp(assets)) >= market.shares
      /\ ~mine => position.shares <= market.shares + SharesUp(assets)
  BY <1>1, <1>3, AccruedCovers
<1> QED
  BY <1>1, <1>2, <1>4, <1>5, TradeCovered

LEMMA RepayCovered ==
  ASSUME SharesCovered, NEW assets \in Nat, NEW mine \in BOOLEAN, Repay(assets, mine),
         UNCHANGED <<block, feedVars>>
  PROVE  SharesCovered'
<1>1. position.shares <= market.shares
  BY DEF SharesCovered
<1>2. SharesDown(assets) \in Int
  <2>1. assets * (market.shares + VirtualShares) \in Nat /\ Accrued + 1 \in Nat \ {0}
    BY AccruedCovers
  <2> QED
    BY <2>1, DivBounds DEF SharesDown
<1>3. /\ SharesDown(assets) <= market.shares
      /\ mine => SharesDown(assets) <= position.shares
      /\ ~mine => SharesDown(assets) <= market.shares - position.shares
  BY <1>1, <1>2, AccruedCovers DEF Repay
<1>4. /\ SharesDown(assets) \in Nat /\ assets <= Accrued
      /\ market.shares - SharesDown(assets) <= (Accrued - assets) * VirtualShares
  BY <1>3, AccruedCovers, SharesGivenBack DEF SharesDown
<1>5. Trade(Accrued - assets, market.shares - SharesDown(assets), mine)
  BY <1>4, AccruedCovers DEF Repay
<1>6. Accrued - assets \in Nat /\ market.shares - SharesDown(assets) \in Nat
  BY <1>3, <1>4, AccruedCovers
<1>7. /\ mine => position.shares + (market.shares - SharesDown(assets)) >= market.shares
      /\ ~mine => position.shares <= market.shares - SharesDown(assets)
  BY <1>3, <1>4, AccruedCovers
<1> QED
  BY <1>4, <1>5, <1>6, <1>7, TradeCovered

LEMMA HealthCovered ==
  ASSUME SharesCovered, HealthStep, UNCHANGED block
  PROVE  SharesCovered'
<1>1. UNCHANGED <<block, feedVars>>
  BY DEF HealthStep
<1>2. ASSUME NEW assets \in 1 .. MaxAssets, NEW mine \in BOOLEAN,
             Borrow(assets, mine) \/ Repay(assets, mine)
      PROVE  SharesCovered'
  BY <1>1, <1>2, BorrowCovered, RepayCovered, RiskAssumption DEF RiskAssumption
<1>3. CASE Accrue
  <2>1. Trade(Accrued, market.shares, FALSE)
    BY <1>3 DEF Accrue
  <2>2. position.shares <= market.shares
    BY DEF SharesCovered
  <2> QED
    BY <1>1, <2>1, <2>2, AccruedCovers, TradeCovered
<1>4. CASE EarnInterest
  <2>1. /\ market'.assets = market.assets /\ market'.shares = market.shares
        /\ market' \in [assets : Nat, shares : Nat, pending : Nat, price : Prices]
        /\ position' = position
    BY <1>4 DEF EarnInterest, SharesCovered, RiskTypeOK
  <2> QED
    BY <1>1, <2>1 DEF SharesCovered, RiskTypeOK, feedVars
<1>5. CASE MovePrice
  <2>1. /\ market'.assets = market.assets /\ market'.shares = market.shares
        /\ market' \in [assets : Nat, shares : Nat, pending : Nat, price : Prices]
        /\ position' = position
    BY <1>5 DEF MovePrice, SharesCovered, RiskTypeOK
  <2> QED
    BY <1>1, <2>1 DEF SharesCovered, RiskTypeOK, feedVars
<1> QED
  BY <1>2, <1>3, <1>4, <1>5 DEF HealthStep

LEMMA CoveredNext ==
  ASSUME SharesCovered, [RiskNext]_rkVars
  PROVE  SharesCovered'
<1>1. CASE HealthStep /\ UNCHANGED block
  BY <1>1, HealthCovered
<1>2. CASE FeedsStep /\ UNCHANGED block
  <2>1. UNCHANGED <<market, position>>
    BY <1>2 DEF FeedsStep, healthVars
  <2>2. /\ feed' \in [positive : BOOLEAN, updated : Nat]
        /\ uptime' \in [up : BOOLEAN, started : Nat] /\ outage' \in Nat
        /\ nav' \in Navs /\ deep' \in BOOLEAN /\ unread' \subseteq ReadContracts
    <3> USE DEF SharesCovered, RiskTypeOK
    <3>1. CASE UpdateFeed
      BY <3>1 DEF UpdateFeed
    <3>2. CASE SwitchSequencer
      BY <3>2 DEF SwitchSequencer
    <3>3. CASE MoveNav \/ TradeOnCurve
      BY <3>3 DEF MoveNav, TradeOnCurve
    <3>4. CASE BreakReads
      <4>1. unread' \subseteq ReadContracts
        BY <3>4 DEF BreakReads
      <4>2. UNCHANGED <<feed, uptime, nav, deep, outage>>
        BY <3>4 DEF BreakReads
      <4> QED
        BY <4>1, <4>2
    <3> QED
      BY <1>2, <3>1, <3>2, <3>3, <3>4 DEF FeedsStep
  <2> QED
    BY <1>2, <2>1, <2>2 DEF SharesCovered, RiskTypeOK
<1>3. CASE UNCHANGED <<block, riskVars>>
  BY <1>3 DEF riskVars, feedVars, healthVars, SharesCovered, RiskTypeOK
<1>4. CASE Tick /\ FeedsTick
  <2>1. block' \in Nat /\ outage' \in Nat /\ UNCHANGED <<feed, uptime, nav, deep, unread, healthVars>>
    BY <1>4 DEF Tick, FeedsTick, SharesCovered, RiskTypeOK
  <2> QED
    BY <2>1 DEF healthVars, SharesCovered, RiskTypeOK
<1> QED
  BY <1>1, <1>2, <1>3, <1>4 DEF RiskNext, rkVars, GuardianStep

(* Once Morpho has accrued its interest the adapter's debt covers what      *)
(* Morpho asks for, and a position Morpho may liquidate is never reported   *)
(* at a distance, after any borrowing, repaying and accruing                *)
(* (LoopRiskOracleAdapter.readPositionState, _debtAssetsFromShares).        *)
THEOREM DebtCoversRepayment == RiskSpec => []DebtNeverUnderstated
<1>1. ClockInit /\ RiskInit => SharesCovered
  BY CoveredInit
<1>2. SharesCovered /\ [RiskNext]_rkVars => SharesCovered'
  BY CoveredNext
<1>3. ASSUME SharesCovered PROVE DebtNeverUnderstated
  <2> SUFFICES ASSUME unread = {}, market.pending = 0, position.shares # 0
               PROVE  /\ Debt(position.shares) >= AssetsUp(position.shares)
                      /\ ~Healthy => LiquidationDistance = 0
    BY <1>3 DEF DebtNeverUnderstated, SharesCovered
  <2> DEFINE owed == Debt(position.shares)
             asked == AssetsUp(position.shares)
             worth == ((position.collateral * market.price) \div Wad) * Lltv
  <2>1. /\ Accrued = market.assets /\ market.assets \in Nat /\ market.shares \in Nat \ {0}
        /\ position.shares \in Nat /\ VirtualShares \in Nat \ {0}
        /\ market.shares <= market.assets * VirtualShares
    BY <1>3, AccruedCovers DEF SharesCovered, Accrued
  <2>2. /\ owed = (position.shares * market.assets + market.shares - 1) \div market.shares
        /\ asked = (position.shares * (market.assets + 1) + market.shares + VirtualShares - 1)
                     \div (market.shares + VirtualShares)
    BY <2>1 DEF Debt, AssetsUp
  <2> HIDE DEF owed, asked, worth
  <2>3. owed \in Nat /\ asked \in Nat /\ asked <= owed
    BY <2>1, <2>2, CeilingsCompare
  <2>4. worth \in Nat /\ Wad \in Nat \ {0}
    <3>1. /\ position.collateral \in Nat /\ market.price \in Nat /\ Wad \in Nat \ {0} /\ Lltv \in Nat
      <4>1. market.price \in Prices /\ position.collateral \in Collaterals
        BY <1>3 DEF SharesCovered, RiskTypeOK
      <4>2. Prices \subseteq Nat /\ Collaterals \subseteq Nat
        BY RiskAssumption DEF RiskAssumption
      <4>3. Wad \in Nat \ {0} /\ Lltv \in Nat
        BY RiskAssumption DEF RiskAssumption
      <4>4. position.collateral \in Nat /\ market.price \in Nat
        BY <4>1, <4>2
      <4> QED
        BY <4>3, <4>4
    <3>2. position.collateral * market.price \in Nat
      BY <3>1
    <3>3. (position.collateral * market.price) \div Wad \in Nat
      BY <3>1, <3>2, DivBounds
    <3> QED
      BY <3>1, <3>3 DEF worth
  <2>5. HealthFactor = worth \div owed
    BY SMT DEF worth, owed, HealthFactor, CollateralValue, ReadCollateral, ReadDebt, OraclePrice, Answered
  <2>6. Healthy <=> worth \div Wad >= asked
    BY DEF Healthy, worth, asked
  <2>7. ASSUME ~Healthy PROVE LiquidationDistance = 0
    <3>1. worth \div Wad \in Nat /\ worth \div Wad < owed
      <4>1. worth \div Wad \in Nat
        BY <2>4, DivBounds
      <4> QED
        BY <2>3, <2>6, <2>7, <4>1
    <3>2. worth < owed * Wad
      <4>1. worth < (worth \div Wad) * Wad + Wad
        BY <2>4, DivBounds
      <4>2. (worth \div Wad + 1) * Wad <= owed * Wad
        BY <2>3, <2>4, <3>1, Monotone
      <4>3. (worth \div Wad + 1) * Wad = (worth \div Wad) * Wad + Wad
        BY <2>4, <3>1
      <4>4. owed * Wad \in Nat /\ (worth \div Wad) * Wad \in Nat
        BY <2>3, <2>4, <3>1
      <4> QED
        BY <2>4, <4>1, <4>2, <4>3, <4>4
    <3>3. owed \in Nat \ {0}
      BY <2>3, <3>1
    <3>4. worth < Wad * owed
      BY <2>3, <2>4, <3>2
    <3>5. worth \div owed < Wad
      BY <2>4, <3>3, <3>4, DivBelow
    <3>6. worth \div owed \in Nat
      BY <2>4, <3>3, DivBounds
    <3> QED
      BY <2>4, <2>5, <3>5, <3>6 DEF LiquidationDistance
  <2> QED
    BY <2>3, <2>7 DEF owed, asked
<1> QED
  BY <1>1, <1>2, <1>3, PTL DEF RiskSpec, rkVars

-----------------------------------------------------------------------------
(* The parts on the chain they share.                                       *)

(* The sequencer is down only where its feed may move.                      *)
UpElsewhere == part # "risk" => uptime.up

LEMMA UpInvariant == MCSpec => []UpElsewhere
<1>1. MCInit => UpElsewhere
  BY DEF MCInit, RiskInit, UpElsewhere
<1>2. UpElsewhere /\ [MCNext]_vars => UpElsewhere'
  <2> SUFFICES ASSUME UpElsewhere, [MCNext]_vars PROVE UpElsewhere'
    OBVIOUS
  <2>1. CASE part' = part /\ (part = "risk" \/ uptime' = uptime)
    BY <2>1 DEF UpElsewhere
  <2>2. CASE PositionMoves
    BY <2>2 DEF PositionMoves, HealthStep, feedVars, UpElsewhere
  <2> QED
    BY <2>1, <2>2 DEF MCNext, vars, RegistryMoves, RolesMove, GuardianMoves, FeedsMove, TimePasses,
                      riskVars, feedVars
<1> QED
  BY <1>1, <1>2, PTL DEF MCSpec

(* Each step of the chain is a step of one part and a stutter of the others, *)
(* or a block passes for all.                                               *)
LEMMA PartsStep ==
  ASSUME UpElsewhere, [MCNext]_vars
  PROVE  /\ [RegistryNext]_registryState /\ [RolesNext]_rVars
         /\ [GuardianNext]_gVars /\ [RiskNext]_rkVars
<1> USE DEF RegistryNext, registryState, RolesNext, rVars, GuardianNext, gVars, RiskNext, rkVars
<1>1. CASE UNCHANGED vars
  BY <1>1 DEF vars
<1>2. CASE RegistryMoves
  BY <1>2 DEF RegistryMoves, RegistryStep
<1>3. CASE RolesMove
  BY <1>3 DEF RolesMove, RolesStep
<1>4. CASE GuardianMoves
  BY <1>4 DEF GuardianMoves, GuardianStep
<1>5. CASE FeedsMove
  BY <1>5 DEF FeedsMove, GuardianStep
<1>6. CASE PositionMoves
  BY <1>6 DEF PositionMoves
<1>7. CASE TimePasses
  <2>1. Tick /\ UNCHANGED <<registryVars, roleVars, guardianVars>>
    BY <1>7 DEF TimePasses
  <2>2. FeedsTick
    BY <1>7 DEF TimePasses, FeedsTick, UpElsewhere, riskVars, feedVars
  <2> QED
    BY <2>1, <2>2 DEF RegistryTick, RolesTick, GuardianTick
<1> QED
  BY <1>1, <1>2, <1>3, <1>4, <1>5, <1>6, <1>7 DEF MCNext

(* The chain of every part is a chain of each: what is proved of a part     *)
(* alone holds beside the others.                                           *)
THEOREM PartsKeepTheirSpecs == MCSpec => RegistrySpec /\ RolesSpec /\ GuardianSpec /\ RiskSpec
<1>1. MCInit => ClockInit /\ RegistryInit /\ RolesInit /\ GuardianInit /\ RiskInit
  BY DEF MCInit
<1>2. UpElsewhere /\ [MCNext]_vars =>
        /\ [RegistryNext]_registryState /\ [RolesNext]_rVars
        /\ [GuardianNext]_gVars /\ [RiskNext]_rkVars
  BY PartsStep
<1> QED
  BY <1>1, <1>2, UpInvariant, PTL
  DEF MCSpec, RegistrySpec, RegistryNext, registryState, RolesSpec, RolesNext, rVars,
      GuardianSpec, GuardianNext, gVars, RiskSpec, rkVars

(* Governance moves within its types and no venue's facts are trusted before *)
(* their own notice was served (LoopRegistry.applyBatchUpdate,              *)
(* queueExternalFingerprintUpdate, _setCriticalRole; EmergencyGuardian).    *)
THEOREM GovernanceAnnounced == MCSpec => []GovernedAsAnnounced
<1>1. RolesInv => RolesTypeOK
  BY DEF RolesInv
<1>2. RegistryTypeOK /\ VenuesAnnounced /\ RolesTypeOK /\ GuardianTypeOK => GovernedAsAnnounced
  BY DEF GovernedAsAnnounced, GovernanceTypeOK
<1> QED
  BY <1>1, <1>2, PartsKeepTheirSpecs, NoticeGiven, RolesInductive, GuardianTypeCorrect, PTL
=============================================================================
