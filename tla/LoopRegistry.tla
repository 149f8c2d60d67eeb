---------------------------- MODULE LoopRegistry ----------------------------
(***************************************************************************)
(* Configuration in contracts/v2/LoopRegistry.sol with its fingerprint     *)
(* subsystem LoopFingerprintRegistry: batches of operations that apply at  *)
(* once during bootstrap and through a delayed queue after it, and the     *)
(* fingerprints of external venues, queued with the same delay, that every *)
(* action is validated against.  One market; the sources whose level       *)
(* drifts; the critical roles are in CriticalRoles.  Every call here is the *)
(* registry owner's.                                                       *)
(***************************************************************************)
EXTENDS ChainClock, Sequences

CONSTANTS
  Sources,           \* the fingerprinted sources the market uses
  Venues, NoVenue,   \* addresses a source may point at, and the zero address
  Batches,           \* operation lists the owner may submit
  Views, FirstView,  \* what a venue may show: immutable facts (a fee tier, of the
                     \* flash pool), a level that drifts, whether it can be read
  RegistryDelay,     \* LoopV1Timelock.blocks()
  Restless,          \* bound: the venues that change what they show
  MaxVersion         \* bound: registry version

SourceIds == {"VAULT", "CURVE", "EXTERNAL"}
Operations ==
  [op: {"VENUE"}, source: Sources, venue: Venues \cup {NoVenue}]
    \cup [op: {"FINGERPRINT"}, source: Sources]
    \cup [op: {"FEE_TIER"}, value: Nat]
    \cup [op: {"UNKNOWN"}]

ASSUME RegistryAssumption ==
  /\ Sources \subseteq SourceIds
  /\ NoVenue \notin Venues /\ Restless \subseteq Venues
  /\ Batches \subseteq Seq(Operations) \ {<<>>}
  /\ Views \subseteq [shape: Nat, level: Nat, readable: BOOLEAN] /\ FirstView \in Views
  /\ RegistryDelay \in Nat \ {0} /\ MaxVersion \in Nat

VARIABLES
  config,       \* what batches write: version, venues, fee tier, fingerprints
  queues,       \* what waits: the pending batch, pending fingerprints
  gates,        \* bootstrapClosed and spendAllowlistEnforced
  settings,     \* set by direct calls, no batch and no version: whether there is a
                \* risk adapter and a freshness threshold for the price feed
  live,         \* what each venue shows now
  announced     \* history: the batch announced last and not yet applied or cancelled,
                \* and when each fingerprint was first queued

registryVars == <<config, queues, gates, settings, live, announced>>

Facts == [venue: Venues, shape: Nat, level: Nat]
NoFacts == [venue |-> NoVenue]
NoBatch == [ops |-> <<>>, version |-> 0, effectiveBlock |-> 0]
NoNotice == [ops |-> <<>>, version |-> 0, block |-> 0]
NoFingerprint == [facts |-> NoFacts, effectiveBlock |-> 0]

RegistryInit ==
  /\ config = [version |-> 0, venue |-> [s \in Sources |-> NoVenue], remembered |-> {},
               feeTier |-> 0, fingerprint |-> [s \in Sources |-> NoFacts]]
  /\ queues = [batch |-> NoBatch, fingerprint |-> [s \in Sources |-> NoFingerprint]]
  /\ gates = [bootstrapClosed |-> FALSE, allowlist |-> FALSE]
  /\ settings = [adapter |-> FALSE, freshness |-> FALSE]
  /\ live = [v \in Venues |-> FirstView]
  /\ announced = [batch |-> NoNotice, facts |-> {}]

-----------------------------------------------------------------------------
(* LoopFingerprintRegistry                                                  *)

Required(type) == IF type = "OPEN" THEN Sources \ {"CURVE"} ELSE Sources

ValidationEnabled == "EXTERNAL" \in Sources /\ config.venue["EXTERNAL"] # NoVenue

(* The reads of a venue that fail both queueing and validation.             *)
Readable(source) ==
  LET shown == live[config.venue[source]] IN
    /\ config.venue[source] # NoVenue
    /\ shown.readable
    /\ source = "VAULT" => shown.level # 0
    /\ source = "EXTERNAL" => shown.shape = config.feeTier

LiveFacts(source) ==
  LET venue == config.venue[source]
  IN [venue |-> venue, shape |-> live[venue].shape, level |-> live[venue].level]

(* Within MAX_TOLERANCE_STEP_BPS of the baseline.                           *)
WithinTolerance(baseline, level) ==
  IF baseline = 0 THEN level = 0
  ELSE LET delta == IF baseline > level THEN baseline - level ELSE level - baseline
       IN delta * 10000 <= baseline * 50

LevellessMatch(source) ==  \* mutant of Matches: the level is not compared
  LET fingerprint == config.fingerprint[source] IN
    /\ fingerprint # NoFacts
    /\ Readable(source)
    /\ fingerprint.venue = config.venue[source] /\ fingerprint.shape = LiveFacts(source).shape
Matches(source) ==
  LET fingerprint == config.fingerprint[source] IN
    /\ fingerprint # NoFacts
    /\ Readable(source)
    /\ fingerprint.venue = config.venue[source] /\ fingerprint.shape = LiveFacts(source).shape
    /\ WithinTolerance(fingerprint.level, LiveFacts(source).level)

(* validateExternalConfig, for an action of a type.                         *)
Validates(type) ==
  ValidationEnabled =>
    \A s \in Required(type) : config.venue[s] # NoVenue => Matches(s)

FirstAnnounced(source, facts) ==
  IF \E a \in announced.facts : a.source = source /\ a.facts = facts THEN announced.facts
  ELSE announced.facts \cup {[source |-> source, facts |-> facts, block |-> block]}

(* A queued fingerprint must show the configured venue as it is now.        *)
QueueExternalFingerprintUpdate(source) ==
  /\ source \in config.remembered
  /\ Readable(source)
  /\ queues' = [queues EXCEPT !.fingerprint[source] =
                  [facts |-> LiveFacts(source), effectiveBlock |-> block + RegistryDelay]]
  /\ announced' = [announced EXCEPT !.facts = FirstAnnounced(source, LiveFacts(source))]
  /\ UNCHANGED <<config, gates, settings, live>>

-----------------------------------------------------------------------------
(* Batches.  A configuration and its fingerprint queue pass through the     *)
(* operations as a pair; an operation that reverts leaves no pair at all.   *)

Dequeued(pending, source) == [pending EXCEPT ![source] = NoFingerprint]

Apply(op, pair) ==
  CASE op.op = "VENUE" ->
         [pair EXCEPT !.config.venue[op.source] = op.venue, !.config.remembered = @ \cup {op.source}]
    [] op.op = "FINGERPRINT" ->
         [pair EXCEPT !.config.fingerprint[op.source] = pair.pending[op.source].facts,
                      !.pending = Dequeued(@, op.source)]
    [] op.op = "FEE_TIER" -> [pair EXCEPT !.config.feeTier = op.value]

Applicable(op, pair) ==
  /\ op.op # "UNKNOWN"
  /\ op.op = "FINGERPRINT" =>
       /\ pair.pending[op.source].effectiveBlock # 0
       /\ block >= pair.pending[op.source].effectiveBlock

(* The pairs before and after each operation of the list.                   *)
Course(ops) ==
  LET run[i \in 0 .. Len(ops)] ==
        IF i = 0 THEN [config |-> config, pending |-> queues.fingerprint]
        ELSE IF Applicable(ops[i], run[i - 1]) THEN Apply(ops[i], run[i - 1]) ELSE run[i - 1]
  IN run

CommitBatch(ops, version, waiting) ==
  LET run == Course(ops) IN
    /\ \A i \in 1 .. Len(ops) : Applicable(ops[i], run[i - 1])
    /\ config' = [run[Len(ops)].config EXCEPT !.version = version]
    /\ queues' = [batch |-> waiting, fingerprint |-> run[Len(ops)].pending]

StaleVersion(version) == version >= config.version  \* mutant of NewVersion: an equal one passes
NewVersion(version) == version > config.version

SupersededBatch(ops, version) ==  \* mutant of QueuedBatch: the delay already served is kept
  [ops |-> ops, version |-> version,
   effectiveBlock |-> IF queues.batch # NoBatch THEN queues.batch.effectiveBlock
                      ELSE block + RegistryDelay]
QueuedBatch(ops, version) ==
  [ops |-> ops, version |-> version, effectiveBlock |-> block + RegistryDelay]

BatchUpdate(ops, version) ==
  /\ NewVersion(version)
  /\ IF ~gates.bootstrapClosed
     THEN CommitBatch(ops, version, queues.batch) /\ UNCHANGED announced
     ELSE /\ queues' = [queues EXCEPT !.batch = QueuedBatch(ops, version)]
          /\ announced' = [announced EXCEPT !.batch =
                             [ops |-> ops, version |-> version, block |-> block]]
          /\ UNCHANGED config
  /\ UNCHANGED <<gates, settings, live>>

ApplyBatchUpdate(ops) ==
  /\ gates.bootstrapClosed
  /\ queues.batch.effectiveBlock # 0
  /\ block >= queues.batch.effectiveBlock
  /\ ops = queues.batch.ops
  /\ NewVersion(queues.batch.version)
  /\ CommitBatch(ops, queues.batch.version, NoBatch)
  /\ announced' = [announced EXCEPT !.batch = NoNotice]
  /\ UNCHANGED <<gates, settings, live>>

CancelPendingBatch ==
  /\ queues.batch.effectiveBlock # 0
  /\ queues' = [queues EXCEPT !.batch = NoBatch]
  /\ announced' = [announced EXCEPT !.batch = NoNotice]
  /\ UNCHANGED <<config, gates, settings, live>>

CloseBootstrap ==
  /\ ~gates.bootstrapClosed
  /\ gates' = [gates EXCEPT !.bootstrapClosed = TRUE]
  /\ UNCHANGED <<config, queues, settings, live, announced>>

SetSpendAllowlistEnforced(enforced) ==
  /\ ~(gates.bootstrapClosed /\ ~enforced)
  /\ gates' = [gates EXCEPT !.allowlist = enforced]
  /\ UNCHANGED <<config, queues, settings, live, announced>>

(* Two slots that readiness asks for and that no timelock guards: the owner *)
(* may set them to zero at any time, under the version there is.            *)
SetLoopRiskOracleAdapter(registered) ==
  /\ settings' = [settings EXCEPT !.adapter = registered]
  /\ UNCHANGED <<config, queues, gates, live, announced>>

SetSourceFreshnessThreshold(nonZero) ==
  /\ settings' = [settings EXCEPT !.freshness = nonZero]
  /\ UNCHANGED <<config, queues, gates, live, announced>>

(* assertProductionReadiness.  Its other conjuncts read slots that only     *)
(* batches write (market and its parameters, executors, spenders, evidence  *)
(* sets) and roles that no call sets to zero once they are held.            *)
Guarded ==
  /\ gates.bootstrapClosed /\ gates.allowlist
  /\ Validates("OPEN") /\ Validates("EXIT")
ProductionReady == settings.adapter /\ settings.freshness /\ Guarded

(* The venues, outside the protocol, change what they show.                 *)
VenueChanges(venue) ==
  /\ \E view \in Views : live' = [live EXCEPT ![venue] = view]
  /\ UNCHANGED <<config, queues, gates, settings, announced>>

Proposed == {config.version, config.version + 1} \cap (0 .. MaxVersion)   \* bound

RegistryStep ==
  /\ \/ \E ops \in Batches, version \in Proposed : BatchUpdate(ops, version)
     \/ \E ops \in Batches : ApplyBatchUpdate(ops)
     \/ CancelPendingBatch \/ CloseBootstrap
     \/ \E enforced \in BOOLEAN : SetSpendAllowlistEnforced(enforced)
     \/ \E registered \in BOOLEAN : SetLoopRiskOracleAdapter(registered)
     \/ \E nonZero \in BOOLEAN : SetSourceFreshnessThreshold(nonZero)
     \/ \E s \in Sources : QueueExternalFingerprintUpdate(s)
     \/ \E venue \in Restless : VenueChanges(venue)
  /\ UNCHANGED block

RegistryTick == Tick /\ UNCHANGED registryVars

RegistrySpec ==
  ClockInit /\ RegistryInit /\ [][RegistryStep \/ RegistryTick]_<<block, registryVars>>

-----------------------------------------------------------------------------
(* Properties *)

(* Types, and a fingerprint waits with its delay or not at all.             *)
RegistryTypeOK ==
  /\ config \in [version: Nat, venue: [Sources -> Venues \cup {NoVenue}],
                 remembered: SUBSET Sources, feeTier: Nat,
                 fingerprint: [Sources -> Facts \cup {NoFacts}]]
  /\ queues.batch \in [ops: Batches \cup {<<>>}, version: Nat, effectiveBlock: Nat]
  /\ queues.fingerprint \in
       [Sources -> [facts: Facts \cup {NoFacts}, effectiveBlock: Nat]]
  /\ \A s \in Sources :
       LET pending == queues.fingerprint[s]
       IN (pending.facts = NoFacts <=> pending.effectiveBlock = 0)
            /\ (pending.facts # NoFacts => s \in config.remembered)
  /\ gates \in [bootstrapClosed: BOOLEAN, allowlist: BOOLEAN]
  /\ settings \in [adapter: BOOLEAN, freshness: BOOLEAN]
  /\ live \in [Venues -> Views]

(* Every digest binds the registry's version: what batches write never      *)
(* changes under one, and a version never comes back.  (The settings do     *)
(* change under one.)                                                       *)
VersionBindsConfig ==
  [][config' # config => config'.version > config.version]_<<block, registryVars>>

(* Once bootstrap is closed, configuration changes only by exactly the      *)
(* batch announced last, not cancelled and not applied before,              *)
(* RegistryDelay blocks after it was announced, whole or not at all.        *)
BatchTimelock ==
  [][gates.bootstrapClosed /\ config' # config =>
       /\ announced.batch.ops # <<>>
       /\ block >= announced.batch.block + RegistryDelay
       /\ config' = [Course(announced.batch.ops)[Len(announced.batch.ops)].config
                       EXCEPT !.version = announced.batch.version]]_<<block, registryVars>>

(* An action that passes validation meets only venues whose facts, as they  *)
(* are now and within tolerance, were announced RegistryDelay blocks ago:   *)
(* no swap of a venue, of what it shows, or of a pending fingerprint        *)
(* shortens the notice.                                                     *)
VenuesAnnounced ==
  ValidationEnabled =>
    \A type \in {"OPEN", "EXIT"} : Validates(type) =>
      \A s \in Required(type) : config.venue[s] # NoVenue =>
        \E a \in announced.facts :
          /\ a.source = s /\ block >= a.block + RegistryDelay
          /\ a.facts.venue = config.venue[s] /\ a.facts.shape = live[config.venue[s]].shape
          /\ WithinTolerance(a.facts.level, live[config.venue[s]].level)

(* A market ready for production stops being ready in three ways only: a    *)
(* batch is applied, a venue itself changes, or the owner takes away the    *)
(* risk adapter or the feed's threshold; and that direct call brings back   *)
(* neither the bootstrap regime nor an unchecked venue.                     *)
ReadinessStable ==
  [][ProductionReady /\ ~ProductionReady' =>
       \/ config' # config \/ live' # live
       \/ settings' # settings /\ Guarded']_<<block, registryVars>>

(* A digest signed under one version never meets another batch's            *)
(* configuration, and readiness is lost only in the ways above.             *)
VersionedAndReady == VersionBindsConfig /\ ReadinessStable
=============================================================================
