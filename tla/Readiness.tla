----------------------------- MODULE Readiness -----------------------------
(***************************************************************************)
(* sdk/src/live/sdk-impl.ts, getReadiness: may an action be signed?  One   *)
(* query reads the quorum of nodes, pins a block, asks the indexer and the *)
(* contracts in parallel and, in strict mode, checks the indexer's anchor  *)
(* against LoopAnchorRegistry; the chain moves between any two answers.    *)
(* getAnchorFreshness runs the same reads and check.                       *)
(***************************************************************************)
EXTENDS ReorgChain, RpcQuorum

CONSTANTS
  Submitters,     \* accounts that may be anchorSubmitter
  FirstSubmitter, \* the one registered at deployment
  Manifests,      \* manifest hashes
  NodeLag,        \* blocks a node that is not faulty may be behind
  Confirmations,  \* blocks the indexer keeps away from its node's head
  MaxStale,       \* DEFAULT_ANCHOR_MAX_STALE_BLOCKS (100)
  HashWindow,     \* blocks below the pinned one whose hash is compared (256)
  Setups          \* SDK configurations: quorum, single, strict, honest

ASSUME ReadinessAssumption ==
  /\ FirstSubmitter \in Submitters
  /\ NodeLag \in Nat /\ Confirmations \in Nat /\ MaxStale \in Nat /\ HashWindow \in Nat
  /\ Setups \subseteq [quorum : BOOLEAN, single : BOOLEAN, strict : BOOLEAN, honest : BOOLEAN]

VARIABLES
  setup,     \* quorum: publicClients given; single: allowSingleClientReads;
             \* strict: strictAnchorCrossCheck; honest: the indexer's answers are its rows
  indexed,   \* the blocks the indexer's rows come from
  query      \* the query in progress, or the last one's result

readVars == <<setup, indexed, query>>

Nothing == [at |-> "done", outcome |-> "failed", pinned |-> 0, forks |-> 0, waiting |-> {},
            snapshot |-> None, head |-> None, decision |-> "blocked", raised |-> FALSE,
            submitter |-> None]

(* The app's configuration (useSdk): a quorum of whatever two providers     *)
(* are given, and strict unless single reads are allowed.                   *)
BuildSdkConfig(rpcs, allowSingle, honest) ==
  [quorum |-> rpcs >= 2, single |-> allowSingle, strict |-> ~allowSingle, honest |-> honest]

ReadInit ==
  /\ setup \in Setups
  /\ indexed = <<>>
  /\ query = Nothing

-----------------------------------------------------------------------------
(* The contracts, as of a sequence of blocks                                *)

Anchor(number, manifest, by) ==
  [table |-> "anchor_snapshots", number |-> number, manifest |-> manifest, by |-> by]
IsAnchor(event) == event # None /\ event.table = "anchor_snapshots"
Rotation(to) == [table |-> "role_rotations", to |-> to]
Drift == [table |-> "fingerprints"]      \* a venue no longer is what was registered
Incident == [table |-> "incidents"]      \* a bit of the state bitmap is raised

EmissionsIn(blocks) == {i \in DOMAIN blocks : IsAnchor(blocks[i].event)}
LastAnchorBlock(blocks) ==
  IF EmissionsIn(blocks) = {} THEN 0 ELSE CHOOSE i \in EmissionsIn(blocks) : \A j \in EmissionsIn(blocks) : j <= i
AnchorSubmitter(blocks) ==
  LET rotated == {s \in Submitters : Rotation(s) \in EmittedIn(blocks)}
  IN IF rotated = {} THEN FirstSubmitter ELSE CHOOSE s \in rotated : TRUE
ExternalConfigValid(blocks) == Drift \notin EmittedIn(blocks)

(* The contract emits nothing else under an anchor's name.                  *)
ASSUME EventAssumption ==
  \A event \in Events : IsAnchor(event) => event = Anchor(event.number, event.manifest, event.by)

(* A block may hold this event: the submitter in office notarizes a block   *)
(* that exists.                                                             *)
Emittable(event, before) ==
  IsAnchor(event) => event.number <= Len(before) + 1 /\ event.by = AnchorSubmitter(before)

-----------------------------------------------------------------------------
(* The indexer                                                              *)

(* It follows the chain and drops what was reorganised away; it may stop    *)
(* for as long as it likes.                                                 *)
IndexerTick ==
  /\ setup.honest
  /\ LET same == {n \in 0 .. Len(indexed) : n <= Len(chain) /\ SubSeq(indexed, 1, n) = HashAt(n)}
     IN \E common \in same :
          /\ \A n \in same : n <= common
          /\ IF common < Len(indexed) THEN indexed' = SubSeq(indexed, 1, common)
             ELSE \E n \in Len(indexed) + 1 .. Len(chain) - Confirmations : indexed' = HashAt(n)
  /\ UNCHANGED <<chainVars, setup, query>>

Claim(blocks, i) ==
  [number |-> blocks[i].event.number, manifest |-> blocks[i].event.manifest,
   emission |-> i, hash |-> SubSeq(blocks, 1, i)]

(* The row with the largest anchor_block.                                   *)
LatestSnapshots ==
  LET rows == {Claim(indexed, i) : i \in EmissionsIn(indexed)}
  IN IF rows = {} THEN {None} ELSE {r \in rows : \A s \in rows : s.number <= r.number}

AnyClaim ==
  {[number |-> number, manifest |-> manifest, emission |-> n, hash |-> hash] :
     number \in 0 .. 1, manifest \in Manifests, n \in DOMAIN chain, hash \in {None}}
  \cup {[number |-> number, manifest |-> manifest, emission |-> n, hash |-> HashAt(n)] :
     number \in 0 .. 1, manifest \in Manifests, n \in DOMAIN chain}

Snapshots == IF setup.honest THEN LatestSnapshots ELSE AnyClaim
Heads == IF ~setup.honest THEN {0, Len(chain)} ELSE IF indexed = <<>> THEN {None} ELSE {Len(indexed)}

-----------------------------------------------------------------------------
(* Reading the chain                                                        *)

(* What the quorum may make of a read: of the right answer, where a node    *)
(* that works has one, and of another on which faulty nodes agree.          *)
Outcomes(truths) == {AgreedRead(a) : a \in Answers(truths, {"right", "wrong"})}
OutcomesOfRead == [known \in BOOLEAN |-> Outcomes(IF known THEN {"right"} ELSE {})]

Reported(truths, lies) ==
  IF ~setup.quorum THEN truths \cup {Error}
  ELSE LET outcomes == OutcomesOfRead[truths # {}]
       IN {Error} \cup (IF "right" \in outcomes THEN truths ELSE {})
                  \cup (IF "wrong" \in outcomes THEN lies ELSE {})

HeightsNear(height) == {n \in 1 .. height : height - n <= NodeLag}
HeightAnswers == [height \in 1 .. MaxHeight |-> Answers(HeightsNear(height), 1 .. MaxHeight + 1)]
QuorumHeights == [height \in 1 .. MaxHeight |-> {AgreedHeight(a) : a \in HeightAnswers[height]}]
QuorumStatuses == [height \in 1 .. MaxHeight |-> {HeightStatus(a) : a \in HeightAnswers[height]}]

ReportedHeights ==
  IF setup.quorum THEN QuorumHeights[Len(chain)] ELSE HeightsNear(Len(chain)) \cup {Error}

(* A read at the pinned block, which a node may not have.                   *)
ReportedAt(truth, lies) ==
  Reported(IF Exists(query.pinned) THEN {truth} ELSE {}, lies)

-----------------------------------------------------------------------------
(* getReadiness                                                             *)

InFlight == {"quorum", "pin", "reads", "submitter", "lastAnchor", "log", "hash"}

(* Of a result that allows nothing the rest does not matter.                *)
Fail == query' = Nothing
Continue(at) == query' = [query EXCEPT !.at = at]
Finish(outcome) ==
  query' = [(IF outcome = "allowed" THEN query ELSE Nothing) EXCEPT !.at = "done", !.outcome = outcome]

Begin ==
  /\ query.at = "done"
  /\ query' = [Nothing EXCEPT !.at = "quorum"]

Unreadable(status) ==
  \/ ~setup.quorum /\ ~setup.single
  \/ setup.quorum /\ status # "ok"

(* Without a usable quorum every action is blocked; only the block number   *)
(* is still read.                                                           *)
EvaluateRpcQuorum ==
  /\ query.at = "quorum"
  /\ \E status \in IF setup.quorum THEN QuorumStatuses[Len(chain)] ELSE {"degraded"} :
       IF Unreadable(status) THEN Finish("blocked") \/ Fail ELSE Continue("pin")

Pin ==
  /\ query.at = "pin"
  /\ \E height \in ReportedHeights :
       IF height = Error THEN Fail
       ELSE query' = [query EXCEPT !.at = "reads", !.pinned = height, !.forks = reorgs,
                                   !.waiting = {"snapshot", "head", "decision", "bitmap"}]

Answered(request, q) == [q EXCEPT !.waiting = @ \ {request}]

(* Both requests to the indexer may fail, and the query with them.          *)
AnswerIndexer ==
  \/ /\ "snapshot" \in query.waiting
     /\ \E s \in Snapshots : query' = Answered("snapshot", [query EXCEPT !.snapshot = s])
  \/ /\ "head" \in query.waiting
     /\ \E h \in Heads : query' = Answered("head", [query EXCEPT !.head = h])
  \/ query.waiting \cap {"snapshot", "head"} # {} /\ Fail

(* One primary type stands for all: its failed read blocks it.              *)
OpenOnError ==  \* mutant of EvaluatePerAction: a failed read leaves the action allowed
  /\ "decision" \in query.waiting
  /\ \E valid \in ReportedAt(ExternalConfigValid(HashAt(query.pinned)), BOOLEAN) :
       query' = Answered("decision",
         [query EXCEPT !.decision = IF valid = FALSE THEN "blocked" ELSE "allowed"])
EvaluatePerAction ==
  /\ "decision" \in query.waiting
  /\ \E valid \in ReportedAt(ExternalConfigValid(HashAt(query.pinned)), BOOLEAN) :
       query' = Answered("decision",
         [query EXCEPT !.decision = IF valid = TRUE THEN "allowed" ELSE "blocked"])

(* Read at the node's head, and 0 when the read fails.                      *)
ReadLiveStateBitmap ==
  /\ "bitmap" \in query.waiting
  /\ \E raised \in Reported({Incident \in EmittedIn(chain)}, BOOLEAN) :
       query' = Answered("bitmap", [query EXCEPT !.raised = raised = TRUE])

(* Degraded and emergency-stale anchors block alike.                        *)
AnchorStatus(lag) == IF lag <= MaxStale THEN "fresh" ELSE "stale"

(* Lag is counted from the indexer's own head, or not at all without one.   *)
ClassifyAnchor(snapshot, head) ==
  LET anchored == IF snapshot = None THEN 0 ELSE snapshot.number
      current == IF head = None THEN anchored ELSE head
  IN AnchorStatus(current - anchored)

Decided ==
  IF setup.strict /\ ClassifyAnchor(query.snapshot, query.head) # "fresh" THEN "blocked"
  ELSE query.decision

AwaitAnchor ==  \* mutant of AllAnswered: without an anchor the query waits for one
  /\ query.at = "reads" /\ query.waiting = {}
  /\ IF ~setup.strict THEN Finish(Decided)
     ELSE IF query.snapshot = None THEN query' = [query EXCEPT !.waiting = {"snapshot"}]
     ELSE Continue("submitter")
AllAnswered ==
  /\ query.at = "reads" /\ query.waiting = {}
  /\ IF ~setup.strict THEN Finish(Decided)
     ELSE IF query.snapshot = None \/ query.snapshot.number = 0 THEN Fail
     ELSE Continue("submitter")

ReadSubmitter ==
  /\ query.at = "submitter"
  /\ \E by \in ReportedAt(AnchorSubmitter(HashAt(query.pinned)), Submitters) :
       IF by = Error THEN Fail
       ELSE query' = [query EXCEPT !.at = "lastAnchor", !.submitter = by]

(* crossCheckAnchor: the claimed emission is not beyond the registry's.     *)
CheckLastAnchor ==
  /\ query.at = "lastAnchor"
  /\ \E last \in ReportedAt(LastAnchorBlock(HashAt(query.pinned)), 0 .. MaxHeight) :
       IF last = Error \/ query.snapshot.emission > last THEN Fail ELSE Continue("log")

(* fetchManifestForBlock: the first log that names the anchored block.      *)
ManifestLog(blocks) ==
  LET logs == {i \in EmissionsIn(blocks) : /\ i + 1 >= query.snapshot.emission
                                           /\ blocks[i].event.number = query.snapshot.number}
  IN IF logs = {} THEN {None} ELSE {blocks[first].event : first \in {i \in logs : \A j \in logs : i <= j}}
ForgedLog == Anchor(query.snapshot.number, query.snapshot.manifest, query.submitter)
ManifestLogs ==
  Reported(IF Exists(query.pinned) THEN ManifestLog(HashAt(query.pinned)) ELSE {}, {None, ForgedLog})

HashComparable(q) == q.pinned > q.snapshot.emission /\ q.pinned - q.snapshot.emission <= HashWindow

UntrustedLog ==  \* mutant of CheckLog: the submitter of the log is not compared
  /\ query.at = "log"
  /\ \E log \in ManifestLogs :
       IF log \in {Error, None} THEN Fail
       ELSE IF log.manifest # query.snapshot.manifest THEN Fail
       ELSE IF query.snapshot.hash = None THEN Fail
       ELSE IF HashComparable(query) THEN Continue("hash") ELSE Finish(Decided)
CheckLog ==
  /\ query.at = "log"
  /\ \E log \in ManifestLogs :
       IF log \in {Error, None} THEN Fail
       ELSE IF log.manifest # query.snapshot.manifest THEN Fail
       ELSE IF log.by # query.submitter THEN Fail
       ELSE IF query.snapshot.hash = None THEN Fail
       ELSE IF HashComparable(query) THEN Continue("hash") ELSE Finish(Decided)

(* The hash the nodes report for the emission block, at their present head. *)
CheckHash ==
  /\ query.at = "hash"
  /\ LET emission == query.snapshot.emission
     IN \E hash \in Reported(IF Exists(emission) THEN {HashAt(emission)} ELSE {}, {query.snapshot.hash}) :
          IF hash = Error \/ hash # query.snapshot.hash THEN Fail ELSE Finish(Decided)

QueryStep ==
  /\ \/ Begin \/ EvaluateRpcQuorum \/ Pin
     \/ AnswerIndexer \/ EvaluatePerAction \/ ReadLiveStateBitmap \/ AllAnswered
     \/ ReadSubmitter \/ CheckLastAnchor \/ CheckLog \/ CheckHash
  /\ UNCHANGED <<chainVars, setup, indexed>>

ChainMoves ==
  /\ Extend \/ Reorganise
  /\ Emittable(Last(chain').event, SubSeq(chain', 1, Len(chain') - 1))
  /\ UNCHANGED readVars

ReadNext == QueryStep \/ IndexerTick \/ ChainMoves

ReadSpec == ChainInit /\ ReadInit /\ [][ReadNext]_<<chainVars, readVars>>

-----------------------------------------------------------------------------
(* Properties *)

(* An action is found allowed only by a read that the chain bears out: no   *)
(* answer of a faulty family and no failure passes for it.                  *)
AllowedByTheChain ==
  query'.decision = "allowed" /\ query.decision # "allowed" =>
    Exists(query.pinned) /\ ExternalConfigValid(HashAt(query.pinned))
AllowedIsTrue == [][AllowedByTheChain]_query

(* The block a query is pinned to is one a working node has reached.        *)
PinnedByANode == query.at = "pin" /\ query'.at = "reads" => query'.pinned \in HeightsNear(Len(chain))
PinIsReal == [][PinnedByANode]_query

Passes == query.at # "done" /\ query'.outcome = "allowed" /\ setup.strict

(* Whatever the indexer says, in strict mode nothing is allowed on an       *)
(* anchor that the registered submitter did not publish on this branch.     *)
Notarized(q, blocks) ==
  \E i \in EmissionsIn(blocks) :
    blocks[i].event = Anchor(q.snapshot.number, q.snapshot.manifest, AnchorSubmitter(HashAt(q.pinned)))
AnchorPublished ==
  [][Passes /\ reorgs = query.forks => Notarized(query, HashAt(query.pinned))]_query

(* And when the branch changed under the query, a recent anchor that went   *)
(* with the old branch is refused.                                          *)
AnchorOnBranch ==
  [][Passes /\ HashComparable(query) =>
       Exists(query.snapshot.emission) /\ HashAt(query.snapshot.emission) = query.snapshot.hash]_query

(* So nothing is allowed on an anchor that is not the chain's.              *)
AnchorIsTheChains == AnchorPublished /\ AnchorOnBranch

(* "Refuse to sign when the indexer anchor is older than                    *)
(* anchorMaxStaleBlocks": counted in blocks of the chain.                   *)
AnchorFresh ==
  query.outcome = "allowed" /\ setup.strict => query.pinned - query.snapshot.number <= MaxStale

(* Providers that time out and an indexer that fails end the query too.     *)
QueryEnds == query.at \in InFlight ~> query.at = "done"
=============================================================================
