-------------------------- MODULE ReadinessProofs --------------------------
(* Proofs about the quorum and about Readiness: with fewer faulty families  *)
(* than the threshold, no lie is ever agreed upon, whatever the providers,  *)
(* the chain and the indexer do.                                            *)
EXTENDS Readiness, FiniteSetTheorems, SequenceTheorems, NumberLemmas, TLAPS

-----------------------------------------------------------------------------
(* The quorum                                                               *)

(* A value supported by Threshold families was reported by one that is not  *)
(* faulty.                                                                  *)
LEMMA SupportedByHonest ==
  ASSUME NEW answers, NEW value, Support(answers, value) >= Threshold
  PROVE  \E i \in Reporting(answers, value) : FamilyOf[i] \notin Faulty
<1> SUFFICES ASSUME \A i \in Reporting(answers, value) : FamilyOf[i] \in Faulty
             PROVE  FALSE
  OBVIOUS
<1>1. MatchedFamilies(answers, value) \subseteq Faulty
  BY DEF MatchedFamilies
<1>2. /\ Cardinality(MatchedFamilies(answers, value)) <= Cardinality(Faulty)
      /\ Cardinality(MatchedFamilies(answers, value)) \in Nat
      /\ Cardinality(Faulty) \in Nat
  BY <1>1, FaultAssumption, FS_Subset, FS_CardinalityType
<1> QED
  BY <1>2, FaultAssumption, QuorumAssumption DEF Support

(* asPublicClient's reads: where the providers of honest families answer    *)
(* from `truths', the quorum returns one of them or throws.                 *)
THEOREM AgreedReadSound ==
  ASSUME NEW truths, NEW domain, NEW answers \in Answers(truths, domain)
  PROVE  AgreedRead(answers) \in truths \cup {Error}
<1> SUFFICES ASSUME AgreedRead(answers) # Error
             PROVE  AgreedRead(answers) \in truths
  OBVIOUS
<1> DEFINE best == Best(answers)
<1>1. Support(answers, best) >= Threshold /\ AgreedRead(answers) = best
  BY DEF AgreedRead, ReadStatus
<1>2. PICK i \in Reporting(answers, best) : FamilyOf[i] \notin Faulty
  BY <1>1, SupportedByHonest
<1>3. i \in Members /\ answers[i] # Error /\ answers[i] = best
  BY <1>2 DEF Reporting, Valid
<1>4. answers[i] \in truths
  BY <1>2, <1>3 DEF Answers, Honest
<1> QED
  BY <1>1, <1>3, <1>4

(* The block number every query is pinned to, likewise.                     *)
THEOREM AgreedHeightSound ==
  ASSUME NEW truths, NEW domain, NEW answers \in Answers(truths, domain)
  PROVE  AgreedHeight(answers) \in truths \cup {Error}
<1>1. CASE AgreedHeight(answers) = Error
  BY <1>1
<1>2. CASE AgreedHeight(answers) # Error
  <2>1. Valid(answers) # {} /\ ReadStatus(answers) = "ok" /\ AgreedHeight(answers) = Best(answers)
    BY <1>2 DEF AgreedHeight, HeightStatus
  <2>2. AgreedRead(answers) = AgreedHeight(answers)
    BY <2>1 DEF AgreedRead
  <2> QED
    BY <2>2, AgreedReadSound
<1> QED
  BY <1>1, <1>2

(* The number of families of any set of members.                            *)
LEMMA FamiliesCounted ==
  ASSUME NEW S \in SUBSET Members
  PROVE  /\ IsFiniteSet({FamilyOf[i] : i \in S})
         /\ Cardinality({FamilyOf[i] : i \in S}) \in 0 .. Cardinality(S)
<1> DEFINE image == {FamilyOf[i] : i \in S}
<1> DEFINE f == [i \in S |-> FamilyOf[i]]
<1>1. IsFiniteSet(S) /\ Cardinality(S) \in Nat
  BY QuorumAssumption, FS_Subset, FS_CardinalityType
<1>2. f \in Surjection(S, image)
  BY DEF Surjection
<1>3. IsFiniteSet(image) /\ Cardinality(image) <= Cardinality(S)
  BY <1>1, <1>2, FS_Surjection
<1>4. Cardinality(image) \in Nat
  BY <1>3, FS_CardinalityType
<1> QED
  BY <1>1, <1>3, <1>4

LEMMA SupportCounted ==
  ASSUME NEW answers, NEW value
  PROVE  Support(answers, value) \in 0 .. Cardinality(Members)
<1>1. Reporting(answers, value) \in SUBSET Members
  BY DEF Reporting, Valid
<1>2. Cardinality(Members) \in Nat /\ Cardinality(Reporting(answers, value)) <= Cardinality(Members)
  BY <1>1, QuorumAssumption, FS_Subset, FS_CardinalityType
<1>3. Cardinality(Reporting(answers, value)) \in Nat
  BY <1>1, QuorumAssumption, FS_Subset, FS_CardinalityType
<1> QED
  BY <1>1, <1>2, <1>3, FamiliesCounted DEF Support, MatchedFamilies

(* Of the answers there are, one has the most families, and is the first    *)
(* seen of those that have as many: the choice in `Best' is of something.   *)
LEMMA BestIsBest ==
  ASSUME NEW answers, Valid(answers) # {}
  PROVE  /\ Best(answers) \in Values(answers)
         /\ \A w \in Values(answers) : Support(answers, w) <= Support(answers, Best(answers))
<1> DEFINE n == Cardinality(Members)
<1> DEFINE short(w) == n - Support(answers, w)
<1> DEFINE Shorts == {short(w) : w \in Values(answers)}
<1>1. n \in Nat /\ \A w : Support(answers, w) \in 0 .. n
  BY QuorumAssumption, FS_CardinalityType, SupportCounted
<1>2. PICK least \in Shorts : \A k \in Shorts : least <= k
  <2>1. Shorts \in SUBSET Nat
    BY <1>1
  <2>2. Shorts # {}
    BY DEF Values
  <2> QED
    BY <2>1, <2>2, LeastNumber
<1> DEFINE Leaders == {i \in Valid(answers) : short(answers[i]) = least}
<1>3. PICK first \in Leaders : \A j \in Leaders : first <= j
  <2>1. Leaders \in SUBSET Nat
    BY QuorumAssumption, FS_CardinalityType DEF Valid
  <2>2. Leaders # {}
    BY <1>2 DEF Values
  <2> QED
    BY <2>1, <2>2, LeastNumber
<1> DEFINE v == answers[first]
<1>4. v \in Values(answers) /\ short(v) = least
  BY <1>3 DEF Values
<1>5. ASSUME NEW w \in Values(answers)
      PROVE  \/ Support(answers, v) > Support(answers, w)
             \/ Support(answers, v) = Support(answers, w) /\ SeenFirst(answers, v, w)
  <2>1. least <= short(w)
    BY <1>2
  <2>2. CASE short(w) = least
    <3>1. first \in Reporting(answers, v)
      BY <1>3 DEF Reporting
    <3>2. \A j \in Reporting(answers, w) : j \in Leaders
      BY <2>2 DEF Reporting
    <3>3. SeenFirst(answers, v, w)
      BY <1>3, <3>1, <3>2 DEF SeenFirst
    <3> QED
      BY <1>1, <1>4, <2>2, <3>3
  <2>3. CASE short(w) # least
    BY <1>1, <1>4, <2>1, <2>3
  <2> QED
    BY <2>2, <2>3
<1>6. \E b \in Values(answers) :
        \A w \in Values(answers) :
          \/ Support(answers, b) > Support(answers, w)
          \/ Support(answers, b) = Support(answers, w) /\ SeenFirst(answers, b, w)
  BY <1>4, <1>5
<1>7. /\ Best(answers) \in Values(answers)
      /\ \A w \in Values(answers) :
           \/ Support(answers, Best(answers)) > Support(answers, w)
           \/ Support(answers, Best(answers)) = Support(answers, w) /\ SeenFirst(answers, Best(answers), w)
  BY <1>6 DEF Best
<1> QED
  BY <1>1, <1>7

(* asPublicClient's quorum does not only refuse: the truth, once as many    *)
(* families as the threshold asks for report it, is what the read returns,  *)
(* whatever the faulty families agree upon and whoever answers first.       *)
THEOREM AgreedReadAvailable ==
  ASSUME NEW truth, truth # Error, NEW domain, NEW answers \in Answers({truth}, domain),
         Support(answers, truth) >= Threshold
  PROVE  AgreedRead(answers) = truth
<1> DEFINE best == Best(answers)
<1>1. Support(answers, truth) \in Nat /\ Support(answers, best) \in Nat /\ Threshold \in Nat
  BY SupportCounted, QuorumAssumption, FS_CardinalityType
<1>2. PICK i \in Reporting(answers, truth) : FamilyOf[i] \notin Faulty
  BY SupportedByHonest
<1>3. i \in Valid(answers) /\ truth \in Values(answers)
  BY <1>2 DEF Reporting, Values
<1>4. Support(answers, best) >= Threshold
  BY <1>1, <1>3, BestIsBest
<1>5. AgreedRead(answers) = best
  BY <1>3, <1>4 DEF AgreedRead, ReadStatus
<1>6. PICK j \in Reporting(answers, best) : FamilyOf[j] \notin Faulty
  BY <1>4, SupportedByHonest
<1>7. j \in Members /\ answers[j] = best /\ answers[j] # Error
  BY <1>6 DEF Reporting, Valid
<1>8. answers[j] = truth
  BY <1>6, <1>7 DEF Answers, Honest
<1> QED
  BY <1>5, <1>7, <1>8

-----------------------------------------------------------------------------
(* Readiness                                                                *)

(* A read through the quorum is the chain's answer or an error.             *)
LEMMA ReportedSound ==
  ASSUME NEW truths, NEW lies
  PROVE  Reported(truths, lies) \subseteq truths \cup {Error}
<1>1. ASSUME NEW known \in BOOLEAN
      PROVE  "wrong" \notin OutcomesOfRead[known]
  <2> DEFINE expected == IF known THEN {"right"} ELSE {}
  <2>1. OutcomesOfRead[known] = Outcomes(expected)
    BY DEF OutcomesOfRead
  <2>2. \A a \in Answers(expected, {"right", "wrong"}) : AgreedRead(a) \in expected \cup {Error}
    BY AgreedReadSound
  <2> QED
    BY <2>1, <2>2, QuorumAssumption DEF Outcomes
<1>2. "wrong" \notin OutcomesOfRead[truths # {}]
  BY <1>1
<1> QED
  BY <1>2 DEF Reported

(* The fields of a query; what they hold is left open.                      *)
QueryShape ==
  query = [at |-> query.at, outcome |-> query.outcome, pinned |-> query.pinned, forks |-> query.forks,
           waiting |-> query.waiting, snapshot |-> query.snapshot, head |-> query.head,
           decision |-> query.decision, raised |-> query.raised, submitter |-> query.submitter]

LEMMA FailShape == Fail => QueryShape' /\ query'.decision = "blocked"
  BY DEF Fail, QueryShape, Nothing

LEMMA ContinueShape ==
  ASSUME QueryShape, NEW at, Continue(at)
  PROVE  QueryShape' /\ query'.decision = query.decision
  BY DEF Continue, QueryShape

LEMMA FinishShape ==
  ASSUME QueryShape, NEW outcome, Finish(outcome)
  PROVE  QueryShape' /\ query'.decision \in {query.decision, "blocked"}
<1>1. CASE outcome = "allowed"
  BY <1>1 DEF Finish, QueryShape
<1>2. CASE outcome # "allowed"
  BY <1>2 DEF Finish, QueryShape, Nothing
<1> QED
  BY <1>1, <1>2

LEMMA BeginShape == Begin => QueryShape' /\ query'.decision = "blocked"
  BY DEF Begin, QueryShape, Nothing

LEMMA PinShape ==
  ASSUME QueryShape, Pin
  PROVE  QueryShape' /\ query'.decision \in {query.decision, "blocked"}
<1>1. CASE Fail
  BY <1>1, FailShape
<1>2. ASSUME NEW height,
             query' = [query EXCEPT !.at = "reads", !.pinned = height, !.forks = reorgs,
                                    !.waiting = {"snapshot", "head", "decision", "bitmap"}]
      PROVE  QueryShape' /\ query'.decision = query.decision
  BY <1>2 DEF QueryShape
<1> QED
  BY <1>1, <1>2 DEF Pin

LEMMA AnswerShape ==
  ASSUME QueryShape, AnswerIndexer
  PROVE  QueryShape' /\ query'.decision \in {query.decision, "blocked"}
<1>1. CASE Fail
  BY <1>1, FailShape
<1>2. ASSUME NEW s, query' = Answered("snapshot", [query EXCEPT !.snapshot = s])
      PROVE  QueryShape' /\ query'.decision = query.decision
  BY <1>2 DEF QueryShape, Answered
<1>3. ASSUME NEW h, query' = Answered("head", [query EXCEPT !.head = h])
      PROVE  QueryShape' /\ query'.decision = query.decision
  BY <1>3 DEF QueryShape, Answered
<1> QED
  BY <1>1, <1>2, <1>3 DEF AnswerIndexer

LEMMA BitmapShape ==
  ASSUME QueryShape, ReadLiveStateBitmap
  PROVE  QueryShape' /\ query'.decision = query.decision
<1>1. ASSUME NEW raised, query' = Answered("bitmap", [query EXCEPT !.raised = raised = TRUE])
      PROVE  QueryShape' /\ query'.decision = query.decision
  BY <1>1 DEF QueryShape, Answered
<1> QED
  BY <1>1 DEF ReadLiveStateBitmap

LEMMA SubmitterShape ==
  ASSUME QueryShape, ReadSubmitter
  PROVE  QueryShape' /\ query'.decision \in {query.decision, "blocked"}
<1>1. CASE Fail
  BY <1>1, FailShape
<1>2. ASSUME NEW by, query' = [query EXCEPT !.at = "lastAnchor", !.submitter = by]
      PROVE  QueryShape' /\ query'.decision = query.decision
  BY <1>2 DEF QueryShape
<1> QED
  BY <1>1, <1>2 DEF ReadSubmitter

(* The decision of the primary types is the registry's at the pinned block. *)
LEMMA DecisionShape ==
  ASSUME QueryShape, EvaluatePerAction
  PROVE  /\ QueryShape'
         /\ query'.decision = "allowed" =>
              Exists(query.pinned) /\ ExternalConfigValid(HashAt(query.pinned))
<1> DEFINE truths == IF Exists(query.pinned) THEN {ExternalConfigValid(HashAt(query.pinned))} ELSE {}
<1>1. PICK valid \in Reported(truths, BOOLEAN) :
        query' = Answered("decision", [query EXCEPT !.decision = IF valid = TRUE THEN "allowed" ELSE "blocked"])
  BY DEF EvaluatePerAction, ReportedAt
<1>2. QueryShape' /\ query'.decision = IF valid = TRUE THEN "allowed" ELSE "blocked"
  BY <1>1 DEF QueryShape, Answered
<1>3. valid \in truths \cup {Error}
  BY <1>1, ReportedSound
<1> QED
  BY <1>2, <1>3, QuorumAssumption

(* A query's fields stay, and only the registry's answer allows.            *)
LEMMA QueryStepAllows ==
  ASSUME QueryShape, QueryStep
  PROVE  QueryShape' /\ AllowedByTheChain
<1> USE DEF AllowedByTheChain
<1>1. CASE Begin
  BY <1>1, BeginShape
<1>2. CASE EvaluateRpcQuorum
  BY <1>2, FailShape, ContinueShape, FinishShape DEF EvaluateRpcQuorum
<1>3. CASE Pin
  BY <1>3, PinShape
<1>4. CASE AnswerIndexer
  BY <1>4, AnswerShape
<1>5. CASE EvaluatePerAction
  BY <1>5, DecisionShape
<1>6. CASE ReadLiveStateBitmap
  BY <1>6, BitmapShape
<1>7. CASE AllAnswered
  BY <1>7, FailShape, ContinueShape, FinishShape DEF AllAnswered
<1>8. CASE ReadSubmitter
  BY <1>8, SubmitterShape
<1>9. CASE CheckLastAnchor
  BY <1>9, FailShape, ContinueShape DEF CheckLastAnchor
<1>10. CASE CheckLog
  BY <1>10, FailShape, ContinueShape, FinishShape DEF CheckLog
<1>11. CASE CheckHash
  BY <1>11, FailShape, FinishShape DEF CheckHash
<1> QED
  BY <1>1, <1>2, <1>3, <1>4, <1>5, <1>6, <1>7, <1>8, <1>9, <1>10, <1>11 DEF QueryStep

LEMMA ShapeInductive == ReadSpec => []QueryShape
<1>1. ReadInit => QueryShape
  BY DEF ReadInit, QueryShape, Nothing
<1>2. QueryShape /\ [ReadNext]_<<chainVars, readVars>> => QueryShape'
  <2>1. ASSUME QueryShape, UNCHANGED query PROVE QueryShape'
    BY <2>1 DEF QueryShape
  <2> QED
    BY <2>1, QueryStepAllows DEF ReadNext, IndexerTick, ChainMoves, readVars
<1> QED
  BY <1>1, <1>2, PTL DEF ReadSpec

(* An action is allowed only by an answer the chain bears out, for any      *)
(* number of providers, families, blocks and reorganisations.               *)
THEOREM AllowedOnlyByTheChain == ReadSpec => AllowedIsTrue
<1>1. QueryShape /\ [ReadNext]_<<chainVars, readVars>> => [AllowedByTheChain]_query
  BY QueryStepAllows DEF ReadNext, IndexerTick, ChainMoves, readVars
<1> QED
  BY <1>1, ShapeInductive, PTL DEF ReadSpec, AllowedIsTrue

-----------------------------------------------------------------------------
(* The chain                                                                *)

ChainInv == chain \in Seq(Blocks) /\ Len(chain) \in StartBlock .. MaxHeight /\ reorgs \in Nat

LEMMA ChainStarts == ChainInit => ChainInv
  BY ChainAssumption DEF ChainInit, ChainInv, Blocks, Quiet, Salts

LEMMA PrefixType ==
  ASSUME NEW S, NEW s \in Seq(S), NEW n \in 0 .. Len(s)
  PROVE  /\ SubSeq(s, 1, n) \in Seq(S) /\ Len(SubSeq(s, 1, n)) = n
         /\ \A i \in 1 .. n : SubSeq(s, 1, n)[i] = s[i]
  BY SubSeqProperties

(* A block is added, or, at a fork, the last ones make way for one.         *)
LEMMA ChainGrows ==
  ASSUME ChainInv, Extend
  PROVE  /\ ChainInv' /\ reorgs' = reorgs /\ Len(chain) <= Len(chain')
         /\ \A n \in 0 .. Len(chain) : HashAt(n)' = HashAt(n)
<1>1. PICK event \in Unseen(chain) : Grow(event)
  BY DEF Extend
<1> DEFINE block == [salt |-> Last(chain).salt, event |-> event]
<1>2. event \in Events \cup {None}
  BY <1>1 DEF Unseen
<1>3. block \in Blocks
  <2>1. Len(chain) \in 1 .. Len(chain) /\ Last(chain) = chain[Len(chain)]
    BY ChainAssumption DEF ChainInv, Last
  <2>2. chain[Len(chain)] \in Blocks
    BY <2>1 DEF ChainInv
  <2> QED
    BY <1>2, <2>1, <2>2 DEF Blocks
<1>4. chain' = Append(chain, block) /\ reorgs' = reorgs /\ Len(chain) < MaxHeight
  BY <1>1 DEF Grow
<1>5. ChainInv' /\ Len(chain) <= Len(chain')
  BY <1>3, <1>4, ChainAssumption DEF ChainInv
<1>6. ASSUME NEW n \in 0 .. Len(chain)
      PROVE  HashAt(n)' = HashAt(n)
  <2>1. SubSeq(chain', 1, n) = SubSeq(chain, 1, n)
    BY <1>3, <1>4 DEF ChainInv
  <2> QED
    BY <2>1 DEF HashAt
<1> QED
  BY <1>4, <1>5, <1>6

LEMMA ChainForks == ASSUME ChainInv, Reorganise PROVE ChainInv' /\ reorgs' = reorgs + 1
<1>1. PICK n \in ForkPoints : \E event \in Unseen(HashAt(n)) : Fork(n, event)
  BY DEF Reorganise
<1>2. PICK event \in Unseen(HashAt(n)) : Fork(n, event)
  BY <1>1
<1> DEFINE block == [salt |-> 1 - chain[n + 1].salt, event |-> event]
<1>3. n \in 0 .. Len(chain) /\ n + 1 \in 1 .. Len(chain) /\ n + 1 >= StartBlock
  BY ChainAssumption DEF ForkPoints, ChainInv
<1>4. block \in Blocks
  <2>1. chain[n + 1] \in Blocks
    BY <1>3 DEF ChainInv
  <2>2. chain[n + 1].salt \in {0, 1}
    BY <2>1 DEF Blocks, Salts
  <2>3. 1 - chain[n + 1].salt \in Salts
    BY <2>2 DEF Salts
  <2>4. event \in Events \cup {None}
    BY <1>2 DEF Unseen
  <2> QED
    BY <2>3, <2>4 DEF Blocks
<1>5. chain' = Append(HashAt(n), block) /\ reorgs' = reorgs + 1
  BY <1>2 DEF Fork
<1>6. HashAt(n) \in Seq(Blocks) /\ Len(HashAt(n)) = n
  BY <1>3, PrefixType DEF ChainInv, HashAt
<1> QED
  BY <1>3, <1>4, <1>5, <1>6, ChainAssumption DEF ChainInv

-----------------------------------------------------------------------------
(* What a query has established at the point it has reached.                *)
Reading == {"reads", "submitter", "lastAnchor", "log", "hash"}

QueryInv ==
  /\ query.waiting # {} => query.at = "reads"
  /\ query.at # "done" => query.outcome # "allowed"
  /\ query.at \in Reading => query.pinned \in Nat /\ query.forks \in Nat /\ query.forks <= reorgs

(* On the branch the query was pinned on, its submitter is the one in       *)
(* office and, once the log is checked, its anchor is published.            *)
SubmitterKnown ==
  query.at \in {"lastAnchor", "log", "hash"} /\ query.forks = reorgs =>
    Exists(query.pinned) /\ query.submitter = AnchorSubmitter(HashAt(query.pinned))
LogChecked ==
  query.at = "hash" /\ query.forks = reorgs => Notarized(query, HashAt(query.pinned))

ReadInv == ChainInv /\ QueryShape /\ QueryInv /\ SubmitterKnown /\ LogChecked

LEMMA FailKeeps ==
  ASSUME Fail, UNCHANGED <<chainVars, setup, indexed>>
  PROVE  QueryInv' /\ SubmitterKnown' /\ LogChecked'
BY DEF Fail, Nothing, QueryInv, Reading, SubmitterKnown, LogChecked

LEMMA FinishKeeps ==
  ASSUME QueryShape, QueryInv, query.waiting = {}, NEW outcome, Finish(outcome), UNCHANGED <<chainVars, setup, indexed>>
  PROVE  QueryInv' /\ SubmitterKnown' /\ LogChecked'
<1>1. query'.at = "done" /\ query'.waiting = {}
  <2>1. CASE outcome = "allowed"
    BY <2>1 DEF Finish, QueryShape
  <2>2. CASE outcome # "allowed"
    BY <2>2 DEF Finish, QueryShape, Nothing
  <2> QED
    BY <2>1, <2>2
<1> QED
  BY <1>1 DEF QueryInv, Reading, SubmitterKnown, LogChecked

(* The pinned block is one a working node has reached.                      *)
LEMMA ReportedHeightSound ==
  ASSUME ChainInv, NEW height \in ReportedHeights, height # Error
  PROVE  height \in HeightsNear(Len(chain))
<1>1. CASE ~setup.quorum
  BY <1>1 DEF ReportedHeights
<1>2. CASE setup.quorum
  <2>1. Len(chain) \in 1 .. MaxHeight
    BY ChainAssumption DEF ChainInv
  <2>2. HeightAnswers[Len(chain)] = Answers(HeightsNear(Len(chain)), 1 .. MaxHeight + 1)
    BY <2>1 DEF HeightAnswers
  <2>3. QuorumHeights[Len(chain)] = {AgreedHeight(a) : a \in HeightAnswers[Len(chain)]}
    BY <2>1 DEF QuorumHeights
  <2>4. PICK a \in Answers(HeightsNear(Len(chain)), 1 .. MaxHeight + 1) : height = AgreedHeight(a)
    BY <1>2, <2>2, <2>3 DEF ReportedHeights
  <2> QED
    BY <2>4, AgreedHeightSound
<1> QED
  BY <1>1, <1>2

LEMMA PinKeeps ==
  ASSUME ReadInv, Pin, UNCHANGED <<chainVars, setup, indexed>>
  PROVE  /\ QueryInv' /\ SubmitterKnown' /\ LogChecked'
         /\ query'.at = "reads" => query'.pinned \in HeightsNear(Len(chain))
<1>1. CASE Fail
  BY <1>1, FailKeeps DEF Fail, Nothing
<1>2. ASSUME NEW height \in ReportedHeights, height # Error,
             query' = [query EXCEPT !.at = "reads", !.pinned = height, !.forks = reorgs,
                                    !.waiting = {"snapshot", "head", "decision", "bitmap"}]
      PROVE  /\ QueryInv' /\ SubmitterKnown' /\ LogChecked'
             /\ query'.pinned \in HeightsNear(Len(chain))
  <2>1. height \in HeightsNear(Len(chain))
    BY <1>2, ReportedHeightSound DEF ReadInv
  <2>2. /\ query'.at = "reads" /\ query'.pinned = height /\ query'.forks = reorgs
        /\ query'.outcome = query.outcome /\ query.at = "pin"
    BY <1>2 DEF ReadInv, QueryShape, Pin
  <2>3. height \in Nat /\ reorgs' = reorgs /\ reorgs \in Nat
    BY <2>1 DEF HeightsNear, ReadInv, ChainInv, chainVars
  <2>4. query.outcome # "allowed"
    BY <2>2 DEF ReadInv, QueryInv
  <2> QED
    BY <2>1, <2>2, <2>3, <2>4 DEF QueryInv, SubmitterKnown, LogChecked
<1> QED
  BY <1>1, <1>2 DEF Pin

(* Answers to the parallel requests move nothing else.                      *)
LEMMA AnsweredKeeps ==
  ASSUME ReadInv, UNCHANGED <<chainVars, setup, indexed>>, query.waiting # {},
         query'.at = query.at, query'.outcome = query.outcome,
         query'.pinned = query.pinned, query'.forks = query.forks
  PROVE  QueryInv' /\ SubmitterKnown' /\ LogChecked'
<1>1. query.at = "reads" /\ query'.at = "reads" /\ reorgs' = reorgs
  BY DEF ReadInv, QueryInv, chainVars
<1> QED
  BY <1>1 DEF ReadInv, QueryInv, SubmitterKnown, LogChecked, Reading

LEMMA RequestsKeep ==
  ASSUME ReadInv, AnswerIndexer \/ EvaluatePerAction \/ ReadLiveStateBitmap,
         UNCHANGED <<chainVars, setup, indexed>>
  PROVE  QueryInv' /\ SubmitterKnown' /\ LogChecked'
<1> DEFINE Only(q) == /\ query'.at = query.at /\ query'.outcome = query.outcome
                      /\ query'.pinned = query.pinned /\ query'.forks = query.forks
<1> USE DEF ReadInv
<1>1. CASE Fail
  BY <1>1, FailKeeps
<1>2. ASSUME NEW s, query' = Answered("snapshot", [query EXCEPT !.snapshot = s]) PROVE Only(query)
  BY <1>2 DEF Answered, QueryShape
<1>3. ASSUME NEW h, query' = Answered("head", [query EXCEPT !.head = h]) PROVE Only(query)
  BY <1>3 DEF Answered, QueryShape
<1>4. ASSUME NEW d, query' = Answered("decision", [query EXCEPT !.decision = d]) PROVE Only(query)
  BY <1>4 DEF Answered, QueryShape
<1>5. ASSUME NEW r, query' = Answered("bitmap", [query EXCEPT !.raised = r]) PROVE Only(query)
  BY <1>5 DEF Answered, QueryShape
<1>6. query.waiting # {}
  BY DEF AnswerIndexer, EvaluatePerAction, ReadLiveStateBitmap
<1>7. Fail \/ Only(query)
  BY <1>2, <1>3, <1>4, <1>5 DEF AnswerIndexer, EvaluatePerAction, ReadLiveStateBitmap
<1> QED
  BY <1>1, <1>6, <1>7, AnsweredKeeps

LEMMA SubmitterKeeps ==
  ASSUME ReadInv, ReadSubmitter, UNCHANGED <<chainVars, setup, indexed>>
  PROVE  QueryInv' /\ SubmitterKnown' /\ LogChecked'
<1>1. CASE Fail
  BY <1>1, FailKeeps
<1>2. ASSUME NEW by \in ReportedAt(AnchorSubmitter(HashAt(query.pinned)), Submitters), by # Error,
             query' = [query EXCEPT !.at = "lastAnchor", !.submitter = by]
      PROVE  QueryInv' /\ SubmitterKnown' /\ LogChecked'
  <2> DEFINE truths == IF Exists(query.pinned) THEN {AnchorSubmitter(HashAt(query.pinned))} ELSE {}
  <2>1. by \in truths \cup {Error}
    BY <1>2, ReportedSound DEF ReportedAt
  <2>2. Exists(query.pinned) /\ by = AnchorSubmitter(HashAt(query.pinned))
    BY <1>2, <2>1
  <2>3. /\ query'.at = "lastAnchor" /\ query'.submitter = by /\ query'.waiting = query.waiting
        /\ query'.pinned = query.pinned /\ query'.forks = query.forks /\ query'.outcome = query.outcome
    BY <1>2 DEF ReadInv, QueryShape
  <2>4. query.at = "submitter" /\ query.waiting = {}
    BY DEF ReadSubmitter, ReadInv, QueryInv
  <2>5. Exists(query.pinned)' /\ HashAt(query.pinned)' = HashAt(query.pinned) /\ reorgs' = reorgs
    BY <2>2, <2>3 DEF Exists, HashAt, chainVars
  <2>6. QueryInv'
    BY <2>3, <2>4, <2>5 DEF ReadInv, QueryInv, Reading
  <2>7. SubmitterKnown'
    BY <2>2, <2>3, <2>5 DEF SubmitterKnown
  <2> QED
    BY <2>3, <2>6, <2>7 DEF LogChecked
<1> QED
  BY <1>1, <1>2 DEF ReadSubmitter

LEMMA ContinueToLog ==
  ASSUME ReadInv, CheckLastAnchor, UNCHANGED <<chainVars, setup, indexed>>
  PROVE  QueryInv' /\ SubmitterKnown' /\ LogChecked'
<1>1. CASE Fail
  BY <1>1, FailKeeps
<1>2. CASE Continue("log")
  <2>1. /\ query'.at = "log" /\ query'.waiting = query.waiting /\ query'.submitter = query.submitter
        /\ query'.pinned = query.pinned /\ query'.forks = query.forks /\ query'.outcome = query.outcome
    BY <1>2 DEF ReadInv, QueryShape, Continue
  <2>2. query.at = "lastAnchor" /\ query.waiting = {}
    BY DEF CheckLastAnchor, ReadInv, QueryInv
  <2>3. QueryInv'
    BY <2>1, <2>2 DEF ReadInv, QueryInv, Reading, chainVars
  <2>4. SubmitterKnown'
    BY <2>1, <2>2 DEF ReadInv, SubmitterKnown, Exists, HashAt, chainVars
  <2> QED
    BY <2>1, <2>3, <2>4 DEF LogChecked
<1> QED
  BY <1>1, <1>2 DEF CheckLastAnchor

(* A log that passes the checks is the registry's own: it names the block   *)
(* and the manifest the indexer claims, under the submitter in office.      *)
LEMMA LogSound ==
  ASSUME ReadInv, query.at = "log", query.forks = reorgs,
         NEW log \in ManifestLogs, log \notin {Error, None},
         log.manifest = query.snapshot.manifest, log.by = query.submitter
  PROVE  Notarized(query, HashAt(query.pinned))
<1> DEFINE blocks == HashAt(query.pinned)
<1>1. Exists(query.pinned) /\ query.submitter = AnchorSubmitter(blocks)
  BY DEF ReadInv, SubmitterKnown
<1>2. log \in ManifestLog(blocks)
  BY <1>1, ReportedSound DEF ManifestLogs
<1>3. PICK i \in EmissionsIn(blocks) : blocks[i].event.number = query.snapshot.number /\ log = blocks[i].event
  BY <1>2 DEF ManifestLog
<1>4. blocks \in Seq(Blocks)
  <2>1. query.pinned \in 0 .. Len(chain)
    BY <1>1 DEF ReadInv, ChainInv, QueryInv, Reading, Exists
  <2> QED
    BY <2>1, PrefixType DEF ReadInv, ChainInv, HashAt
<1>5. blocks[i] \in Blocks /\ IsAnchor(blocks[i].event)
  BY <1>3, <1>4 DEF EmissionsIn
<1>6. blocks[i].event \in Events
  BY <1>5 DEF Blocks, IsAnchor
<1>7. log = Anchor(log.number, log.manifest, log.by)
  BY <1>3, <1>5, <1>6, EventAssumption
<1>8. log = Anchor(query.snapshot.number, query.snapshot.manifest, AnchorSubmitter(blocks))
  BY <1>1, <1>3, <1>7
<1> QED
  BY <1>3, <1>8 DEF Notarized

LEMMA LogKeeps ==
  ASSUME ReadInv, CheckLog, UNCHANGED <<chainVars, setup, indexed>>
  PROVE  QueryInv' /\ SubmitterKnown' /\ LogChecked'
<1>1. CASE Fail
  BY <1>1, FailKeeps
<1>2. CASE Finish(Decided)
  BY <1>2, FinishKeeps DEF ReadInv, QueryInv, CheckLog
<1>3. ASSUME NEW log \in ManifestLogs, log \notin {Error, None},
             log.manifest = query.snapshot.manifest, log.by = query.submitter, Continue("hash")
      PROVE  QueryInv' /\ SubmitterKnown' /\ LogChecked'
  <2>1. /\ query'.at = "hash" /\ query'.waiting = query.waiting /\ query'.submitter = query.submitter
        /\ query'.pinned = query.pinned /\ query'.forks = query.forks /\ query'.outcome = query.outcome
        /\ query'.snapshot = query.snapshot
    BY <1>3 DEF ReadInv, QueryShape, Continue
  <2>2. query.at = "log" /\ query.waiting = {}
    BY DEF CheckLog, ReadInv, QueryInv
  <2>3. QueryInv'
    BY <2>1, <2>2 DEF ReadInv, QueryInv, Reading, chainVars
  <2>4. SubmitterKnown'
    BY <2>1, <2>2 DEF ReadInv, SubmitterKnown, Exists, HashAt, chainVars
  <2>5. query.forks = reorgs => Notarized(query, HashAt(query.pinned))
    BY <1>3, <2>2, LogSound
  <2>6. LogChecked'
    BY <2>1, <2>5 DEF LogChecked, Notarized, HashAt, chainVars
  <2> QED
    BY <2>3, <2>4, <2>6
<1> QED
  BY <1>1, <1>2, <1>3 DEF CheckLog

LEMMA BeginKeeps ==
  ASSUME Begin, UNCHANGED <<chainVars, setup, indexed>>
  PROVE  QueryInv' /\ SubmitterKnown' /\ LogChecked'
BY DEF Begin, Nothing, QueryInv, Reading, SubmitterKnown, LogChecked

LEMMA StartKeeps ==
  ASSUME ReadInv, EvaluateRpcQuorum \/ AllAnswered, UNCHANGED <<chainVars, setup, indexed>>
  PROVE  QueryInv' /\ SubmitterKnown' /\ LogChecked'
<1>1. CASE Fail
  BY <1>1, FailKeeps
<1>2. query.waiting = {} /\ query.at \in {"quorum", "reads"}
  BY DEF EvaluateRpcQuorum, AllAnswered, ReadInv, QueryInv
<1>3. ASSUME NEW outcome, Finish(outcome) PROVE QueryInv' /\ SubmitterKnown' /\ LogChecked'
  BY <1>2, <1>3, FinishKeeps DEF ReadInv
<1>4. ASSUME NEW at \in {"pin", "submitter"}, Continue(at), at = "submitter" => query.at = "reads"
      PROVE  QueryInv' /\ SubmitterKnown' /\ LogChecked'
  <2>1. /\ query'.at = at /\ query'.waiting = query.waiting /\ query'.pinned = query.pinned
        /\ query'.forks = query.forks /\ query'.outcome = query.outcome
    BY <1>4 DEF ReadInv, QueryShape, Continue
  <2> QED
    BY <1>2, <1>4, <2>1 DEF ReadInv, QueryInv, Reading, SubmitterKnown, LogChecked, chainVars
<1> QED
  BY <1>1, <1>3, <1>4 DEF EvaluateRpcQuorum, AllAnswered

LEMMA HashKeeps ==
  ASSUME ReadInv, CheckHash, UNCHANGED <<chainVars, setup, indexed>>
  PROVE  QueryInv' /\ SubmitterKnown' /\ LogChecked'
BY FailKeeps, FinishKeeps DEF CheckHash, ReadInv, QueryInv

LEMMA QueryStepKeeps == ASSUME ReadInv, QueryStep PROVE ReadInv'
<1>1. ChainInv'
  BY DEF QueryStep, ReadInv, ChainInv, chainVars
<1>2. QueryShape'
  BY QueryStepAllows DEF ReadInv
<1>3. QueryInv' /\ SubmitterKnown' /\ LogChecked'
  BY BeginKeeps, StartKeeps, PinKeeps, RequestsKeep, SubmitterKeeps, ContinueToLog, LogKeeps, HashKeeps
  DEF QueryStep
<1> QED
  BY <1>1, <1>2, <1>3 DEF ReadInv

(* The chain grows past the pinned block or, forking, counts a fork.        *)
LEMMA ChainKeeps ==
  ASSUME ReadInv, Extend \/ Reorganise, UNCHANGED readVars
  PROVE  ReadInv'
<1>1. QueryShape'
  BY DEF ReadInv, QueryShape, readVars
<1>2. CASE Reorganise
  <2>1. ChainInv' /\ reorgs' = reorgs + 1 /\ query' = query
    BY <1>2, ChainForks DEF ReadInv, readVars
  <2>2. QueryInv' /\ (query.at \in Reading => query.forks # reorgs')
    BY <2>1 DEF ReadInv, QueryInv, ChainInv
  <2> QED
    BY <1>1, <2>1, <2>2 DEF ReadInv, SubmitterKnown, LogChecked, Reading
<1>3. CASE Extend
  <2>1. /\ ChainInv' /\ reorgs' = reorgs /\ query' = query /\ Len(chain) <= Len(chain')
        /\ \A n \in 0 .. Len(chain) : HashAt(n)' = HashAt(n)
    BY <1>3, ChainGrows DEF ReadInv, readVars
  <2>2. QueryInv'
    BY <2>1 DEF ReadInv, QueryInv
  <2>3. ASSUME query.at \in Reading, Exists(query.pinned)
        PROVE  Exists(query.pinned)' /\ HashAt(query.pinned)' = HashAt(query.pinned)
    <3>1. query.pinned \in 0 .. Len(chain)
      BY <2>3 DEF ReadInv, QueryInv, ChainInv, Exists
    <3>2. Len(chain) \in Nat /\ Len(chain') \in Nat
      BY <2>1 DEF ReadInv, ChainInv
    <3> QED
      BY <2>1, <3>1, <3>2 DEF Exists, HashAt
  <2>4. SubmitterKnown'
    BY <2>1, <2>3 DEF ReadInv, SubmitterKnown, Reading
  <2>5. LogChecked'
    BY <2>1, <2>3 DEF ReadInv, SubmitterKnown, LogChecked, Reading, Notarized
  <2> QED
    BY <1>1, <2>1, <2>2, <2>4, <2>5 DEF ReadInv
<1> QED
  BY <1>2, <1>3

LEMMA ReadInductive == ReadSpec => []ReadInv
<1>1. ChainInit /\ ReadInit => ReadInv
  <2>1. ChainInit => ChainInv
    BY ChainStarts
  <2>2. ReadInit => QueryShape /\ QueryInv /\ SubmitterKnown /\ LogChecked
    BY DEF ReadInit, QueryShape, Nothing, QueryInv, Reading, SubmitterKnown, LogChecked
  <2> QED
    BY <2>1, <2>2 DEF ReadInv
<1>2. ReadInv /\ [ReadNext]_<<chainVars, readVars>> => ReadInv'
  <2>1. ASSUME ReadInv, UNCHANGED <<chainVars, query>> PROVE ReadInv'
    BY <2>1 DEF ReadInv, ChainInv, QueryShape, QueryInv, SubmitterKnown, LogChecked, Exists, HashAt,
                Notarized, chainVars
  <2>2. ASSUME ReadInv, IndexerTick PROVE ReadInv'
    BY <2>1, <2>2 DEF IndexerTick
  <2>3. ASSUME ReadInv, ChainMoves PROVE ReadInv'
    BY <2>3, ChainKeeps DEF ChainMoves
  <2> QED
    BY <2>1, <2>2, <2>3, QueryStepKeeps DEF ReadNext, readVars
<1> QED
  BY <1>1, <1>2, PTL DEF ReadSpec

(* Every read of a query is of a block that a working node has reached.     *)
THEOREM PinnedToTheChain == ReadSpec => PinIsReal
<1>1. ASSUME ReadInv, QueryStep PROVE PinnedByANode
  <2> SUFFICES ASSUME query.at = "pin", query'.at = "reads"
               PROVE  query'.pinned \in HeightsNear(Len(chain))
    BY DEF PinnedByANode
  <2>1. query.waiting = {}
    BY <1>1 DEF ReadInv, QueryInv
  <2>2. Pin
    BY <1>1, <2>1 DEF QueryStep, Begin, EvaluateRpcQuorum, AnswerIndexer, EvaluatePerAction,
                      ReadLiveStateBitmap, AllAnswered, ReadSubmitter, CheckLastAnchor, CheckLog, CheckHash
  <2> QED
    BY <1>1, <2>2, PinKeeps DEF QueryStep
<1>2. ReadInv /\ [ReadNext]_<<chainVars, readVars>> => [PinnedByANode]_query
  BY <1>1 DEF ReadNext, IndexerTick, ChainMoves, readVars
<1> QED
  BY <1>2, ReadInductive, PTL DEF ReadSpec, PinIsReal

(* In strict mode a query ends with "allowed" only at the two last checks.  *)
LEMMA FailRefuses == Fail => query'.outcome = "failed"
  BY DEF Fail, Nothing

LEMMA ContinueKeepsOutcome ==
  ASSUME QueryShape, NEW at, Continue(at)
  PROVE  query'.outcome = query.outcome
  BY DEF Continue, QueryShape

LEMMA OnlyChecksAllow ==
  ASSUME ReadInv, QueryStep, Passes
  PROVE  \/ \E log \in ManifestLogs :
              /\ query.at = "log" /\ log \notin {Error, None} /\ ~HashComparable(query)
              /\ log.manifest = query.snapshot.manifest /\ log.by = query.submitter
         \/ query.at = "hash" /\ CheckHash /\ ~Fail
<1>1. query.at # "done" /\ query.outcome # "allowed" /\ setup.strict /\ QueryShape
  BY DEF Passes, ReadInv, QueryInv
<1>2. ~Fail /\ query'.outcome # query.outcome /\ ~Begin
  BY <1>1, FailRefuses DEF Passes, Begin
<1>3. \A at : ~Continue(at)
  BY <1>1, <1>2, ContinueKeepsOutcome
<1>4. ~EvaluateRpcQuorum
  <2>1. ~Finish("blocked")
    BY DEF Finish, Nothing, Passes
  <2> QED
    BY <1>2, <1>3, <2>1 DEF EvaluateRpcQuorum
<1>5. ~Pin
  BY <1>1, <1>2 DEF Pin, QueryShape
<1>6. ~AnswerIndexer
  <2>1. ASSUME NEW s, query' = Answered("snapshot", [query EXCEPT !.snapshot = s]) PROVE FALSE
    BY <1>1, <1>2, <2>1 DEF Answered, QueryShape
  <2>2. ASSUME NEW h, query' = Answered("head", [query EXCEPT !.head = h]) PROVE FALSE
    BY <1>1, <1>2, <2>2 DEF Answered, QueryShape
  <2> QED
    BY <1>2, <2>1, <2>2 DEF AnswerIndexer
<1>7. ~EvaluatePerAction
  <2>1. ASSUME NEW d, query' = Answered("decision", [query EXCEPT !.decision = d]) PROVE FALSE
    BY <1>1, <1>2, <2>1 DEF Answered, QueryShape
  <2> QED
    BY <2>1 DEF EvaluatePerAction
<1>8. ~ReadLiveStateBitmap
  <2>1. ASSUME NEW r, query' = Answered("bitmap", [query EXCEPT !.raised = r]) PROVE FALSE
    BY <1>1, <1>2, <2>1 DEF Answered, QueryShape
  <2> QED
    BY <2>1 DEF ReadLiveStateBitmap
<1>9. ~AllAnswered
  BY <1>1, <1>2, <1>3 DEF AllAnswered
<1>10. ~ReadSubmitter
  BY <1>1, <1>2 DEF ReadSubmitter, QueryShape
<1>11. ~CheckLastAnchor
  BY <1>2, <1>3 DEF CheckLastAnchor
<1>12. CASE CheckLog
  BY <1>2, <1>3, <1>12 DEF CheckLog
<1>13. CASE CheckHash
  BY <1>2, <1>13 DEF CheckHash
<1> QED
  BY <1>2, <1>4, <1>5, <1>6, <1>7, <1>8, <1>9, <1>10, <1>11, <1>12, <1>13 DEF QueryStep

(* In strict mode an action is allowed only on an anchor that the           *)
(* registered submitter published on the branch the query reads, for any    *)
(* chain, any indexer and any configuration of the quorum.                  *)
THEOREM AllowedOnAnAnchor == ReadSpec => AnchorIsTheChains
<1>1. ASSUME ReadInv, QueryStep, Passes, reorgs = query.forks
      PROVE  Notarized(query, HashAt(query.pinned))
  <2>1. CASE query.at = "hash"
    BY <1>1, <2>1 DEF ReadInv, LogChecked
  <2>2. CASE query.at # "hash"
    BY <1>1, <2>2, OnlyChecksAllow, LogSound
  <2> QED
    BY <2>1, <2>2
<1>2. ASSUME ReadInv, QueryStep, Passes, HashComparable(query)
      PROVE  Exists(query.snapshot.emission) /\ HashAt(query.snapshot.emission) = query.snapshot.hash
  <2> DEFINE emission == query.snapshot.emission
             truths == IF Exists(emission) THEN {HashAt(emission)} ELSE {}
  <2>1. CheckHash /\ ~Fail
    BY <1>2, OnlyChecksAllow
  <2>2. PICK hash \in Reported(truths, {query.snapshot.hash}) : hash # Error /\ hash = query.snapshot.hash
    BY <2>1 DEF CheckHash
  <2>3. hash \in truths
    BY <2>2, ReportedSound
  <2> QED
    BY <2>2, <2>3
<1> DEFINE Published == Passes /\ reorgs = query.forks => Notarized(query, HashAt(query.pinned))
           OnBranch == Passes /\ HashComparable(query) =>
             Exists(query.snapshot.emission) /\ HashAt(query.snapshot.emission) = query.snapshot.hash
<1>3. ReadInv /\ [ReadNext]_<<chainVars, readVars>> => [Published]_query /\ [OnBranch]_query
  BY <1>1, <1>2 DEF ReadNext, IndexerTick, ChainMoves, readVars
<1> QED
  BY <1>3, ReadInductive, PTL DEF ReadSpec, AnchorIsTheChains, AnchorPublished, AnchorOnBranch
-----------------------------------------------------------------------------
(* Progress                                                                 *)

(* How many steps a query has still to make, at most: the stages before it  *)
(* and the requests of Promise.all that are not answered.                   *)
StageLeft == [quorum |-> 11, pin |-> 10, reads |-> 5, submitter |-> 4, lastAnchor |-> 3, log |-> 2,
              hash |-> 1, done |-> 0]
Awaited(request) == IF request \in query.waiting THEN 1 ELSE 0
Unanswered == Awaited("snapshot") + Awaited("head") + Awaited("decision") + Awaited("bitmap")
Remaining == StageLeft[query.at] + Unanswered

OnStage == QueryShape /\ QueryInv /\ query.at \in DOMAIN StageLeft
Shorter == OnStage' /\ Remaining' < Remaining

LEMMA RemainingType ==
  ASSUME OnStage
  PROVE  /\ Remaining \in Nat
         /\ query.at # "done" => Remaining > 0
         /\ query.at # "reads" => Remaining = StageLeft[query.at]
<1>1. \A request : Awaited(request) \in {0, 1}
  BY DEF Awaited
<1>2. query.at # "reads" => \A request : Awaited(request) = 0
  BY DEF OnStage, QueryInv, Awaited
<1>3. StageLeft[query.at] \in Nat /\ (query.at # "done" => StageLeft[query.at] > 0)
  BY DEF OnStage, StageLeft
<1>4. Unanswered \in Nat
  BY <1>1 DEF Unanswered
<1>5. query.at # "reads" => Unanswered = 0
  BY <1>2 DEF Unanswered
<1> QED
  BY <1>3, <1>4, <1>5 DEF Remaining

(* A query that fails or ends waits for nothing.                            *)
LEMMA NoneRemain ==
  ASSUME query'.at = "done", query'.waiting = {}
  PROVE  Remaining' = 0
<1>1. \A request : Awaited(request)' = 0
  BY DEF Awaited
<1>2. StageLeft["done"] = 0
  BY DEF StageLeft
<1> QED
  BY <1>1, <1>2 DEF Remaining, Unanswered

LEMMA EndingShortens ==
  ASSUME OnStage, QueryInv', query.at # "done",
         \/ Fail
         \/ \E outcome : Finish(outcome) /\ (outcome = "allowed" => query.waiting = {})
  PROVE  Shorter
<1>1. query'.at = "done" /\ query'.waiting = {} /\ QueryShape'
  <2>1. CASE Fail
    BY <2>1, FailShape DEF Fail, Nothing
  <2>2. ASSUME NEW outcome, Finish(outcome), outcome = "allowed" => query.waiting = {}
        PROVE  query'.at = "done" /\ query'.waiting = {} /\ QueryShape'
    <3>1. QueryShape'
      BY <2>2, FinishShape DEF OnStage
    <3>2. CASE outcome = "allowed"
      BY <2>2, <3>1, <3>2 DEF Finish, OnStage, QueryShape
    <3>3. CASE outcome # "allowed"
      BY <2>2, <3>1, <3>3 DEF Finish, Nothing
    <3> QED
      BY <3>1, <3>2, <3>3
  <2> QED
    BY <2>1, <2>2
<1>2. Remaining' = 0
  BY <1>1, NoneRemain
<1> QED
  BY <1>1, <1>2, RemainingType DEF Shorter, OnStage, StageLeft

LEMMA ContinuingShortens ==
  ASSUME OnStage, QueryInv', query.waiting = {}, NEW at \in DOMAIN StageLeft,
         Continue(at), StageLeft[at] < StageLeft[query.at]
  PROVE  Shorter
<1>1. QueryShape' /\ query'.at = at /\ query'.waiting = query.waiting
  BY ContinueShape DEF OnStage, QueryShape, Continue
<1>2. Awaited("snapshot")' = 0 /\ Awaited("head")' = 0 /\ Awaited("decision")' = 0 /\ Awaited("bitmap")' = 0
  BY <1>1 DEF Awaited
<1>3. Awaited("snapshot") = 0 /\ Awaited("head") = 0 /\ Awaited("decision") = 0 /\ Awaited("bitmap") = 0
  BY DEF Awaited
<1>4. StageLeft[at] \in Nat /\ StageLeft[query.at] \in Nat
  BY DEF OnStage, StageLeft
<1> QED
  BY <1>1, <1>2, <1>3, <1>4 DEF Shorter, OnStage, Remaining, Unanswered

(* An answer takes its request from those awaited.                          *)
LEMMA AnsweringShortens ==
  ASSUME OnStage, QueryInv', QueryShape',
         NEW request \in query.waiting \cap {"snapshot", "head", "decision", "bitmap"},
         query'.at = query.at, query'.waiting = query.waiting \ {request}
  PROVE  Shorter
<1>1. \A r : Awaited(r)' = IF r = request THEN 0 ELSE Awaited(r)
  BY DEF Awaited
<1>2. Awaited(request) = 1 /\ \A r : Awaited(r) \in {0, 1}
  BY DEF Awaited
<1>3. StageLeft[query.at] \in Nat
  BY DEF OnStage, StageLeft
<1>4. Unanswered' = Unanswered - 1
  <2>1. CASE request = "snapshot"
    BY <1>1, <1>2, <2>1 DEF Unanswered
  <2>2. CASE request = "head"
    BY <1>1, <1>2, <2>2 DEF Unanswered
  <2>3. CASE request = "decision"
    BY <1>1, <1>2, <2>3 DEF Unanswered
  <2>4. CASE request = "bitmap"
    BY <1>1, <1>2, <2>4 DEF Unanswered
  <2> QED
    BY <2>1, <2>2, <2>3, <2>4
<1>5. Unanswered \in Nat
  BY <1>2 DEF Unanswered
<1>6. OnStage'
  BY DEF OnStage
<1>7. Remaining' < Remaining
  BY <1>3, <1>4, <1>5 DEF Remaining
<1> QED
  BY <1>6, <1>7 DEF Shorter

LEMMA PinningShortens ==
  ASSUME OnStage, QueryInv', Pin
  PROVE  Shorter
<1>1. query.at = "pin" /\ QueryShape'
  BY PinShape DEF OnStage, Pin
<1>2. CASE Fail
  BY <1>1, <1>2, EndingShortens
<1>3. CASE query'.at = "reads"
  <2>1. \A r : Awaited(r)' \in {0, 1}
    BY DEF Awaited
  <2>2. Remaining' <= 9
    BY <1>3, <2>1 DEF Remaining, Unanswered, StageLeft
  <2>3. Remaining = 10
    BY <1>1, RemainingType DEF StageLeft
  <2>4. Remaining' \in Int
    BY <1>3, <2>1 DEF Remaining, Unanswered, StageLeft
  <2> QED
    BY <1>1, <1>3, <2>2, <2>3, <2>4 DEF Shorter, OnStage, StageLeft
<1> QED
  BY <1>1, <1>2, <1>3 DEF Pin, OnStage, QueryShape

LEMMA RequestsShorten ==
  ASSUME OnStage, QueryInv', AnswerIndexer \/ EvaluatePerAction \/ ReadLiveStateBitmap
  PROVE  Shorter
<1>1. query.at # "done"
  BY DEF OnStage, QueryInv, AnswerIndexer, EvaluatePerAction, ReadLiveStateBitmap
<1>2. CASE Fail
  BY <1>1, <1>2, EndingShortens
<1>3. ASSUME NEW s, "snapshot" \in query.waiting, query' = Answered("snapshot", [query EXCEPT !.snapshot = s])
      PROVE  Shorter
  <2>1. QueryShape' /\ query'.at = query.at /\ query'.waiting = query.waiting \ {"snapshot"}
    BY <1>3 DEF OnStage, QueryShape, Answered
  <2> QED
    BY <1>3, <2>1, AnsweringShortens
<1>4. ASSUME NEW h, "head" \in query.waiting, query' = Answered("head", [query EXCEPT !.head = h])
      PROVE  Shorter
  <2>1. QueryShape' /\ query'.at = query.at /\ query'.waiting = query.waiting \ {"head"}
    BY <1>4 DEF OnStage, QueryShape, Answered
  <2> QED
    BY <1>4, <2>1, AnsweringShortens
<1>5. ASSUME NEW d, "decision" \in query.waiting, query' = Answered("decision", [query EXCEPT !.decision = d])
      PROVE  Shorter
  <2>1. QueryShape' /\ query'.at = query.at /\ query'.waiting = query.waiting \ {"decision"}
    BY <1>5 DEF OnStage, QueryShape, Answered
  <2> QED
    BY <1>5, <2>1, AnsweringShortens
<1>6. ASSUME NEW r, "bitmap" \in query.waiting, query' = Answered("bitmap", [query EXCEPT !.raised = r])
      PROVE  Shorter
  <2>1. QueryShape' /\ query'.at = query.at /\ query'.waiting = query.waiting \ {"bitmap"}
    BY <1>6 DEF OnStage, QueryShape, Answered
  <2> QED
    BY <1>6, <2>1, AnsweringShortens
<1>7. CASE AnswerIndexer
  BY <1>2, <1>3, <1>4, <1>7 DEF AnswerIndexer
<1>8. CASE EvaluatePerAction
  BY <1>5, <1>8 DEF EvaluatePerAction
<1>9. CASE ReadLiveStateBitmap
  BY <1>6, <1>9 DEF ReadLiveStateBitmap
<1> QED
  BY <1>7, <1>8, <1>9

LEMMA ReadingSubmitterShortens ==
  ASSUME OnStage, QueryInv', ReadSubmitter
  PROVE  Shorter
<1>1. query.at = "submitter" /\ query.waiting = {}
  BY DEF OnStage, QueryInv, ReadSubmitter
<1>2. CASE Fail
  BY <1>1, <1>2, EndingShortens
<1>3. ASSUME NEW by, query' = [query EXCEPT !.at = "lastAnchor", !.submitter = by]
      PROVE  Shorter
  <2>1. QueryShape' /\ query'.at = "lastAnchor" /\ query'.waiting = {}
    BY <1>1, <1>3 DEF OnStage, QueryShape
  <2>2. OnStage'
    BY <2>1 DEF OnStage, StageLeft
  <2>3. Awaited("snapshot")' = 0 /\ Awaited("head")' = 0 /\ Awaited("decision")' = 0 /\ Awaited("bitmap")' = 0
    BY <2>1 DEF Awaited
  <2>4. Remaining' = 3
    BY <2>1, <2>3 DEF Remaining, Unanswered, StageLeft
  <2>5. Remaining = 4
    BY <1>1, RemainingType DEF StageLeft
  <2> QED
    BY <2>2, <2>4, <2>5 DEF Shorter
<1> QED
  BY <1>2, <1>3 DEF ReadSubmitter

LEMMA QueryStepShortens ==
  ASSUME ReadInv, OnStage, QueryStep, query.at # "done"
  PROVE  Shorter
<1>1. QueryInv' /\ ~Begin
  BY QueryStepKeeps DEF ReadInv, Begin
<1>2. query.at # "reads" => query.waiting = {}
  BY DEF OnStage, QueryInv
<1>3. CASE EvaluateRpcQuorum
  <2>1. query.at = "quorum" /\ query.waiting = {} /\ "pin" \in DOMAIN StageLeft
        /\ StageLeft["pin"] < StageLeft["quorum"]
    BY <1>2, <1>3 DEF EvaluateRpcQuorum, StageLeft
  <2> QED
    BY <1>1, <1>3, <2>1, EndingShortens, ContinuingShortens DEF EvaluateRpcQuorum
<1>4. CASE AllAnswered
  <2>1. query.at = "reads" /\ query.waiting = {} /\ "submitter" \in DOMAIN StageLeft
        /\ StageLeft["submitter"] < StageLeft["reads"]
    BY <1>4 DEF AllAnswered, StageLeft
  <2> QED
    BY <1>1, <1>4, <2>1, EndingShortens, ContinuingShortens DEF AllAnswered
<1>5. CASE CheckLastAnchor
  <2>1. query.at = "lastAnchor" /\ query.waiting = {} /\ "log" \in DOMAIN StageLeft
        /\ StageLeft["log"] < StageLeft["lastAnchor"]
    BY <1>2, <1>5 DEF CheckLastAnchor, StageLeft
  <2> QED
    BY <1>1, <1>5, <2>1, EndingShortens, ContinuingShortens DEF CheckLastAnchor
<1>6. CASE CheckLog
  <2>1. query.at = "log" /\ query.waiting = {} /\ "hash" \in DOMAIN StageLeft
        /\ StageLeft["hash"] < StageLeft["log"]
    BY <1>2, <1>6 DEF CheckLog, StageLeft
  <2> QED
    BY <1>1, <1>6, <2>1, EndingShortens, ContinuingShortens DEF CheckLog
<1>7. CASE CheckHash
  BY <1>1, <1>2, <1>7, EndingShortens DEF CheckHash
<1> QED
  BY <1>1, <1>3, <1>4, <1>5, <1>6, <1>7, PinningShortens, RequestsShorten, ReadingSubmitterShortens
     DEF QueryStep

(* getReadiness asks nothing twice: every answer, failure or timeout leaves *)
(* fewer steps to the end, at most eleven, whatever the chain, the indexer  *)
(* and the nodes do.  QueryEnds thus needs no more than that answers come.  *)
THEOREM QueriesShorten ==
  ReadSpec => [](Remaining \in 0 .. 11) /\ [][query.at \in InFlight => Remaining' < Remaining]_query
<1>1. ChainInit /\ ReadInit => OnStage
  BY DEF ReadInit, OnStage, QueryShape, QueryInv, Reading, Nothing, StageLeft
<1>2. ASSUME ReadInv, ReadInv', OnStage, [ReadNext]_<<chainVars, readVars>>
      PROVE  OnStage' /\ [query.at \in InFlight => Remaining' < Remaining]_query
  <2>1. CASE UNCHANGED query
    BY <1>2, <2>1 DEF OnStage, ReadInv
  <2>2. CASE QueryStep /\ query.at # "done"
    BY <1>2, <2>2, QueryStepShortens DEF Shorter
  <2>3. CASE QueryStep /\ query.at = "done"
    <3>1. query.waiting = {}
      BY <1>2, <2>3 DEF OnStage, QueryInv
    <3>2. ~AnswerIndexer /\ ~EvaluatePerAction /\ ~ReadLiveStateBitmap
      BY <3>1 DEF AnswerIndexer, EvaluatePerAction, ReadLiveStateBitmap
    <3>3. Begin
      BY <2>3, <3>2 DEF QueryStep, EvaluateRpcQuorum, Pin, AllAnswered, ReadSubmitter, CheckLastAnchor, CheckLog,
                        CheckHash
    <3>4. query'.at = "quorum"
      BY <3>3 DEF Begin, Nothing
    <3> QED
      BY <1>2, <2>3, <3>4 DEF OnStage, ReadInv, StageLeft, InFlight
  <2> QED
    BY <1>2, <2>1, <2>2, <2>3 DEF ReadNext, IndexerTick, ChainMoves, readVars
<1>3. OnStage => Remaining \in 0 .. 11
  <2>1. ASSUME OnStage PROVE Remaining \in 0 .. 11
    <3>1. Awaited("snapshot") \in {0, 1} /\ Awaited("head") \in {0, 1} /\ Awaited("decision") \in {0, 1}
          /\ Awaited("bitmap") \in {0, 1}
      BY DEF Awaited
    <3>2. CASE query.at = "reads"
      BY <3>1, <3>2 DEF Remaining, Unanswered, StageLeft
    <3>3. CASE query.at # "reads"
      BY <2>1, <3>3, RemainingType DEF OnStage, StageLeft
    <3> QED
      BY <3>2, <3>3
  <2> QED
    BY <2>1
<1> QED
  BY <1>1, <1>2, <1>3, ReadInductive, PTL DEF ReadSpec
=============================================================================
