----------------------------- MODULE RpcQuorum -----------------------------
(***************************************************************************)
(* sdk/src/live/quorum.ts: a read is sent to every member of the quorum,   *)
(* each answers a value or fails, and the value that the most families of  *)
(* providers report counts when there are enough of them.                  *)
(***************************************************************************)
EXTENDS Integers, FiniteSets

CONSTANTS
  Members,       \* the providers, 1 .. n in the order they were configured
  FamilyOf,      \* [Members -> families], normalised by the allowlist
  Threshold,     \* config.threshold
  MaxBlockLag,   \* config.maxBlockLagBlocks
  Faulty,        \* families whose members may answer anything
  Error          \* no answer: a failure or a timeout

Families == {FamilyOf[i] : i \in Members}

ASSUME QuorumAssumption ==
  /\ Members = 1 .. Cardinality(Members) /\ IsFiniteSet(Members) /\ Members # {}
  /\ Threshold \in Nat \ {0} /\ MaxBlockLag \in Nat
  /\ Error \notin Nat /\ Error \notin BOOLEAN /\ Error \notin {"right", "wrong"}

(* Independence is what the threshold is for: fewer families are faulty     *)
(* than have to agree.                                                      *)
ASSUME FaultAssumption == IsFiniteSet(Faulty) /\ Cardinality(Faulty) < Threshold

(* The answers are a function from the members to values or Error.          *)
Valid(answers) == {i \in Members : answers[i] # Error}
Values(answers) == {answers[i] : i \in Valid(answers)}
Reporting(answers, value) == {i \in Valid(answers) : answers[i] = value}

AllReporting(answers, value) == Reporting(answers, value)  \* mutant of MatchedFamilies: members are counted, not families
MatchedFamilies(answers, value) == {FamilyOf[i] : i \in Reporting(answers, value)}

Support(answers, value) == Cardinality(MatchedFamilies(answers, value))
SeenFirst(answers, v, w) ==
  \E i \in Reporting(answers, v) : \A j \in Reporting(answers, w) : i <= j

(* The group with the most families, the first seen among equals.           *)
Best(answers) ==
  CHOOSE v \in Values(answers) :
    \A w \in Values(answers) :
      \/ Support(answers, v) > Support(answers, w)
      \/ Support(answers, v) = Support(answers, w) /\ SeenFirst(answers, v, w)

Spread(answers) == {v - w : v, w \in Values(answers)}

ReadStatus(answers) ==
  IF Support(answers, Best(answers)) >= Threshold THEN "ok" ELSE "notIndependent"

HeightStatus(answers) ==
  IF Valid(answers) = {} THEN "degraded"
  ELSE IF \E d \in Spread(answers) : d > MaxBlockLag THEN "blockInconsistent"
  ELSE ReadStatus(answers)

(* What asPublicClient returns; Error when it throws.                       *)
AgreedRead(answers) ==
  IF Valid(answers) # {} /\ ReadStatus(answers) = "ok" THEN Best(answers) ELSE Error
AgreedHeight(answers) ==
  IF HeightStatus(answers) = "ok" THEN Best(answers) ELSE Error

-----------------------------------------------------------------------------
(* A member of a family that is not faulty answers one of `truths` or       *)
(* fails; the others answer anything of `domain`.                           *)
Honest(answers, truths) ==
  \A i \in Members : FamilyOf[i] \notin Faulty => answers[i] \in truths \cup {Error}

Answers(truths, domain) ==
  {a \in [Members -> domain \cup {Error}] : Honest(a, truths)}
=============================================================================
