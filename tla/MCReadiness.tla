---------------------------- MODULE MCReadiness ----------------------------
(* Readiness queries of four SDK configurations over a chain that grows and *)
(* forks: two providers of one faulty family and one provider that works.   *)
EXTENDS Readiness

CONSTANTS alice, bob, m1, m2, lies, works

MCFamilyOf == [i \in Members |-> IF i = 3 THEN works ELSE lies]

MCSetups ==
  {BuildSdkConfig(Cardinality(Members), FALSE, honest) : honest \in BOOLEAN}
    \cup {BuildSdkConfig(1, single, TRUE) : single \in BOOLEAN}

(* The production configuration beside an indexer that tells no lies.       *)
HonestSetups == {BuildSdkConfig(Cardinality(Members), FALSE, TRUE)}

MCEvents ==
  {Anchor(1, m1, alice), Anchor(2, m1, alice), Rotation(bob), Drift, Incident}

vars == <<chainVars, readVars>>

Init == ChainInit /\ ReadInit

(* What matters to a configuration: anchors where they are checked; a chain *)
(* holds at most two events, one once it has forked or beside an indexer    *)
(* that lies.                                                               *)
OfInterest ==
  /\ Cardinality(EmittedIn(chain')) <= IF setup.honest THEN 2 - reorgs' ELSE 1
  /\ \/ setup.strict /\ setup.quorum /\ EmittedIn(chain') \cap {Drift, Incident} = {}
     \/ setup.honest /\ EmissionsIn(chain') = {} /\ Rotation(bob) \notin EmittedIn(chain')

(* The order of two answers is left open only where either depends on what  *)
(* happens in between: without anchors the indexer answers first, without   *)
(* drift and incidents it answers last.  One that lies claims the head that *)
(* makes its anchor fresh; an anchor of block 0 fails whatever else.        *)
Order == IF setup.strict THEN <<"bitmap", "decision">> ELSE <<"snapshot", "head">>
InOrder ==
  query.at = "reads" /\ query'.waiting # query.waiting =>
    /\ Order[1] \notin query'.waiting
    /\ Order[2] \in query'.waiting => query'.waiting \cup {Order[1]} = query.waiting
    /\ ~setup.honest => query'.head \in {None, 0}
    /\ query'.snapshot # None /\ query'.snapshot.number = 0 => query'.snapshot.hash = None

(* What the indexer does between its answers and the next query it may as   *)
(* well do when the next query starts, and a later query is no different    *)
(* from a first: after the first one's result nothing moves until the next. *)
Awaited == query.at \in {"quorum", "pin"} \/ query.waiting \cap {"snapshot", "head"} # {}
First == query = Nothing

Next ==
  \/ QueryStep /\ InOrder
  \/ (First \/ Awaited) /\ IndexerTick
  \/ (First \/ query.at # "done") /\ ChainMoves /\ OfInterest

Spec == Init /\ [][Next]_vars
FairSpec == Spec /\ WF_vars(QueryStep /\ InOrder)

(* The indexer follows the chain, stops before the query, and the chain     *)
(* goes on.                                                                 *)
StalledSpec == Init /\ [][Next /\ (indexed' # indexed => First)]_vars
=============================================================================
