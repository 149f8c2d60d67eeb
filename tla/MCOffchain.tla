----------------------------- MODULE MCOffchain -----------------------------
(* The chain, the indexer and the anchor service together.  A scenario says *)
(* what the contracts emit: a commit, a role's rotation, a step of an       *)
(* action, policy changes, or the anchors that the service, asleep in the   *)
(* others, sends.                                                           *)
EXTENDS AnchorService

CONSTANTS policy, Scenarios

VARIABLES
  scenario,
  mishaps     \* what may have befallen the indexer

mcVars == <<scenario, mishaps>>
offchainVars == <<chainVars, indexerVars, anchorVars, mcVars>>

Created == [table |-> "policies", policy |-> policy, change |-> "created"]
Revoked == [table |-> "policies", policy |-> policy, change |-> "revoked"]
Commit == [table |-> "registry_commits", version |-> 1]
Rotation == [table |-> "role_rotations"]
Step == [table |-> "action_steps"]

PolicyEvents == {Created, Revoked}
MCEvents == PolicyEvents \cup {Commit, Rotation, Step}

OfScenario(event) ==
  \/ scenario = "commit" /\ event = Commit
  \/ scenario = "rotation" /\ event = Rotation
  \/ scenario = "step" /\ event = Step
  \/ /\ scenario = "policies" /\ event \in PolicyEvents
     /\ event = Revoked => Created \in EmittedIn(chain')
  \/ scenario = "anchor" /\ event \in ToSet(sent)

Init ==
  /\ ChainInit /\ IndexerInit /\ AnchorInit
  /\ scenario \in Scenarios
  /\ mishaps = IF scenario = "anchor" THEN {"straddled", "interrupted"} ELSE {}

ChainStep ==
  /\ Extend \/ Reorganise \/ IncludeAnchor
  /\ \A event \in EmittedIn(chain') : OfScenario(event)
  /\ scenario = "anchor" => reorgs' <= 1
  /\ mishaps' = mishaps \cup IF tick # Idle /\ reorgs' # reorgs THEN {"straddled"} ELSE {}
  /\ UNCHANGED <<indexerVars, anchorVars, scenario>>

Index ==
  /\ \/ IndexerStep /\ UNCHANGED mishaps
     \/ TickFails /\ UNCHANGED mishaps
     \/ CrashInRollback /\ mishaps' = mishaps \cup {"interrupted"}
  /\ scenario = "anchor" => UNCHANGED failures
  /\ UNCHANGED <<chainVars, anchorVars, scenario>>

(* No commit is stored here, so when the registry answers makes no          *)
(* difference: it does first.                                               *)
Anchor ==
  /\ scenario = "anchor"
  /\ ServiceStep \/ ServiceFails
  /\ service'.at = "read" /\ "registry" \in service'.waiting => service = Asleep
  /\ UNCHANGED <<chainVars, indexerVars, mcVars>>

Next == ChainStep \/ Index \/ Anchor

(* A reorganisation in the middle of a tick aside, no rollback, cut off by  *)
(* a crash or not, leaves a row of an orphaned block to be served.          *)
OrphansDropped == "straddled" \notin mishaps => OrphansExcluded

(* And unless a rollback was cut off, every row of the chain is there.      *)
RowsComplete ==
  mishaps = {} /\ AtRest =>
    \A n \in 1 .. db.head.number :
      LET event == chain[n].event
      IN event = None \/ event \in PolicyEvents \/ \E r \in Served : r.number = n /\ r.event = event

(* An indexer at rest holds the rows of its chain, no more and no fewer.    *)
RowsExact == OrphansDropped /\ RowsComplete

Spec == Init /\ [][Next]_offchainVars

(* Blocks keep coming and the poll loop runs on; nothing else has to move.  *)
NewBlock == ChainStep /\ UNCHANGED reorgs
Poll == IndexerStep /\ UNCHANGED <<chainVars, anchorVars, mcVars>>
FairSpec == Spec /\ WF_offchainVars(NewBlock) /\ WF_offchainVars(Poll)
=============================================================================
