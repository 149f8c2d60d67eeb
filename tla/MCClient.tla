------------------------------ MODULE MCClient ------------------------------
(* The client's signing components, one at a time: two tabs that race over  *)
(* one block, one tab while the chain moves, the force-exit panel, the loop *)
(* builder's gates, an action's evidence, its bounds and digests, and a     *)
(* subscription to a position.                                              *)
EXTENDS SignSession, ForceExitFlow, SigningGates, EvidenceSet, BuiltAction, PositionFeed

CONSTANTS open, exit, tab1, tab2, oracle, curve

VARIABLE part
vars == <<signVars, flowVars, gateVars, evidenceVars, builtVars, feedVars, part>>

(* Where a part is not the one examined it stays in one of its initial      *)
(* states; a subscription is one that was cancelled at once.                *)
ParRegistry == <<[version |-> 1, required |-> <<>>, canonical |-> [id \in SourceIds |-> 0]]>>
FirstInput == [type |-> "Open", collateral |-> 7, leverage |-> 10000, slippage |-> 0, repayOnly |-> FALSE]
ParPosition == [collateral |-> 2, debt |-> 1]
ParVenue == [sharePrice |-> 1000, feeTier |-> 5, curve |-> TRUE, uniswap |-> TRUE]

Init ==
  /\ part \in {"race", "drift", "panel", "builder", "evidence", "built", "feed"}
  /\ SignInit /\ FlowInit /\ GateInit
  /\ IF part = "evidence" THEN EvidenceInit ELSE registry = ParRegistry /\ healthy = SourceIds /\ bundle = Idle
  /\ IF part = "built" THEN BuiltInit ELSE input = FirstInput /\ venue = ParVenue /\ built = [at |-> "derive"]
  /\ IF part = "feed" THEN FeedInit ELSE history = <<ParPosition>> /\ NoSubscription
  /\ part = "evidence" => registry[1].canonical[2] = 2 /\ registry[1].canonical[1] # 2
  /\ part = "built" =>
       /\ venue.sharePrice # 1000 \/ venue.feeTier # 5 => input.type = "Open"
       /\ input.leverage # 30000 => input.type \in {"Open", "Rebalance"}
  /\ part # "drift" => price = 1
  /\ part # "panel" => live = {}
  /\ part # "builder" => lastHarvest = 0 /\ cooling = 1 /\ owner = [contract |-> FALSE, listed |-> FALSE]

(* Three reads of one block give the same answers in any order; where the   *)
(* chain moves, version before root stands for root before version.         *)
InOrder ==
  \A t \in Tabs :
    LET d == tab'[t].draft IN
    /\ d.root # None => d.version # None
    /\ d.block # None => d.root # None

(* Tabs are alike: of two in the same state the first moves.  Refetching is *)
(* left to the other part, which ends when the transaction it sent does.    *)
Race ==
  /\ SignNext /\ InOrder /\ head' = head
  /\ tab[tab1] = tab[tab2] => tab'[tab2] = tab[tab2]
  /\ \A t \in Tabs : tab'[t].draft.type # None => tab'[t].shown = None
Drift ==
  /\ SignNext /\ InOrder /\ tab'[tab2] = tab[tab2]
  /\ sent # {} => tab' = tab

(* The chain moves under the private mode and with no waiver ticked, as no  *)
(* gate asks for both, where the anchor and the quorum pass and the proof   *)
(* is not wrong; elsewhere the reads are answered in one order.  Of anchor  *)
(* and quorum at least one passes.  A stale preview is asked for anew where *)
(* its harvest gate passed.                                                 *)
Moving ==
  /\ form.mode = "PRIVATE_BUILDER" /\ form.waivers = {}
  /\ gates # Unset => gates["ANCHOR"] = "pass" /\ gates["QUORUM"] = "pass"
  /\ action # Unset => action.proof # "wrong"
Builder ==
  /\ GateNext
  /\ block' # block => Moving
  /\ block' # 1 => Moving'
  /\ gates' # Unset => \E g \in {"ANCHOR", "QUORUM"} : gates'[g] = "pass"
  /\ preview' # Unset /\ preview' # preview =>
       /\ gates # Unset => Moving /\ gates["HARVEST"] = "pass"
       /\ ~Moving => ~preview'.failed /\ \E n \in 0 .. 3 :
            \A i \in 1 .. 3 : preview'[<<"last", "cooling", "head">>[i]] # Unset <=> i <= n

(* One change of the configuration; a venue fails only while it matters;    *)
(* a custom resolver's many answers only early on.                          *)
Gather ==
  /\ EvidenceNext
  /\ registry'[Len(registry')].version <= 2
  /\ healthy' # healthy => bundle.at = "pinned" /\ bundle.resolver = "live"
  /\ bundle.resolver = "custom" /\ bundle.at = "bound" => Len(registry') <= 3

(* Calldata is altered on its way for one venue and one amount.             *)
Assembly ==
  /\ BuiltNext
  /\ built'.at = "delivered" /\ (venue # ParVenue \/ input.slippage # 50 \/ input.collateral = 7) =>
       built'.delivered = EncodeAction(input.type, built.action)

Next ==
  /\ UNCHANGED part
  /\ \/ part = "race" /\ Race
     \/ part = "drift" /\ Drift
     \/ part \notin {"race", "drift"} /\ UNCHANGED signVars
  /\ \/ part = "panel" /\ FlowNext
     \/ part # "panel" /\ UNCHANGED flowVars
  /\ \/ part = "builder" /\ Builder
     \/ part # "builder" /\ UNCHANGED gateVars
  /\ \/ part = "evidence" /\ Gather
     \/ part # "evidence" /\ UNCHANGED evidenceVars
  /\ \/ part = "built" /\ Assembly
     \/ part # "built" /\ UNCHANGED builtVars
  /\ \/ part = "feed" /\ FeedNext
     \/ part # "feed" /\ UNCHANGED feedVars

Spec ==
  /\ Init /\ [][Next]_vars
  /\ \A t \in Tabs : WF_signVars(CheckPin(t) \/ Attach(t))
  /\ WF_feedVars(part = "feed" /\ Ticks) /\ SF_feedVars(part = "feed" /\ Pins) /\ SF_feedVars(part = "feed" /\ Answers)
=============================================================================
