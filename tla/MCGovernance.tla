---------------------------- MODULE MCGovernance ----------------------------
(***************************************************************************)
(* The parts of governance on one chain: configuration, critical roles, the *)
(* guardian, what the risk adapter makes of its feeds and of the guardian,  *)
(* and what it makes of a position.  The first three share the block number *)
(* and nothing else, so a behaviour exercises one part and leaves the       *)
(* others where they start.                                                 *)
(***************************************************************************)
EXTENDS LoopRegistry, CriticalRoles, RiskOracle, FiniteSets

VARIABLE part

vars == <<part, block, registryVars, roleVars, guardianVars, riskVars>>

MCInit ==
  /\ part \in {"registry", "roles", "guardian", "risk", "health"}
  /\ ClockInit /\ RegistryInit /\ RolesInit /\ GuardianInit /\ RiskInit
  /\ part # "risk" => nav = NavBaseline
  /\ part # "health" => position.collateral = Wad /\ market.price = Wad

(* The settings, which no other call reads, are made before configuration   *)
(* and unmade when the market is ready (a bound).                           *)
RegistryMoves ==
  /\ part = "registry" /\ RegistryStep
  /\ config.version = 0 /\ config' # config => settings.adapter /\ settings.freshness
  /\ settings' # settings => config.version = 0 \/ ProductionReady
  /\ UNCHANGED <<part, roleVars, guardianVars, riskVars>>
RolesMove == part = "roles" /\ RolesStep /\ UNCHANGED <<part, registryVars, guardianVars, riskVars>>
GuardianMoves ==
  part = "guardian" /\ GuardianStep /\ UNCHANGED <<part, registryVars, roleVars, riskVars>>

(* Beside the feeds the guardian stays who it is and toggles once; one read *)
(* fails at a time, and nothing else moves meanwhile.                       *)
FeedsMove ==
  /\ part = "risk"
  /\ \/ FeedsStep /\ UNCHANGED <<block, guardianVars>>
     \/ /\ GuardianStep /\ guardianRole' = guardianRole
        /\ toggles'["OPEN"].count + toggles'["REBALANCE"].count <= 1
        /\ incidentState' # "NONE" => pauseBitmap' = {}
        /\ UNCHANGED riskVars
  /\ unread = {} \/ unread' = {}
  /\ Cardinality(unread') + (IF deep' THEN 0 ELSE 1) + (IF nav' = NavBaseline THEN 0 ELSE 1) <= 1
  /\ UNCHANGED <<part, registryVars, roleVars>>
PositionMoves ==
  part = "health" /\ HealthStep /\ UNCHANGED <<part, block, registryVars, roleVars, guardianVars>>

TimePasses ==
  /\ part # "health" /\ Tick
  /\ IF part = "risk" THEN FeedsTick ELSE UNCHANGED riskVars
  /\ UNCHANGED <<part, registryVars, roleVars, guardianVars>>

MCNext ==
  RegistryMoves \/ RolesMove \/ GuardianMoves \/ FeedsMove \/ PositionMoves \/ TimePasses

MCSpec == MCInit /\ [][MCNext]_vars

-----------------------------------------------------------------------------
(* Bounds *)

MCSources == {"CURVE", "EXTERNAL"}
MCVenues == {"pool", "rival"}
(* Levels 1000 and 1006 are out of each other's tolerance.                  *)
MCFirstView == [shape |-> 1, level |-> 1000, readable |-> TRUE]
MCViews ==
  {MCFirstView, [MCFirstView EXCEPT !.shape = 2], [MCFirstView EXCEPT !.level = 1006],
   [MCFirstView EXCEPT !.readable = FALSE]}

Venue(source, venue) == [op |-> "VENUE", source |-> source, venue |-> venue]
Fingerprint(source) == [op |-> "FINGERPRINT", source |-> source]

(* Wiring, applying fingerprints, one of them together with the rotation of *)
(* a venue, and a batch whose second operation reverts.                     *)
MCBatches ==
  {<<Venue("EXTERNAL", "pool"), [op |-> "FEE_TIER", value |-> 1], Venue("CURVE", "rival")>>,
   <<Fingerprint("EXTERNAL")>>,
   <<Fingerprint("CURVE"), Venue("EXTERNAL", "rival")>>,
   <<[op |-> "FEE_TIER", value |-> 2], [op |-> "UNKNOWN"]>>}

MCRoles == {"INDEXER_SIGNER", "ANCHOR_SUBMITTER"}

-----------------------------------------------------------------------------
(* The types of the three parts, and that no guardian is governance.        *)
GovernanceTypeOK == RegistryTypeOK /\ RolesTypeOK /\ GuardianTypeOK

(* Governance moves within its types and never past its own notice.         *)
GovernedAsAnnounced == GovernanceTypeOK /\ VenuesAnnounced
=============================================================================
