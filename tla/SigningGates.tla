---------------------------- MODULE SigningGates ----------------------------
(***************************************************************************)
(* What stands between the loop builder's form and the owner's signature:  *)
(* the MEV mode and its waivers, the six post-matrix gates the SDK runs    *)
(* for a preview (sdk/src/gates/post-matrix.ts) and the drawer's button,   *)
(* next to what the contracts check of the same action.                    *)
(***************************************************************************)
EXTENDS Naturals, FiniteSets

CONSTANTS
  Coolings,  \* what harvestCoolingBlocks may be set to
  LastBlock, \* bound: last block
  Unset

ASSUME GateAssumption == Coolings \subseteq Nat /\ Coolings # {} /\ LastBlock \in Nat \ {0}

BuilderTypes == {"OPEN", "REBALANCE", "EXIT"}
Waivers == {"PUBLIC_MEMPOOL", "SEQUENCER_DIRECT_FALLBACK"}
Modes == {"PRIVATE_BUILDER", "PUBLIC", "SEQUENCER_DIRECT_FAILOPEN", "SEALED_AUCTION"}
Proofs == {Unset, "right", "wrong"}

VARIABLES
  block, lastHarvest,  \* the chain: its last block, the market's last harvest (0: never)
  cooling,             \* harvestCoolingBlocks
  owner,               \* contract: has code; listed: preimageDisplayGuaranteedWallet
  form,                \* the builder's inputs: type, borrows, mode, waivers
  action,              \* the action derived from those inputs, Unset while loading
  preview,             \* what a preview being asked for has read so far, or Unset
  gates, seen          \* the preview's gate statuses and the reads behind them, Unset while loading

world == <<block, lastHarvest, cooling, owner>>
gateVars == <<world, form, action, preview, gates, seen>>

Gates == {"HARVEST", "ANCHOR", "QUORUM", "PREIMAGE", "MEV", "THROTTLE"}

(* The harvest gate's three reads, whether one of them failed, and whether  *)
(* the owner's wallet is on the allow-list.                                 *)
HarvestReads == {"last", "cooling", "head"}
Unread == [last |-> Unset, cooling |-> Unset, head |-> Unset, failed |-> FALSE, listed |-> Unset]

-----------------------------------------------------------------------------
(* The gates                                                                *)

(* Of the builder's actions, the risk-increasing and the high-risk ones.    *)
IsRiskIncreasing(a) == a.type = "OPEN" \/ (a.type = "REBALANCE" /\ a.borrows)
IsHighRiskByDigest(a) == a.type = "OPEN" \/ (a.type = "REBALANCE" /\ a.borrows)

(* lib/high-risk.ts: a rebalance's ceiling has another name than it looks   *)
(* for.                                                                     *)
IsHighRiskAction(a) == a.type = "OPEN"

LaxG1(a, reads) ==  \* mutant of EvaluateG1: the last block of the window passes
  IF ~IsRiskIncreasing(a) THEN "notApplicable"
  ELSE IF reads.head < reads.last + reads.cooling THEN "fail" ELSE "pass"
EvaluateG1(a, reads) ==
  IF ~IsRiskIncreasing(a) THEN "notApplicable"
  ELSE IF reads.head <= reads.last + reads.cooling THEN "fail" ELSE "pass"

EvaluateG2(anchor) == IF anchor = "fresh" THEN "pass" ELSE "fail"
EvaluateG3(quorum) == IF quorum = "ok" THEN "pass" ELSE "fail"

(* The gate does not ask whether the owner is a contract.                   *)
EvaluateG4(a, allowed) ==
  IF ~IsHighRiskByDigest(a) \/ allowed THEN "notApplicable"
  ELSE IF a.proof = Unset THEN "fail" ELSE "pass"

(* evaluateGateStatusesForAction, of what it read: a read that failed       *)
(* leaves its gate without inputs, and a gate without inputs does not       *)
(* apply.                                                                   *)
EvaluateGates(a, reads, anchor, quorum) ==
  [g \in Gates |->
     CASE g = "HARVEST"  -> IF reads.failed \/ a.type = "EXIT" THEN "notApplicable" ELSE EvaluateG1(a, reads)
       [] g = "ANCHOR"   -> IF anchor = Unset THEN "notApplicable" ELSE EvaluateG2(anchor)
       [] g = "QUORUM"   -> IF quorum = Unset THEN "notApplicable" ELSE EvaluateG3(quorum)
       [] g = "PREIMAGE" -> EvaluateG4(a, reads.listed)
       [] OTHER          -> "notApplicable"]  \* MEV, THROTTLE: no inputs for a manual action

(* allGatesClear: every row of the registry passes or does not apply.       *)
AllGatesClear(statuses) == \A g \in Gates : statuses[g] \in {"pass", "notApplicable"}

-----------------------------------------------------------------------------
(* The form                                                                 *)

RequiredWaivers(mode) ==
  CASE mode = "PUBLIC" -> {"PUBLIC_MEMPOOL"}
    [] mode = "SEQUENCER_DIRECT_FAILOPEN" -> {"SEQUENCER_DIRECT_FALLBACK"}
    [] mode = "SEALED_AUCTION" -> Waivers
    [] OTHER -> {}

WaiversComplete == RequiredWaivers(form.mode) \subseteq form.waivers

GateInit ==
  /\ block = 1 /\ lastHarvest \in {0, 1} /\ cooling \in Coolings
  /\ owner \in [contract : BOOLEAN, listed : BOOLEAN]
  /\ form = [type |-> "OPEN", borrows |-> TRUE, mode |-> "PRIVATE_BUILDER", waivers |-> {}]
  /\ action = Unset /\ preview = Unset /\ gates = Unset /\ seen = Unset

(* Other inputs are another query key: the old action and preview go, and   *)
(* so does the preview that was being asked for.                            *)
KeyedByType ==  \* mutant of Keyed: inputs other than the type keep the action
  IF form'.type = form.type THEN UNCHANGED <<action, preview, gates, seen>>
  ELSE action' = Unset /\ preview' = Unset /\ gates' = Unset /\ seen' = Unset
Keyed == action' = Unset /\ preview' = Unset /\ gates' = Unset /\ seen' = Unset

SetForm(next) ==
  /\ form' = next /\ next # form
  /\ Keyed
  /\ UNCHANGED world

ChooseIntent(type, borrows) ==
  /\ type = "OPEN" => borrows
  /\ type = "EXIT" => ~borrows
  /\ SetForm([form EXCEPT !.type = type, !.borrows = borrows])

(* Another mode keeps the waivers ticked for the last one; only the boxes   *)
(* the mode requires are listed.                                            *)
ChooseMode(mode) == SetForm([form EXCEPT !.mode = mode])
ToggleWaiver(bit) ==
  /\ bit \in RequiredWaivers(form.mode)
  /\ SetForm([form EXCEPT !.waivers = IF bit \in @ THEN @ \ {bit} ELSE @ \cup {bit}])

(* useActionParams; the wallet may have supplied a preimage proof.          *)
DeriveAction ==
  /\ action = Unset
  /\ \E proof \in Proofs :
       action' = [type |-> form.type, borrows |-> form.borrows, mode |-> form.mode, waivers |-> form.waivers, proof |-> proof]
  /\ UNCHANGED <<world, form, preview, gates, seen>>

(* usePreview asks for a preview, of an action that has none or one that    *)
(* has grown stale; the one it has stays until the next is there.           *)
AskForPreview ==
  /\ action # Unset /\ preview = Unset
  /\ preview' = Unread
  /\ UNCHANGED <<world, form, action, gates, seen>>

(* The harvest gate's reads go out together, each for the latest block: they *)
(* are answered in any order, and blocks may come between.  One that fails  *)
(* is the end of all three.  An exit does not ask for them.                 *)
Reading == preview # Unset /\ action.type # "EXIT" /\ ~preview.failed
ReadForHarvest(what) ==
  /\ Reading /\ preview[what] = Unset
  /\ preview' = [preview EXCEPT ![what] = CASE what = "last"    -> lastHarvest
                                            [] what = "cooling" -> cooling
                                            [] what = "head"    -> block]
  /\ UNCHANGED <<world, form, action, gates, seen>>
FailHarvestRead ==
  /\ Reading /\ \E what \in HarvestReads : preview[what] = Unset
  /\ preview' = [Unread EXCEPT !.failed = TRUE]
  /\ UNCHANGED <<world, form, action, gates, seen>>

(* After them the allow-list, at the head of its own moment; a read that    *)
(* fails is a wallet that is not on it.                                     *)
HarvestSettled(reads) == reads.failed \/ \A what \in HarvestReads : reads[what] # Unset
ReadAllowList ==
  /\ preview # Unset /\ preview.listed = Unset
  /\ action.type = "EXIT" \/ HarvestSettled(preview)
  /\ \E listed \in {owner.listed, FALSE} : preview' = [preview EXCEPT !.listed = listed]
  /\ UNCHANGED <<world, form, action, gates, seen>>

(* The preview is there, with whatever the SDK's own anchor and quorum      *)
(* checks said, if they did.                                                *)
PreviewGates ==
  /\ preview # Unset /\ preview.listed # Unset
  /\ \E anchor \in {"fresh", "stale", Unset}, quorum \in {"ok", "degraded", Unset} :
       gates' = EvaluateGates(action, preview, anchor, quorum)
  /\ seen' = preview /\ preview' = Unset
  /\ UNCHANGED <<world, form, action>>

(* useGpmGates: while there is no preview the app shows gates of its own,   *)
(* from the number of provider families it was built with and from what it  *)
(* knows of the wallet.                                                     *)
SynthesizedGates ==
  {[g \in Gates |->
      CASE g = "QUORUM"   -> quorum
        [] g = "PREIMAGE" -> IF smart /\ action # Unset /\ IsHighRiskAction(action)
                             THEN IF action.proof = Unset THEN "fail" ELSE "pass"
                             ELSE "notApplicable"
        [] OTHER          -> "notApplicable"] : quorum \in {"pass", "fail"}, smart \in BOOLEAN}
ShownGates == IF gates = Unset THEN SynthesizedGates ELSE {gates}

(* What the builder and the drawer's button ask for.                        *)
SignOverrideDisabled(shown) ==
  \/ ~WaiversComplete
  \/ \E g \in Gates : shown[g] = "fail"
  \/ action = Unset \/ gates = Unset
SignEnabled == \E shown \in ShownGates : AllGatesClear(shown) /\ ~SignOverrideDisabled(shown)

(* A block, with at most one transaction that matters: recordHarvest, with  *)
(* the block the harvest was observed in, or one of the owner's setters.    *)
MineBlock ==
  /\ block < LastBlock /\ block' = block + 1
  /\ UNCHANGED <<form, action, preview, gates, seen>>
PassingBlock == MineBlock /\ UNCHANGED <<lastHarvest, cooling, owner>>
RecordHarvest(observed) ==
  /\ MineBlock /\ observed <= block'
  /\ lastHarvest' = observed /\ UNCHANGED <<cooling, owner>>
SetHarvestCoolingBlocks(next) ==
  /\ MineBlock
  /\ cooling' = next /\ UNCHANGED <<lastHarvest, owner>>
SetPreimageDisplayGuaranteedWallet(allowed) ==
  /\ MineBlock
  /\ owner' = [owner EXCEPT !.listed = allowed] /\ UNCHANGED <<lastHarvest, cooling>>

GateNext ==
  \/ \E type \in BuilderTypes, borrows \in BOOLEAN : ChooseIntent(type, borrows)
  \/ \E mode \in Modes : ChooseMode(mode)
  \/ \E bit \in Waivers : ToggleWaiver(bit)
  \/ DeriveAction \/ AskForPreview
  \/ \E what \in HarvestReads : ReadForHarvest(what)
  \/ FailHarvestRead \/ ReadAllowList \/ PreviewGates
  \/ PassingBlock
  \/ \E observed \in 0 .. LastBlock : RecordHarvest(observed)
  \/ \E next \in Coolings : SetHarvestCoolingBlocks(next)
  \/ \E allowed \in BOOLEAN : SetPreimageDisplayGuaranteedWallet(allowed)

GateSpec == GateInit /\ [][GateNext]_gateVars

-----------------------------------------------------------------------------
(* The contracts                                                            *)

(* LoopV1ActionValidation.validateHarvest.                                  *)
ValidateHarvest(a) ==
  a.type = "OPEN" \/ (a.type = "REBALANCE" /\ a.borrows)
    => lastHarvest = 0 \/ block > lastHarvest + cooling

(* LoopV1ActionValidation.validateMev.                                      *)
ValidateMev(a) ==
  /\ a.mode = "PUBLIC" => "PUBLIC_MEMPOOL" \in a.waivers
  /\ a.mode = "SEQUENCER_DIRECT_FAILOPEN" => "SEQUENCER_DIRECT_FALLBACK" \in a.waivers

(* LoopV1HighRisk.attested, where validateOpen, validateRebalance and       *)
(* validateForceExitDigest ask for it.                                      *)
Attested(a) ==
  IsRiskIncreasing(a) => ~owner.contract \/ owner.listed \/ a.proof = "right"

-----------------------------------------------------------------------------
(* The type of every variable, and that a preview belongs to an action.     *)
PreviewReads ==
  [last : 0 .. LastBlock \cup {Unset}, cooling : Coolings \cup {Unset}, head : 1 .. LastBlock \cup {Unset},
   failed : BOOLEAN, listed : BOOLEAN \cup {Unset}]
GateTypeOK ==
  /\ block \in 1 .. LastBlock /\ lastHarvest \in 0 .. LastBlock /\ cooling \in Coolings
  /\ owner \in [contract : BOOLEAN, listed : BOOLEAN]
  /\ form \in [type : BuilderTypes, borrows : BOOLEAN, mode : Modes, waivers : SUBSET Waivers]
  /\ preview # Unset => action # Unset /\ preview \in PreviewReads
  /\ gates # Unset => action # Unset /\ gates \in [Gates -> {"pass", "fail", "notApplicable"}] /\ seen \in PreviewReads

(* What the enabled button signs is what the form shows, and it waives what *)
(* its MEV mode needs, after any sequence of edits, reloads and previews and *)
(* never on the gates the app made up while it waited for the preview's:    *)
(* the contract's validateMev never refuses it.                             *)
SignsTheForm ==
  SignEnabled =>
    /\ gates # Unset
    /\ action.type = form.type /\ action.borrows = form.borrows
    /\ action.mode = form.mode /\ action.waivers = form.waivers
    /\ ValidateMev(action)

(* A preview and a signature belong to the form on the screen.              *)
FormIsSigned == GateTypeOK /\ SignsTheForm

(* Gates that do not fail, none for want of inputs, predict the contracts   *)
(* for as long as they are shown, in the block they were evaluated for and  *)
(* in every later one, although their reads are of no one block: unless a   *)
(* later harvest was recorded or the cooling made longer since they were    *)
(* read, the harvest window does not refuse the action; unless the wallet   *)
(* was taken off the list since, nor does the preimage attestation, of a    *)
(* proof that is not wrong.                                                 *)
PassedMeansAccepted ==
  gates # Unset =>
    /\ gates["HARVEST"] = "pass" /\ lastHarvest <= seen.last /\ cooling <= seen.cooling
         => ValidateHarvest(action)
    /\ gates["PREIMAGE"] # "fail" /\ action.proof # "wrong" /\ (seen.listed => owner.listed)
         => Attested(action)
=============================================================================
