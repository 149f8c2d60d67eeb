--------------------------- MODULE ForceExitFlow ---------------------------
(***************************************************************************)
(* Signing a force exit: the screen reads the market's degraded conditions *)
(* every 12 s (useReadiness), the panel makes the owner tick a box per     *)
(* risk, type a token and wait (useForceExitFlow, DwellCountdown), and the *)
(* SDK reads the conditions again before it builds the digest.  The market *)
(* turns between any two steps.                                            *)
(***************************************************************************)
EXTENDS Naturals, FiniteSets

CONSTANTS
  Critical,  \* degraded conditions, each with its critical override bit
  Loose,     \* LOOSE_SLIPPAGE, the bit that is not critical
  Dwell,     \* seconds of the countdown (3)
  MaxTurns,  \* bound: changes of the market's conditions
  Nothing

Risks == Critical \cup {Loose}

(* Beside what the hook holds: idle, the seconds since the last input, and  *)
(* ticked, the boxes the owner ever ticked on this panel.                   *)
Panels ==
  [typed : BOOLEAN, checked : SUBSET Risks, dwell : 0 .. Dwell, elapsed : BOOLEAN,
   idle : 0 .. Dwell, ticked : SUBSET Risks]

ASSUME ForceExitAssumption ==
  /\ IsFiniteSet(Critical) /\ Loose \notin Critical
  /\ Dwell \in Nat \ {0} /\ MaxTurns \in Nat
  /\ Nothing \notin Panels

VARIABLES
  live,      \* the conditions that hold on the chain now
  turns,     \* how often they changed
  shown,     \* the bitmap of the screen's last readiness
  ready,     \* no other reason to disable the button: wallet, chain, gates
  panel,     \* the confirmation panel, Nothing when closed
  request,   \* what onForceExitSign is working on, Nothing when nothing
  exits      \* the force exits that executed

flowVars == <<live, turns, shown, ready, panel, request, exits>>

(* assertForceExitWaiverMinimality and forceExitBlockedByMultiCritical.     *)
Overbroad(risks) == Cardinality(risks \cap Critical) > 1

(* forceExitAckRisks, what the panel lists and a click signs.               *)
Mask(bitmap) == IF Overbroad(bitmap) THEN bitmap ELSE bitmap \cup {Loose}

Opened == [typed |-> FALSE, checked |-> {}, dwell |-> 0, elapsed |-> FALSE, idle |-> 0, ticked |-> {}]

FlowInit ==
  /\ live \in SUBSET Critical
  /\ turns = 0
  /\ shown = {} /\ ready = TRUE
  /\ panel = Nothing /\ request = Nothing
  /\ exits = {}

-----------------------------------------------------------------------------
(* The panel                                                                *)

(* evaluateChecklist: every listed box is ticked.                           *)
AnyChecked(p, bitmap) == Mask(bitmap) \cap p.checked # {}  \* mutant of AllChecked: one box is enough
AllChecked(p, bitmap) == Mask(bitmap) # {} /\ Mask(bitmap) \subseteq p.checked
Armed(p, bitmap) == p.typed /\ AllChecked(p, bitmap)
Signing == request # Nothing

(* DwellCountdown is on the screen only while armed; it starts over when it *)
(* comes back.  The flag it set is the hook's and stays.                    *)
Rendered(p, bitmap) == IF p = Nothing \/ Armed(p, bitmap) THEN p ELSE [p EXCEPT !.dwell = 0]

ForceExitEnabled ==
  /\ panel # Nothing /\ Armed(panel, shown) /\ panel.elapsed /\ ~Signing
  /\ ready /\ ~Overbroad(shown)

OpenPanel ==
  /\ panel = Nothing /\ ~Signing
  /\ panel' = Opened
  /\ UNCHANGED <<live, turns, shown, ready, request, exits>>

(* Cancel and Esc are dead while signing.                                   *)
CancelPanel ==
  /\ panel # Nothing /\ ~Signing
  /\ panel' = Nothing
  /\ UNCHANGED <<live, turns, shown, ready, request, exits>>

(* setCheckedBits: any toggle drops the elapsed flag.                       *)
Edited(p) == [p EXCEPT !.idle = 0, !.elapsed = FALSE]

Toggle(box) ==
  /\ panel # Nothing /\ ~Signing /\ box \in Mask(shown)
  /\ LET on == box \notin panel.checked
         next == [Edited(panel) EXCEPT
                    !.checked = IF on THEN @ \cup {box} ELSE @ \ {box},
                    !.ticked = IF on THEN @ \cup {box} ELSE @]
     IN panel' = Rendered(next, shown)
  /\ UNCHANGED <<live, turns, shown, ready, request, exits>>

(* setTypedConfirm; the input is dead until every box is ticked.            *)
Type(matches) ==
  /\ panel # Nothing /\ ~Signing /\ AllChecked(panel, shown)
  /\ panel.typed # matches
  /\ panel' = Rendered([(IF matches THEN [panel EXCEPT !.idle = 0] ELSE Edited(panel))
                          EXCEPT !.typed = matches], shown)
  /\ UNCHANGED <<live, turns, shown, ready, request, exits>>

(* A second passes; the countdown's end calls markDwellElapsed once.        *)
Second ==
  /\ panel # Nothing /\ Armed(panel, shown) /\ panel.dwell < Dwell
  /\ panel' = [panel EXCEPT !.dwell = @ + 1,
                            !.elapsed = @ \/ panel.dwell + 1 = Dwell,
                            !.idle = IF @ < Dwell THEN @ + 1 ELSE @]
  /\ UNCHANGED <<live, turns, shown, ready, request, exits>>

(* The screen's refetch, also under an open panel; readLiveStateBitmap      *)
(* answers 0 when the call fails.                                           *)
Refetch ==
  /\ shown' \in {live, {}} /\ shown' # shown
  /\ panel' = Rendered(panel, shown')
  /\ UNCHANGED <<live, turns, ready, request, exits>>

ReadyChanges ==
  /\ ready' = ~ready
  /\ UNCHANGED <<live, turns, shown, panel, request, exits>>

-----------------------------------------------------------------------------
(* The request                                                              *)

(* onSign closes over the mask of the render that was clicked.              *)
ClickForceExit ==
  /\ ForceExitEnabled
  /\ request' = [at |-> "build", risks |-> Mask(shown), required |-> {},
                 reviewed |-> panel.ticked, idle |-> panel.idle]
  /\ UNCHANGED <<live, turns, shown, ready, panel, exits>>

Throws == request' = Nothing /\ panel' = Nothing

(* buildForceExitParams: the conditions read again, covered, and minimal.   *)
Admits(risks, required) ==
  /\ ~Overbroad(required)
  /\ required \subseteq risks
  /\ ~Overbroad(risks)

BuildForceExit ==
  /\ Signing /\ request.at = "build"
  /\ \E required \in {live, {}} :
       IF Admits(request.risks, required)
       THEN /\ request' = [request EXCEPT !.at = "wallet", !.required = required]
            /\ UNCHANGED panel
       ELSE Throws
  /\ UNCHANGED <<live, turns, shown, ready, exits>>

(* Signed, attached and broadcast; the panel closes.                        *)
SendForceExit ==
  /\ Signing /\ request.at = "wallet"
  /\ request' = [request EXCEPT !.at = "sent"]
  /\ panel' = Nothing
  /\ UNCHANGED <<live, turns, shown, ready, exits>>

(* A refusal, a failed read, or a reverted transaction.                     *)
FailForceExit ==
  /\ Signing
  /\ Throws
  /\ UNCHANGED <<live, turns, shown, ready, exits>>

(* LoopForceExitAuthorizer: at most one critical override, and every        *)
(* condition that holds now acknowledged.                                   *)
ValidateForceExitDigest(risks) == ~Overbroad(risks) /\ live \subseteq risks

ExecuteForceExit ==
  /\ Signing /\ request.at = "sent"
  /\ ValidateForceExitDigest(request.risks)
  /\ exits' = exits \cup {[live |-> live, reviewed |-> request.reviewed]}
  /\ request' = Nothing
  /\ UNCHANGED <<live, turns, shown, ready, panel>>

Turn ==
  /\ turns < MaxTurns
  /\ turns' = turns + 1
  /\ live' \in SUBSET Critical \ {live}
  /\ UNCHANGED <<shown, ready, panel, request, exits>>

-----------------------------------------------------------------------------
FlowNext ==
  \/ OpenPanel \/ CancelPanel \/ Second \/ Refetch \/ ReadyChanges
  \/ \E box \in Risks : Toggle(box)
  \/ \E matches \in BOOLEAN : Type(matches)
  \/ ClickForceExit \/ BuildForceExit \/ SendForceExit \/ FailForceExit \/ ExecuteForceExit
  \/ Turn

FlowSpec == FlowInit /\ [][FlowNext]_flowVars

-----------------------------------------------------------------------------
(* The type of every variable; what is listed to the owner and what was     *)
(* ticked are risks, and a request exists only after a click.               *)
FlowTypeOK ==
  /\ live \subseteq Critical /\ shown \subseteq Critical
  /\ turns \in 0 .. MaxTurns /\ ready \in BOOLEAN
  /\ panel # Nothing => panel \in Panels
  /\ Signing =>
       request \in [at : {"build", "wallet", "sent"}, risks : SUBSET Risks, required : SUBSET Risks,
                    reviewed : SUBSET Risks, idle : 0 .. Dwell]
  /\ \A e \in exits : e.live \subseteq Critical

(* A force exit never runs under a degraded condition whose box the owner   *)
(* did not tick on the panel that signed it, whatever was refetched while   *)
(* the panel was open and however the market turned after it closed.        *)
ExecutedAsReviewed == \A e \in exits : e.live \subseteq e.reviewed

(* What goes to the wallet waives at most one critical protection and no    *)
(* risk the owner has not ticked, and covers the conditions the SDK saw.    *)
NeverOverbroad ==
  Signing /\ request.at # "build" =>
    /\ ~Overbroad(request.risks)
    /\ request.required \subseteq request.risks
    /\ request.risks \subseteq request.reviewed

(* The countdown ran in full after the owner's last input on the panel: no  *)
(* tick or keystroke is signed at once.                                     *)
RestedAfterInput == Signing => request.idle = Dwell

(* What a force exit waives was listed, ticked and rested upon by the owner *)
(* who signed it.                                                           *)
ReviewedConsent == FlowTypeOK /\ ExecutedAsReviewed /\ NeverOverbroad /\ RestedAfterInput
=============================================================================
