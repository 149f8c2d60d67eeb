----------------------------- MODULE ClientProofs -----------------------------
(***************************************************************************)
(* The client's signing components for any tabs, sources, prices, venues    *)
(* and chain: what is signed is what was shown, once, with evidence the     *)
(* contracts accept and under a consent that was reviewed.                  *)
(***************************************************************************)
EXTENDS MCClient, SequenceTheorems, FiniteSetTheorems, NumberLemmas

-----------------------------------------------------------------------------
(* PositionFeed: what a subscription promises.                              *)

(* The subscriber's latest position is the one the closure compares with    *)
(* until it cancels, and every read is pinned to a block there was.         *)
FeedInv ==
  /\ history \in Seq(Balances) /\ history # <<>>
  /\ \A i \in Polls : polls[i].at = "reading" => polls[i].block \in DOMAIN history
  /\ DOMAIN polls = Polls
  /\ ~cancelled => last = called.risk
  /\ last = NoRisk \/ last \in Balances

LEMMA FeedStarts == FeedInit => FeedInv
<1> SUFFICES ASSUME FeedInit PROVE FeedInv
  OBVIOUS
<1>1. PICK p \in Balances : history = <<p>>
  BY DEF FeedInit
<1>2. history \in Seq(Balances) /\ history # <<>>
  BY <1>1
<1>3. \A i \in Polls : polls[i].at # "reading"
  BY DEF FeedInit, Quiet, Free
<1> QED
  BY <1>2, <1>3 DEF FeedInv, FeedInit, Quiet

(* Storing another state of one read leaves the others where they were.     *)
LEMMA SetPollKeeps ==
  ASSUME FeedInv, NEW i \in Polls, NEW state, SetPoll(i, state), history' = history,
         state.at = "reading" => state.block \in DOMAIN history
  PROVE  /\ DOMAIN polls' = Polls
         /\ \A j \in Polls : polls'[j].at = "reading" => polls'[j].block \in DOMAIN history'
BY DEF FeedInv, SetPoll

(* A read answers with the position of its block.                           *)
LEMMA AnswerWas ==
  ASSUME FeedInv, NEW i \in Polls, polls[i].at = "reading"
  PROVE  /\ polls[i].block \in DOMAIN history
         /\ GetPositionRisk(polls[i].block) \in Balances
<1>1. polls[i].block \in DOMAIN history
  BY DEF FeedInv
<1> QED
  BY <1>1, ElementOfSeq, LenProperties DEF FeedInv, GetPositionRisk

LEMMA AnswerKeeps ==
  ASSUME FeedInv, NEW i \in Polls, AnswerPoll(i)
  PROVE  FeedInv'
<1> DEFINE risk == GetPositionRisk(polls[i].block)
<1>1. /\ polls[i].at = "reading" /\ SetPoll(i, Free)
      /\ IF ~cancelled /\ Changed(risk) THEN CallBack(risk) ELSE UNCHANGED <<last, called>>
      /\ UNCHANGED <<history, cancelled>>
  BY DEF AnswerPoll
<1>2. risk \in Balances
  BY <1>1, AnswerWas
<1>3. /\ DOMAIN polls' = Polls
      /\ \A j \in Polls : polls'[j].at = "reading" => polls'[j].block \in DOMAIN history'
  BY <1>1, SetPollKeeps DEF Free
<1> HIDE DEF risk
<1>4. ~cancelled' => last' = called'.risk
  BY <1>1 DEF FeedInv, CallBack
<1>5. last' = NoRisk \/ last' \in Balances
  BY <1>1, <1>2 DEF FeedInv, CallBack
<1> QED
  BY <1>1, <1>3, <1>4, <1>5 DEF FeedInv

LEMMA MoveKeeps ==
  ASSUME FeedInv, MovePosition
  PROVE  FeedInv'
<1>1. PICK p \in Balances : history' = Append(history, p)
  BY DEF MovePosition
<1>2. history' \in Seq(Balances) /\ Len(history') = Len(history) + 1 /\ history' # <<>>
  BY <1>1, AppendProperties DEF FeedInv
<1>3. DOMAIN history \subseteq DOMAIN history'
  BY <1>2, LenProperties DEF FeedInv
<1> QED
  BY <1>2, <1>3 DEF FeedInv, MovePosition

LEMMA FeedKeeps == FeedInv /\ [FeedNext]_feedVars => FeedInv'
<1> SUFFICES ASSUME FeedInv, [FeedNext]_feedVars PROVE FeedInv'
  OBVIOUS
<1>1. ASSUME NEW i \in Polls, StartPoll(i) PROVE FeedInv'
  BY <1>1, SetPollKeeps DEF StartPoll, Pinning, FeedInv
<1>2. ASSUME NEW i \in Polls, PinPoll(i) PROVE FeedInv'
  <2>1. Now \in DOMAIN history
    BY LenProperties, EmptySeq DEF Now, FeedInv
  <2> QED
    BY <1>2, <2>1, SetPollKeeps DEF PinPoll, PinnedTo, FeedInv
<1>3. ASSUME NEW i \in Polls, FailPoll(i) PROVE FeedInv'
  BY <1>3, SetPollKeeps DEF FailPoll, Free, FeedInv
<1>4. ASSUME Cancel PROVE FeedInv'
  BY <1>4 DEF Cancel, FeedInv
<1>5. ASSUME UNCHANGED feedVars PROVE FeedInv'
  BY <1>5 DEF feedVars, FeedInv
<1> QED
  BY <1>1, <1>2, <1>3, <1>4, <1>5, AnswerKeeps, MoveKeeps DEF FeedNext

LEMMA FeedInductive == FeedSpec => []FeedInv
BY FeedStarts, FeedKeeps, PTL DEF FeedSpec

Disciplined ==
  called' # called =>
    /\ ~cancelled
    /\ called'.risk # called.risk
    /\ \E n \in DOMAIN history : history[n] = called'.risk

LEMMA FeedSteps == FeedInv /\ [FeedNext]_feedVars => [Disciplined]_feedVars
<1> SUFFICES ASSUME FeedInv, FeedNext, called' # called
             PROVE  /\ ~cancelled
                    /\ called'.risk # called.risk
                    /\ \E n \in DOMAIN history : history[n] = called'.risk
  BY DEF Disciplined
<1>1. PICK i \in Polls : AnswerPoll(i)
  BY DEF FeedNext, StartPoll, PinPoll, FailPoll, Cancel, MovePosition
<1> DEFINE risk == GetPositionRisk(polls[i].block)
<1>2. polls[i].at = "reading" /\ ~cancelled /\ Changed(risk) /\ called'.risk = risk
  BY <1>1 DEF AnswerPoll, CallBack
<1>3. risk \in Balances /\ polls[i].block \in DOMAIN history
  BY <1>2, AnswerWas
<1>4. called.risk # risk
  <2>1. last = called.risk
    BY <1>2 DEF FeedInv
  <2>2. risk # NoRisk
    BY <1>3, FeedAssumption DEF Balances
  <2> HIDE DEF risk
  <2> QED
    BY <1>2, <2>1, <2>2 DEF Changed
<1> QED
  BY <1>2, <1>3, <1>4 DEF GetPositionRisk

(* A callback is made before the cancellation only, with a position that    *)
(* was, and never with the one the subscriber had last.                     *)
THEOREM FeedDisciplined == FeedSpec => FeedDiscipline
BY FeedSteps, FeedInductive, PTL DEF FeedSpec, FeedDiscipline, Disciplined

-----------------------------------------------------------------------------
(* ForceExitFlow: a force exit is signed under a consent that was reviewed.  *)

(* What is checked was ticked; the countdown is at most as old as the last  *)
(* input, at its start while off the screen, and at its end once the flag   *)
(* is set, which only a typed token lets happen.                            *)
PanelSound(p, bitmap) ==
  /\ p \in Panels
  /\ p.checked \subseteq p.ticked
  /\ p.dwell <= p.idle
  /\ ~Armed(p, bitmap) => p.dwell = 0
  /\ p.elapsed => p.idle = Dwell /\ p.typed

Requests ==
  [at : {"build", "wallet", "sent"}, risks : SUBSET Risks, required : SUBSET Risks,
   reviewed : SUBSET Risks, idle : 0 .. Dwell]

RequestSound(r) ==
  /\ r \in Requests
  /\ r.risks \subseteq r.reviewed
  /\ r.idle = Dwell
  /\ r.at # "build" => ~Overbroad(r.risks) /\ r.required \subseteq r.risks

FlowInv ==
  /\ live \subseteq Critical /\ shown \subseteq Critical
  /\ turns \in 0 .. MaxTurns /\ ready \in BOOLEAN
  /\ panel # Nothing => PanelSound(panel, shown)
  /\ Signing => RequestSound(request)
  /\ \A e \in exits : e.live \subseteq Critical /\ e.live \subseteq e.reviewed

LEMMA DwellType == Dwell \in Nat /\ Dwell # 0 /\ MaxTurns \in Nat
BY ForceExitAssumption

LEMMA FlowImplies == FlowInv => ReviewedConsent
BY DEF FlowInv, PanelSound, Panels, RequestSound, Requests, ReviewedConsent, FlowTypeOK, ExecutedAsReviewed,
       NeverOverbroad, RestedAfterInput

LEMMA FlowStarts == FlowInit => FlowInv
BY DwellType DEF FlowInit, FlowInv, Signing

-----------------------------------------------------------------------------
(* Steps of the panel                                                       *)

LEMMA RenderedSound ==
  ASSUME NEW p \in Panels, NEW bitmap, p.checked \subseteq p.ticked,
         p.dwell <= p.idle, p.elapsed => p.idle = Dwell /\ p.typed
  PROVE  PanelSound(Rendered(p, bitmap), bitmap)
<1>1. p # Nothing
  BY ForceExitAssumption
<1>2. CASE Armed(p, bitmap)
  BY <1>2 DEF Rendered, PanelSound
<1>3. CASE ~Armed(p, bitmap)
  <2> DEFINE q == [p EXCEPT !.dwell = 0]
  <2>1. q \in Panels /\ q.dwell = 0 /\ q.idle = p.idle /\ q.elapsed = p.elapsed
        /\ q.checked = p.checked /\ q.ticked = p.ticked /\ q.typed = p.typed
    BY DwellType DEF Panels
  <2>2. q.idle \in Nat
    BY DwellType, <2>1 DEF Panels
  <2>3. Rendered(p, bitmap) = q
    BY <1>1, <1>3 DEF Rendered
  <2> QED
    BY <2>1, <2>2, <2>3, DwellType DEF PanelSound
<1> QED
  BY <1>2, <1>3

LEMMA EditedSound ==
  ASSUME NEW p \in Panels
  PROVE  /\ Edited(p) \in Panels
         /\ Edited(p).idle = 0 /\ ~Edited(p).elapsed /\ Edited(p).dwell = p.dwell
         /\ Edited(p).checked = p.checked /\ Edited(p).ticked = p.ticked /\ Edited(p).typed = p.typed
<1> DEFINE q == [p EXCEPT !.idle = 0]
<1>1. q \in Panels /\ q.idle = 0 /\ q.dwell = p.dwell
      /\ q.checked = p.checked /\ q.ticked = p.ticked /\ q.typed = p.typed
  BY DwellType DEF Panels
<1>2. Edited(p) = [q EXCEPT !.elapsed = FALSE]
  BY DEF Edited, Panels
<1> HIDE DEF q
<1> QED
  BY <1>1, <1>2 DEF Panels

(* An input starts the rest again and takes the flag back.                  *)
LEMMA ToggleSound ==
  ASSUME FlowInv, NEW box \in Risks, Toggle(box)
  PROVE  PanelSound(panel', shown)
<1> DEFINE on == box \notin panel.checked
           next == [Edited(panel) EXCEPT
                      !.checked = IF on THEN @ \cup {box} ELSE @ \ {box},
                      !.ticked = IF on THEN @ \cup {box} ELSE @]
<1>1. PanelSound(panel, shown) /\ panel \in Panels /\ panel # Nothing
  BY DEF Toggle, FlowInv, PanelSound
<1>2. panel.dwell # 0 => Armed(panel, shown)
  BY <1>1 DEF PanelSound
<1>3. next \in Panels /\ next.checked \subseteq next.ticked /\ next.idle = 0 /\ ~next.elapsed
      /\ next.dwell = panel.dwell /\ next.typed = panel.typed
      /\ next.checked = IF on THEN panel.checked \cup {box} ELSE panel.checked \ {box}
  <2> DEFINE e == Edited(panel)
             checked == IF on THEN e.checked \cup {box} ELSE e.checked \ {box}
             ticked == IF on THEN e.ticked \cup {box} ELSE e.ticked
  <2>1. e \in Panels /\ e.idle = 0 /\ ~e.elapsed /\ e.dwell = panel.dwell
        /\ e.checked = panel.checked /\ e.ticked = panel.ticked /\ e.typed = panel.typed
    BY <1>1, EditedSound
  <2>2. checked \in SUBSET Risks /\ ticked \in SUBSET Risks /\ checked \subseteq ticked
    BY <1>1, <2>1 DEF Panels, PanelSound
  <2>3. next = [[e EXCEPT !.checked = checked] EXCEPT !.ticked = ticked]
    BY <2>1 DEF Panels
  <2> HIDE DEF e, checked, ticked, next
  <2>4. next \in Panels /\ next.checked = checked /\ next.ticked = ticked /\ next.idle = e.idle
        /\ next.elapsed = e.elapsed /\ next.dwell = e.dwell /\ next.typed = e.typed
    BY <2>1, <2>2, <2>3 DEF Panels
  <2> QED
    BY <2>1, <2>2, <2>4 DEF checked
<1>4. CASE panel.dwell = 0
  <2>1. panel' = Rendered(next, shown)
    BY DEF Toggle
  <2> HIDE DEF next
  <2>2. next.dwell <= next.idle
    BY <1>3, <1>4
  <2> QED
    BY <1>3, <2>1, <2>2, RenderedSound
<1>5. CASE panel.dwell # 0
  <2>1. ~on /\ box \in Mask(shown)
    BY <1>2, <1>5 DEF Toggle, Armed, AllChecked
  <2>2. ~Armed(next, shown)
    BY <1>3, <2>1 DEF Armed, AllChecked
  <2>3. panel' = [next EXCEPT !.dwell = 0]
    BY <1>3, <2>2, ForceExitAssumption DEF Toggle, Rendered
  <2>4. /\ panel' \in Panels /\ panel'.checked \subseteq panel'.ticked
        /\ panel'.dwell = 0 /\ panel'.idle = 0 /\ ~panel'.elapsed
    BY <1>3, <2>3, DwellType DEF Panels
  <2> QED
    BY <2>4 DEF PanelSound
<1> QED
  BY <1>4, <1>5

LEMMA TypeSound ==
  ASSUME FlowInv, NEW matches \in BOOLEAN, Type(matches)
  PROVE  PanelSound(panel', shown)
<1> DEFINE next == [(IF matches THEN [panel EXCEPT !.idle = 0] ELSE Edited(panel))
                      EXCEPT !.typed = matches]
<1>1. PanelSound(panel, shown) /\ panel \in Panels
  BY DEF Type, FlowInv, PanelSound
<1>2. CASE matches
  <2>0. panel.typed # TRUE
    BY <1>2 DEF Type
  <2>1. ~Armed(panel, shown) /\ panel.dwell = 0
    BY <1>1, <2>0 DEF Armed, PanelSound, Panels
  <2>2. next \in Panels /\ next.checked = panel.checked /\ next.ticked = panel.ticked
        /\ next.dwell = 0 /\ next.idle = 0 /\ next.elapsed = panel.elapsed
    BY <1>1, <1>2, <2>1, DwellType DEF Panels
  <2>3. ~panel.elapsed
    BY <1>1, <1>2, <2>0 DEF PanelSound, Panels
  <2>4. panel' = Rendered(next, shown)
    BY DEF Type
  <2> HIDE DEF next
  <2>5. next.checked \subseteq next.ticked /\ next.dwell <= next.idle /\ ~next.elapsed
    BY <1>1, <2>2, <2>3 DEF PanelSound
  <2> QED
    BY <2>2, <2>4, <2>5, RenderedSound
<1>3. CASE ~matches
  <2>1. next \in Panels /\ next.checked = panel.checked /\ next.ticked = panel.ticked
        /\ next.dwell = panel.dwell /\ next.idle = 0 /\ ~next.elapsed /\ ~next.typed
    <3> DEFINE e == Edited(panel)
    <3>1. e \in Panels /\ e.idle = 0 /\ ~e.elapsed /\ e.dwell = panel.dwell
          /\ e.checked = panel.checked /\ e.ticked = panel.ticked
      BY <1>1, EditedSound
    <3>2. next = [e EXCEPT !.typed = FALSE]
      BY <1>3
    <3> HIDE DEF e, next
    <3> QED
      BY <3>1, <3>2 DEF Panels
  <2>2. panel' = [next EXCEPT !.dwell = 0]
    BY <2>1, ForceExitAssumption DEF Type, Rendered, Armed
  <2>3. /\ panel' \in Panels /\ panel'.checked \subseteq panel'.ticked
        /\ panel'.dwell = 0 /\ panel'.idle = 0 /\ ~panel'.elapsed
    BY <1>1, <2>1, <2>2, DwellType DEF Panels, PanelSound
  <2> QED
    BY <2>3 DEF PanelSound
<1> QED
  BY <1>2, <1>3

LEMMA SecondSound ==
  ASSUME FlowInv, Second
  PROVE  PanelSound(panel', shown)
<1>1. PanelSound(panel, shown) /\ panel \in Panels /\ Armed(panel, shown)
  BY DEF Second, FlowInv, PanelSound
<1>2. panel.dwell \in Nat /\ panel.idle \in 0 .. Dwell /\ panel.dwell < Dwell /\ panel.dwell <= panel.idle
  BY <1>1, DwellType DEF Panels, PanelSound, Second
<1>3. /\ panel' \in Panels /\ panel'.typed = panel.typed
      /\ panel'.checked = panel.checked /\ panel'.ticked = panel.ticked
      /\ panel'.dwell = panel.dwell + 1
      /\ panel'.idle = (IF panel.idle < Dwell THEN panel.idle + 1 ELSE panel.idle)
      /\ panel'.elapsed = (panel.elapsed \/ panel.dwell + 1 = Dwell)
  <2> DEFINE d == panel.dwell + 1
             i == IF panel.idle < Dwell THEN panel.idle + 1 ELSE panel.idle
             f == panel.elapsed \/ panel.dwell + 1 = Dwell
  <2>1. d \in 0 .. Dwell /\ i \in 0 .. Dwell
    BY <1>2, DwellType
  <2>2. f \in BOOLEAN
    OBVIOUS
  <2>3. panel' = [[[panel EXCEPT !.dwell = d] EXCEPT !.elapsed = f] EXCEPT !.idle = i]
    BY <1>1 DEF Second, Panels
  <2> HIDE DEF d, i, f
  <2>4. /\ panel' \in Panels /\ panel'.typed = panel.typed
        /\ panel'.checked = panel.checked /\ panel'.ticked = panel.ticked
        /\ panel'.dwell = d /\ panel'.idle = i /\ panel'.elapsed = f
    BY <1>1, <2>1, <2>2, <2>3 DEF Panels
  <2> QED
    BY <2>4 DEF d, i, f
<1>4. Armed(panel', shown)
  BY <1>1, <1>3 DEF Armed, AllChecked
<1>5. panel'.dwell <= panel'.idle /\ (panel'.elapsed => panel'.idle = Dwell /\ panel'.typed)
  <2>1. panel.typed /\ (panel.elapsed => panel.idle = Dwell)
    BY <1>1 DEF Armed, PanelSound
  <2>2. panel'.dwell <= panel'.idle
    BY <1>2, <1>3, DwellType
  <2>3. panel.dwell + 1 = Dwell => panel'.idle = Dwell
    BY <1>2, <1>3, DwellType
  <2>4. panel.elapsed => panel'.idle = Dwell
    BY <1>2, <1>3, <2>1, DwellType
  <2> QED
    BY <1>3, <2>1, <2>2, <2>3, <2>4
<1> QED
  BY <1>1, <1>3, <1>4, <1>5 DEF PanelSound

LEMMA OpenedSound == Opened \in Panels /\ PanelSound(Opened, shown)
BY DwellType DEF Opened, Panels, PanelSound

LEMMA PanelKeeps ==
  ASSUME FlowInv,
         \/ OpenPanel \/ CancelPanel \/ Second \/ Refetch \/ ReadyChanges \/ Turn
         \/ (\E box \in Risks : Toggle(box)) \/ (\E matches \in BOOLEAN : Type(matches))
  PROVE  FlowInv'
<1>1. CASE OpenPanel
  BY <1>1, OpenedSound DEF OpenPanel, FlowInv, Signing
<1>2. CASE CancelPanel
  BY <1>2 DEF CancelPanel, FlowInv, Signing
<1>3. CASE Second
  BY <1>3, SecondSound DEF Second, FlowInv, Signing
<1>4. CASE Refetch
  <2>1. panel' = Nothing \/ PanelSound(panel', shown')
    <3>1. CASE panel = Nothing
      BY <1>4, <3>1 DEF Refetch, Rendered
    <3>2. CASE panel # Nothing
      BY <1>4, <3>2, RenderedSound DEF Refetch, FlowInv, PanelSound
    <3> QED
      BY <3>1, <3>2
  <2> QED
    BY <1>4, <2>1 DEF Refetch, FlowInv, Signing
<1>5. CASE ReadyChanges
  BY <1>5 DEF ReadyChanges, FlowInv, Signing
<1>6. CASE Turn
  BY <1>6, DwellType DEF Turn, FlowInv, Signing
<1>7. CASE \E box \in Risks : Toggle(box)
  BY <1>7, ToggleSound DEF Toggle, FlowInv, Signing
<1>8. CASE \E matches \in BOOLEAN : Type(matches)
  BY <1>8, TypeSound DEF Type, FlowInv, Signing
<1> QED
  BY <1>1, <1>2, <1>3, <1>4, <1>5, <1>6, <1>7, <1>8

-----------------------------------------------------------------------------
(* Steps of the request                                                     *)

LEMMA MaskType == ASSUME NEW bitmap \in SUBSET Critical PROVE Mask(bitmap) \subseteq Risks
BY DEF Mask, Risks

LEMMA ClickKeeps ==
  ASSUME FlowInv, ClickForceExit
  PROVE  FlowInv'
<1>1. PanelSound(panel, shown) /\ panel \in Panels /\ panel.elapsed /\ Armed(panel, shown)
  BY DEF ClickForceExit, ForceExitEnabled, FlowInv, PanelSound
<1>2. Mask(shown) \subseteq panel.ticked /\ panel.idle = Dwell
  BY <1>1 DEF Armed, AllChecked, PanelSound
<1>3. Mask(shown) \in SUBSET Risks
  BY MaskType DEF FlowInv
<1>4. RequestSound(request')
  BY <1>1, <1>2, <1>3 DEF ClickForceExit, RequestSound, Requests, Panels
<1> QED
  BY <1>4 DEF ClickForceExit, FlowInv, Signing

LEMMA BuildKeeps ==
  ASSUME FlowInv, BuildForceExit
  PROVE  FlowInv'
<1>1. PICK required \in {live, {}} :
        IF Admits(request.risks, required)
        THEN /\ request' = [request EXCEPT !.at = "wallet", !.required = required]
             /\ UNCHANGED panel
        ELSE Throws
  BY DEF BuildForceExit
<1>2. CASE Admits(request.risks, required)
  <2>1. RequestSound(request)
    BY DEF BuildForceExit, FlowInv
  <2>2. required \in SUBSET Risks
    BY DEF FlowInv, Risks
  <2>3. RequestSound(request')
    BY <1>1, <1>2, <2>1, <2>2 DEF RequestSound, Requests, Admits
  <2> QED
    BY <1>1, <1>2, <2>3 DEF BuildForceExit, FlowInv, Signing
<1>3. CASE ~Admits(request.risks, required)
  BY <1>1, <1>3 DEF Throws, BuildForceExit, FlowInv, Signing
<1> QED
  BY <1>2, <1>3

LEMMA SendKeeps ==
  ASSUME FlowInv, SendForceExit
  PROVE  FlowInv'
<1>1. RequestSound(request)
  BY DEF SendForceExit, FlowInv
<1>2. RequestSound(request')
  BY <1>1 DEF SendForceExit, RequestSound, Requests
<1> QED
  BY <1>2 DEF SendForceExit, FlowInv, Signing

LEMMA ExecuteKeeps ==
  ASSUME FlowInv, ExecuteForceExit
  PROVE  FlowInv'
<1>1. RequestSound(request)
  BY DEF ExecuteForceExit, FlowInv
<1>2. live \subseteq request.reviewed
  BY <1>1 DEF ExecuteForceExit, ValidateForceExitDigest, RequestSound
<1> QED
  BY <1>2 DEF ExecuteForceExit, FlowInv, Signing

LEMMA FlowKeeps ==
  ASSUME FlowInv, [FlowNext]_flowVars
  PROVE  FlowInv'
<1>1. CASE FailForceExit
  BY <1>1 DEF FailForceExit, Throws, FlowInv, Signing
<1>2. CASE UNCHANGED flowVars
  BY <1>2 DEF flowVars, FlowInv, Signing
<1> QED
  BY <1>1, <1>2, PanelKeeps, ClickKeeps, BuildKeeps, SendKeeps, ExecuteKeeps DEF FlowNext

(* No force exit waives a risk that was not listed, ticked and rested upon  *)
(* by the owner who signed it (useForceExitFlow.ts, buildForceExitParams,   *)
(* LoopForceExitAuthorizer.sol).                                            *)
THEOREM ConsentReviewed == FlowSpec => []ReviewedConsent
<1>1. FlowInit => FlowInv
  BY FlowStarts
<1>2. FlowInv /\ [FlowNext]_flowVars => FlowInv'
  BY FlowKeeps
<1>3. FlowInv => ReviewedConsent
  BY FlowImplies
<1> QED
  BY <1>1, <1>2, <1>3, PTL DEF FlowSpec

-----------------------------------------------------------------------------
(* SignSession: tabs that race sign each order once.                        *)

Drafts ==
  [type : Types \cup {None}, version : 1 .. MaxVersion \cup {None}, root : 1 .. MaxVersion \cup {None},
   block : 1 .. MaxHead \cup {None}]
Digests == [action : Actions, pin : 1 .. MaxHead, quote : Prices]
Jobs ==
  [at : {"none", "build", "wallet", "attach", "assemble", "send"}, action : Actions \cup {None},
   pin : 1 .. MaxHead \cup {None}, quote : Prices \cup {None}, signed : Digests \cup {None}]
TabStates == [draft : Drafts, shown : Actions \cup {None}, quoted : BOOLEAN, job : Jobs]

SpentIn(log, n, type) == {log[i].action.nonce : i \in {j \in 1 .. n : log[j].action.type = type}}

(* An order's nonce is the first that was free when it was read.           *)
DerivedFrom(log, order) ==
  /\ order \in Actions /\ order.readAt \in 0 .. Len(log)
  /\ \A m \in Nonces : m < order.nonce => m \in SpentIn(log, order.readAt, order.type)

TabSound(log, state) ==
  /\ state \in TabStates
  /\ state.quoted => state.shown # None
  /\ state.shown # None => DerivedFrom(log, state.shown)
  /\ state.job.at # "none" => DerivedFrom(log, state.job.action)
  /\ state.job.at = "send" =>
       Digest(state.job.action, state.job.pin, state.job.quote) = state.job.signed

TransactionSound(log, tx) ==
  DerivedFrom(log, tx.action) /\ Digest(tx.action, tx.pin, tx.quote) = tx.signed

(* An execution's nonce was read before it and not spent before it.         *)
ExecutedInTurn(log) ==
  \A i \in 1 .. Len(log) :
    /\ log[i].action.readAt < i
    /\ log[i].action.nonce \notin SpentIn(log, i - 1, log[i].action.type)

SignInv ==
  /\ head \in 1 .. MaxHead /\ version \in 1 .. MaxVersion /\ price \in Prices
  /\ executed \in Seq(sent) /\ ExecutedInTurn(executed)
  /\ \A tx \in sent : TransactionSound(executed, tx)
  /\ DOMAIN tab = Tabs /\ \A t \in Tabs : TabSound(executed, tab[t])

LEMMA NoActionHeld ==
  ASSUME NEW log, NEW draft \in Drafts
  PROVE  TabSound(log, [draft |-> draft, shown |-> None, quoted |-> FALSE, job |-> NoJob])
BY DEF TabSound, TabStates, Jobs, NoJob

LEMMA SignStarts == SignInit => SignInv
<1> SUFFICES ASSUME SignInit PROVE SignInv
  OBVIOUS
<1>1. NoDraft \in Drafts
  BY DEF NoDraft, Drafts
<1>2. \A t \in Tabs : TabSound(executed, tab[t])
  BY <1>1, NoActionHeld DEF SignInit
<1>3. executed \in Seq(sent) /\ ExecutedInTurn(executed)
  BY DEF SignInit, ExecutedInTurn
<1>4. head \in 1 .. MaxHead /\ version \in 1 .. MaxVersion /\ price \in Prices
  BY SignAssumption DEF SignInit, SignAssumption
<1>5. sent = {} /\ DOMAIN tab = Tabs
  BY DEF SignInit
<1> QED
  BY <1>2, <1>3, <1>4, <1>5 DEF SignInv

(* A tab that stays sound disturbs nothing else.                            *)
LEMMA TabMoves ==
  ASSUME SignInv, NEW t \in Tabs, NEW state, TabSound(executed, state),
         tab' = [tab EXCEPT ![t] = state], UNCHANGED <<head, price, version, executed, sent>>
  PROVE  SignInv'
BY DEF SignInv

LEMMA DraftSound ==
  ASSUME SignInv, NEW t \in Tabs, NEW draft \in Drafts, SetDraft(t, draft),
         UNCHANGED <<head, price, version, executed, sent>>
  PROVE  SignInv'
<1> DEFINE state == [tab[t] EXCEPT !.draft = draft]
<1>1. TabSound(executed, tab[t])
  BY DEF SignInv
<1>2. TabSound(executed, state)
  BY <1>1 DEF TabSound, TabStates
<1>3. tab' = [tab EXCEPT ![t] = state]
  BY DEF SetDraft, SignInv
<1> HIDE DEF state
<1> QED
  BY <1>2, <1>3, TabMoves

LEMMA JobSet ==
  ASSUME SignInv, NEW t \in Tabs, NEW job \in Jobs, SetJob(t, job),
         job.at # "none" => DerivedFrom(executed, job.action),
         job.at = "send" => Digest(job.action, job.pin, job.quote) = job.signed,
         UNCHANGED <<head, price, version, executed, sent>>
  PROVE  SignInv'
<1> DEFINE state == [tab[t] EXCEPT !.job = job]
<1>1. TabSound(executed, tab[t])
  BY DEF SignInv
<1>2. TabSound(executed, state)
  BY <1>1 DEF TabSound, TabStates
<1>3. tab' = [tab EXCEPT ![t] = state]
  BY DEF SetJob, SignInv
<1> HIDE DEF state
<1> QED
  BY <1>2, <1>3, TabMoves

LEMMA DeriveSound ==
  ASSUME SignInv, NEW t \in Tabs, Derive(t)
  PROVE  SignInv'
<1> DEFINE d == tab[t].draft
<1>1. TabSound(executed, tab[t]) /\ tab[t] \in TabStates /\ d \in Drafts
  BY DEF SignInv, TabSound, TabStates
<1>2. CASE ReadEnvelope(t)
  <2>1. /\ [d EXCEPT !.version = version] \in Drafts /\ [d EXCEPT !.root = version] \in Drafts
        /\ [d EXCEPT !.block = head] \in Drafts
    BY <1>1 DEF Drafts, SignInv
  <2> QED
    BY <1>2, <2>1, DraftSound DEF ReadEnvelope
<1>3. CASE AllocateNonce(t)
  <2>1. PICK n \in Nonces :
          /\ FirstFree(n, Spent(d.type))
          /\ tab' = [tab EXCEPT ![t] =
               [@ EXCEPT !.draft = NoDraft, !.quoted = FALSE,
                         !.shown = [type |-> d.type, version |-> d.version, root |-> d.root,
                                    block |-> d.block, nonce |-> n, readAt |-> Len(executed)]]]
    BY <1>3 DEF AllocateNonce
  <2> DEFINE view == [type |-> d.type, version |-> d.version, root |-> d.root,
                       block |-> d.block, nonce |-> n, readAt |-> Len(executed)]
             state == [tab[t] EXCEPT !.draft = NoDraft, !.quoted = FALSE, !.shown = view]
  <2>2. tab' = [tab EXCEPT ![t] = state]
    BY <2>1 DEF SignInv
  <2>3. Len(executed) \in Nat
    BY DEF SignInv
  <2>4. view \in Actions
    BY <1>1, <1>3, <2>3 DEF AllocateNonce, AllRead, Drafts, Actions
  <2>5. \A m \in Nonces : m < n => m \in SpentIn(executed, Len(executed), d.type)
    BY <2>1 DEF FirstFree, Spent, SpentBy, SpentIn, Nonces
  <2>6. DerivedFrom(executed, view)
    BY <2>3, <2>4, <2>5 DEF DerivedFrom
  <2>7. NoDraft \in Drafts
    BY DEF NoDraft, Drafts
  <2> HIDE DEF view
  <2>8. state \in TabStates
    BY <1>1, <2>4, <2>7 DEF TabStates
  <2>9. state.shown = view /\ state.job = tab[t].job /\ ~state.quoted
    BY <1>1 DEF TabStates
  <2>10. TabSound(executed, state)
    BY <1>1, <2>6, <2>8, <2>9 DEF TabSound
  <2> HIDE DEF state
  <2> QED
    BY <1>3, <2>2, <2>10, TabMoves DEF AllocateNonce
<1> QED
  BY <1>2, <1>3 DEF Derive

LEMMA OwnerActs ==
  ASSUME SignInv, NEW t \in Tabs,
         (\E type \in Types, refetch \in BOOLEAN : Edit(t, type, refetch)) \/ Preview(t) \/ Click(t)
  PROVE  SignInv'
<1>1. /\ TabSound(executed, tab[t]) /\ tab[t] \in TabStates
      /\ tab[t].quoted => tab[t].shown # None /\ DerivedFrom(executed, tab[t].shown)
  BY DEF SignInv, TabSound
<1>2. ASSUME NEW type \in Types, NEW refetch \in BOOLEAN, Edit(t, type, refetch) PROVE SignInv'
  <2> DEFINE draft == [NoDraft EXCEPT !.type = type]
             view == IF refetch THEN tab[t].shown ELSE None
             quoted == refetch /\ tab[t].quoted
             state == [tab[t] EXCEPT !.draft = draft, !.shown = view, !.quoted = quoted]
  <2>1. tab' = [tab EXCEPT ![t] = state]
    BY <1>2 DEF Edit, SignInv
  <2>2. draft \in Drafts
    BY DEF NoDraft, Drafts
  <2>3. view \in Actions \cup {None} /\ quoted \in BOOLEAN
    BY <1>1 DEF TabStates
  <2>4. /\ quoted => view # None
        /\ view # None => view = tab[t].shown
    BY <1>1
  <2> HIDE DEF draft, view, quoted
  <2>5. state \in TabStates
    BY <1>1, <2>2, <2>3 DEF TabStates
  <2>6. state.shown = view /\ state.job = tab[t].job /\ state.quoted = quoted
    BY <1>1 DEF TabStates
  <2> HIDE DEF state
  <2>7. TabSound(executed, state)
    BY <1>1, <2>4, <2>5, <2>6 DEF TabSound
  <2> QED
    BY <1>2, <2>1, <2>7, TabMoves DEF Edit
<1>3. CASE Preview(t)
  <2> DEFINE state == [tab[t] EXCEPT !.quoted = TRUE]
  <2>1. tab' = [tab EXCEPT ![t] = state]
    BY <1>3 DEF Preview, SignInv
  <2>2. TabSound(executed, state)
    BY <1>1, <1>3 DEF Preview, TabSound, TabStates
  <2> HIDE DEF state
  <2> QED
    BY <1>3, <2>1, <2>2, TabMoves DEF Preview
<1>4. CASE Click(t)
  <2>1. [NoJob EXCEPT !.at = "build", !.action = tab[t].shown] \in Jobs
    BY <1>1 DEF NoJob, Jobs, TabStates
  <2>2. [NoJob EXCEPT !.at = "build", !.action = tab[t].shown].action = tab[t].shown
    BY DEF NoJob
  <2>3. [NoJob EXCEPT !.at = "build", !.action = tab[t].shown].at = "build"
    BY DEF NoJob
  <2> QED
    BY <1>1, <1>4, <2>1, <2>2, <2>3, JobSet DEF Click
<1> QED
  BY <1>2, <1>3, <1>4

LEMMA JobActs ==
  ASSUME SignInv, NEW t \in Tabs,
         PinHead(t) \/ Build(t) \/ WalletSigns(t) \/ CheckPin(t) \/ Attach(t) \/ SignFails(t)
  PROVE  SignInv'
<1> DEFINE job == tab[t].job
<1>1. /\ job \in Jobs /\ head \in 1 .. MaxHead /\ price \in Prices
      /\ job.at # "none" => DerivedFrom(executed, job.action)
  BY DEF SignInv, TabSound, TabStates
<1>2. job.at # "none" => job.action \in Actions
  BY <1>1 DEF DerivedFrom
<1>3. NoJob \in Jobs /\ NoJob.at = "none"
  BY DEF NoJob, Jobs
<1>4. ASSUME Throw(t), UNCHANGED <<head, price, version, executed, sent>> PROVE SignInv'
  BY <1>3, <1>4, JobSet DEF Throw
<1>5. CASE PinHead(t)
  <2> DEFINE next == [job EXCEPT !.pin = head]
  <2>1. next \in Jobs /\ next.at = "build" /\ next.action = job.action
    BY <1>1, <1>5 DEF PinHead, Jobs
  <2> QED
    BY <1>1, <1>5, <2>1, JobSet DEF PinHead
<1>6. CASE Build(t)
  <2> DEFINE signed == Digest(job.action, job.pin, price)
             next == [job EXCEPT !.at = "wallet", !.signed = signed]
  <2>1. signed \in Digests
    BY <1>1, <1>2, <1>6 DEF Build, Digest, Digests, Jobs
  <2> HIDE DEF signed
  <2>2. next \in Jobs /\ next.at = "wallet" /\ next.action = job.action
    BY <1>1, <2>1 DEF Jobs
  <2>3. SetJob(t, next)
    BY <1>6 DEF Build, signed
  <2> HIDE DEF next
  <2> QED
    BY <1>1, <1>6, <2>2, <2>3, JobSet DEF Build
<1>7. CASE WalletSigns(t)
  <2> DEFINE next == [job EXCEPT !.at = "attach"]
  <2>1. next \in Jobs /\ next.at = "attach" /\ next.action = job.action
    BY <1>1 DEF Jobs
  <2> QED
    BY <1>1, <1>7, <2>1, JobSet DEF WalletSigns
<1>8. CASE CheckPin(t)
  <2> DEFINE next == [job EXCEPT !.at = "assemble"]
  <2>1. next \in Jobs /\ next.at = "assemble" /\ next.action = job.action
    BY <1>1 DEF Jobs
  <2> QED
    BY <1>1, <1>4, <1>8, <2>1, JobSet DEF CheckPin
<1>9. CASE Attach(t)
  <2> DEFINE next == [job EXCEPT !.at = "send", !.quote = price]
  <2>1. /\ next \in Jobs /\ next.at = "send" /\ next.action = job.action
        /\ next.pin = job.pin /\ next.quote = price /\ next.signed = job.signed
    BY <1>1 DEF Jobs
  <2> HIDE DEF next
  <2>2. CASE SameDigest(job, price)
    <3>1. SetJob(t, next)
      BY <1>9, <2>2 DEF Attach, next
    <3>2. Digest(next.action, next.pin, next.quote) = next.signed
      BY <2>1, <2>2 DEF SameDigest
    <3> QED
      BY <1>1, <1>9, <2>1, <3>1, <3>2, JobSet DEF Attach
  <2>3. CASE ~SameDigest(job, price)
    BY <1>4, <1>9, <2>3 DEF Attach
  <2> QED
    BY <2>2, <2>3
<1>10. CASE SignFails(t)
  BY <1>4, <1>10 DEF SignFails
<1> QED
  BY <1>5, <1>6, <1>7, <1>8, <1>9, <1>10

LEMMA BroadcastSound ==
  ASSUME SignInv, NEW t \in Tabs, Broadcast(t)
  PROVE  SignInv'
<1> DEFINE job == tab[t].job
           tx == Transaction(job)
<1>1. /\ TabSound(executed, tab[t]) /\ tab[t] \in TabStates
      /\ job.at = "send" /\ DerivedFrom(executed, job.action)
      /\ Digest(job.action, job.pin, job.quote) = job.signed
  BY DEF SignInv, TabSound, Broadcast
<1>2. TransactionSound(executed, tx)
  BY <1>1 DEF Transaction, TransactionSound
<1>3. PICK keep \in BOOLEAN :
        tab' = [tab EXCEPT ![t] =
          [tab[t] EXCEPT !.job = NoJob, !.quoted = keep /\ tab[t].quoted,
                         !.shown = IF keep THEN tab[t].shown ELSE None]]
  BY DEF Broadcast
<1> DEFINE quoted == keep /\ tab[t].quoted
           view == IF keep THEN tab[t].shown ELSE None
           state == [tab[t] EXCEPT !.job = NoJob, !.quoted = quoted, !.shown = view]
<1>4. tab' = [tab EXCEPT ![t] = state]
  BY <1>3 DEF SignInv
<1>5. /\ view \in Actions \cup {None} /\ quoted \in BOOLEAN
      /\ quoted => view # None
      /\ view # None => view = tab[t].shown
  BY <1>1 DEF TabStates, TabSound
<1>6. NoJob \in Jobs /\ NoJob.at = "none"
  BY DEF NoJob, Jobs
<1> HIDE DEF quoted, view
<1>7. state \in TabStates /\ state.quoted = quoted /\ state.shown = view /\ state.job = NoJob
  BY <1>1, <1>5, <1>6 DEF TabStates
<1> HIDE DEF state
<1>8. TabSound(executed, state)
  BY <1>1, <1>5, <1>6, <1>7 DEF TabSound
<1>9. sent' = sent \cup {tx} /\ UNCHANGED <<head, price, version, executed>>
  BY DEF Broadcast
<1> HIDE DEF tx
<1>10. executed' \in Seq(sent')
  <2>1. executed \in Seq(sent) /\ sent \subseteq sent'
    BY <1>9 DEF SignInv
  <2> QED
    BY <1>9, <2>1, SeqMonotonic
<1>11. \A x \in sent' : TransactionSound(executed', x)
  BY <1>2, <1>9 DEF SignInv
<1>12. DOMAIN tab' = Tabs /\ \A u \in Tabs : TabSound(executed', tab'[u])
  BY <1>4, <1>8, <1>9 DEF SignInv
<1> QED
  BY <1>9, <1>10, <1>11, <1>12 DEF SignInv

LEMMA SpentAppended ==
  ASSUME NEW S, NEW log \in Seq(S), NEW tx, NEW type, NEW n \in 0 .. Len(log)
  PROVE  SpentIn(Append(log, tx), n, type) = SpentIn(log, n, type)
<1>1. \A i \in 1 .. n : Append(log, tx)[i] = log[i]
  OBVIOUS
<1> QED
  BY <1>1 DEF SpentIn

LEMMA DerivedAppended ==
  ASSUME NEW S, NEW log \in Seq(S), NEW tx, NEW order, DerivedFrom(log, order)
  PROVE  DerivedFrom(Append(log, tx), order)
<1>1. order.readAt \in 0 .. Len(log)
  BY DEF DerivedFrom
<1>2. SpentIn(Append(log, tx), order.readAt, order.type) = SpentIn(log, order.readAt, order.type)
  BY <1>1, SpentAppended
<1>3. order.readAt \in 0 .. Len(Append(log, tx))
  BY <1>1
<1> QED
  BY <1>2, <1>3 DEF DerivedFrom

LEMMA IncludeSound ==
  ASSUME SignInv, NEW tx \in sent, Include(tx)
  PROVE  SignInv'
<1> DEFINE log == executed
           n == Len(executed)
<1>1. /\ executed' = Append(log, tx) /\ log \in Seq(sent) /\ n \in Nat
      /\ UNCHANGED <<head, price, version, sent, tab>>
  BY DEF Include, SignInv
<1>2. /\ \A x \in sent : TransactionSound(Append(log, tx), x)
      /\ \A t \in Tabs : TabSound(Append(log, tx), tab[t])
  BY <1>1, DerivedAppended DEF SignInv, TransactionSound, TabSound
<1>3. ExecutedInTurn(Append(log, tx))
  <2> SUFFICES ASSUME NEW i \in 1 .. n + 1
               PROVE  LET e == Append(log, tx) IN
                      /\ e[i].action.readAt < i
                      /\ e[i].action.nonce \notin SpentIn(e, i - 1, e[i].action.type)
    BY <1>1 DEF ExecutedInTurn
  <2>1. SpentIn(Append(log, tx), i - 1, Append(log, tx)[i].action.type)
          = SpentIn(log, i - 1, Append(log, tx)[i].action.type)
    BY <1>1, SpentAppended
  <2>2. CASE i \in 1 .. n
    BY <1>1, <2>1, <2>2 DEF SignInv, ExecutedInTurn
  <2>3. CASE i = n + 1
    <3>1. Append(log, tx)[i] = tx /\ i - 1 = n
      BY <1>1, <2>3
    <3>2. tx.action.nonce \notin SpentIn(log, n, tx.action.type)
      BY DEF Include, Accepts, Unspent, Spent, SpentBy, SpentIn
    <3>3. tx.action.readAt \in 0 .. n
      BY DEF SignInv, TransactionSound, DerivedFrom
    <3> QED
      BY <1>1, <2>1, <2>3, <3>1, <3>2, <3>3
  <2> QED
    BY <1>1, <2>2, <2>3
<1>4. Append(log, tx) \in Seq(sent)
  BY <1>1
<1> QED
  BY <1>1, <1>2, <1>3, <1>4 DEF SignInv

LEMMA SignNextInv ==
  ASSUME SignInv, [SignNext]_signVars
  PROVE  SignInv'
<1>1. CASE UNCHANGED signVars
  BY <1>1 DEF signVars, SignInv
<1>2. ASSUME NEW t \in Tabs, Sdk(t) \/ Owner(t) \/ Fails(t) PROVE SignInv'
  <2>1. CASE DeriveFails(t)
    <3>1. NoDraft \in Drafts
      BY DEF NoDraft, Drafts
    <3> QED
      BY <2>1, <3>1, DraftSound DEF DeriveFails
  <2> QED
    BY <1>2, <2>1, DeriveSound, OwnerActs, JobActs, BroadcastSound DEF Sdk, Owner, Fails
<1>3. CASE \E tx \in sent : Include(tx)
  BY <1>3, IncludeSound
<1>4. CASE Mine
  <2>1. head' \in 1 .. MaxHead /\ version' \in 1 .. MaxVersion /\ price' \in Prices
    BY <1>4, SignAssumption DEF Mine, SignInv, SignAssumption
  <2> QED
    BY <1>4, <2>1 DEF Mine, SignInv
<1> QED
  BY <1>1, <1>2, <1>3, <1>4 DEF SignNext

LEMMA SignInductive == SignSpec => []SignInv
<1>1. SignInit => SignInv
  BY SignStarts
<1>2. SignInv /\ [SignNext]_signVars => SignInv'
  BY SignNextInv
<1> QED
  BY <1>1, <1>2, PTL DEF SignSpec

(* Two executed orders of one kind: had the second been derived before the  *)
(* first was executed, each nonce would be below the other or the same, and *)
(* spent where it may not be.                                               *)
LEMMA OrdersApart ==
  ASSUME SignInv PROVE OneAtATime
<1> SUFFICES ASSUME NEW i \in DOMAIN executed, NEW j \in DOMAIN executed, i < j,
                    executed[i].action.type = executed[j].action.type,
                    ~(i <= executed[j].action.readAt)
             PROVE  FALSE
  BY DEF OneAtATime
<1> DEFINE a == executed[i].action
           b == executed[j].action
<1>1. /\ i \in Nat /\ j \in Nat /\ 1 <= i /\ i \in 1 .. Len(executed) /\ j \in 1 .. Len(executed)
      /\ Len(executed) \in Nat /\ executed[i] \in sent /\ executed[j] \in sent
  BY DEF SignInv
<1>2. DerivedFrom(executed, a) /\ DerivedFrom(executed, b) /\ a.type = b.type
  BY <1>1 DEF SignInv, TransactionSound
<1>3. /\ a.nonce \in Nonces /\ b.nonce \in Nonces /\ Nonces \subseteq Nat
      /\ a.readAt \in Nat /\ b.readAt \in Nat
  BY <1>2, SignAssumption, SMTT(40) DEF DerivedFrom, Actions, Nonces
<1>4. /\ a.readAt < i /\ a.nonce \notin SpentIn(executed, i - 1, a.type)
      /\ b.nonce \notin SpentIn(executed, j - 1, a.type)
  BY <1>1 DEF SignInv, ExecutedInTurn
<1>5. a.nonce \in SpentIn(executed, j - 1, a.type)
  BY <1>1 DEF SpentIn
<1>6. ASSUME NEW m \in Nat, NEW n \in Nat, m <= n
      PROVE  SpentIn(executed, m, a.type) \subseteq SpentIn(executed, n, a.type)
  BY <1>6 DEF SpentIn
<1>7. b.readAt \in Nat /\ a.readAt \in Nat /\ i - 1 \in Nat /\ j - 1 \in Nat
      /\ b.readAt <= i - 1 /\ a.readAt <= j - 1
  BY <1>1, <1>3, <1>4
<1> HIDE DEF a, b
<1>8. ~(a.nonce < b.nonce)
  BY <1>2, <1>3, <1>4, <1>6, <1>7 DEF DerivedFrom
<1>9. ~(b.nonce < a.nonce)
  BY <1>2, <1>3, <1>4, <1>6, <1>7 DEF DerivedFrom
<1>10. a.nonce # b.nonce
  BY <1>4, <1>5
<1>11. a.nonce \in Nat /\ b.nonce \in Nat
  BY <1>3
<1> QED
  BY <1>8, <1>9, <1>10, <1>11

(* Racing tabs, a button pressed again, reloads and moving quotes: of an    *)
(* owner's orders of one kind each executes once, with the quote it was     *)
(* signed with, for any tabs, nonces and chain (useActionParams,            *)
(* allocateNonce, signAndAttachAction against LoopAuthorization).           *)
THEOREM OrdersSignedOnce == SignSpec => []SignedOnce
<1>1. SignInv => SignedOnce
  <2> SUFFICES ASSUME SignInv PROVE SignedOnce
    OBVIOUS
  <2>1. SentAsSigned
    BY DEF SignInv, TransactionSound, SentAsSigned
  <2>2. \A t \in Tabs :
          /\ tab[t].shown \in Actions \cup {None}
          /\ tab[t].quoted => tab[t].shown # None
          /\ tab[t].job.at # "none" => tab[t].job.action \in Actions
    BY DEF SignInv, TabSound, TabStates, DerivedFrom
  <2>3. \A tx \in sent : tx.action \in Actions
    BY DEF SignInv, TransactionSound, DerivedFrom
  <2>4. \A i \in DOMAIN executed : executed[i] \in sent
    BY DEF SignInv
  <2>5. SignTypeOK
    BY <2>2, <2>3, <2>4 DEF SignInv, SignTypeOK
  <2> QED
    BY <2>1, <2>5, OrdersApart DEF SignedOnce
<1> QED
  BY <1>1, SignInductive, PTL

-----------------------------------------------------------------------------
(* SigningGates: the enabled button signs the form.                         *)

(* A derived action is the form's until the form changes.                   *)
ActionOfForm ==
  action # Unset =>
    /\ action.type = form.type /\ action.borrows = form.borrows
    /\ action.mode = form.mode /\ action.waivers = form.waivers
    /\ action.proof \in Proofs

(* What was read is of a block there was, and is all there where a gate was *)
(* evaluated from it; the gates say of it what they were evaluated to.      *)
ReadsSound(reads) ==
  /\ reads.head # Unset => reads.head <= block
  /\ reads.listed # Unset => action.type = "EXIT" \/ HarvestSettled(reads)

HarvestHolds ==
  gates # Unset /\ gates["HARVEST"] = "pass" =>
    /\ ~seen.failed /\ action.type # "EXIT" /\ HarvestSettled(seen)
    /\ EvaluateG1(action, seen) = "pass"
PreimageHolds ==
  gates # Unset /\ gates["PREIMAGE"] # "fail" => EvaluateG4(action, seen.listed) # "fail" /\ seen.listed # Unset

GateInv ==
  /\ GateTypeOK /\ ActionOfForm
  /\ preview # Unset => ReadsSound(preview)
  /\ gates # Unset => ReadsSound(seen)
  /\ HarvestHolds /\ PreimageHolds

LEMMA GatesEvaluated ==
  ASSUME NEW a, NEW reads, NEW anchor, NEW quorum
  PROVE  EvaluateGates(a, reads, anchor, quorum) \in [Gates -> {"pass", "fail", "notApplicable"}]
<1>1. /\ EvaluateG1(a, reads) \in {"pass", "fail", "notApplicable"}
      /\ EvaluateG2(anchor) \in {"pass", "fail", "notApplicable"}
      /\ EvaluateG3(quorum) \in {"pass", "fail", "notApplicable"}
      /\ EvaluateG4(a, reads.listed) \in {"pass", "fail", "notApplicable"}
  BY DEF EvaluateG1, EvaluateG2, EvaluateG3, EvaluateG4
<1> QED
  BY <1>1 DEF EvaluateGates, Gates

(* Nothing that is shown or asked for outlives an edit.                     *)
LEMMA FormChanges ==
  ASSUME GateInv, NEW next, SetForm(next),
         next \in [type : BuilderTypes, borrows : BOOLEAN, mode : Modes, waivers : SUBSET Waivers]
  PROVE  GateInv'
BY DEF GateInv, GateTypeOK, ActionOfForm, SetForm, Keyed, world, HarvestHolds, PreimageHolds

(* A step that only adds to what is being read.                             *)
LEMMA ReadKeeps ==
  ASSUME GateInv, UNCHANGED <<world, form, action, gates, seen>>, action # Unset,
         preview' \in PreviewReads, ReadsSound(preview')
  PROVE  GateInv'
<1>1. UNCHANGED <<block, lastHarvest, cooling, owner>>
  BY DEF world
<1>2. GateTypeOK'
  BY <1>1 DEF GateInv, GateTypeOK, PreviewReads
<1>3. ActionOfForm'
  BY DEF GateInv, ActionOfForm
<1>4. (preview # Unset => ReadsSound(preview))' /\ (gates # Unset => ReadsSound(seen))'
  BY <1>1 DEF GateInv, ReadsSound, HarvestSettled
<1>5. HarvestHolds' /\ PreimageHolds'
  BY DEF GateInv, HarvestHolds, PreimageHolds, HarvestSettled, EvaluateG1, EvaluateG4, IsRiskIncreasing, IsHighRiskByDigest
<1> QED
  BY <1>2, <1>3, <1>4, <1>5 DEF GateInv

LEMMA AskKeeps == GateInv /\ AskForPreview => GateInv'
<1> SUFFICES ASSUME GateInv, AskForPreview PROVE GateInv'
  OBVIOUS
<1>1. preview' = Unread
  BY DEF AskForPreview
<1>2. preview' \in PreviewReads /\ ReadsSound(preview')
  BY <1>1 DEF Unread, PreviewReads, ReadsSound
<1> QED
  BY <1>2, ReadKeeps DEF AskForPreview

LEMMA HarvestReadKeeps ==
  ASSUME GateInv, NEW what \in HarvestReads, ReadForHarvest(what)
  PROVE  GateInv'
<1>1. preview \in PreviewReads /\ ReadsSound(preview) /\ action # Unset
  BY DEF GateInv, GateTypeOK, ReadForHarvest, Reading
<1>2. preview.listed = Unset
  BY <1>1 DEF ReadForHarvest, Reading, ReadsSound, HarvestSettled
<1>3. block \in 1 .. LastBlock /\ lastHarvest \in 0 .. LastBlock /\ cooling \in Coolings
  BY DEF GateInv, GateTypeOK
<1>4. UNCHANGED <<world, form, action, gates, seen>>
  BY DEF ReadForHarvest
<1>5. CASE what = "last"
  <2>1. preview' = [preview EXCEPT !.last = lastHarvest]
    BY <1>5 DEF ReadForHarvest
  <2>2. preview' \in PreviewReads /\ preview'.listed = Unset /\ preview'.head = preview.head
    BY <1>1, <1>2, <1>3, <2>1 DEF PreviewReads
  <2> QED
    BY <1>1, <1>4, <2>2, ReadKeeps DEF ReadsSound
<1>6. CASE what = "cooling"
  <2>1. preview' = [preview EXCEPT !.cooling = cooling]
    BY <1>6 DEF ReadForHarvest
  <2>2. preview' \in PreviewReads /\ preview'.listed = Unset /\ preview'.head = preview.head
    BY <1>1, <1>2, <1>3, <2>1 DEF PreviewReads
  <2> QED
    BY <1>1, <1>4, <2>2, ReadKeeps DEF ReadsSound
<1>7. CASE what = "head"
  <2>1. preview' = [preview EXCEPT !.head = block]
    BY <1>7 DEF ReadForHarvest
  <2>2. preview' \in PreviewReads /\ preview'.listed = Unset /\ preview'.head = block
    BY <1>1, <1>2, <1>3, <2>1 DEF PreviewReads
  <2>3. block <= block
    BY <1>3
  <2>4. ReadsSound(preview')
    BY <2>2, <2>3 DEF ReadsSound
  <2> QED
    BY <1>1, <1>4, <2>2, <2>4, ReadKeeps
<1> QED
  BY <1>5, <1>6, <1>7 DEF HarvestReads

LEMMA OtherReadsKeep == GateInv /\ (FailHarvestRead \/ ReadAllowList) => GateInv'
<1> SUFFICES ASSUME GateInv, FailHarvestRead \/ ReadAllowList PROVE GateInv'
  OBVIOUS
<1>1. preview \in PreviewReads /\ ReadsSound(preview) /\ action # Unset
  BY DEF GateInv, GateTypeOK, FailHarvestRead, Reading, ReadAllowList
<1>2. CASE FailHarvestRead
  <2>1. preview' \in PreviewReads /\ ReadsSound(preview')
    BY <1>2 DEF FailHarvestRead, Unread, PreviewReads, ReadsSound
  <2> QED
    BY <1>1, <1>2, <2>1, ReadKeeps DEF FailHarvestRead
<1>3. CASE ReadAllowList
  <2>1. PICK listed \in {owner.listed, FALSE} : preview' = [preview EXCEPT !.listed = listed]
    BY <1>3 DEF ReadAllowList
  <2>2. listed \in BOOLEAN
    BY <2>1 DEF GateInv, GateTypeOK
  <2>3. /\ preview' \in PreviewReads /\ preview'.last = preview.last /\ preview'.cooling = preview.cooling
        /\ preview'.head = preview.head /\ preview'.failed = preview.failed
    BY <1>1, <2>1, <2>2 DEF PreviewReads
  <2>4. action.type = "EXIT" \/ HarvestSettled(preview')
    <3>1. HarvestSettled(preview) => HarvestSettled(preview')
      BY <2>3 DEF HarvestSettled, HarvestReads
    <3> QED
      BY <1>3, <3>1 DEF ReadAllowList
  <2>5. ReadsSound(preview')
    <3>1. UNCHANGED <<action, block>>
      BY <1>3 DEF ReadAllowList, world
    <3> QED
      BY <1>1, <2>3, <2>4 DEF ReadsSound
  <2> QED
    BY <1>1, <1>3, <2>3, <2>5, ReadKeeps DEF ReadAllowList
<1> QED
  BY <1>2, <1>3

LEMMA PreviewKeeps == GateInv /\ PreviewGates => GateInv'
<1> SUFFICES ASSUME GateInv, PreviewGates PROVE GateInv'
  OBVIOUS
<1>1. /\ preview # Unset /\ preview.listed # Unset
      /\ seen' = preview /\ preview' = Unset
      /\ UNCHANGED <<block, lastHarvest, cooling, owner, form, action>>
  BY DEF PreviewGates, world
<1>2. preview \in PreviewReads /\ ReadsSound(preview) /\ action # Unset
  BY <1>1 DEF GateInv, GateTypeOK
<1>3. PICK anchor, quorum : gates' = EvaluateGates(action, preview, anchor, quorum)
  BY DEF PreviewGates
<1>4. gates' \in [Gates -> {"pass", "fail", "notApplicable"}]
  BY <1>3, GatesEvaluated
<1>5. GateTypeOK'
  BY <1>1, <1>2, <1>4 DEF GateInv, GateTypeOK, PreviewReads
<1>6. ActionOfForm' /\ ReadsSound(seen)'
  BY <1>1, <1>2 DEF GateInv, ActionOfForm, ReadsSound, HarvestSettled
<1>7. HarvestHolds'
  <2> SUFFICES ASSUME gates'["HARVEST"] = "pass"
               PROVE  /\ ~preview.failed /\ action.type # "EXIT" /\ HarvestSettled(preview)
                      /\ EvaluateG1(action, preview) = "pass"
    BY <1>1 DEF HarvestHolds, HarvestSettled, EvaluateG1, IsRiskIncreasing
  <2>1. ~preview.failed /\ action.type # "EXIT" /\ EvaluateG1(action, preview) = "pass"
    BY <1>3 DEF EvaluateGates, Gates
  <2> QED
    BY <1>1, <1>2, <2>1 DEF ReadsSound
<1>8. PreimageHolds'
  <2>1. gates'["PREIMAGE"] = EvaluateG4(action, preview.listed)
    BY <1>3 DEF EvaluateGates, Gates
  <2> QED
    BY <1>1, <2>1 DEF PreimageHolds, EvaluateG4, IsHighRiskByDigest
<1> QED
  BY <1>1, <1>5, <1>6, <1>7, <1>8 DEF GateInv

LEMMA WorldKeeps ==
  ASSUME GateInv, MineBlock, lastHarvest' \in 0 .. LastBlock, cooling' \in Coolings,
         owner' \in [contract : BOOLEAN, listed : BOOLEAN]
  PROVE  GateInv'
<1>1. block \in Nat /\ block' = block + 1 /\ block' \in 1 .. LastBlock
  BY GateAssumption DEF MineBlock, GateInv, GateTypeOK, GateAssumption
<1>2. UNCHANGED <<form, action, preview, gates, seen>>
  BY DEF MineBlock
<1>3. GateTypeOK'
  BY <1>1, <1>2 DEF GateInv, GateTypeOK, PreviewReads
<1>4. ASSUME NEW reads \in PreviewReads, ReadsSound(reads)
      PROVE  ReadsSound(reads)'
  <2>1. reads.head # Unset => reads.head \in Nat
    BY GateAssumption DEF PreviewReads, GateAssumption
  <2> QED
    BY <1>1, <1>2, <1>4, <2>1 DEF ReadsSound, HarvestSettled
<1>5. (preview # Unset => ReadsSound(preview))'
  BY <1>2, <1>4 DEF GateInv, GateTypeOK, ReadsSound, HarvestSettled
<1>6. (gates # Unset => ReadsSound(seen))'
  BY <1>2, <1>4 DEF GateInv, GateTypeOK, ReadsSound, HarvestSettled
<1>7. ActionOfForm' /\ HarvestHolds' /\ PreimageHolds'
  BY <1>2 DEF GateInv, ActionOfForm, HarvestHolds, PreimageHolds, HarvestSettled, EvaluateG1, EvaluateG4,
              IsRiskIncreasing, IsHighRiskByDigest
<1> QED
  BY <1>3, <1>5, <1>6, <1>7 DEF GateInv

LEMMA GateNextInv ==
  ASSUME GateInv, [GateNext]_gateVars
  PROVE  GateInv'
<1>1. /\ form \in [type : BuilderTypes, borrows : BOOLEAN, mode : Modes, waivers : SUBSET Waivers]
      /\ lastHarvest \in 0 .. LastBlock /\ cooling \in Coolings
      /\ owner \in [contract : BOOLEAN, listed : BOOLEAN]
  BY DEF GateInv, GateTypeOK
<1>2. CASE UNCHANGED gateVars
  <2>1. UNCHANGED <<block, lastHarvest, cooling, owner, form, action, preview, gates, seen>>
    BY <1>2 DEF gateVars, world
  <2>2. GateTypeOK' /\ ActionOfForm'
    BY <2>1 DEF GateInv, GateTypeOK, ActionOfForm, PreviewReads
  <2>3. (preview # Unset => ReadsSound(preview))' /\ (gates # Unset => ReadsSound(seen))'
    BY <2>1 DEF GateInv, ReadsSound, HarvestSettled
  <2>4. HarvestHolds' /\ PreimageHolds'
    BY <2>1 DEF GateInv, HarvestHolds, PreimageHolds, HarvestSettled, EvaluateG1, EvaluateG4,
                IsRiskIncreasing, IsHighRiskByDigest
  <2> QED
    BY <2>2, <2>3, <2>4 DEF GateInv
<1>3. ASSUME NEW type \in BuilderTypes, NEW borrows \in BOOLEAN, ChooseIntent(type, borrows)
      PROVE  GateInv'
  BY <1>1, <1>3, FormChanges DEF ChooseIntent
<1>4. ASSUME NEW mode \in Modes, ChooseMode(mode) PROVE GateInv'
  BY <1>1, <1>4, FormChanges DEF ChooseMode
<1>5. ASSUME NEW bit \in Waivers, ToggleWaiver(bit) PROVE GateInv'
  <2> DEFINE ticked == IF bit \in form.waivers THEN form.waivers \ {bit} ELSE form.waivers \cup {bit}
  <2>1. SetForm([form EXCEPT !.waivers = ticked])
    BY <1>5 DEF ToggleWaiver
  <2>2. ticked \in SUBSET Waivers
    BY <1>1
  <2> HIDE DEF ticked
  <2> QED
    BY <1>1, <2>1, <2>2, FormChanges
<1>6. CASE DeriveAction
  <2>1. action = Unset /\ preview = Unset /\ gates = Unset
    BY <1>6 DEF DeriveAction, GateInv, GateTypeOK
  <2> QED
    BY <1>6, <2>1 DEF DeriveAction, world, GateInv, GateTypeOK, ActionOfForm, HarvestHolds, PreimageHolds
<1>7. ASSUME NEW what \in HarvestReads, ReadForHarvest(what) PROVE GateInv'
  BY <1>7, HarvestReadKeeps
<1>8. CASE PassingBlock
  BY <1>1, <1>8, WorldKeeps DEF PassingBlock
<1>9. ASSUME NEW observed \in 0 .. LastBlock, RecordHarvest(observed) PROVE GateInv'
  BY <1>1, <1>9, WorldKeeps DEF RecordHarvest
<1>10. ASSUME NEW next \in Coolings, SetHarvestCoolingBlocks(next) PROVE GateInv'
  BY <1>1, <1>10, WorldKeeps DEF SetHarvestCoolingBlocks
<1>11. ASSUME NEW allowed \in BOOLEAN, SetPreimageDisplayGuaranteedWallet(allowed) PROVE GateInv'
  <2>1. owner' \in [contract : BOOLEAN, listed : BOOLEAN]
    BY <1>1, <1>11 DEF SetPreimageDisplayGuaranteedWallet
  <2> QED
    BY <1>1, <1>11, <2>1, WorldKeeps DEF SetPreimageDisplayGuaranteedWallet
<1> QED
  BY <1>2, <1>3, <1>4, <1>5, <1>6, <1>7, <1>8, <1>9, <1>10, <1>11, AskKeeps, OtherReadsKeep, PreviewKeeps DEF GateNext

LEMMA GateInductive == GateSpec => []GateInv
<1>1. GateInit => GateInv
  BY GateAssumption
  DEF GateInit, GateInv, GateTypeOK, ActionOfForm, GateAssumption, BuilderTypes, Modes, HarvestHolds, PreimageHolds
<1>2. GateInv /\ [GateNext]_gateVars => GateInv'
  BY GateNextInv
<1> QED
  BY <1>1, <1>2, PTL DEF GateSpec

(* The enabled button signs what the form shows, on the preview's gates and *)
(* with the waivers its MEV mode needs, after any edits, reloads and        *)
(* previews (LoopBuilder, PreviewDrawer, post-matrix.ts and                 *)
(* LoopV1ActionValidation.validateMev).                                     *)
THEOREM ButtonSignsTheForm == GateSpec => []FormIsSigned
<1>1. GateInv => FormIsSigned
  <2> SUFFICES ASSUME GateInv, SignEnabled PROVE SignsTheForm
    BY DEF FormIsSigned, SignsTheForm, GateInv
  <2>1. WaiversComplete /\ action # Unset /\ gates # Unset
    BY DEF SignEnabled, SignOverrideDisabled
  <2> QED
    BY <2>1 DEF SignsTheForm, GateInv, ActionOfForm, ValidateMev, WaiversComplete, RequiredWaivers, Waivers
<1> QED
  BY <1>1, GateInductive, PTL

(* A gate that passed is one the contracts apply no stricter, in the block  *)
(* it was evaluated for or a later one, whatever the wallet and the         *)
(* harvests are and however blocks came between the reads, until a later    *)
(* harvest, a longer cooling or a delisting (sdk-impl.ts, post-matrix.ts    *)
(* against LoopV1ActionValidation and LoopV1HighRisk).                      *)
THEOREM PassedIsAccepted == GateSpec => []PassedMeansAccepted
<1>1. ASSUME GateInv, gates # Unset, gates["HARVEST"] = "pass", lastHarvest <= seen.last, cooling <= seen.cooling
      PROVE  ValidateHarvest(action)
  <2>1. seen \in PreviewReads /\ ReadsSound(seen) /\ HarvestSettled(seen) /\ ~seen.failed
    BY <1>1 DEF GateInv, GateTypeOK, HarvestHolds
  <2>2. seen.last # Unset /\ seen.cooling # Unset /\ seen.head # Unset
    BY <2>1 DEF HarvestSettled, HarvestReads
  <2>3. seen.last \in Nat /\ seen.cooling \in Nat /\ seen.head \in Nat /\ seen.head <= block
    <3>1. seen.last \in 0 .. LastBlock /\ seen.cooling \in Coolings /\ seen.head \in 1 .. LastBlock
      BY <2>1, <2>2 DEF PreviewReads
    <3>2. \A n \in 0 .. LastBlock : n \in Nat
      OBVIOUS
    <3>3. \A n \in 1 .. LastBlock : n \in Nat
      OBVIOUS
    <3>4. \A n \in Coolings : n \in Nat
      BY GateAssumption DEF GateAssumption
    <3>5. seen.last \in Nat /\ seen.cooling \in Nat /\ seen.head \in Nat
      BY <3>1, <3>2, <3>3, <3>4, Zenon
    <3> QED
      BY <2>1, <2>2, <3>5 DEF ReadsSound
  <2>4. block \in Nat /\ lastHarvest \in Nat /\ cooling \in Nat
    BY <1>1, GateAssumption DEF GateInv, GateTypeOK, GateAssumption
  <2>5. ~(seen.head <= seen.last + seen.cooling)
    BY <1>1 DEF GateInv, HarvestHolds, EvaluateG1
  <2>6. block > lastHarvest + cooling
    BY <1>1, <2>3, <2>4, <2>5
  <2> QED
    BY <2>6 DEF ValidateHarvest
<1>2. ASSUME GateInv, gates # Unset, gates["PREIMAGE"] # "fail", action.proof # "wrong", seen.listed => owner.listed
      PROVE  Attested(action)
  <2>1. EvaluateG4(action, seen.listed) # "fail"
    BY <1>2 DEF GateInv, PreimageHolds
  <2>2. action.proof \in {Unset, "right"}
    BY <1>2 DEF GateInv, GateTypeOK, ActionOfForm, Proofs
  <2> QED
    BY <1>2, <2>1, <2>2 DEF EvaluateG4, IsHighRiskByDigest, IsRiskIncreasing, Attested
<1>3. GateInv => PassedMeansAccepted
  BY <1>1, <1>2 DEF PassedMeansAccepted
<1> QED
  BY <1>3, GateInductive, PTL

-----------------------------------------------------------------------------
(* EvidenceSet: the inductive invariant.                                    *)

Configs == [version : Nat, required : {<<>>, RequiredIds}, canonical : [SourceIds -> Addresses]]

(* A version names one configuration, at whatever block it is read.         *)
VersionsName(r) ==
  /\ r \in Seq(Configs) /\ Len(r) \in 1 .. Height
  /\ \A i, j \in 1 .. Len(r) : i <= j =>
       /\ r[i].version <= r[j].version
       /\ r[i].version = r[j].version => r[i] = r[j]

(* What a resolver's sources are once they are bound.                       *)
Ascending(s) == \A i, j \in 1 .. Len(s) : i < j => Precedes(s[i], s[j])
PinnedAt(s, pin) == \A i \in 1 .. Len(s) : s[i].lastUpdateBlock = pin
CanonicalIn(s, config) == \A i \in 1 .. Len(s) : config.canonical[s[i].id] \in {0, s[i].address}
CoversIds(s, ids) == \A i \in DOMAIN ids : \E j \in 1 .. Len(s) : s[j].id = ids[i]
BoundSources(s, ids, pin, config) ==
  s \in Seq(Sources) /\ Ascending(s) /\ PinnedAt(s, pin) /\ CanonicalIn(s, config) /\ CoversIds(s, ids)

BundleSound(b, r) ==
  /\ b \in [at : {"idle", "versioned", "pinned", "required", "bound", "thrown", "executed"},
            type : {"Open", "ForceExit"}, resolver : {"none", "canonical", "live", "custom"}, version : Nat,
            quoteBlock : Nat, pin : Nat, required : {<<>>, RequiredIds}, sources : {b.sources}, delivered : {b.delivered}]
  /\ b.at \in {"versioned", "pinned"} => b.version <= r[Len(r)].version
  /\ b.at \in {"pinned", "required", "bound", "executed"} => b.pin \in 1 .. Len(r) /\ b.version <= r[b.pin].version
  /\ b.at \in {"bound", "executed"} => BoundSources(b.sources, b.required, b.pin, r[b.pin])
  /\ b.at \notin {"bound", "executed"} => b.sources = <<>>
  /\ b.at = "executed" =>
       /\ b.delivered = b.sources /\ Len(b.delivered) = Len(r[Len(r)].required)
       /\ \A i \in 1 .. Len(b.delivered) : b.delivered[i].id = r[Len(r)].required[i]

EvidenceInv == VersionsName(registry) /\ healthy \subseteq SourceIds /\ BundleSound(bundle, registry)

-----------------------------------------------------------------------------
(* Sorting                                                                  *)

(* Where every set of positions has a first one, all can be put in order.   *)
Selected(n, k, R) ==
  {q \in [1 .. k -> 1 .. n] : \A i \in 1 .. k :
     \A x \in (1 .. n) \ {q[j] : j \in 1 .. i} : <<q[i], x>> \in R}
OneByOne(q, k) == \A i, j \in 1 .. k : q[i] = q[j] => i = j

LEMMA Upto ==
  ASSUME NEW n \in Nat
  PROVE  IsFiniteSet(1 .. n) /\ Cardinality(1 .. n) = n
<1>1. 1 \in Int /\ n \in Int /\ (IF 1 > n THEN 0 ELSE n - 1 + 1) = n
  OBVIOUS
<1> QED
  BY <1>1, FS_Interval

LEMMA SortingOrder ==
  ASSUME NEW n \in Nat, NEW R,
         \A T \in SUBSET (1 .. n) : T # {} => \E i \in T : \A j \in T \ {i} : <<i, j>> \in R
  PROVE  \E q \in [1 .. n -> 1 .. n] :
           /\ OneByOne(q, n) /\ \A x \in 1 .. n : \E i \in 1 .. n : q[i] = x
           /\ \A i, j \in 1 .. n : i < j => <<q[i], q[j]>> \in R
<1> DEFINE Good == {k \in 0 .. n : \E q \in Selected(n, k, R) : OneByOne(q, k)}
<1>1. 0 \in Good
  <2> DEFINE q == [i \in 1 .. 0 |-> 1]
  <2>1. q \in Selected(n, 0, R) /\ OneByOne(q, 0)
    BY DEF Selected, OneByOne
  <2> QED
    BY <2>1
<1>2. ASSUME NEW k \in 0 .. n, k < n, k \in Good
      PROVE  k + 1 \in Good
  <2>1. PICK q \in Selected(n, k, R) : OneByOne(q, k)
    BY <1>2
  <2> DEFINE done == {q[j] : j \in 1 .. k}
             rest == (1 .. n) \ done
  <2>2. q \in [1 .. k -> 1 .. n] /\ done \subseteq 1 .. n /\ k \in Nat /\ k + 1 \in 0 .. n
    BY <1>2, <2>1 DEF Selected
  <2>3. rest # {}
    <3> SUFFICES ASSUME done = 1 .. n
                 PROVE  FALSE
      BY <2>2
    <3>1. q \in Surjection(1 .. k, 1 .. n)
      <4>1. \A x \in 1 .. n : \E j \in 1 .. k : q[j] = x
        OBVIOUS
      <4> QED
        BY <2>2, <4>1 DEF Surjection
    <3>2. IsFiniteSet(1 .. k) /\ Cardinality(1 .. k) = k /\ Cardinality(1 .. n) = n
      BY <2>2, Upto
    <3> QED
      BY <1>2, <2>2, <3>1, <3>2, FS_Surjection
  <2>4. PICK m \in rest : \A x \in rest \ {m} : <<m, x>> \in R
    <3>1. rest \in SUBSET (1 .. n)
      OBVIOUS
    <3> HIDE DEF rest
    <3> QED
      BY <2>3, <3>1
  <2>5. m \in 1 .. n /\ \A j \in 1 .. k : q[j] # m
    OBVIOUS
  <2> DEFINE p == [i \in 1 .. k + 1 |-> IF i = k + 1 THEN m ELSE q[i]]
  <2>6. /\ p \in [1 .. k + 1 -> 1 .. n] /\ p[k + 1] = m
        /\ \A i \in 1 .. k : p[i] = q[i] /\ i \in 1 .. k + 1 /\ i # k + 1
        /\ \A i \in 1 .. k + 1 : i \in 1 .. k \/ i = k + 1
    BY <2>2, <2>5
  <2> HIDE DEF p
  <2>7. OneByOne(p, k + 1)
    BY <2>1, <2>5, <2>6 DEF OneByOne
  <2>8. ASSUME NEW i \in 1 .. k + 1, NEW x \in (1 .. n) \ {p[j] : j \in 1 .. i}
        PROVE  <<p[i], x>> \in R
    <3>1. CASE i \in 1 .. k
      <4>1. \A j \in 1 .. i : j \in 1 .. k
        BY <2>2, <3>1
      <4>2. {p[j] : j \in 1 .. i} = {q[j] : j \in 1 .. i}
        BY <2>6, <4>1
      <4> QED
        BY <2>1, <2>6, <2>8, <3>1, <4>2 DEF Selected
    <3>2. CASE i = k + 1
      <4>1. \A j \in 1 .. k + 1 : x # p[j]
        BY <2>8, <3>2
      <4>2. x \in 1 .. n /\ x # m /\ \A j \in 1 .. k : x # q[j]
        BY <2>2, <2>6, <2>8, <4>1
      <4>3. x \in rest \ {m}
        BY <4>2
      <4> QED
        BY <2>4, <2>6, <3>2, <4>3
    <3> QED
      BY <2>6, <3>1, <3>2
  <2>9. p \in Selected(n, k + 1, R)
    BY <2>6, <2>8 DEF Selected
  <2> QED
    BY <2>2, <2>7, <2>9
<1> HIDE DEF Good
<1>3. n \in Good
  <2>1. 0 .. n \subseteq Good
    BY <1>1, <1>2, SegmentInduction
  <2> QED
    BY <2>1
<1>4. PICK q \in Selected(n, n, R) : OneByOne(q, n)
  BY <1>3 DEF Good
<1>5. q \in [1 .. n -> 1 .. n]
  BY DEF Selected
<1>6. \A x \in 1 .. n : \E i \in 1 .. n : q[i] = x
  <2>1. IsFiniteSet(1 .. n) /\ q \in Injection(1 .. n, 1 .. n)
    BY <1>4, <1>5, Upto DEF Injection, IsInjective, OneByOne
  <2>2. q \in Surjection(1 .. n, 1 .. n)
    BY <2>1, FS_Injection
  <2> QED
    BY <2>2 DEF Surjection
<1>7. ASSUME NEW i \in 1 .. n, NEW j \in 1 .. n, i < j
      PROVE  <<q[i], q[j]>> \in R
  <2>1. \A m \in 1 .. i : m \in 1 .. n /\ m # j
    BY <1>7
  <2>2. q[j] \in (1 .. n) \ {q[m] : m \in 1 .. i}
    BY <1>4, <1>5, <2>1 DEF OneByOne
  <2> QED
    BY <2>2 DEF Selected
<1> QED
  BY <1>4, <1>5, <1>6, <1>7

(* Two ascending lists of the same numbers are the same.                    *)
Rising(f, n) == \A i, j \in 1 .. n : i < j => f[i] < f[j]
Among(f, g, n) == \A i \in 1 .. n : \E j \in 1 .. n : f[i] = g[j]
AgreeUpTo(f, g, k) == \A i \in 1 .. k : f[i] = g[i]

LEMMA RisingOneWay ==
  ASSUME NEW n \in Nat, NEW f \in [1 .. n -> Nat], NEW g \in [1 .. n -> Nat], Rising(f, n), Rising(g, n),
         Among(f, g, n), NEW k \in 1 .. n, AgreeUpTo(f, g, k - 1)
  PROVE  g[k] <= f[k]
<1>1. PICK j \in 1 .. n : f[k] = g[j]
  BY DEF Among
<1>2. ~(j < k)
  <2> SUFFICES ASSUME j < k PROVE FALSE
    OBVIOUS
  <2>1. f[j] < f[k] /\ f[j] \in Nat
    BY DEF Rising
  <2>2. f[j] = g[j]
    BY DEF AgreeUpTo
  <2> QED
    BY <1>1, <2>1, <2>2
<1>3. j = k \/ g[k] < g[j]
  BY <1>2 DEF Rising
<1>4. g[k] \in Nat /\ g[j] \in Nat
  OBVIOUS
<1> QED
  BY <1>1, <1>3, <1>4

LEMMA RisingUnique ==
  ASSUME NEW n \in Nat, NEW f \in [1 .. n -> Nat], NEW g \in [1 .. n -> Nat], Rising(f, n), Rising(g, n),
         Among(f, g, n), Among(g, f, n)
  PROVE  f = g
<1> DEFINE S == {k \in 0 .. n : AgreeUpTo(f, g, k)}
<1>1. 0 \in S
  BY DEF AgreeUpTo
<1>2. ASSUME NEW k \in 0 .. n, k < n, k \in S
      PROVE  k + 1 \in S
  <2> DEFINE m == k + 1
  <2>1. m \in 1 .. n /\ m - 1 = k
    BY <1>2
  <2>2. AgreeUpTo(f, g, m - 1) /\ AgreeUpTo(g, f, m - 1)
    BY <1>2, <2>1 DEF AgreeUpTo
  <2> HIDE DEF m
  <2>3. g[m] <= f[m]
    BY <2>1, <2>2, RisingOneWay
  <2>4. f[m] <= g[m]
    BY <2>1, <2>2, RisingOneWay
  <2>5. f[m] \in Nat /\ g[m] \in Nat
    BY <2>1
  <2>6. f[m] = g[m]
    BY <2>3, <2>4, <2>5
  <2>7. \A i \in 1 .. m : i \in 1 .. m - 1 \/ i = m
    BY <2>1
  <2>8. AgreeUpTo(f, g, m) /\ m \in 0 .. n
    BY <2>1, <2>2, <2>6, <2>7 DEF AgreeUpTo
  <2> QED
    BY <2>8 DEF m
<1> HIDE DEF S
<1>3. n \in S
  <2>1. 0 .. n \subseteq S
    BY <1>1, <1>2, SegmentInduction
  <2> QED
    BY <2>1
<1> QED
  BY <1>3 DEF S, AgreeUpTo

LEMMA RisingInjective ==
  ASSUME NEW n \in Nat, NEW T \in SUBSET Nat, NEW f \in [1 .. n -> T], Rising(f, n)
  PROVE  f \in Injection(1 .. n, T)
<1>1. ASSUME NEW i \in 1 .. n, NEW j \in 1 .. n, f[i] = f[j]
      PROVE  i = j
  <2>1. f[i] \in Nat /\ f[j] \in Nat
    OBVIOUS
  <2>2. ~(i < j) /\ ~(j < i)
    BY <1>1, <2>1 DEF Rising
  <2> QED
    BY <2>2
<1> QED
  BY <1>1 DEF Injection, IsInjective

-----------------------------------------------------------------------------
(* The required set: every source, in the order of the ids.                 *)

LEMMA RequiredSorted ==
  /\ Cardinality(SourceIds) \in Nat
  /\ RequiredIds \in [1 .. Cardinality(SourceIds) -> SourceIds]
  /\ Rising(RequiredIds, Cardinality(SourceIds))
  /\ \A id \in SourceIds : \E i \in 1 .. Cardinality(SourceIds) : RequiredIds[i] = id
<1> DEFINE n == Cardinality(SourceIds)
<1>1. n \in Nat /\ ExistsBijection(1 .. n, SourceIds) /\ SourceIds \in SUBSET Nat
  BY EvidenceAssumption, FS_CardinalityType DEF EvidenceAssumption
<1> HIDE DEF n
<1>2. PICK f \in Bijection(1 .. n, SourceIds) : TRUE
  BY <1>1 DEF ExistsBijection
<1>3. f \in [1 .. n -> SourceIds] /\ \A i, j \in 1 .. n : f[i] = f[j] => i = j
  BY <1>2 DEF Bijection, Injection, IsInjective
<1> DEFINE R == {p \in (1 .. n) \X (1 .. n) : f[p[1]] < f[p[2]]}
<1>4. ASSUME NEW T \in SUBSET (1 .. n), T # {}
      PROVE  \E i \in T : \A j \in T \ {i} : <<i, j>> \in R
  <2> DEFINE V == {f[i] : i \in T}
  <2>1. V \in SUBSET Nat /\ V # {}
    <3>1. \A i \in T : f[i] \in Nat
      BY <1>1, <1>3
    <3> QED
      BY <1>4, <3>1
  <2>2. PICK x \in V : \A y \in V : x <= y
    <3> HIDE DEF V
    <3> QED
      BY <2>1, LeastNumber
  <2>3. PICK i \in T : x = f[i]
    BY <2>2
  <2>4. ASSUME NEW j \in T \ {i} PROVE <<i, j>> \in R
    <3>1. f[i] <= f[j] /\ f[i] # f[j] /\ f[i] \in Nat /\ f[j] \in Nat
      BY <1>1, <1>3, <2>2, <2>3, ZenonT(40)
    <3> QED
      BY <3>1
  <2> QED
    BY <2>4
<1> HIDE DEF R
<1>5. PICK q \in [1 .. n -> 1 .. n] : \A i, j \in 1 .. n : i < j => <<q[i], q[j]>> \in R
  BY <1>1, <1>4, SortingOrder
<1> DEFINE ids == [i \in 1 .. n |-> f[q[i]]]
<1>6. ids \in [1 .. n -> SourceIds] /\ \A i, j \in DOMAIN ids : i < j => ids[i] < ids[j]
  BY <1>3, <1>5 DEF R
<1>7. RequiredIds \in [1 .. n -> SourceIds] /\ \A i, j \in DOMAIN RequiredIds : i < j => RequiredIds[i] < RequiredIds[j]
  BY <1>6 DEF RequiredIds, n
<1>8. Rising(RequiredIds, n)
  BY <1>7 DEF Rising
<1>9. RequiredIds \in Surjection(1 .. n, SourceIds)
  <2>1. RequiredIds \in Injection(1 .. n, SourceIds)
    BY <1>1, <1>7, <1>8, RisingInjective
  <2>2. Cardinality(1 .. n) = Cardinality(SourceIds)
    BY <1>1, Upto DEF n
  <2> QED
    BY <2>1, <2>2, EvidenceAssumption, FS_Injection DEF EvidenceAssumption
<1> QED
  BY <1>1, <1>7, <1>8, <1>9 DEF n, Surjection

-----------------------------------------------------------------------------
(* What binding does to a resolver's sources.                               *)

KeysApart(s, n) == \A i, j \in 1 .. n : Key(s[i]) = Key(s[j]) => i = j

LEMMA KeysDiffer ==
  ASSUME NEW s, NEW n \in Nat, DOMAIN s = 1 .. n, Cardinality(Keys(s)) = n
  PROVE  KeysApart(s, n)
<1> DEFINE k == [i \in 1 .. n |-> Key(s[i])]
<1>1. k \in Surjection(1 .. n, Keys(s))
  BY DEF Surjection, Keys
<1>2. IsFiniteSet(1 .. n) /\ Cardinality(1 .. n) = n
  BY Upto
<1>3. k \in Injection(1 .. n, Keys(s))
  <2> HIDE DEF k
  <2> QED
    BY <1>1, <1>2, FS_Surjection
<1>4. \A i, j \in 1 .. n : k[i] = k[j] => i = j
  BY <1>3 DEF Injection, IsInjective
<1> QED
  BY <1>4 DEF KeysApart

LEMMA SourceFields ==
  ASSUME NEW x \in Sources
  PROVE  x.id \in Nat /\ x.id \in SourceIds /\ x.address \in Nat /\ x.address \in Addresses \ {0}
BY EvidenceAssumption DEF EvidenceAssumption, Sources

(* Some set of distinct sources has a first one.                            *)
LEMMA FirstSource ==
  ASSUME NEW n \in Nat, NEW s \in [1 .. n -> Sources],
         KeysApart(s, n), NEW T \in SUBSET (1 .. n), T # {}
  PROVE  \E i \in T : \A j \in T \ {i} : Precedes(s[i], s[j])
<1>1. \A i \in T : i \in 1 .. n /\ s[i].id \in Nat /\ s[i].address \in Nat
  BY SourceFields
<1> DEFINE V == {s[i].id : i \in T}
<1>2. V \in SUBSET Nat /\ V # {}
  <2>1. \A y \in V : y \in Nat
    BY <1>1
  <2>2. V # {}
    OBVIOUS
  <2> QED
    BY <2>1, <2>2
<1>3. PICK x \in V : \A y \in V : x <= y
  <2> HIDE DEF V
  <2> QED
    BY <1>2, LeastNumber
<1> DEFINE W == {s[i].address : i \in {j \in T : s[j].id = x}}
<1>4. W \in SUBSET Nat /\ W # {}
  <2>1. \A y \in W : y \in Nat
    BY <1>1
  <2>2. PICK i \in T : s[i].id = x
    BY <1>3
  <2>3. s[i].address \in W
    BY <2>2
  <2> QED
    BY <2>1, <2>3
<1>5. PICK a \in W : \A y \in W : a <= y
  <2> HIDE DEF W
  <2> QED
    BY <1>4, LeastNumber
<1>6. PICK i \in T : s[i].id = x /\ s[i].address = a
  BY <1>5
<1>7. ASSUME NEW j \in T \ {i}
      PROVE  Precedes(s[i], s[j])
  <2>1. x <= s[j].id /\ x \in Nat /\ s[j].id \in Nat
    BY <1>1, <1>2, <1>3
  <2>2. ASSUME s[j].id = x PROVE a < s[j].address
    <3>1. a <= s[j].address /\ a \in Nat /\ s[j].address \in Nat
      BY <1>1, <1>4, <1>5, <2>2
    <3>2. Key(s[i]) # Key(s[j])
      BY <1>1 DEF KeysApart
    <3>3. a # s[j].address
      BY <1>6, <2>2, <3>2 DEF Key
    <3> QED
      BY <3>1, <3>3
  <2> QED
    BY <1>6, <2>1, <2>2 DEF Precedes
<1> QED
  BY <1>7

LEMMA SortedIsSorted ==
  ASSUME NEW s \in Seq(Sources), Distinct(s)
  PROVE  /\ SortSources(s) \in Seq(Sources) /\ Len(SortSources(s)) = Len(s)
         /\ Keys(SortSources(s)) = Keys(s) /\ Ascending(SortSources(s))
         /\ \A i \in 1 .. Len(s) : \E j \in 1 .. Len(s) : SortSources(s)[i] = s[j]
<1> DEFINE n == Len(s)
<1>1. n \in Nat /\ DOMAIN s = 1 .. n /\ s \in [1 .. n -> Sources]
  OBVIOUS
<1>2. Cardinality(Keys(s)) = n
  BY DEF Distinct
<1> HIDE DEF n
<1>3. KeysApart(s, n)
  BY <1>1, <1>2, KeysDiffer
<1> DEFINE R == {p \in (1 .. n) \X (1 .. n) : Precedes(s[p[1]], s[p[2]])}
<1>4. ASSUME NEW T \in SUBSET (1 .. n), T # {}
      PROVE  \E i \in T : \A j \in T \ {i} : <<i, j>> \in R
  <2>1. PICK i \in T : \A j \in T \ {i} : Precedes(s[i], s[j])
    BY <1>1, <1>3, <1>4, FirstSource
  <2> QED
    BY <2>1
<1> HIDE DEF R
<1>5. PICK q \in [1 .. n -> 1 .. n] :
        /\ \A x \in 1 .. n : \E i \in 1 .. n : q[i] = x
        /\ \A i, j \in 1 .. n : i < j => <<q[i], q[j]>> \in R
  BY <1>1, <1>4, SortingOrder
<1> DEFINE All == {s[i] : i \in DOMAIN s}
           sorted == [i \in 1 .. n |-> s[q[i]]]
           t == SortSources(s)
<1>6. sorted \in [DOMAIN s -> All]
  BY <1>1, <1>5
<1>7. Keys(sorted) = Keys(s)
  <2>1. \A i \in 1 .. n : q[i] \in 1 .. n /\ sorted[i] = s[q[i]]
    BY <1>5
  <2>2. DOMAIN sorted = 1 .. n
    OBVIOUS
  <2>3. Keys(sorted) = {Key(s[q[i]]) : i \in 1 .. n}
    BY <2>1, <2>2 DEF Keys
  <2>4. Keys(s) = {Key(s[x]) : x \in 1 .. n}
    BY <1>1 DEF Keys
  <2>5. {Key(s[q[i]]) : i \in 1 .. n} \subseteq {Key(s[x]) : x \in 1 .. n}
    BY <2>1
  <2>6. {Key(s[x]) : x \in 1 .. n} \subseteq {Key(s[q[i]]) : i \in 1 .. n}
    BY <1>5
  <2> QED
    BY <2>3, <2>4, <2>5, <2>6
<1>8. \A i, j \in DOMAIN s : i < j => Precedes(sorted[i], sorted[j])
  BY <1>1, <1>5 DEF R
<1>9. /\ t \in [DOMAIN s -> All] /\ Keys(t) = Keys(s)
      /\ \A i, j \in DOMAIN s : i < j => Precedes(t[i], t[j])
  <2> HIDE DEF sorted
  <2> QED
    BY <1>6, <1>7, <1>8 DEF SortSources
<1> HIDE DEF t
<1>10. t \in [1 .. n -> Sources] /\ \A i \in 1 .. n : \E j \in 1 .. n : t[i] = s[j]
  BY <1>1, <1>9
<1>11. t \in Seq(Sources) /\ Len(t) = n
  BY <1>1, <1>10, SeqDef
<1>12. Ascending(t)
  BY <1>1, <1>9, <1>11 DEF Ascending
<1> QED
  BY <1>9, <1>10, <1>11, <1>12 DEF t, n

(* What a resolver returns, once it may be signed.                          *)
LEMMA GatheredSound ==
  ASSUME EvidenceInv, bundle.at = "required", NEW s \in Gathered, Signable(s)
  PROVE  /\ s \in Seq(Sources) /\ PinnedAt(s, bundle.pin) /\ CanonicalIn(s, registry[bundle.pin])
         /\ CoversIds(s, bundle.required)
<1>1. /\ bundle.pin \in 1 .. Height /\ bundle.pin \in 1 .. Len(registry) /\ registry[bundle.pin] \in Configs
      /\ bundle.required \in {<<>>, RequiredIds} /\ bundle.resolver \in {"none", "canonical", "live", "custom"}
  <2>1. Len(registry) \in 1 .. Height /\ Height \in Nat /\ registry \in Seq(Configs)
    BY EvidenceAssumption DEF EvidenceAssumption, EvidenceInv, VersionsName
  <2>2. bundle.pin \in 1 .. Len(registry)
    BY DEF EvidenceInv, BundleSound
  <2> QED
    BY <2>1, <2>2 DEF EvidenceInv, BundleSound
<1>2. bundle.required \in Seq(SourceIds)
  <2>1. RequiredIds \in Seq(SourceIds)
    BY RequiredSorted, SeqDef
  <2>2. <<>> \in Seq(SourceIds)
    OBVIOUS
  <2> QED
    BY <1>1, <2>1, <2>2
<1>3. \A id \in SourceIds : registry[bundle.pin].canonical[id] \in Addresses
  BY <1>1 DEF Configs
<1>4. s \in Seq(Sources) /\ PinnedAt(s, bundle.pin)
  <2>1. CASE bundle.resolver \in {"live", "canonical"}
    <3>1. PICK read : s = LiveSources(read)
      BY <2>1 DEF Gathered, CanonicalSources
    <3> DEFINE n == Len(bundle.required)
    <3>2. n \in Nat /\ DOMAIN bundle.required = 1 .. n
      BY <1>2
    <3> HIDE DEF n
    <3>3. ASSUME NEW i \in 1 .. n
          PROVE  s[i] \in Sources /\ s[i].lastUpdateBlock = bundle.pin
      <4> DEFINE id == bundle.required[i]
                 address == registry[bundle.pin].canonical[id]
      <4>1. id \in SourceIds /\ address \in Addresses
        BY <1>2, <1>3, <3>2
      <4>2. address # 0
        BY <2>1, <3>2 DEF Signable, CanonicalSource
      <4>3. s[i] = [id |-> id, address |-> address, status |-> VenueStatus(id, read), lastUpdateBlock |-> bundle.pin]
        BY <3>1, <3>2 DEF LiveSources, CanonicalSource
      <4>4. VenueStatus(id, read) \in Statuses
        BY DEF VenueStatus, Statuses
      <4> QED
        BY <1>1, <4>1, <4>2, <4>3, <4>4 DEF Sources
    <3>4. s \in [1 .. n -> Sources]
      <4>1. DOMAIN s = 1 .. n /\ s = [i \in 1 .. n |-> s[i]]
        BY <3>1, <3>2 DEF LiveSources
      <4> QED
        BY <3>3, <4>1
    <3>5. s \in Seq(Sources) /\ Len(s) = n
      BY <3>2, <3>4, SeqDef
    <3> QED
      BY <3>3, <3>5 DEF PinnedAt
  <2>2. CASE bundle.resolver = "custom"
    <3> DEFINE One == {[id |-> id, address |-> address, status |-> "fresh", lastUpdateBlock |-> bundle.pin] :
                         id \in SourceIds, address \in Addresses \ {0}}
    <3>1. s \in CustomSources
      BY <2>2 DEF Gathered
    <3>2. PICK n \in 0 .. Cardinality(SourceIds) + 1 : s \in [1 .. n -> One]
      BY <3>1 DEF CustomSources
    <3>3. n \in Nat
      BY RequiredSorted
    <3>4. \A x \in One : x \in Sources /\ x.lastUpdateBlock = bundle.pin
      BY <1>1 DEF Sources, Statuses
    <3> HIDE DEF One
    <3>5. s \in [1 .. n -> Sources] /\ \A i \in 1 .. n : s[i].lastUpdateBlock = bundle.pin
      BY <3>2, <3>4
    <3>6. s \in Seq(Sources) /\ Len(s) = n
      BY <3>3, <3>5, SeqDef
    <3> QED
      BY <3>5, <3>6 DEF PinnedAt
  <2>3. CASE bundle.resolver = "none"
    <3>1. s = <<>>
      BY <2>3 DEF Gathered
    <3> QED
      BY <3>1 DEF PinnedAt
  <2> QED
    BY <1>1, <2>1, <2>2, <2>3
<1>5. DOMAIN s = 1 .. Len(s)
  BY <1>4
<1>6. CanonicalIn(s, registry[bundle.pin])
  BY <1>5 DEF CanonicalIn, Signable, AtCanonical, CanonicalSource
<1>7. CoversIds(s, bundle.required)
  BY <1>5 DEF CoversIds, Signable, Covers
<1> QED
  BY <1>4, <1>6, <1>7

LEMMA BoundSound ==
  ASSUME EvidenceInv, bundle.at = "required", NEW s \in Gathered, Signable(s)
  PROVE  BoundSources(SortSources(s), bundle.required, bundle.pin, registry[bundle.pin])
<1> DEFINE t == SortSources(s)
<1>1. /\ s \in Seq(Sources) /\ PinnedAt(s, bundle.pin) /\ CanonicalIn(s, registry[bundle.pin])
      /\ CoversIds(s, bundle.required)
  BY GatheredSound
<1>2. /\ t \in Seq(Sources) /\ Len(t) = Len(s) /\ Keys(t) = Keys(s) /\ Ascending(t)
      /\ \A i \in 1 .. Len(s) : \E j \in 1 .. Len(s) : t[i] = s[j]
  BY <1>1, SortedIsSorted DEF Signable
<1> HIDE DEF t
<1>3. PinnedAt(t, bundle.pin)
  <2>1. \A j \in 1 .. Len(s) : s[j].lastUpdateBlock = bundle.pin
    BY <1>1 DEF PinnedAt
  <2>2. \A i \in 1 .. Len(t) : t[i].lastUpdateBlock = bundle.pin
    BY <1>2, <2>1
  <2> QED
    BY <2>2 DEF PinnedAt
<1>4. CanonicalIn(t, registry[bundle.pin])
  BY <1>1, <1>2 DEF CanonicalIn
<1>5. ASSUME NEW i \in DOMAIN bundle.required
      PROVE  \E j \in 1 .. Len(t) : t[j].id = bundle.required[i]
  <2>1. PICK m \in 1 .. Len(s) : s[m].id = bundle.required[i]
    BY <1>1 DEF CoversIds
  <2>2. DOMAIN s = 1 .. Len(s) /\ DOMAIN t = 1 .. Len(t)
    BY <1>1, <1>2
  <2>3. Key(s[m]) \in Keys(s)
    BY <2>2 DEF Keys
  <2>4. PICK j \in DOMAIN t : Key(s[m]) = Key(t[j])
    <3>1. Key(s[m]) \in Keys(t)
      BY <1>2, <2>3
    <3> QED
      BY <3>1 DEF Keys
  <2>5. t[j].id = s[m].id
    BY <2>4 DEF Key
  <2> QED
    BY <2>1, <2>2, <2>5
<1> QED
  BY <1>2, <1>3, <1>4, <1>5 DEF BoundSources, CoversIds, t

-----------------------------------------------------------------------------
(* EvidenceInv is inductive.                                                *)

LEMMA EvidenceStarts == EvidenceInit => EvidenceInv
<1> SUFFICES ASSUME EvidenceInit PROVE EvidenceInv
  OBVIOUS
<1>1. PICK set \in {<<>>, RequiredIds}, canonical \in [SourceIds -> Addresses] :
        registry = <<[version |-> 1, required |-> set, canonical |-> canonical]>>
  BY DEF EvidenceInit
<1> DEFINE c == [version |-> 1, required |-> set, canonical |-> canonical]
<1>2. c \in Configs
  BY DEF Configs
<1> HIDE DEF c
<1>3. registry \in Seq(Configs) /\ Len(registry) = 1 /\ 1 \in 1 .. Height /\ c.version \in Nat /\ registry[1] = c
  BY <1>1, <1>2, EvidenceAssumption DEF EvidenceAssumption, Configs, c
<1>4. VersionsName(registry)
  BY <1>3 DEF VersionsName
<1>5. BundleSound(bundle, registry)
  BY DEF EvidenceInit, Idle, BundleSound
<1> QED
  BY <1>4, <1>5 DEF EvidenceInit, EvidenceInv

LEMMA LatestConfig ==
  ASSUME EvidenceInv
  PROVE  /\ registry \in Seq(Configs) /\ Len(registry) \in Nat /\ Len(registry) \in 1 .. Len(registry)
         /\ Latest \in Configs /\ Latest.version \in Nat /\ Height \in Nat /\ Len(registry) <= Height
         /\ \A i \in 1 .. Len(registry) : registry[i].version \in Nat /\ registry[i].version <= Latest.version
<1>1. registry \in Seq(Configs) /\ Len(registry) \in 1 .. Height /\ Height \in Nat
  BY EvidenceAssumption DEF EvidenceAssumption, EvidenceInv, VersionsName
<1>2. \A i \in 1 .. Len(registry) : registry[i] \in Configs /\ i <= Len(registry)
  BY <1>1
<1>3. Len(registry) \in Nat /\ Len(registry) \in 1 .. Len(registry) /\ Len(registry) <= Height
  BY <1>1
<1>4. \A c \in Configs : c.version \in Nat
  BY DEF Configs
<1>5. Latest \in Configs /\ Latest.version \in Nat
  BY <1>2, <1>3, <1>4 DEF Latest
<1>6. \A i \in 1 .. Len(registry) : registry[i].version \in Nat
  BY <1>2, <1>4
<1>7. \A i \in 1 .. Len(registry) : registry[i].version <= Latest.version
  BY <1>2, <1>3 DEF EvidenceInv, VersionsName, Latest
<1> QED
  BY <1>1, <1>3, <1>5, <1>6, <1>7

(* A block appends the configuration that stands, or a later version.       *)
LEMMA BlockAppends ==
  ASSUME EvidenceInv, Len(registry) < Height, NEW c \in Configs,
         c = Latest \/ c.version = Latest.version + 1, registry' = Append(registry, c), UNCHANGED <<healthy, bundle>>,
         bundle.at # "executed"
  PROVE  EvidenceInv'
<1> DEFINE n == Len(registry)
           r == Append(registry, c)
<1>1. /\ registry \in Seq(Configs) /\ n \in Nat /\ n \in 1 .. n /\ Latest = registry[n] /\ Latest.version \in Nat
      /\ Height \in Nat /\ n < Height /\ c.version \in Nat /\ Latest.version <= c.version
      /\ \A i \in 1 .. n : registry[i].version \in Nat /\ registry[i].version <= Latest.version
  BY LatestConfig DEF Latest, Configs
<1>2. r \in Seq(Configs) /\ Len(r) = n + 1 /\ r[n + 1] = c /\ \A i \in 1 .. n : r[i] = registry[i] /\ i \in 1 .. n + 1
  BY <1>1
<1> HIDE DEF r, n
<1>3. \A i \in 1 .. n + 1 : i \in 1 .. n \/ i = n + 1
  BY <1>1
<1>4. ASSUME NEW i \in 1 .. n + 1, NEW j \in 1 .. n + 1, i <= j
      PROVE  r[i].version <= r[j].version /\ (r[i].version = r[j].version => r[i] = r[j])
  <2>1. CASE j \in 1 .. n
    <3>1. i \in 1 .. n
      BY <1>1, <1>4, <2>1
    <3>2. registry[i].version <= registry[j].version /\ (registry[i].version = registry[j].version => registry[i] = registry[j])
      BY <1>4, <2>1, <3>1 DEF EvidenceInv, VersionsName, n
    <3> QED
      BY <1>2, <2>1, <3>1, <3>2
  <2>2. CASE j = n + 1 /\ i = n + 1
    BY <1>1, <1>2, <2>2
  <2>3. CASE j = n + 1 /\ i \in 1 .. n
    <3>1. registry[i].version <= Latest.version /\ registry[i].version \in Nat /\ r[i] = registry[i] /\ r[j] = c
      BY <1>1, <1>2, <2>3
    <3>2. registry[i].version = Latest.version => registry[i] = Latest
      BY <1>1, <2>3 DEF EvidenceInv, VersionsName, n
    <3>3. CASE c = Latest
      BY <1>1, <3>1, <3>2, <3>3
    <3>4. CASE c.version = Latest.version + 1
      BY <1>1, <3>1, <3>4, SMTT(40)
    <3> QED
      BY <3>3, <3>4
  <2> QED
    BY <1>3, <2>1, <2>2, <2>3
<1>5. VersionsName(r)
  <2>1. n + 1 \in 1 .. Height
    BY <1>1
  <2>2. r \in Seq(Configs) /\ Len(r) = n + 1
    BY <1>2
  <2> QED
    BY <1>4, <2>1, <2>2 DEF VersionsName
<1>6. BundleSound(bundle, r)
  <2>1. BundleSound(bundle, registry)
    BY DEF EvidenceInv
  <2>2. bundle.at \in {"versioned", "pinned"} => bundle.version <= r[Len(r)].version
    BY <1>1, <1>2, <2>1 DEF BundleSound, n
  <2>3. bundle.at \in {"pinned", "required", "bound", "executed"} =>
          bundle.pin \in 1 .. n /\ bundle.pin \in 1 .. Len(r) /\ r[bundle.pin] = registry[bundle.pin]
    BY <1>1, <1>2, <2>1 DEF BundleSound, n
  <2> QED
    BY <2>1, <2>2, <2>3 DEF BundleSound
<1> QED
  BY <1>5, <1>6 DEF EvidenceInv, r

LEMMA ConfigBlockKeeps ==
  ASSUME EvidenceInv, ConfigBlock, bundle.at # "executed"
  PROVE  EvidenceInv'
<1>1. Latest \in Configs /\ Latest.version \in Nat
  BY LatestConfig
<1>2. CASE registry' = Append(registry, Latest)
  BY <1>1, <1>2, BlockAppends DEF ConfigBlock
<1>3. PICK v \in Nat, q \in {<<>>, RequiredIds}, k \in [SourceIds -> Addresses] :
        Latest = [version |-> v, required |-> q, canonical |-> k]
  BY <1>1 DEF Configs
<1>4. ASSUME NEW id \in SourceIds, NEW address \in Addresses,
             registry' = Append(registry, [Latest EXCEPT !.version = @ + 1, !.canonical = [@ EXCEPT ![id] = address]])
      PROVE  EvidenceInv'
  <2> DEFINE c == [Latest EXCEPT !.version = @ + 1, !.canonical = [@ EXCEPT ![id] = address]]
  <2>1. c \in Configs /\ c.version = Latest.version + 1
    <3> DEFINE d == [Latest EXCEPT !.version = @ + 1]
    <3>1. d = [version |-> v + 1, required |-> q, canonical |-> k]
      BY <1>3
    <3>2. c = [d EXCEPT !.canonical = [@ EXCEPT ![id] = address]]
      OBVIOUS
    <3> HIDE DEF c, d
    <3>3. c = [version |-> v + 1, required |-> q, canonical |-> [k EXCEPT ![id] = address]]
      BY <3>1, <3>2
    <3> QED
      BY <1>3, <3>3 DEF Configs
  <2> HIDE DEF c
  <2>2. registry' = Append(registry, c)
    BY <1>4 DEF c
  <2> QED
    BY <2>1, <2>2, BlockAppends DEF ConfigBlock
<1>5. CASE registry' = Append(registry, [Latest EXCEPT !.version = @ + 1, !.required = RequiredIds])
  <2> DEFINE c == [Latest EXCEPT !.version = @ + 1, !.required = RequiredIds]
  <2>1. c \in Configs /\ c.version = Latest.version + 1
    <3> DEFINE d == [Latest EXCEPT !.version = @ + 1]
    <3>1. d = [version |-> v + 1, required |-> q, canonical |-> k]
      BY <1>3
    <3>2. c = [d EXCEPT !.required = RequiredIds]
      OBVIOUS
    <3> HIDE DEF c, d
    <3>3. c = [version |-> v + 1, required |-> RequiredIds, canonical |-> k]
      BY <3>1, <3>2
    <3> QED
      BY <1>3, <3>3 DEF Configs
  <2> HIDE DEF c
  <2>2. registry' = Append(registry, c)
    BY <1>5 DEF c
  <2> QED
    BY <2>1, <2>2, BlockAppends DEF ConfigBlock
<1> QED
  BY <1>2, <1>4, <1>5 DEF ConfigBlock

LEMMA EvidenceKeeps == EvidenceInv /\ [EvidenceNext]_evidenceVars => EvidenceInv'
<1> SUFFICES ASSUME EvidenceInv, [EvidenceNext]_evidenceVars PROVE EvidenceInv'
  OBVIOUS
<1> DEFINE n == Len(registry)
<1>1. BundleSound(bundle, registry) /\ VersionsName(registry) /\ healthy \subseteq SourceIds
  BY DEF EvidenceInv
<1>2. n \in Nat /\ n \in 1 .. n /\ Latest = registry[n] /\ Latest.version \in Nat /\ Latest \in Configs
  BY LatestConfig DEF Latest
<1>3. CASE ConfigBlock /\ bundle.at # "executed"
  BY <1>3, ConfigBlockKeeps
<1>4. CASE VenueFails
  BY <1>1, <1>4 DEF VenueFails, EvidenceInv
<1>5. ASSUME NEW type \in {"Open", "ForceExit"}, NEW resolver \in {"none", "canonical", "live", "custom"},
             ReadVersion(type, resolver)
      PROVE  EvidenceInv'
  <2>1. bundle' = [at |-> "versioned", type |-> type, resolver |-> resolver, version |-> Latest.version,
                   quoteBlock |-> n, pin |-> 0, required |-> <<>>, sources |-> <<>>, delivered |-> <<>>]
    BY <1>5 DEF ReadVersion, Idle
  <2>2. BundleSound(bundle', registry)
    BY <1>2, <2>1 DEF BundleSound
  <2> QED
    BY <1>1, <1>5, <2>2 DEF ReadVersion, EvidenceInv
<1>6. CASE PinBlock
  <2>1. BundleSound(bundle', registry)
    BY <1>1, <1>2, <1>6 DEF PinBlock, BundleSound
  <2> QED
    BY <1>1, <1>6, <2>1 DEF PinBlock, EvidenceInv
<1>7. CASE ReadRequired
  <2>1. BundleSound(bundle', registry)
    BY <1>1, <1>2, <1>7 DEF ReadRequired, BundleSound, Configs
  <2> QED
    BY <1>1, <1>7, <2>1 DEF ReadRequired, EvidenceInv
<1>8. CASE Resolve
  <2>1. PICK s \in Gathered :
          bundle' = IF Signable(s) THEN [bundle EXCEPT !.at = "bound", !.sources = SortSources(s)]
                                   ELSE [Idle EXCEPT !.at = "thrown"]
    BY <1>8 DEF Resolve
  <2>2. BundleSound(bundle', registry)
    <3>1. CASE Signable(s)
      <4>1. BoundSources(SortSources(s), bundle.required, bundle.pin, registry[bundle.pin])
        BY <1>8, <3>1, BoundSound DEF Resolve
      <4>2. bundle' = [bundle EXCEPT !.at = "bound", !.sources = SortSources(s)]
        BY <2>1, <3>1
      <4> QED
        BY <1>1, <1>8, <4>1, <4>2 DEF Resolve, BundleSound
    <3>2. CASE ~Signable(s)
      <4>1. bundle' = [Idle EXCEPT !.at = "thrown"]
        BY <2>1, <3>2
      <4> QED
        BY <4>1 DEF Idle, BundleSound
    <3> QED
      BY <3>1, <3>2
  <2> QED
    BY <1>1, <1>8, <2>2 DEF Resolve, EvidenceInv
<1>9. CASE Execute
  <2>1. PICK s \in Deliverable : ValidateEvidence(s) /\ bundle' = [bundle EXCEPT !.at = "executed", !.delivered = s]
    BY <1>9 DEF Execute
  <2>2. s = bundle.sources /\ RequiredSources(s)
    BY <2>1 DEF ValidateEvidence, HashSources
  <2>3. bundle.sources \in Seq(Sources) /\ DOMAIN bundle.sources = 1 .. Len(bundle.sources)
    <3>1. bundle.sources \in Seq(Sources)
      BY <1>1, <1>9 DEF Execute, BundleSound, BoundSources
    <3> QED
      BY <3>1
  <2>4. /\ Len(bundle.sources) = Len(registry[n].required)
        /\ \A i \in 1 .. Len(bundle.sources) : bundle.sources[i].id = registry[n].required[i]
    BY <1>2, <2>2, <2>3 DEF RequiredSources
  <2>5. BundleSound(bundle', registry)
    BY <1>1, <1>9, <2>1, <2>2, <2>4 DEF Execute, BundleSound
  <2> QED
    BY <1>1, <1>9, <2>5 DEF Execute, EvidenceInv
<1>10. CASE UNCHANGED evidenceVars
  BY <1>1, <1>10 DEF evidenceVars, EvidenceInv
<1> QED
  BY <1>3, <1>4, <1>5, <1>6, <1>7, <1>8, <1>9, <1>10 DEF EvidenceNext

-----------------------------------------------------------------------------
(* What the invariant says of a bundle.                                     *)

(* A set of sources that covers the required ids and has as many is the     *)
(* list of them.                                                            *)
LEMMA CoveringIsRequired ==
  ASSUME NEW s \in Seq(Sources), Ascending(s), NEW ids \in {<<>>, RequiredIds}, CoversIds(s, ids), Len(s) = Len(ids)
  PROVE  \A i \in 1 .. Len(s) : s[i].id = ids[i]
<1>1. CASE ids = <<>>
  BY <1>1
<1>2. CASE ids = RequiredIds
  <2> DEFINE n == Cardinality(SourceIds)
             f == [i \in 1 .. n |-> s[i].id]
  <2>1. n \in Nat /\ ids \in [1 .. n -> SourceIds] /\ Rising(ids, n) /\ SourceIds \in SUBSET Nat /\ IsFiniteSet(SourceIds)
    BY <1>2, RequiredSorted, EvidenceAssumption DEF EvidenceAssumption
  <2>2. \A id \in SourceIds : \E i \in 1 .. n : ids[i] = id
    BY <1>2, RequiredSorted
  <2> HIDE DEF n
  <2>3. Len(ids) = n /\ Len(s) = n /\ DOMAIN ids = 1 .. n
    BY <2>1, SeqDef
  <2>4. s \in [1 .. n -> Sources]
    BY <2>3
  <2>5. f \in [1 .. n -> SourceIds]
    BY <2>4, SourceFields
  <2>6. f \in Surjection(1 .. n, SourceIds)
    <3>1. ASSUME NEW id \in SourceIds PROVE \E i \in 1 .. n : f[i] = id
      <4>1. PICK m \in 1 .. n : ids[m] = id
        BY <2>2
      <4>2. PICK i \in 1 .. n : s[i].id = ids[m]
        BY <2>3 DEF CoversIds
      <4> QED
        BY <4>1, <4>2
    <3> QED
      BY <2>5, <3>1 DEF Surjection
  <2>7. f \in Injection(1 .. n, SourceIds)
    <3>1. IsFiniteSet(1 .. n) /\ Cardinality(1 .. n) = Cardinality(SourceIds)
      BY <2>1, Upto DEF n
    <3> HIDE DEF f
    <3> QED
      BY <2>6, <3>1, FS_Surjection
  <2>8. Rising(f, n)
    <3>1. ASSUME NEW i \in 1 .. n, NEW j \in 1 .. n, i < j PROVE f[i] < f[j]
      <4>1. Precedes(s[i], s[j])
        BY <2>3, <3>1 DEF Ascending
      <4>2. f[i] # f[j]
        <5> HIDE DEF f
        <5>1. f[i] = f[j] => i = j
          BY <2>7 DEF Injection, IsInjective
        <5> QED
          BY <2>1, <3>1, <5>1
      <4> QED
        BY <4>1, <4>2 DEF Precedes
    <3> QED
      BY <3>1 DEF Rising
  <2>9. Among(f, ids, n) /\ Among(ids, f, n)
    <3> HIDE DEF f
    <3>1. Among(f, ids, n)
      BY <2>2, <2>5 DEF Among
    <3>2. Among(ids, f, n)
      BY <2>1, <2>6 DEF Among, Surjection
    <3> QED
      BY <3>1, <3>2
  <2>10. f = ids
    <3> HIDE DEF f
    <3>1. f \in [1 .. n -> Nat] /\ ids \in [1 .. n -> Nat]
      BY <2>1, <2>5
    <3> QED
      BY <2>1, <2>8, <2>9, <3>1, RisingUnique
  <2> QED
    BY <2>3, <2>10
<1> QED
  BY <1>1, <1>2

(* What an ascending set says of its keys.                                  *)
LEMMA AscendingApart ==
  ASSUME NEW s \in Seq(Sources), Ascending(s)
  PROVE  /\ KeysApart(s, Len(s)) /\ Distinct(s) /\ StrictlyAscending(s)
<1> DEFINE n == Len(s)
<1>1. n \in Nat /\ s \in [1 .. n -> Sources]
  OBVIOUS
<1>2. ASSUME NEW i \in 1 .. n, NEW j \in 1 .. n, i < j PROVE Key(s[i]) # Key(s[j])
  <2>1. Precedes(s[i], s[j])
    BY <1>2 DEF Ascending
  <2>2. s[i].id \in Nat /\ s[j].id \in Nat /\ s[i].address \in Nat /\ s[j].address \in Nat
    BY <1>1, SourceFields
  <2> QED
    BY <2>1, <2>2 DEF Precedes, Key
<1>3. KeysApart(s, n)
  <2>1. ASSUME NEW i \in 1 .. n, NEW j \in 1 .. n, Key(s[i]) = Key(s[j]) PROVE i = j
    <3>1. ~(i < j) /\ ~(j < i)
      BY <1>2, <2>1
    <3> QED
      BY <1>1, <3>1
  <2> QED
    BY <2>1 DEF KeysApart
<1>4. Distinct(s)
  <2> DEFINE k == [i \in 1 .. n |-> Key(s[i])]
  <2>1. k \in [1 .. n -> Keys(s)]
    BY <1>1 DEF Keys
  <2>2. k \in Surjection(1 .. n, Keys(s))
    BY <1>1, <2>1 DEF Keys, Surjection
  <2>3. k \in Injection(1 .. n, Keys(s))
    BY <1>3, <2>1 DEF KeysApart, Injection, IsInjective
  <2>4. IsFiniteSet(1 .. n) /\ Cardinality(1 .. n) = n
    BY <1>1, Upto
  <2> HIDE DEF k
  <2>5. Cardinality(Keys(s)) = Cardinality(1 .. n)
    BY <2>2, <2>3, <2>4, FS_Surjection
  <2> QED
    BY <2>4, <2>5 DEF Distinct
<1>5. StrictlyAscending(s)
  BY <1>1 DEF Ascending, StrictlyAscending
<1> QED
  BY <1>3, <1>4, <1>5

(* The version the action names is that of the pin: then the pin's          *)
(* configuration is the latest.                                             *)
LEMMA SameVersionSameConfig ==
  ASSUME EvidenceInv, bundle.at \in {"bound", "executed"}, SameVersion
  PROVE  registry[bundle.pin] = Latest
<1> DEFINE n == Len(registry)
<1>1. /\ n \in Nat /\ n \in 1 .. n /\ Latest.version \in Nat
      /\ \A i \in 1 .. n : registry[i].version \in Nat /\ registry[i].version <= Latest.version
  BY LatestConfig
<1>2. bundle.pin \in 1 .. n /\ bundle.version <= registry[bundle.pin].version /\ bundle.version \in Nat
  BY DEF EvidenceInv, BundleSound
<1>3. registry[bundle.pin].version = registry[n].version
  BY <1>1, <1>2 DEF SameVersion, Latest
<1>4. bundle.pin <= n
  BY <1>1, <1>2
<1> QED
  BY <1>1, <1>2, <1>3, <1>4 DEF EvidenceInv, VersionsName, Latest

LEMMA BoundIsBound ==
  ASSUME EvidenceInv, bundle.at \in {"bound", "executed"}
  PROVE  /\ bundle.sources \in Seq(Sources) /\ DOMAIN bundle.sources = 1 .. Len(bundle.sources)
         /\ Ascending(bundle.sources) /\ PinnedAt(bundle.sources, bundle.pin)
         /\ CanonicalIn(bundle.sources, registry[bundle.pin]) /\ CoversIds(bundle.sources, bundle.required)
         /\ bundle.required \in {<<>>, RequiredIds}
<1>1. BoundSources(bundle.sources, bundle.required, bundle.pin, registry[bundle.pin]) /\ bundle.required \in {<<>>, RequiredIds}
  BY DEF EvidenceInv, BundleSound
<1>2. bundle.sources \in Seq(Sources)
  BY <1>1 DEF BoundSources
<1> QED
  BY <1>1, <1>2 DEF BoundSources

LEMMA InvTypes ==
  ASSUME EvidenceInv
  PROVE  EvidenceTypeOK
<1>1. Len(registry) \in 1 .. Height /\ healthy \subseteq SourceIds
  BY DEF EvidenceInv, VersionsName
<1>2. /\ bundle.at \in {"idle", "versioned", "pinned", "required", "bound", "thrown", "executed"}
      /\ bundle.required \in {<<>>, RequiredIds}
  BY DEF EvidenceInv, BundleSound
<1>3. CASE bundle.at \in {"bound", "executed"}
  <2>1. bundle.sources \in Seq(Sources) /\ StrictlyAscending(bundle.sources)
    BY <1>3, BoundIsBound, AscendingApart
  <2>2. \A i \in DOMAIN bundle.sources : bundle.sources[i] \in Sources
    BY <2>1
  <2> QED
    BY <1>1, <1>2, <2>1, <2>2 DEF EvidenceTypeOK
<1>4. CASE bundle.at \notin {"bound", "executed"}
  <2>1. bundle.sources = <<>>
    BY <1>4 DEF EvidenceInv, BundleSound
  <2>2. StrictlyAscending(bundle.sources) /\ \A i \in DOMAIN bundle.sources : bundle.sources[i] \in Sources
    BY <2>1 DEF StrictlyAscending
  <2> QED
    BY <1>1, <1>2, <2>2 DEF EvidenceTypeOK
<1> QED
  BY <1>3, <1>4

LEMMA InvAcceptable ==
  ASSUME EvidenceInv
  PROVE  BoundIsAcceptable
<1> SUFFICES ASSUME bundle.at = "bound", SameVersion,
                    bundle.required = Latest.required, Len(bundle.sources) = Len(bundle.required),
                    \A i \in DOMAIN bundle.sources : Admissible(bundle.sources[i].status),
                    Len(registry) <= bundle.pin + FreshFor
             PROVE  ValidateEvidence(bundle.sources)
  BY DEF BoundIsAcceptable
<1> DEFINE s == bundle.sources
<1>1. /\ s \in Seq(Sources) /\ DOMAIN s = 1 .. Len(s) /\ Ascending(s) /\ PinnedAt(s, bundle.pin)
      /\ CanonicalIn(s, registry[bundle.pin]) /\ CoversIds(s, bundle.required) /\ bundle.required \in {<<>>, RequiredIds}
  BY BoundIsBound
<1>2. registry[bundle.pin] = Latest
  BY SameVersionSameConfig
<1>3. \A i \in 1 .. Len(s) : s[i].id = bundle.required[i]
  BY <1>1, CoveringIsRequired
<1>4. RequiredSources(s)
  BY <1>1, <1>3 DEF RequiredSources
<1>5. StrictlyAscending(s)
  BY <1>1, AscendingApart
<1>6. AtCanonical(s, Len(registry))
  BY <1>1, <1>2 DEF AtCanonical, CanonicalIn, CanonicalSource, Latest
<1>7. \A i \in DOMAIN s : Len(registry) <= s[i].lastUpdateBlock + FreshFor
  BY <1>1 DEF PinnedAt
<1> QED
  BY <1>4, <1>5, <1>6, <1>7 DEF ValidateEvidence, HashSources

LEMMA InvComplete ==
  ASSUME EvidenceInv
  PROVE  ExecutedIsComplete /\ DeliveredAsBound
<1> SUFFICES ASSUME bundle.at = "executed"
             PROVE  /\ {bundle.delivered[i].id : i \in DOMAIN bundle.delivered} = {Latest.required[i] : i \in DOMAIN Latest.required}
                    /\ AtCanonical(bundle.delivered, bundle.pin) /\ bundle.delivered = bundle.sources
  BY DEF ExecutedIsComplete, DeliveredAsBound
<1> DEFINE s == bundle.sources
           ids == Latest.required
<1>1. /\ s \in Seq(Sources) /\ DOMAIN s = 1 .. Len(s) /\ CanonicalIn(s, registry[bundle.pin])
  BY BoundIsBound
<1>2. bundle.delivered = s /\ Len(s) = Len(ids) /\ \A i \in 1 .. Len(s) : s[i].id = ids[i]
  BY DEF EvidenceInv, BundleSound, Latest
<1>3. DOMAIN ids = 1 .. Len(ids)
  <2>1. ids \in {<<>>, RequiredIds}
    BY LatestConfig DEF Configs
  <2>2. RequiredIds \in Seq(SourceIds) /\ <<>> \in Seq(SourceIds)
    <3>1. RequiredIds \in Seq(SourceIds)
      BY RequiredSorted, SeqDef
    <3> QED
      BY <3>1
  <2>3. ids \in Seq(SourceIds)
    BY <2>1, <2>2
  <2> HIDE DEF ids
  <2> QED
    BY <2>3
<1>4. AtCanonical(s, bundle.pin)
  BY <1>1 DEF AtCanonical, CanonicalIn, CanonicalSource
<1>5. {s[i].id : i \in DOMAIN s} = {ids[i] : i \in DOMAIN ids}
  <2> HIDE DEF ids, s
  <2> QED
    BY <1>1, <1>2, <1>3
<1> QED
  BY <1>2, <1>4, <1>5

LEMMA InvExact ==
  ASSUME EvidenceInv
  PROVE  ExactSetAsOnChain
<1> SUFFICES ASSUME bundle.at = "bound", \A id \in SourceIds : Latest.canonical[id] # 0
             PROVE  ExactSet(bundle.sources, Len(registry))
                      <=> RequiredSources(bundle.sources) /\ AtCanonical(bundle.sources, Len(registry))
  BY DEF ExactSetAsOnChain
<1> DEFINE s == bundle.sources
           ids == Latest.required
           at == Latest.canonical
           m == Len(s)
           Wanted == {<<ids[i], at[ids[i]]>> : i \in DOMAIN ids}
<1>1. s \in Seq(Sources) /\ Ascending(s) /\ Distinct(s) /\ m \in Nat /\ DOMAIN s = 1 .. m
  BY BoundIsBound, AscendingApart
<1>2. ids \in {<<>>, RequiredIds} /\ ids \in Seq(SourceIds) /\ DOMAIN ids = 1 .. Len(ids) /\ Len(ids) \in Nat
  <2>1. ids \in {<<>>, RequiredIds}
    BY LatestConfig DEF Configs
  <2>2. RequiredIds \in Seq(SourceIds) /\ <<>> \in Seq(SourceIds)
    <3>1. RequiredIds \in Seq(SourceIds)
      BY RequiredSorted, SeqDef
    <3> QED
      BY <3>1
  <2>3. ids \in Seq(SourceIds)
    BY <2>1, <2>2
  <2> HIDE DEF ids
  <2> QED
    BY <2>1, <2>3
<1>3. \A i \in 1 .. m : s[i].id \in SourceIds
  <2>1. \A i \in 1 .. m : s[i] \in Sources
    BY <1>1
  <2> QED
    BY <2>1, SourceFields
<1>4. ExactSet(s, Len(registry)) <=> Keys(s) = Wanted
  BY <1>1 DEF ExactSet, CanonicalSource, Latest
<1>5. AtCanonical(s, Len(registry)) <=> \A i \in 1 .. m : at[s[i].id] = s[i].address
  BY <1>1, <1>3 DEF AtCanonical, CanonicalSource, Latest
<1>6. RequiredSources(s) <=> m = Len(ids) /\ \A i \in 1 .. m : s[i].id = ids[i]
  BY <1>1 DEF RequiredSources
<1> HIDE DEF s, ids, at, m
<1>7. ASSUME m = Len(ids), \A i \in 1 .. m : s[i].id = ids[i], \A i \in 1 .. m : at[s[i].id] = s[i].address
      PROVE  Keys(s) = Wanted
  <2>1. \A i \in 1 .. m : Key(s[i]) = <<ids[i], at[ids[i]]>>
    BY <1>7 DEF Key
  <2>2. DOMAIN s = 1 .. m /\ DOMAIN ids = 1 .. m
    BY <1>1, <1>2, <1>7
  <2>3. Keys(s) = {Key(s[i]) : i \in 1 .. m} /\ Wanted = {<<ids[i], at[ids[i]]>> : i \in 1 .. m}
    BY <2>2 DEF Keys
  <2> QED
    BY <2>1, <2>3
<1>8. ASSUME Keys(s) = Wanted
      PROVE  /\ m = Len(ids) /\ \A i \in 1 .. m : s[i].id = ids[i]
             /\ \A i \in 1 .. m : at[s[i].id] = s[i].address
  <2>1. ASSUME NEW i \in 1 .. m PROVE \E j \in 1 .. Len(ids) : s[i].id = ids[j] /\ s[i].address = at[ids[j]]
    <3>1. Key(s[i]) \in Keys(s)
      BY <1>1 DEF Keys
    <3>2. PICK j \in DOMAIN ids : Key(s[i]) = <<ids[j], at[ids[j]]>>
      BY <1>8, <3>1
    <3>3. s[i].id = ids[j] /\ s[i].address = at[ids[j]]
      BY <3>2 DEF Key
    <3> QED
      BY <1>2, <3>3
  <2>2. \A i \in 1 .. m : at[s[i].id] = s[i].address
    BY <2>1
  <2>3. CoversIds(s, ids)
    <3>1. ASSUME NEW j \in DOMAIN ids PROVE \E i \in 1 .. Len(s) : s[i].id = ids[j]
      <4>1. <<ids[j], at[ids[j]]>> \in Keys(s)
        BY <1>8
      <4>2. PICK i \in DOMAIN s : Key(s[i]) = <<ids[j], at[ids[j]]>>
        BY <4>1 DEF Keys
      <4>3. s[i].id = ids[j]
        BY <4>2 DEF Key
      <4> QED
        BY <1>1, <4>2, <4>3 DEF m
    <3> QED
      BY <3>1 DEF CoversIds
  <2>4. m = Len(ids)
    <3> DEFINE k == [i \in 1 .. Len(ids) |-> <<ids[i], at[ids[i]]>>]
    <3>1. k \in Surjection(1 .. Len(ids), Wanted)
      BY <1>2 DEF Surjection
    <3>2. \A i, j \in 1 .. Len(ids) : ids[i] = ids[j] => i = j
      <4>1. CASE ids = <<>>
        BY <1>2, <4>1
      <4>2. CASE ids = RequiredIds
        <5>1. SourceIds \in SUBSET Nat /\ RequiredIds \in Injection(1 .. Cardinality(SourceIds), SourceIds)
          BY RequiredSorted, RisingInjective, EvidenceAssumption DEF EvidenceAssumption
        <5>2. DOMAIN ids = 1 .. Cardinality(SourceIds)
          BY <4>2, RequiredSorted
        <5> QED
          BY <1>2, <4>2, <5>1, <5>2 DEF Injection, IsInjective
      <4> QED
        BY <1>2, <4>1, <4>2
    <3>3. k \in Injection(1 .. Len(ids), Wanted)
      <4>1. \A i \in 1 .. Len(ids) : k[i] = <<ids[i], at[ids[i]]>>
        OBVIOUS
      <4>2. k \in [1 .. Len(ids) -> Wanted]
        BY <3>1 DEF Surjection
      <4> HIDE DEF k
      <4>3. \A i, j \in 1 .. Len(ids) : k[i] = k[j] => i = j
        BY <3>2, <4>1
      <4> QED
        BY <4>2, <4>3 DEF Injection, IsInjective
    <3>4. IsFiniteSet(1 .. Len(ids)) /\ Cardinality(1 .. Len(ids)) = Len(ids)
      BY <1>2, Upto
    <3> HIDE DEF k, Wanted
    <3>5. Cardinality(Wanted) = Cardinality(1 .. Len(ids))
      BY <3>1, <3>3, <3>4, FS_Surjection
    <3> QED
      BY <1>1, <1>8, <3>4, <3>5 DEF Distinct, m
  <2>5. \A i \in 1 .. Len(s) : s[i].id = ids[i]
    BY <1>1, <1>2, <2>3, <2>4, CoveringIsRequired DEF m
  <2> QED
    BY <2>2, <2>4, <2>5 DEF m
<1>9. Keys(s) = Wanted <=> (/\ m = Len(ids) /\ \A i \in 1 .. m : s[i].id = ids[i]
                            /\ \A i \in 1 .. m : at[s[i].id] = s[i].address)
  BY <1>7, <1>8
<1>10. ExactSet(s, Len(registry)) <=> RequiredSources(s) /\ AtCanonical(s, Len(registry))
  BY <1>4, <1>5, <1>6, <1>9
<1> QED
  BY <1>10 DEF s

(* Whatever the sources, a resolver and the registry do between the SDK's   *)
(* reads, what reaches the chain is the required set, each source where it  *)
(* was canonical at the pin, as the owner signed it (resolveEvidence of     *)
(* sdk-impl.ts against LoopV1Validation.validateEvidence).                  *)
THEOREM EvidenceComplete == EvidenceSpec => []EvidenceHolds
<1>1. EvidenceInv => EvidenceHolds
  BY InvTypes, InvAcceptable, InvComplete, InvExact DEF EvidenceHolds
<1> QED
  BY <1>1, EvidenceStarts, EvidenceKeeps, PTL DEF EvidenceSpec

-----------------------------------------------------------------------------
(* BuiltAction: the arithmetic of an Open.                                  *)

BuiltTypes ==
  /\ input.collateral \in Nat /\ input.leverage \in Nat /\ input.slippage \in 0 .. BPS
  /\ venue.sharePrice \in Nat \ {0} /\ venue.feeTier \in Nat

LEMMA CeilDivBounds ==
  ASSUME NEW a \in Nat, NEW b \in Nat \ {0}
  PROVE  CeilDiv(a, b) \in Nat /\ a <= CeilDiv(a, b) * b /\ \A k \in Nat : a <= k * b => CeilDiv(a, b) <= k
<1>1. CASE a = 0
  BY <1>1 DEF CeilDiv
<1>2. CASE a # 0
  <2> DEFINE q == (a - 1) \div b
  <2>1. a - 1 \in Nat
    BY <1>2
  <2>2. q \in Nat /\ a - 1 < q * b + b
    BY <2>1, DivBounds
  <2>3. CeilDiv(a, b) = q + 1
    BY <1>2 DEF CeilDiv
  <2>4. ASSUME NEW k \in Nat, a <= k * b PROVE q + 1 <= k
    <3>1. a - 1 < k * b
      BY <2>4
    <3>2. q < k
      BY <2>1, <3>1, DivBelow
    <3> QED
      BY <2>2, <3>2
  <2> HIDE DEF q
  <2>5. a <= (q + 1) * b
    BY <2>1, <2>2
  <2> QED
    BY <2>2, <2>3, <2>4, <2>5
<1> QED
  BY <1>1, <1>2

(* A product of numbers is bounded by that of their bounds.                 *)
LEMMA ProductMonotone ==
  ASSUME NEW a \in Nat, NEW b \in Nat, NEW c \in Nat, NEW d \in Nat, a <= c, b <= d
  PROVE  a * b \in Nat /\ c * d \in Nat /\ a * b <= c * d
<1>1. a * b <= c * b
  BY Monotone
<1>2. b * c <= d * c
  BY Monotone
<1>3. c * b = b * c /\ c * d = d * c
  OBVIOUS
<1> QED
  BY <1>1, <1>2, <1>3

LEMMA CommonFactor ==
  ASSUME NEW a \in Int, NEW b \in Int, NEW c \in Nat \ {0}, a * c <= b * c
  PROVE  a <= b
<1>1. ~(b + 1 <= a)
  <2> SUFFICES ASSUME b + 1 <= a PROVE FALSE
    OBVIOUS
  <2>1. (b + 1) * c <= a * c
    BY Monotone
  <2>2. (b + 1) * c = b * c + c
    OBVIOUS
  <2> QED
    BY <2>1, <2>2
<1> QED
  BY <1>1

(* Where d and f, in basis points, are together less than twice s, taking s *)
(* off and adding s on makes up for both, with room for rounding.           *)
RoomLeft(B, s, d, f) ==
  B * ((10000 - s) * ((10000 + d) * (10000 + f))) + 100000000 * (20000 + f) <= 100000000 * (B * (10000 + s))

OverFee(B, s, d, f) ==
  B \in Nat /\ s \in 0 .. 10000 /\ d \in Nat /\ f \in Nat /\ f <= 30 /\ d + f <= 2 * s - 1 /\ B >= 200000

LEMMA SlippageCovers ==
  ASSUME NEW B, NEW s, NEW d, NEW f, OverFee(B, s, d, f)
  PROVE  RoomLeft(B, s, d, f)
<1>0. B \in Nat /\ s \in 0 .. 10000 /\ d \in Nat /\ f \in Nat /\ f <= 30 /\ d + f <= 2 * s - 1 /\ B >= 200000
  BY DEF OverFee
<1> DEFINE u == 10000 + d
           v == 10000 + f
           y == 10000 + s
           w == 10000 - s
           Q == (2 * y - 1) * (2 * y - 1)
           ss == s * s
           cubic == y * ss
           middle == w * (4 * y - 1)
           Z == 4 * cubic + middle
<1>1. u \in Nat /\ v \in Nat /\ y \in Nat /\ w \in Nat /\ s \in Nat /\ u + v <= 2 * y - 1 /\ 2 * y - 1 \in Nat
  BY <1>0, SMT
<1>2. 400000000 * y = w * Q + Z
  BY <1>0, SMT
<1>3. Z >= 40060000
  <2>1. ss \in Nat /\ (5000 <= s => 5000 * 5000 <= ss)
    <3> HIDE DEF u, v, w, y, Q, Z
    <3>1. ss \in Nat
      BY <1>1, ProductMonotone, SMT
    <3>2. ASSUME 5000 <= s PROVE 5000 * 5000 <= ss
      <4> DEFINE t == s - 5000
      <4>1. t \in Nat /\ ss = t * t + 10000 * t + 25000000
        BY <1>0, <3>2, SMT
      <4> HIDE DEF t, ss
      <4>2. t * t \in Nat
        BY <4>1, ProductMonotone, SMT
      <4> QED
        BY <4>1, <4>2, SMT
    <3> QED
      BY <3>1, <3>2
  <2> HIDE DEF ss
  <2>2. 4 * y - 1 \in Nat /\ (s <= 5000 => 5000 <= w /\ 39999 <= 4 * y - 1) /\ (5000 <= s => 15000 <= y)
    BY <1>1, SMT
  <2> HIDE DEF w, y
  <2>3. cubic \in Nat /\ (5000 <= s => 15000 * 25000000 <= cubic)
    BY <1>1, <2>1, <2>2, ProductMonotone, SMT
  <2>4. middle \in Nat /\ (s <= 5000 => 5000 * 39999 <= middle)
    BY <1>1, <2>2, ProductMonotone, SMT
  <2> HIDE DEF cubic, middle
  <2> QED
    BY <1>1, <2>3, <2>4, SMT
<1> HIDE DEF Z
<1>4. 4 * (u * v) <= Q
  <2> HIDE DEF u, v, y
  <2>1. 4 * (u * v) + (u - v) * (u - v) = (u + v) * (u + v)
    BY <1>1, SMT
  <2>2. (u - v) * (u - v) >= 0
    <3>1. CASE u >= v
      BY <1>1, <3>1, SMT
    <3>2. CASE u < v
      <4>1. v - u \in Nat /\ (v - u) * (v - u) >= 0
        BY <1>1, <3>2, SMT
      <4>2. (u - v) * (u - v) = (v - u) * (v - u)
        BY <1>1, SMT
      <4> QED
        BY <4>1, <4>2, SMT
    <3> QED
      BY <1>1, <3>1, <3>2, SMT
  <2>3. (u + v) * (u + v) <= Q
    <3>1. u + v \in Nat
      BY <1>1, SMT
    <3> QED
      BY <1>1, <3>1, ProductMonotone, SMT
  <2> QED
    BY <1>1, <2>1, <2>2, <2>3, SMT
<1>5. Q \in Nat /\ Z \in Nat /\ u * v \in Nat
  <2>1. Q \in Nat
    <3> HIDE DEF y
    <3> QED
      BY <1>1, ProductMonotone, SMT
  <2>2. Z \in Nat
    <3>1. Z \in Int
      BY <1>1, SMT DEF Z
    <3> QED
      BY <1>3, <3>1, SMT
  <2>3. u * v \in Nat
    <3> HIDE DEF u, v
    <3> QED
      BY <1>1, ProductMonotone, SMT
  <2> QED
    BY <2>1, <2>2, <2>3, SMT
<1> HIDE DEF u, v, w, y, Q
<1> DEFINE P == u * v
<1>6. P \in Nat /\ 4 * P <= Q
  BY <1>4, <1>5, SMT
<1> HIDE DEF P
<1>7. w * (4 * P) + Z <= 400000000 * y
  <2>1. (4 * P) * w <= Q * w
    BY <1>1, <1>5, <1>6, Monotone, SMT
  <2> QED
    BY <1>1, <1>2, <1>5, <1>6, <2>1, SMT
<1> DEFINE g == w * P
<1>8. g \in Nat /\ 4 * g + Z <= 400000000 * y
  <2>1. g \in Nat
    BY <1>1, <1>6, ProductMonotone, SMT
  <2>2. w * (4 * P) = 4 * g
    BY <1>1, <1>6, SMT
  <2> QED
    BY <1>7, <2>1, <2>2, SMT
<1> HIDE DEF g
<1>9. 4 * (B * g) + 40060000 * B <= 400000000 * (B * y)
  <2>1. 4 * g + 40060000 <= 400000000 * y
    BY <1>0, <1>1, <1>3, <1>5, <1>8, SMT
  <2>2. (4 * g + 40060000) * B <= (400000000 * y) * B
    BY <1>0, <1>1, <1>8, <2>1, Monotone, SMT
  <2>3. (4 * g + 40060000) * B = 4 * (B * g) + 40060000 * B /\ (400000000 * y) * B = 400000000 * (B * y)
    BY <1>0, <1>1, <1>8, SMT
  <2> QED
    BY <2>2, <2>3, SMT
<1>10. B * g \in Nat /\ B * y \in Nat
  BY <1>0, <1>1, <1>8, ProductMonotone, SMT
<1> DEFINE p == B * g
           q == B * y
<1>11. p \in Nat /\ q \in Nat /\ 4 * p + 40060000 * B <= 400000000 * q
  BY <1>0, <1>9, <1>10, SMT
<1> HIDE DEF p, q
<1>12. p + 100000000 * (20000 + f) <= 100000000 * q
  BY <1>0, <1>11, SMT
<1> QED
  BY <1>12, SMT DEF RoomLeft, p, q, g, P, u, v, w, y

(* The shares of a flash loan bought at price p reach the floor set at p0.  *)
Rounded(B, s, d, f, p0, p, M, flash, c, F) ==
  /\ B * (10000 + s) < M * 10000 + 10000 /\ M * 10000 < flash * (10000 + f) + (10000 + f)
  /\ c * p0 <= B * 1000 /\ F * 10000 <= c * (10000 - s) /\ p * 10000 <= p0 * (10000 + d)
Amounts(B, s, d, f, p0, p, M, flash, c, F) ==
  /\ B \in Nat /\ s \in 0 .. 10000 /\ d \in Nat /\ f \in Nat /\ p0 \in Nat \ {0} /\ p \in Nat
  /\ M \in Nat /\ flash \in Nat /\ c \in Nat /\ F \in Nat

LEMMA SharesSuffice ==
  ASSUME NEW B, NEW s, NEW d, NEW f, NEW p0, NEW p, NEW M, NEW flash, NEW c, NEW F,
         Amounts(B, s, d, f, p0, p, M, flash, c, F), Rounded(B, s, d, f, p0, p, M, flash, c, F), RoomLeft(B, s, d, f)
  PROVE  F * p <= flash * 1000
<1>0. /\ B \in Nat /\ s \in 0 .. 10000 /\ d \in Nat /\ f \in Nat /\ p0 \in Nat \ {0} /\ p \in Nat
      /\ M \in Nat /\ flash \in Nat /\ c \in Nat /\ F \in Nat
  BY DEF Amounts
<1> DEFINE u == 10000 + d
           v == 10000 + f
           w == 10000 - s
           G == F * p
           H == B * (w * u)
           K == B * (w * (u * v))
<1>1. u \in Nat /\ v \in Nat \ {0} /\ w \in Nat
  BY <1>0, SMT
<1>2. K + 100000000 * (20000 + f) <= 100000000 * (B * (10000 + s))
  BY <1>0, SMT DEF RoomLeft
<1>3. B * (10000 + s) <= flash * v + (20000 + f) - 2
  <2> DEFINE x == B * (10000 + s)
             z == flash * v
  <2>1. x \in Nat /\ z \in Nat
    <3>1. 10000 + s \in Nat
      BY <1>0, SMT
    <3> HIDE DEF v
    <3> QED
      BY <1>0, <1>1, <3>1, ProductMonotone, SMT
  <2>2. x < M * 10000 + 10000 /\ M * 10000 < z + (10000 + f)
    BY <1>0, SMT DEF Rounded
  <2> HIDE DEF x, z
  <2> QED
    BY <1>0, <2>1, <2>2, SMT DEF x, z
<1> HIDE DEF u, v, w
<1>4. G \in Nat /\ H \in Nat /\ K \in Nat /\ flash * v \in Nat /\ c * w \in Nat /\ p0 * u \in Nat
  <2>1. w * u \in Nat /\ u * v \in Nat
    BY <1>0, <1>1, ProductMonotone, SMT
  <2>2. w * (u * v) \in Nat
    BY <1>0, <1>1, <2>1, ProductMonotone, SMT
  <2> QED
    BY <1>0, <1>1, <2>1, <2>2, ProductMonotone, SMT
<1>5. (F * 10000) * p0 <= (B * 1000) * w
  <2>1. (F * 10000) * p0 <= (c * w) * p0
    <3>1. F * 10000 \in Int /\ F * 10000 <= c * w
      BY <1>0, SMT DEF Rounded, w
    <3> QED
      BY <1>0, <1>4, <3>1, Monotone, SMT
  <2>2. (c * p0) * w <= (B * 1000) * w
    <3>1. c * p0 \in Int /\ B * 1000 \in Int /\ c * p0 <= B * 1000
      BY <1>0, SMT DEF Rounded
    <3> QED
      BY <1>0, <1>1, <3>1, Monotone, SMT
  <2>3. (c * w) * p0 = (c * p0) * w
    BY <1>0, <1>1, SMT
  <2>4. (F * 10000) * p0 \in Int /\ (c * p0) * w \in Int /\ (B * 1000) * w \in Int
    BY <1>0, <1>1, SMT
  <2> QED
    BY <1>0, <2>1, <2>2, <2>3, <2>4, SMT
<1>6. (G * 100000000) * p0 <= (1000 * H) * p0
  <2> DEFINE x == (F * 10000) * p0
             y == p * 10000
             a == (B * 1000) * w
             b == p0 * u
  <2>1. x \in Nat /\ y \in Nat /\ a \in Nat /\ b \in Nat
    <3>1. F * 10000 \in Nat /\ p * 10000 \in Nat /\ B * 1000 \in Nat
      BY <1>0, SMT
    <3> QED
      BY <1>0, <1>1, <1>4, <3>1, ProductMonotone, SMT
  <2>2. x <= a /\ y <= b
    BY <1>0, <1>5, SMT DEF Rounded, u
  <2>3. x * y = (G * 100000000) * p0 /\ a * b = (1000 * H) * p0
    BY <1>0, <1>1, SMT
  <2> HIDE DEF x, y, a, b
  <2>4. x * y <= a * b
    BY <1>0, <2>1, <2>2, ProductMonotone, SMT
  <2> QED
    BY <1>0, <2>3, <2>4, SMT
<1>7. G * 100000000 <= 1000 * H
  <2> HIDE DEF G, H
  <2>1. G * 100000000 \in Int /\ 1000 * H \in Int
    BY <1>0, <1>4, SMT
  <2> QED
    BY <1>0, <1>6, <2>1, CommonFactor, SMT
<1>8. (G * 100000000) * v <= 1000 * K
  <2>1. H * v = K
    BY <1>0, <1>1, SMT
  <2> HIDE DEF G, H, K
  <2>2. G * 100000000 \in Int /\ 1000 * H \in Int
    BY <1>0, <1>4, SMT
  <2>3. (G * 100000000) * v <= (1000 * H) * v
    BY <1>0, <1>1, <1>7, <2>2, Monotone, SMT
  <2>4. (1000 * H) * v = 1000 * (H * v)
    BY <1>0, <1>1, <1>4, SMT
  <2> QED
    BY <1>0, <2>1, <2>3, <2>4, SMT
<1> DEFINE gv == G * v
           fv == flash * v
<1>9. gv \in Nat /\ fv \in Nat /\ (G * 100000000) * v = 100000000 * gv
  <2> HIDE DEF G
  <2> QED
    BY <1>0, <1>1, <1>4, ProductMonotone, SMT
<1>10. gv <= (flash * 1000) * v
  <2> DEFINE x == B * (10000 + s)
  <2>1. K + 100000000 * (20000 + f) <= 100000000 * x /\ x <= fv + (20000 + f) - 2 /\ 100000000 * gv <= 1000 * K
    BY <1>0, <1>2, <1>3, <1>8, <1>9, SMT
  <2>2. x \in Int
    BY <1>0, SMT
  <2>3. (flash * 1000) * v = 1000 * fv
    BY <1>0, <1>1, SMT
  <2> HIDE DEF x, gv, fv, K
  <2>4. gv <= 1000 * fv
    BY <1>0, <1>4, <1>9, <2>1, <2>2, SMT
  <2> QED
    BY <1>0, <2>3, <2>4, SMT
<1>11. G <= flash * 1000
  <2>1. flash * 1000 \in Int
    BY <1>0, SMT
  <2> HIDE DEF G
  <2> QED
    BY <1>0, <1>1, <1>4, <1>10, <2>1, CommonFactor, SMT DEF gv
<1> QED
  BY <1>0, <1>11, SMT

(* The fee of the flash loan stays below its cap.                           *)
FeeRounded(M, flash, f, cap) ==
  /\ M \in Nat /\ M >= 200000 /\ flash \in Nat /\ f \in Nat /\ f <= 30 /\ cap \in Nat
  /\ flash * (10000 + f) <= M * 10000 /\ M * 30 < cap * 10000 + 10000

LEMMA FeeWithinCap ==
  ASSUME NEW M, NEW flash, NEW f, NEW cap, FeeRounded(M, flash, f, cap)
  PROVE  flash * f <= cap * 10000
<1>0. M \in Nat /\ M >= 200000 /\ flash \in Nat /\ f \in Nat /\ f <= 30 /\ cap \in Nat
  BY DEF FeeRounded
<1> DEFINE v == 10000 + f
           k == 300000 - 9970 * f
           fee == flash * f
           mk == M * k
           mf == M * f
<1>1. v \in Nat \ {0} /\ v <= 10030 /\ k \in Nat /\ k >= 900
  BY <1>0, SMT
<1>2. fee \in Nat /\ mf \in Nat /\ (flash * v) * f <= (M * 10000) * f
  <2>1. flash * v \in Int /\ M * 10000 \in Int
    BY <1>0, SMT
  <2>2. flash * v <= M * 10000
    BY DEF FeeRounded
  <2>4. (flash * v) * f <= (M * 10000) * f
    BY <1>0, <2>1, <2>2, Monotone
  <2>3. fee \in Nat /\ mf \in Nat
    BY <1>0, ProductMonotone
  <2> QED
    BY <2>3, <2>4
<1>3. fee * v <= 10000 * mf
  <2>1. (flash * v) * f = fee * v /\ (M * 10000) * f = 10000 * mf
    BY <1>0, <1>1, SMT
  <2> QED
    BY <1>0, <1>2, <2>1
<1>4. 900 * M <= mk /\ mk \in Nat
  <2> HIDE DEF k
  <2>1. 900 * M <= k * M
    BY <1>0, <1>1, Monotone
  <2>2. k * M = mk /\ mk \in Nat
    BY <1>0, <1>1, ProductMonotone, SMT
  <2> QED
    BY <1>0, <2>1, <2>2
<1>5. (30 * M - 10000) * v = 10000 * mf + mk - 10000 * v
  BY <1>0, SMT
<1> HIDE DEF v, k, mk, mf, fee
<1>6. fee * v <= (30 * M - 10000) * v
  <2>1. 10000 * v <= mk
    BY <1>0, <1>1, <1>4, SMT
  <2> DEFINE x == fee * v
             z == (30 * M - 10000) * v
  <2>2. x \in Int /\ z \in Int
    BY <1>0, <1>1, <1>2, SMT
  <2>3. x <= 10000 * mf /\ z = 10000 * mf + mk - 10000 * v
    BY <1>0, <1>3, <1>5
  <2> HIDE DEF x, z
  <2>4. x <= z
    BY <1>0, <1>1, <1>2, <1>4, <2>1, <2>2, <2>3, SMT
  <2> QED
    BY <1>0, <2>4 DEF x, z
<1>7. fee <= 30 * M - 10000
  <2>1. 30 * M - 10000 \in Int
    BY <1>0, SMT
  <2> QED
    BY <1>0, <1>1, <1>2, <1>6, <2>1, CommonFactor
<1>8. fee <= cap * 10000
  <2>1. M * 30 < cap * 10000 + 10000
    BY DEF FeeRounded
  <2> QED
    BY <1>0, <1>2, <1>7, <2>1, SMT
<1> QED
  BY <1>0, <1>8 DEF fee

(* What the executor does with the bounds the SDK derived.                  *)
LEMMA DerivedBoundsSuffice ==
  ASSUME BuiltTypes, NEW p \in Nat, p >= venue.sharePrice, WithinSlippage(p)
  PROVE  Opens(DeriveOpenBounds, p)
<1> DEFINE s == input.slippage
           f == venue.feeTier
           p0 == venue.sharePrice
           B == Borrowing
           d == YieldDrift(p)
           M == PartOf(B, 10000 + s)
           flash == (M * 10000) \div (10000 + f)
           minted == (flash * 1000) \div p
           c == (B * 1000) \div p0
           F == PartOf(c, 10000 - s)
           cap == PartOf(M, 30)
<1>1. s \in 0 .. 10000 /\ s \in Nat /\ f \in Nat /\ p0 \in Nat \ {0} /\ p \in Nat \ {0} /\ f <= 30
  <2>1. s \in 0 .. 10000 /\ f \in Nat /\ p0 \in Nat \ {0}
    <3>1. input.slippage \in 0 .. BPS /\ venue.sharePrice \in Nat \ {0} /\ venue.feeTier \in Nat
      BY DEF BuiltTypes
    <3>2. f \in Nat /\ p0 \in Nat \ {0} /\ s \in 0 .. BPS
      BY <3>1
    <3> HIDE DEF s, f, p0
    <3>3. s \in 0 .. 10000
      BY <3>2, SMTT(40) DEF BPS
    <3> QED
      BY <3>2, <3>3
  <2>2. f <= 30
    <3>1. venue.feeTier <= FlashFee
      BY DEF WithinSlippage
    <3> QED
      BY <3>1 DEF FlashFee
  <2>3. p \in Nat \ {0}
    <3>1. p >= p0
      OBVIOUS
    <3> HIDE DEF p0
    <3> QED
      BY <2>1, <3>1, SMTT(40)
  <2> HIDE DEF s, f, p0
  <2>4. s \in Nat
    BY <2>1, SMT
  <2> QED
    BY <2>1, <2>2, <2>3, <2>4
<1>2. B \in Nat /\ B >= 200000
  <2>1. B \in Nat
    <3> DEFINE extra == IF input.leverage > 10000 THEN input.leverage - 10000 ELSE 0
    <3>1. extra \in Nat /\ input.collateral \in Nat
      BY DEF BuiltTypes
    <3> HIDE DEF extra
    <3>2. input.collateral * extra \in Nat
      BY <3>1, ProductMonotone
    <3>3. (input.collateral * extra) \div 10000 \in Nat
      BY <3>2, DivBounds, SMT
    <3> QED
      BY <3>3 DEF Borrowing, PartOf, BPS, extra
  <2> QED
    BY <2>1 DEF WithinSlippage, Dust
<1> HIDE DEF B
<1> DEFINE gain == (p - p0) * 10000
<1>3. d \in Nat /\ gain <= d * p0
  <2>1. gain \in Nat
    <3>1. p >= p0
      OBVIOUS
    <3> HIDE DEF p0
    <3> QED
      BY <1>1, <3>1, SMTT(40)
  <2>2. d = CeilDiv(gain, p0)
    BY DEF YieldDrift, BPS
  <2> HIDE DEF gain, d, p0
  <2> QED
    BY <1>1, <2>1, <2>2, CeilDivBounds, SMTT(40)
<1>16. d \in Nat
  BY <1>3
<1>4. d + f <= 2 * s - 1
  <2>1. 2 * s > f + d
    BY DEF WithinSlippage
  <2> HIDE DEF s, f, d
  <2> QED
    BY <1>1, <1>16, <2>1, SMT
<1> HIDE DEF d, s, f, p0
<1>5. RoomLeft(B, s, d, f)
  <2>1. OverFee(B, s, d, f)
    BY <1>1, <1>2, <1>16, <1>4, SMT DEF OverFee
  <2> QED
    BY <2>1, SlippageCovers
<1>6. p * 10000 <= p0 * (10000 + d)
  <2>1. p0 * (10000 + d) = p0 * 10000 + d * p0
    BY <1>1, <1>16, SMT
  <2> DEFINE x == d * p0
  <2>2. x \in Nat
    BY <1>1, <1>16, ProductMonotone
  <2> HIDE DEF x
  <2> QED
    BY <1>1, <1>3, <2>1, <2>2, SMT DEF x
<1>7. M \in Nat /\ B * (10000 + s) < M * 10000 + 10000 /\ M >= 200000
  <2> DEFINE x == B * (10000 + s)
  <2>1. x \in Nat /\ x >= 200000 * 10000
    <3>1. 10000 * B <= (10000 + s) * B
      BY <1>1, <1>2, Monotone
    <3>2. x = (10000 + s) * B /\ x \in Nat
      BY <1>1, <1>2, ProductMonotone, SMT
    <3> QED
      BY <1>2, <3>1, <3>2, SMT
  <2> HIDE DEF x
  <2>2. x \div 10000 \in Nat /\ x < (x \div 10000) * 10000 + 10000
    BY <2>1, DivBounds, SMT
  <2>3. 200000 <= x \div 10000
    BY <2>1, DivAbove, SMT
  <2> QED
    BY <2>2, <2>3 DEF x, PartOf, BPS
<1> HIDE DEF M
<1>8. flash \in Nat /\ flash * (10000 + f) <= M * 10000 /\ M * 10000 < flash * (10000 + f) + (10000 + f)
  <2>1. M * 10000 \in Nat /\ 10000 + f \in Nat \ {0}
    BY <1>1, <1>7, SMT
  <2> QED
    BY <2>1, DivBounds
<1> HIDE DEF flash
<1>9. c \in Nat /\ c * p0 <= B * 1000
  <2>1. B * 1000 \in Nat
    BY <1>2, SMT
  <2> QED
    BY <1>1, <2>1, DivBounds
<1> HIDE DEF c
<1>10. F \in Nat /\ F * 10000 <= c * (10000 - s)
  <2>1. 10000 - s \in Nat
    BY <1>1, SMT
  <2>2. c * (10000 - s) \in Nat
    BY <1>9, <2>1, ProductMonotone
  <2> QED
    BY <2>2, DivBounds DEF PartOf, BPS
<1>11. cap \in Nat /\ M * 30 < cap * 10000 + 10000
  <2>1. M * 30 \in Nat
    BY <1>7, SMT
  <2> QED
    BY <2>1, DivBounds DEF PartOf, BPS
<1> HIDE DEF F, cap
<1>12. minted >= F
  <2>1. F * p <= flash * 1000
    <3>1. Rounded(B, s, d, f, p0, p, M, flash, c, F)
      BY <1>6, <1>7, <1>8, <1>9, <1>10 DEF Rounded
    <3>2. Amounts(B, s, d, f, p0, p, M, flash, c, F)
      BY <1>1, <1>2, <1>7, <1>8, <1>9, <1>10, <1>16 DEF Amounts
    <3> QED
      BY <1>5, <3>1, <3>2, SharesSuffice
  <2>2. flash * 1000 \in Nat /\ F \in Int
    BY <1>8, <1>10, SMT
  <2>3. F <= minted
    BY <1>1, <2>1, <2>2, DivAbove
  <2>4. minted \in Nat
    BY <1>1, <2>2, DivBounds
  <2> HIDE DEF minted
  <2> QED
    BY <1>10, <2>3, <2>4, SMT
<1>13. CeilDiv(flash * f, 10000) <= cap
  <2>1. flash * f <= cap * 10000
    <3>1. FeeRounded(M, flash, f, cap)
      BY <1>1, <1>7, <1>8, <1>11 DEF FeeRounded
    <3> QED
      BY <3>1, FeeWithinCap
  <2>2. flash * f \in Nat
    BY <1>1, <1>8, ProductMonotone
  <2> QED
    BY <1>11, <2>1, <2>2, CeilDivBounds
<1>14. DeriveOpenBounds.maxBorrowedDiem = M /\ DeriveOpenBounds.minWstDiemReceived = F /\ DeriveOpenBounds.feeCaps.flashFeeCap = cap
  BY DEF DeriveOpenBounds, FeeCaps, ConvertToShares, M, F, cap, c, B, s, p0, BPS, FlashFee
<1>15. FlashPrincipal(M) = flash
  BY DEF FlashPrincipal, flash, f, BPS
<1> QED
  BY <1>12, <1>13, <1>14, <1>15 DEF Opens, f, BPS

BoundsSuffice ==
  \A p \in SharePrices : p >= venue.sharePrice /\ WithinSlippage(p) => Opens(DeriveOpenBounds, p)

LEMMA OpenBoundsSuffice == BuiltTypes => BoundsSuffice
<1> SUFFICES ASSUME BuiltTypes, NEW p \in SharePrices, p >= venue.sharePrice, WithinSlippage(p)
             PROVE  Opens(DeriveOpenBounds, p)
  BY DEF BoundsSuffice
<1>1. p \in Nat
  BY BuiltAssumption DEF BuiltAssumption
<1> QED
  BY <1>1, DerivedBoundsSuffice

-----------------------------------------------------------------------------
(* ActionEncoding: everyone's lists, digests and calldata.                  *)

StructNames ==
  {"ActionIdentity", "Freshness", "MorphoMarketParams", "DigestHashes", "OpenBounds", "RebalanceBounds",
   "ExitBounds", "ForceExitBounds", "RevokeBounds", "AutomationBounds"}
MembersIn(list) == {list[i] : i \in DOMAIN list}

(* typehashes.ts, sub-hashes.ts and typed-data.ts have the same lists.      *)
LEMMA HashedListed == \A s \in StructNames : Hashed[s] = Preimages[s]
<1>1. /\ Hashed.ActionIdentity = Preimages.ActionIdentity /\ Hashed.Freshness = Preimages.Freshness
      /\ Hashed.MorphoMarketParams = Preimages.MorphoMarketParams /\ Hashed.DigestHashes = Preimages.DigestHashes
  BY DEF Hashed, Joined, HashedIdentity, HashedContext, HashedBorrowing, HashedRepaying, Preimages
<1>2. /\ Hashed.OpenBounds = Preimages.OpenBounds /\ Hashed.RebalanceBounds = Preimages.RebalanceBounds
      /\ Hashed.ExitBounds = Preimages.ExitBounds
  BY DEF Hashed, Joined, HashedIdentity, HashedContext, HashedBorrowing, HashedRepaying, Preimages
<1>3. /\ Hashed.ForceExitBounds = Preimages.ForceExitBounds /\ Hashed.RevokeBounds = Preimages.RevokeBounds
      /\ Hashed.AutomationBounds = Preimages.AutomationBounds
  BY DEF Hashed, Joined, HashedIdentity, HashedContext, HashedBorrowing, HashedRepaying, Preimages
<1> QED
  BY <1>1, <1>2, <1>3 DEF StructNames

LEMMA TypedListed == \A s \in StructNames : Typed[s] = Preimages[s]
<1>1. /\ Typed.ActionIdentity = Preimages.ActionIdentity /\ Typed.Freshness = Preimages.Freshness
      /\ Typed.MorphoMarketParams = Preimages.MorphoMarketParams /\ Typed.DigestHashes = Preimages.DigestHashes
      /\ Typed.OpenBounds = Preimages.OpenBounds /\ Typed.RebalanceBounds = Preimages.RebalanceBounds
      /\ Typed.ExitBounds = Preimages.ExitBounds /\ Typed.ForceExitBounds = Preimages.ForceExitBounds
      /\ Typed.RevokeBounds = Preimages.RevokeBounds /\ Typed.AutomationBounds = Preimages.AutomationBounds
  BY DEF Typed, Preimages
<1> QED
  BY <1>1 DEF StructNames

(* The contract's structs hold fee caps where the hashed ones hold their    *)
(* hash, and no list but the contract's names the caps themselves.          *)
LEMMA ContractListed == \A s \in StructNames : Names(Contract[s]) = Preimages[s]
<1>1. /\ Names(Contract.ActionIdentity) = Preimages.ActionIdentity /\ Names(Contract.Freshness) = Preimages.Freshness
  BY DEF Contract, Joined, ContractContext, ContractBounds, Preimages, Names, Name
<1>2. /\ Names(Contract.MorphoMarketParams) = Preimages.MorphoMarketParams
      /\ Names(Contract.DigestHashes) = Preimages.DigestHashes
  BY DEF Contract, Joined, ContractContext, ContractBounds, Preimages, Names, Name
<1>3. Names(Contract.OpenBounds) = Preimages.OpenBounds
  BY DEF Contract, Joined, ContractContext, ContractBounds, Preimages, Names, Name
<1>4. Names(Contract.RebalanceBounds) = Preimages.RebalanceBounds
  BY DEF Contract, Joined, ContractContext, ContractBounds, Preimages, Names, Name
<1>5. Names(Contract.ExitBounds) = Preimages.ExitBounds
  BY DEF Contract, Joined, ContractContext, ContractBounds, Preimages, Names, Name
<1>6. Names(Contract.ForceExitBounds) = Preimages.ForceExitBounds
  BY DEF Contract, Joined, ContractContext, ContractBounds, Preimages, Names, Name
<1>7. Names(Contract.RevokeBounds) = Preimages.RevokeBounds
  BY DEF Contract, Joined, ContractContext, ContractBounds, Preimages, Names, Name
<1>8. Names(Contract.AutomationBounds) = Preimages.AutomationBounds
  BY DEF Contract, Joined, ContractContext, ContractBounds, Preimages, Names, Name
<1> QED
  BY <1>1, <1>2, <1>3, <1>4, <1>5, <1>6, <1>7, <1>8 DEF StructNames

LEMMA NamesStand == ASSUME NEW list PROVE Names(Names(list)) = Names(list)
BY DEF Names, Name

LEMMA StructsNamed == ASSUME NEW type \in PrimaryTypes, NEW m PROVE StructOf(type, m) \in StructNames \cup {"uint8"}
<1>1. CASE m = "bounds"
  BY <1>1 DEF StructOf, StructNames, PrimaryTypes, MarketTypes
<1>2. CASE m # "bounds"
  BY <1>2 DEF StructOf, StructNames
<1> QED
  BY <1>1, <1>2

(* Lists that name the same members are hashed alike.                       *)
LEMMA HashedAlike ==
  ASSUME NEW struct, NEW names, NEW a, NEW b, NEW value, Names(a) = Names(b)
  PROVE  StructHash(struct, names, a, value) = StructHash(struct, names, b, value)
<1>1. DOMAIN a = DOMAIN b
  <2>1. DOMAIN Names(a) = DOMAIN a /\ DOMAIN Names(b) = DOMAIN b
    BY DEF Names
  <2> QED
    BY <2>1
<1>2. ASSUME NEW i \in DOMAIN a
      PROVE  (IF Name(a[i]) = "feeCapsHash" THEN FeeCapsHash(value.feeCaps) ELSE value[a[i]])
               = IF Name(b[i]) = "feeCapsHash" THEN FeeCapsHash(value.feeCaps) ELSE value[b[i]]
  <2>1. Name(a[i]) = Name(b[i])
    <3>1. Names(a)[i] = Name(a[i]) /\ Names(b)[i] = Name(b[i])
      BY <1>1 DEF Names
    <3> QED
      BY <3>1
  <2> QED
    BY <2>1 DEF Name
<1> QED
  BY <1>1, <1>2 DEF StructHash
SameMembers(a, b) == \A s \in StructNames : Names(a[s]) = Names(b[s])

LEMMA StringsAlike ==
  ASSUME NEW type \in PrimaryTypes, NEW members, NEW a, NEW b, SameMembers(a, b)
  PROVE  TypeString(type, members, a) = TypeString(type, members, b)
<1>1. ASSUME NEW s \in {StructOf(type, members[i]) : i \in DOMAIN members} \ {"uint8"} PROVE Names(a[s]) = Names(b[s])
  BY <1>1, StructsNamed DEF SameMembers
<1> QED
  BY <1>1 DEF TypeString

LEMMA ActionsHashedAlike ==
  ASSUME NEW type \in PrimaryTypes, NEW string, NEW members, NEW p, NEW q, NEW a, NEW b, NEW act,
         SameMembers(p, q), SameMembers(a, b)
  PROVE  ActionHash(type, string, members, p, a, act) = ActionHash(type, string, members, q, b, act)
<1>1. ASSUME NEW m, StructOf(type, m) # "uint8"
      PROVE  StructHash(StructOf(type, m), Names(p[StructOf(type, m)]), a[StructOf(type, m)], act[m])
               = StructHash(StructOf(type, m), Names(q[StructOf(type, m)]), b[StructOf(type, m)], act[m])
  <2>1. StructOf(type, m) \in StructNames
    BY <1>1, StructsNamed
  <2>2. Names(p[StructOf(type, m)]) = Names(q[StructOf(type, m)]) /\ Names(a[StructOf(type, m)]) = Names(b[StructOf(type, m)])
    BY <2>1 DEF SameMembers
  <2> QED
    BY <2>2, HashedAlike
<1> DEFINE Part(n, l, m) == IF StructOf(type, m) = "uint8" THEN act[m]
                            ELSE StructHash(StructOf(type, m), Names(n[StructOf(type, m)]), l[StructOf(type, m)], act[m])
<1>2. \A m : Part(p, a, m) = Part(q, b, m)
  BY <1>1
<1>3. ActionHash(type, string, members, p, a, act) = <<string, [i \in DOMAIN members |-> Part(p, a, members[i])]>>
  BY DEF ActionHash
<1>4. ActionHash(type, string, members, q, b, act) = <<string, [i \in DOMAIN members |-> Part(q, b, members[i])]>>
  BY DEF ActionHash
<1> HIDE DEF Part
<1> QED
  BY <1>2, <1>3, <1>4

LEMMA ListsAlike ==
  SameMembers(Typed, Preimages) /\ SameMembers(Hashed, Preimages) /\ SameMembers(Contract, Preimages)
<1>1. SameMembers(Typed, Preimages) /\ SameMembers(Hashed, Preimages)
  BY TypedListed, HashedListed DEF SameMembers
<1>2. SameMembers(Contract, Preimages)
  <2>1. ASSUME NEW s \in StructNames PROVE Names(Contract[s]) = Names(Preimages[s])
    BY ContractListed, NamesStand
  <2> QED
    BY <2>1 DEF SameMembers
<1> QED
  BY <1>1, <1>2

LEMMA MembersAlike ==
  ASSUME NEW type
  PROVE  /\ ActionPreimage(type) = TypedMembers(type) /\ HashedMembers(type) = TypedMembers(type)
         /\ ContractMembers(type) = TypedMembers(type)
         /\ type \in MarketTypes => AbiMembers = TypedMembers(type)
<1>1. CASE type \in MarketTypes
  BY <1>1 DEF ActionPreimage, TypedMembers, HashedMembers, HashedMarketMembers, ContractMembers, AbiMembers, MarketTypes
<1>2. CASE type = "Revoke"
  BY <1>2 DEF ActionPreimage, TypedMembers, HashedMembers, ContractMembers, MarketTypes
<1>3. CASE type \notin MarketTypes /\ type # "Revoke"
  BY <1>3 DEF ActionPreimage, TypedMembers, HashedMembers, ContractMembers
<1> QED
  BY <1>1, <1>2, <1>3

(* An action has one digest, whoever computes it.                        *)
LEMMA DigestsAgree ==
  ASSUME NEW type \in PrimaryTypes, NEW domain, NEW act
  PROVE  /\ SdkDigest(domain, type, act) = WalletDigest(domain, type, act)
         /\ ContractDigest(domain, type, act) = WalletDigest(domain, type, act)
<1> DEFINE members == TypedMembers(type)
           string == TypeString(type, members, Preimages)
           hash == ActionHash(type, string, members, Preimages, Preimages, act)
<1>1. SameMembers(Preimages, Preimages)
  BY DEF SameMembers
<1>2. SdkDigest(domain, type, act) = <<domain, hash>>
  <2>1. ActionHash(type, string, members, Preimages, Hashed, act) = hash
    BY <1>1, ListsAlike, ActionsHashedAlike
  <2> QED
    BY <2>1, MembersAlike DEF SdkDigest
<1>3. WalletDigest(domain, type, act) = <<domain, hash>>
  <2>1. TypeString(type, members, Typed) = string
    BY ListsAlike, StringsAlike
  <2>2. ActionHash(type, string, members, Typed, Typed, act) = hash
    BY ListsAlike, ActionsHashedAlike
  <2> QED
    BY <2>1, <2>2 DEF WalletDigest
<1>4. ContractDigest(domain, type, act) = <<domain, hash>>
  <2>1. TypeString(type, members, Contract) = string
    BY ListsAlike, StringsAlike
  <2>2. ActionHash(type, string, members, Contract, Contract, act) = hash
    BY ListsAlike, ActionsHashedAlike
  <2> QED
    BY <2>1, <2>2, MembersAlike DEF ContractDigest
<1> QED
  BY <1>2, <1>3, <1>4

LEMMA DomainsAgree == ASSUME NEW type \in PrimaryTypes PROVE DomainSeparator(Authorizer(type)) = WalletDomain(type)
BY DEF DomainSeparator, Authorizer, WalletDomain

LEMMA DigestedOnce == ASSUME input.type \in PrimaryTypes PROVE OneDigest
<1>1. DispatchDigest(built.action) = SignedDigest(built.action)
  BY DigestsAgree, DomainsAgree DEF DispatchDigest, SignedDigest, WithUnderlyingType, TypedMessage
<1>2. ContractDigest(DomainSeparator(Authorizer(input.type)), input.type, TypedMessage(built.action)) = SignedDigest(built.action)
  BY DigestsAgree, DomainsAgree DEF SignedDigest
<1> QED
  BY <1>1, <1>2 DEF OneDigest
LEMMA AbiListed ==
  /\ AbiMembers = <<"identity", "freshness", "executionKind", "mevProtectionMode", "mevWaiverBits", "marketParams", "bounds", "hashes">>
  /\ \A s \in StructNames \ {"RevokeBounds", "AutomationBounds"} : Abi[s] = Contract[s]
<1>1. /\ Abi.ActionIdentity = Contract.ActionIdentity /\ Abi.Freshness = Contract.Freshness
      /\ Abi.MorphoMarketParams = Contract.MorphoMarketParams /\ Abi.DigestHashes = Contract.DigestHashes
  BY DEF Abi, Contract, Joined, AbiContext, AbiBounds, ContractContext, ContractBounds
<1>2. /\ Abi.OpenBounds = Contract.OpenBounds /\ Abi.RebalanceBounds = Contract.RebalanceBounds
      /\ Abi.ExitBounds = Contract.ExitBounds /\ Abi.ForceExitBounds = Contract.ForceExitBounds
  BY DEF Abi, Contract, Joined, AbiContext, AbiBounds, ContractContext, ContractBounds
<1> QED
  BY <1>1, <1>2 DEF StructNames, AbiMembers

LEMMA MarketStructs ==
  ASSUME NEW type \in MarketTypes, NEW m, StructOf(type, m) # "uint8"
  PROVE  Abi[StructOf(type, m)] = Contract[StructOf(type, m)]
<1>1. StructOf(type, m) \in StructNames \ {"RevokeBounds", "AutomationBounds"}
  <2>1. CASE m = "bounds"
    BY <2>1 DEF StructOf, StructNames, MarketTypes
  <2>2. CASE m # "bounds"
    BY <2>2 DEF StructOf, StructNames
  <2> QED
    BY <2>1, <2>2
<1> QED
  BY <1>1, AbiListed

(* An action with a value for every member of every struct.              *)
Whole(type, act) ==
  /\ act = [m \in MembersIn(AbiMembers) |-> act[m]]
  /\ \A m \in MembersIn(AbiMembers) : StructOf(type, m) # "uint8" =>
       act[m] = [n \in MembersIn(Contract[StructOf(type, m)]) |-> act[m][n]]

LEMMA ReadByName ==
  ASSUME NEW list, NEW value, value = [n \in MembersIn(list) |-> value[n]]
  PROVE  AtNames(list, Positions(list, value)) = value
BY DEF AtNames, Positions, MembersIn

LEMMA ShownAlike == ASSUME NEW type \in MarketTypes, NEW c PROVE SdkReads(type, c) = ContractReads(type, c)
<1> DEFINE at == AtNames(AbiMembers, c)
           Read(lists, m) == IF StructOf(type, m) = "uint8" THEN at[m] ELSE AtNames(lists[StructOf(type, m)], at[m])
<1>1. \A m : Read(Abi, m) = Read(Contract, m)
  BY MarketStructs
<1>2. SdkReads(type, c) = [m \in DOMAIN at |-> Read(Abi, m)]
  BY DEF SdkReads, ReadAction
<1>3. ContractReads(type, c) = [m \in DOMAIN at |-> Read(Contract, m)]
  BY MembersAlike DEF ContractReads, ReadAction
<1> HIDE DEF Read, at
<1> QED
  BY <1>1, <1>2, <1>3

LEMMA ReadWhole ==
  ASSUME NEW type \in MarketTypes, NEW c
  PROVE  Whole(type, ContractReads(type, c))
<1> DEFINE at == AtNames(AbiMembers, c)
           Read(m) == IF StructOf(type, m) = "uint8" THEN at[m] ELSE AtNames(Contract[StructOf(type, m)], at[m])
<1>1. DOMAIN at = MembersIn(AbiMembers)
  BY DEF AtNames, MembersIn
<1>2. ContractReads(type, c) = [m \in MembersIn(AbiMembers) |-> Read(m)]
  BY <1>1, MembersAlike DEF ContractReads, ReadAction
<1>3. ASSUME NEW m, StructOf(type, m) # "uint8"
      PROVE  Read(m) = [n \in MembersIn(Contract[StructOf(type, m)]) |-> Read(m)[n]]
  BY <1>3 DEF AtNames, MembersIn
<1> HIDE DEF Read, at
<1> QED
  BY <1>2, <1>3 DEF Whole

(* What is encoded is read back.                                            *)
LEMMA EncodedIsRead ==
  ASSUME NEW type \in MarketTypes, NEW act, Whole(type, act)
  PROVE  ContractReads(type, EncodeAction(type, act)) = act
<1> DEFINE c == EncodeAction(type, act)
           at == AtNames(AbiMembers, c)
           Part(m) == IF StructOf(type, m) = "uint8" THEN act[m] ELSE Positions(Abi[StructOf(type, m)], act[m])
           Read(m) == IF StructOf(type, m) = "uint8" THEN at[m] ELSE AtNames(Contract[StructOf(type, m)], at[m])
<1>1. c = [i \in DOMAIN AbiMembers |-> Part(AbiMembers[i])]
  BY DEF EncodeAction
<1>2. ASSUME NEW m \in MembersIn(AbiMembers) PROVE at[m] = Part(m)
  <2> HIDE DEF Part, c
  <2> QED
    BY <1>1, <1>2 DEF AtNames, MembersIn
<1>3. ASSUME NEW m \in MembersIn(AbiMembers) PROVE Read(m) = act[m]
  <2>1. CASE StructOf(type, m) = "uint8"
    BY <1>2, <2>1
  <2>2. CASE StructOf(type, m) # "uint8"
    <3>1. Part(m) = Positions(Contract[StructOf(type, m)], act[m])
      BY <2>2, MarketStructs
    <3>2. act[m] = [n \in MembersIn(Contract[StructOf(type, m)]) |-> act[m][n]]
      BY <2>2 DEF Whole
    <3>3. AtNames(Contract[StructOf(type, m)], Positions(Contract[StructOf(type, m)], act[m])) = act[m]
      BY <3>2, ReadByName
    <3> QED
      BY <1>2, <2>2, <3>1, <3>3
  <2> QED
    BY <2>1, <2>2
<1>4. ContractReads(type, c) = [m \in MembersIn(AbiMembers) |-> Read(m)]
  <2>1. DOMAIN at = MembersIn(AbiMembers)
    BY DEF AtNames, MembersIn
  <2> QED
    BY <2>1, MembersAlike DEF ContractReads, ReadAction
<1> HIDE DEF Read, c
<1>5. ContractReads(type, c) = [m \in MembersIn(AbiMembers) |-> act[m]]
  BY <1>3, <1>4
<1> QED
  BY <1>5 DEF Whole, c
(* What one member's hash fixes.                                            *)
LEMMA StructBinds ==
  ASSUME NEW struct, NEW names, NEW list, NEW value, NEW other,
         StructHash(struct, names, list, value) = StructHash(struct, names, list, other),
         NEW n \in MembersIn(list), Name(n) # "feeCapsHash"
  PROVE  value[n] = other[n]
<1> DEFINE Hash(v) == [i \in DOMAIN list |-> IF Name(list[i]) = "feeCapsHash" THEN FeeCapsHash(v.feeCaps) ELSE v[list[i]]]
<1>1. Hash(value) = Hash(other)
  BY DEF StructHash
<1>2. PICK i \in DOMAIN list : list[i] = n
  BY DEF MembersIn
<1>3. Hash(value)[i] = value[n] /\ Hash(other)[i] = other[n]
  BY <1>2
<1> HIDE DEF Hash
<1> QED
  BY <1>1, <1>3

LEMMA CapsStand ==
  \A s \in {"OpenBounds", "RebalanceBounds", "ExitBounds", "ForceExitBounds"} : "feeCapsHash" \notin MembersIn(Contract[s])
<1>1. "feeCapsHash" \notin MembersIn(Contract.OpenBounds)
  BY DEF Contract, Joined, ContractContext, ContractBounds, MembersIn
<1>2. "feeCapsHash" \notin MembersIn(Contract.RebalanceBounds)
  BY DEF Contract, Joined, ContractContext, ContractBounds, MembersIn
<1>3. "feeCapsHash" \notin MembersIn(Contract.ExitBounds)
  BY DEF Contract, Joined, ContractContext, ContractBounds, MembersIn
<1>4. "feeCapsHash" \notin MembersIn(Contract.ForceExitBounds)
  BY DEF Contract, Joined, ContractContext, ContractBounds, MembersIn
<1> QED
  BY <1>1, <1>2, <1>3, <1>4

LEMMA CapsElsewhere ==
  \A s \in {"ActionIdentity", "Freshness", "MorphoMarketParams", "DigestHashes"} :
    "feeCapsHash" \notin MembersIn(Contract[s]) /\ "feeCaps" \notin MembersIn(Contract[s])
<1>1. "feeCapsHash" \notin MembersIn(Contract.ActionIdentity) /\ "feeCaps" \notin MembersIn(Contract.ActionIdentity)
  BY DEF Contract, Joined, ContractContext, ContractBounds, MembersIn
<1>2. "feeCapsHash" \notin MembersIn(Contract.Freshness) /\ "feeCaps" \notin MembersIn(Contract.Freshness)
  BY DEF Contract, Joined, ContractContext, ContractBounds, MembersIn
<1>3. "feeCapsHash" \notin MembersIn(Contract.MorphoMarketParams) /\ "feeCaps" \notin MembersIn(Contract.MorphoMarketParams)
  BY DEF Contract, Joined, ContractContext, ContractBounds, MembersIn
<1>4. "feeCapsHash" \notin MembersIn(Contract.DigestHashes) /\ "feeCaps" \notin MembersIn(Contract.DigestHashes)
  BY DEF Contract, Joined, ContractContext, ContractBounds, MembersIn
<1> QED
  BY <1>1, <1>2, <1>3, <1>4

LEMMA CapsInBounds ==
  ASSUME NEW type \in MarketTypes, NEW m \in MembersIn(AbiMembers), StructOf(type, m) # "uint8",
         NEW n \in MembersIn(Contract[StructOf(type, m)]), Name(n) = "feeCapsHash"
  PROVE  n = "feeCaps" /\ m = "bounds"
<1>1. CASE m = "bounds"
  <2>1. /\ StructOf(type, m) \in {"OpenBounds", "RebalanceBounds", "ExitBounds", "ForceExitBounds"}
    BY <1>1 DEF StructOf, MarketTypes
  <2>2. "feeCapsHash" \notin MembersIn(Contract[StructOf(type, m)])
    BY <2>1, CapsStand
  <2> QED
    BY <1>1, <2>2 DEF Name
<1>2. CASE m # "bounds"
  <2>1. StructOf(type, m) \in {"ActionIdentity", "Freshness", "MorphoMarketParams", "DigestHashes"}
    BY <1>2 DEF StructOf
  <2>2. "feeCapsHash" \notin MembersIn(Contract[StructOf(type, m)]) /\ "feeCaps" \notin MembersIn(Contract[StructOf(type, m)])
    BY <2>1, CapsElsewhere
  <2> QED
    BY <2>2 DEF Name
<1> QED
  BY <1>1, <1>2

LEMMA DigestBinds ==
  ASSUME NEW type \in MarketTypes, NEW domain, NEW act, NEW other, Whole(type, act), Whole(type, other),
         ContractDigest(domain, type, act) = ContractDigest(domain, type, other),
         "feeCaps" \in MembersIn(Contract[StructOf(type, "bounds")]) => act.bounds.feeCaps = other.bounds.feeCaps
  PROVE  act = other
<1> DEFINE S(m) == StructOf(type, m)
           Part(a, m) == IF S(m) = "uint8" THEN a[m] ELSE StructHash(S(m), Names(Contract[S(m)]), Contract[S(m)], a[m])
           Parts(a) == [i \in DOMAIN AbiMembers |-> Part(a, AbiMembers[i])]
<1>1. Parts(act) = Parts(other)
  BY MembersAlike DEF ContractDigest, ActionHash
<1>2. ASSUME NEW m \in MembersIn(AbiMembers) PROVE Part(act, m) = Part(other, m)
  <2>1. PICK i \in DOMAIN AbiMembers : AbiMembers[i] = m
    BY DEF MembersIn
  <2>2. Parts(act)[i] = Part(act, m) /\ Parts(other)[i] = Part(other, m)
    BY <2>1
  <2> HIDE DEF Parts, Part
  <2> QED
    BY <1>1, <2>2
<1>3. ASSUME NEW m \in MembersIn(AbiMembers) PROVE act[m] = other[m]
  <2>1. CASE S(m) = "uint8"
    BY <1>2, <2>1
  <2>2. CASE S(m) # "uint8"
    <3>1. StructHash(S(m), Names(Contract[S(m)]), Contract[S(m)], act[m])
            = StructHash(S(m), Names(Contract[S(m)]), Contract[S(m)], other[m])
      BY <1>2, <2>2
    <3>2. ASSUME NEW n \in MembersIn(Contract[S(m)]) PROVE act[m][n] = other[m][n]
      <4>1. CASE Name(n) # "feeCapsHash"
        BY <3>1, <4>1, StructBinds
      <4>2. CASE Name(n) = "feeCapsHash"
        <5>1. n = "feeCaps" /\ m = "bounds"
          BY <4>2, <2>2, CapsInBounds
        <5> QED
          BY <5>1
      <4> QED
        BY <4>1, <4>2
    <3>3. act[m] = [n \in MembersIn(Contract[S(m)]) |-> act[m][n]] /\ other[m] = [n \in MembersIn(Contract[S(m)]) |-> other[m][n]]
      BY <2>2 DEF Whole
    <3> HIDE DEF S
    <3> QED
      BY <3>2, <3>3
  <2> QED
    BY <2>1, <2>2
<1> QED
  BY <1>3 DEF Whole
WithCaps(type, act) ==
  "feeCaps" \in MembersIn(Contract[StructOf(type, "bounds")]) =>
    act.bounds.feeCaps = [n \in MembersIn(Preimages.FeeCaps) |-> act.bounds.feeCaps[n]]

(* What the hash of the fee caps fixes.                                     *)
LEMMA CapsBind ==
  ASSUME NEW caps, NEW others, FeeCapsHash(caps) = FeeCapsHash(others),
         caps = [n \in MembersIn(Preimages.FeeCaps) |-> caps[n]],
         others = [n \in MembersIn(Preimages.FeeCaps) |-> others[n]]
  PROVE  caps = others
<1> DEFINE Values(c) == [i \in 1 .. 3 |-> c[HashedIdentity.FeeCaps[i]]]
<1>1. Values(caps) = Values(others)
  BY DEF FeeCapsHash
<1>2. HashedIdentity.FeeCaps = <<"flashFeeCap", "protocolFeeCap", "automationFeeCap">>
  BY DEF HashedIdentity
<1>3. MembersIn(Preimages.FeeCaps) = {"flashFeeCap", "protocolFeeCap", "automationFeeCap"}
  BY DEF Preimages, MembersIn
<1>4. \A i \in 1 .. 3 : caps[HashedIdentity.FeeCaps[i]] = others[HashedIdentity.FeeCaps[i]]
  <2>1. ASSUME NEW i \in 1 .. 3 PROVE caps[HashedIdentity.FeeCaps[i]] = others[HashedIdentity.FeeCaps[i]]
    <3>1. Values(caps)[i] = caps[HashedIdentity.FeeCaps[i]] /\ Values(others)[i] = others[HashedIdentity.FeeCaps[i]]
      OBVIOUS
    <3> HIDE DEF Values
    <3> QED
      BY <1>1, <3>1
  <2> QED
    BY <2>1
<1>5. \A n \in MembersIn(Preimages.FeeCaps) : caps[n] = others[n]
  BY <1>2, <1>3, <1>4
<1> QED
  BY <1>5

LEMMA DigestParts ==
  ASSUME NEW t \in MarketTypes, NEW u \in MarketTypes, NEW d, NEW e, NEW act, NEW other,
         ContractDigest(d, t, act) = ContractDigest(e, u, other)
  PROVE  d = e /\ t = u
<1>1. /\ d = e
      /\ TypeString(t, ContractMembers(t), Contract) = TypeString(u, ContractMembers(u), Contract)
  BY DEF ContractDigest, ActionHash
<1> QED
  BY <1>1 DEF TypeString

LEMMA CapsHashed ==
  ASSUME NEW type \in MarketTypes, NEW domain, NEW act, NEW other,
         ContractDigest(domain, type, act) = ContractDigest(domain, type, other),
         "feeCaps" \in MembersIn(Contract[StructOf(type, "bounds")])
  PROVE  FeeCapsHash(act.bounds.feeCaps) = FeeCapsHash(other.bounds.feeCaps)
<1> DEFINE s == StructOf(type, "bounds")
           list == Contract[s]
           Hash(v) == [i \in DOMAIN list |-> IF Name(list[i]) = "feeCapsHash" THEN FeeCapsHash(v.feeCaps) ELSE v[list[i]]]
<1>1. s # "uint8"
  BY DEF StructOf, MarketTypes
<1>2. AbiMembers[7] = "bounds" /\ 7 \in DOMAIN AbiMembers
  BY DEF AbiMembers
<1>3. StructHash(s, Names(list), list, act.bounds) = StructHash(s, Names(list), list, other.bounds)
  <2> DEFINE Part(a, m) == IF StructOf(type, m) = "uint8" THEN a[m]
                           ELSE StructHash(StructOf(type, m), Names(Contract[StructOf(type, m)]), Contract[StructOf(type, m)], a[m])
             Parts(a) == [i \in DOMAIN AbiMembers |-> Part(a, AbiMembers[i])]
  <2>1. Parts(act) = Parts(other)
    BY MembersAlike DEF ContractDigest, ActionHash
  <2>2. Parts(act)[7] = Part(act, "bounds") /\ Parts(other)[7] = Part(other, "bounds")
    BY <1>2
  <2>3. Part(act, "bounds") = Part(other, "bounds")
    <3> HIDE DEF Parts, Part
    <3> QED
      BY <2>1, <2>2
  <2> QED
    BY <1>1, <2>3
<1>4. Hash(act.bounds) = Hash(other.bounds)
  BY <1>3 DEF StructHash
<1>5. PICK i \in DOMAIN list : list[i] = "feeCaps"
  BY DEF MembersIn
<1>6. Hash(act.bounds)[i] = FeeCapsHash(act.bounds.feeCaps) /\ Hash(other.bounds)[i] = FeeCapsHash(other.bounds.feeCaps)
  BY <1>5 DEF Name
<1> HIDE DEF Hash
<1> QED
  BY <1>4, <1>6

(* A wallet's signature of one market action stands for no other, of        *)
(* whichever type, under whichever domain, and however the contract came by *)
(* its members: sub-hashes and type string lose nothing.                    *)
THEOREM DigestsDiffer ==
  ASSUME NEW t \in MarketTypes, NEW u \in MarketTypes, NEW d, NEW e, NEW act, NEW other,
         Whole(t, act), WithCaps(t, act), Whole(u, other), WithCaps(u, other),
         WalletDigest(d, t, act) = ContractDigest(e, u, other)
  PROVE  d = e /\ t = u /\ act = other
<1>1. ContractDigest(d, t, act) = ContractDigest(e, u, other)
  BY DigestsAgree DEF PrimaryTypes
<1>2. d = e /\ t = u
  BY <1>1, DigestParts
<1>3. "feeCaps" \in MembersIn(Contract[StructOf(t, "bounds")]) => act.bounds.feeCaps = other.bounds.feeCaps
  BY <1>1, <1>2, CapsHashed, CapsBind DEF WithCaps
<1> QED
  BY <1>1, <1>2, <1>3, DigestBinds

-----------------------------------------------------------------------------
(* BuiltAction: an action on its way.                                       *)

BuiltOf(routes) ==
  Joined(Joined(CommonEnvelope, [bounds |-> Bounds]), [hashes |-> AssembleSubHashes(Bounds, routes)])

LEMMA BuiltMembers ==
  ASSUME NEW routes
  PROVE  /\ BuiltOf(routes) = [m \in MembersIn(AbiMembers) |-> BuiltOf(routes)[m]]
         /\ BuiltOf(routes).bounds = Bounds /\ BuiltOf(routes).hashes = AssembleSubHashes(Bounds, routes)
         /\ BuiltOf(routes).identity = CommonEnvelope.identity
         /\ BuiltOf(routes).freshness = CommonEnvelope.freshness
         /\ BuiltOf(routes).marketParams = CommonEnvelope.marketParams
<1> DEFINE envelope == Joined(CommonEnvelope, [bounds |-> Bounds])
<1>1. DOMAIN CommonEnvelope = {"executionKind", "mevProtectionMode", "mevWaiverBits", "identity", "freshness", "marketParams"}
  BY DEF CommonEnvelope
<1>2. /\ DOMAIN envelope = DOMAIN CommonEnvelope \cup {"bounds"} /\ envelope.bounds = Bounds
      /\ \A m \in DOMAIN CommonEnvelope : envelope[m] = CommonEnvelope[m]
  BY <1>1 DEF Joined
<1> HIDE DEF envelope
<1>3. /\ BuiltOf(routes) = [m \in DOMAIN envelope \cup {"hashes"} |-> BuiltOf(routes)[m]]
      /\ BuiltOf(routes).hashes = AssembleSubHashes(Bounds, routes)
      /\ \A m \in DOMAIN envelope : BuiltOf(routes)[m] = envelope[m]
  BY <1>1, <1>2 DEF BuiltOf, Joined, envelope
<1>4. MembersIn(AbiMembers) = DOMAIN envelope \cup {"hashes"}
  BY <1>1, <1>2 DEF MembersIn, AbiMembers
<1> QED
  BY <1>1, <1>2, <1>3, <1>4

LEMMA EnvelopeWhole ==
  /\ CommonEnvelope.identity = [n \in MembersIn(Contract.ActionIdentity) |-> CommonEnvelope.identity[n]]
  /\ CommonEnvelope.freshness = [n \in MembersIn(Contract.Freshness) |-> CommonEnvelope.freshness[n]]
  /\ CommonEnvelope.marketParams = [n \in MembersIn(Contract.MorphoMarketParams) |-> CommonEnvelope.marketParams[n]]
<1>1. CommonEnvelope.identity = [n \in MembersIn(Contract.ActionIdentity) |-> CommonEnvelope.identity[n]]
  BY DEF CommonEnvelope, Contract, Joined, ContractContext, MembersIn
<1>2. CommonEnvelope.freshness = [n \in MembersIn(Contract.Freshness) |-> CommonEnvelope.freshness[n]]
  BY DEF CommonEnvelope, Contract, Joined, ContractContext, MembersIn
<1>3. CommonEnvelope.marketParams = [n \in MembersIn(Contract.MorphoMarketParams) |-> CommonEnvelope.marketParams[n]]
  BY DEF CommonEnvelope, Contract, Joined, ContractContext, MembersIn
<1> QED
  BY <1>1, <1>2, <1>3

LEMMA HashesWhole ==
  ASSUME NEW b, NEW routes
  PROVE  AssembleSubHashes(b, routes) = [n \in MembersIn(Contract.DigestHashes) |-> AssembleSubHashes(b, routes)[n]]
BY DEF AssembleSubHashes, Contract, Joined, ContractContext, MembersIn

LEMMA BoundsWhole ==
  ASSUME input.type \in PrimaryTypes
  PROVE  Bounds = [n \in MembersIn(Contract[StructOf(input.type, "bounds")]) |-> Bounds[n]]
<1>1. CASE input.type = "Open"
  <2>1. Bounds = DeriveOpenBounds /\ StructOf(input.type, "bounds") = "OpenBounds"
    BY <1>1 DEF Bounds, StructOf
  <2>2. DeriveOpenBounds = [n \in MembersIn(Contract.OpenBounds) |-> DeriveOpenBounds[n]]
    BY DEF DeriveOpenBounds, Contract, Joined, ContractContext, ContractBounds, MembersIn
  <2> QED
    BY <2>1, <2>2
<1>2. CASE input.type = "Rebalance"
  <2>1. Bounds = DeriveRebalanceBounds /\ StructOf(input.type, "bounds") = "RebalanceBounds"
    BY <1>2 DEF Bounds, StructOf
  <2>2. DeriveRebalanceBounds = [n \in MembersIn(Contract.RebalanceBounds) |-> DeriveRebalanceBounds[n]]
    BY DEF DeriveRebalanceBounds, Contract, Joined, ContractContext, ContractBounds, MembersIn
  <2> QED
    BY <2>1, <2>2
<1>3. CASE input.type = "Exit"
  <2>1. Bounds = DeriveExitBounds /\ StructOf(input.type, "bounds") = "ExitBounds"
    BY <1>3 DEF Bounds, StructOf
  <2>2. DeriveExitBounds = [n \in MembersIn(Contract.ExitBounds) |-> DeriveExitBounds[n]]
    <3>1. MembersIn(Contract.ExitBounds) = {"minRepayment", "maxCollateralSold", "maxSlippageBps",
             "maxCurvePositionShareBps", "maxMorphoUtilizationImpactBps", "feeCaps", "repayOnly", "acceptsThirdPartyRepay"}
      BY DEF Contract, Joined, ContractContext, ContractBounds, MembersIn
    <3>2. DOMAIN DeriveExitBounds = {"minRepayment", "maxCollateralSold", "maxSlippageBps",
             "maxCurvePositionShareBps", "maxMorphoUtilizationImpactBps", "feeCaps", "repayOnly", "acceptsThirdPartyRepay"}
      BY DEF DeriveExitBounds
    <3>3. DeriveExitBounds = [n \in DOMAIN DeriveExitBounds |-> DeriveExitBounds[n]]
      BY DEF DeriveExitBounds
    <3> QED
      BY <3>1, <3>2, <3>3
  <2> QED
    BY <2>1, <2>2
<1>4. CASE input.type = "ForceExit"
  <2>1. Bounds = DeriveForceExitBounds /\ StructOf(input.type, "bounds") = "ForceExitBounds"
    BY <1>4 DEF Bounds, StructOf
  <2>2. DeriveForceExitBounds = [n \in MembersIn(Contract.ForceExitBounds) |-> DeriveForceExitBounds[n]]
    BY DEF DeriveForceExitBounds, Contract, Joined, ContractContext, ContractBounds, MembersIn
  <2> QED
    BY <2>1, <2>2
<1>5. CASE input.type = "Revoke"
  <2>1. Bounds = RevokeBounds /\ StructOf(input.type, "bounds") = "RevokeBounds"
    BY <1>5 DEF Bounds, StructOf
  <2>2. RevokeBounds = [n \in MembersIn(Contract.RevokeBounds) |-> RevokeBounds[n]]
    BY DEF RevokeBounds, Contract, Joined, ContractContext, ContractBounds, MembersIn
  <2> QED
    BY <2>1, <2>2
<1>6. CASE input.type = "AutomationExec"
  <2>1. Bounds = AutomationBounds /\ StructOf(input.type, "bounds") = "AutomationBounds"
    BY <1>6 DEF Bounds, StructOf
  <2>2. AutomationBounds = [n \in MembersIn(Contract.AutomationBounds) |-> AutomationBounds[n]]
    BY DEF AutomationBounds, Contract, Joined, ContractContext, ContractBounds, MembersIn
  <2> QED
    BY <2>1, <2>2
<1> QED
  BY <1>1, <1>2, <1>3, <1>4, <1>5, <1>6 DEF PrimaryTypes, MarketTypes

LEMMA BuiltWhole == ASSUME input.type \in PrimaryTypes, NEW routes PROVE Whole(input.type, BuiltOf(routes))
<1> DEFINE A == BuiltOf(routes)
           OK(m) == A[m] = [n \in MembersIn(Contract[StructOf(input.type, m)]) |-> A[m][n]]
<1>1. OK("identity") /\ OK("freshness") /\ OK("marketParams")
  BY BuiltMembers, EnvelopeWhole DEF StructOf
<1>2. OK("hashes")
  BY BuiltMembers, HashesWhole DEF StructOf
<1>3. OK("bounds")
  BY BuiltMembers, BoundsWhole
<1>4. ASSUME NEW m \in MembersIn(AbiMembers), StructOf(input.type, m) # "uint8"
      PROVE  m \in {"identity", "freshness", "marketParams", "hashes", "bounds"}
  BY <1>4 DEF StructOf
<1> HIDE DEF A, OK
<1>5. \A m \in MembersIn(AbiMembers) : StructOf(input.type, m) # "uint8" => OK(m)
  BY <1>1, <1>2, <1>3, <1>4
<1> QED
  BY <1>5, BuiltMembers DEF A, OK, Whole
(* A keeper changes no fee cap: they are not numbers at the top level.      *)
LEMMA CapsCarried ==
  ASSUME input.type \in MarketTypes, NEW act,
         NEW c \in Tampered(EncodeAction(input.type, act)) \cup {EncodeAction(input.type, act)},
         "feeCaps" \in MembersIn(Contract[StructOf(input.type, "bounds")])
  PROVE  ContractReads(input.type, c).bounds.feeCaps = act.bounds.feeCaps
<1> DEFINE encoded == EncodeAction(input.type, act)
           s == StructOf(input.type, "bounds")
           list == Contract[s]
           p == CHOOSE i \in DOMAIN list : list[i] = "feeCaps"
<1>1. s # "uint8" /\ Abi[s] = list
  <2>1. s # "uint8"
    BY DEF StructOf, MarketTypes
  <2> QED
    BY <2>1, MarketStructs
<1>2. p \in DOMAIN list /\ list[p] = "feeCaps"
  <2>1. \E i \in DOMAIN list : list[i] = "feeCaps"
    BY DEF MembersIn
  <2> HIDE DEF list
  <2> QED
    BY <2>1
<1>3. DOMAIN AbiMembers = 1 .. 8 /\ AbiMembers[7] = "bounds" /\ \A i \in 1 .. 8 : AbiMembers[i] = "bounds" => i = 7
  BY DEF AbiMembers
<1>4. ContractReads(input.type, c).bounds.feeCaps = c[7][p]
  <2> DEFINE at == AtNames(AbiMembers, c)
             Read(m) == IF StructOf(input.type, m) = "uint8" THEN at[m] ELSE AtNames(Contract[StructOf(input.type, m)], at[m])
  <2>1. DOMAIN at = MembersIn(AbiMembers) /\ "bounds" \in MembersIn(AbiMembers)
    BY <1>3 DEF AtNames, MembersIn
  <2>2. at["bounds"] = c[7]
    <3>1. (CHOOSE i \in DOMAIN AbiMembers : AbiMembers[i] = "bounds") = 7
      BY <1>3
    <3>2. at["bounds"] = c[CHOOSE i \in DOMAIN AbiMembers : AbiMembers[i] = "bounds"]
      BY <2>1 DEF AtNames, MembersIn
    <3> QED
      BY <3>1, <3>2
  <2>3. ContractReads(input.type, c) = [m \in MembersIn(AbiMembers) |-> Read(m)]
    BY <2>1, MembersAlike DEF ContractReads, ReadAction
  <2>4. Read("bounds") = AtNames(list, c[7])
    BY <1>1, <2>2
  <2>5. AtNames(list, c[7])["feeCaps"] = c[7][p]
    BY DEF AtNames, MembersIn
  <2> HIDE DEF Read, at
  <2> QED
    BY <2>1, <2>3, <2>4, <2>5
<1>5. /\ DOMAIN encoded = 1 .. 8 /\ encoded[7] = Positions(list, act.bounds)
  BY <1>1, <1>3 DEF EncodeAction
<1>6. encoded[7][p] = act.bounds.feeCaps /\ DOMAIN encoded[7] = DOMAIN list
  BY <1>2, <1>5 DEF Positions
<1>7. c[7][p] = encoded[7][p]
  <2> DEFINE numbers == {i \in DOMAIN list : list[i] \notin {"feeCaps", "repayOnly", "acceptsThirdPartyRepay"}}
             switches == DOMAIN list \ (numbers \cup {j \in DOMAIN list : list[j] = "feeCaps"})
  <2>1. p \notin numbers /\ p \notin switches
    BY <1>2
  <2> HIDE DEF encoded, list, p, numbers, switches
  <2>2. \/ c = encoded
        \/ c \in {[encoded EXCEPT ![i] = @ + 1] : i \in 3 .. 5}
        \/ c \in {[encoded EXCEPT ![7] = [@ EXCEPT ![i] = @ + 1]] : i \in numbers}
        \/ c \in {[encoded EXCEPT ![7] = [@ EXCEPT ![i] = ~@]] : i \in switches}
        \/ c \in {[encoded EXCEPT ![1] = [@ EXCEPT ![10] = "1"]], [encoded EXCEPT ![8] = [@ EXCEPT ![1] = <<"other">>]]}
    BY <1>1 DEF Tampered, encoded, list, numbers, switches, s
  <2>3. CASE c = encoded
    BY <2>3
  <2>4. CASE c \in {[encoded EXCEPT ![i] = @ + 1] : i \in 3 .. 5}
    BY <2>4, <1>5
  <2>5. CASE c \in {[encoded EXCEPT ![7] = [@ EXCEPT ![i] = @ + 1]] : i \in numbers}
    BY <2>5, <1>5, <1>6, <1>2, <2>1
  <2>6. CASE c \in {[encoded EXCEPT ![7] = [@ EXCEPT ![i] = ~@]] : i \in switches}
    BY <2>6, <1>5, <1>6, <1>2, <2>1
  <2>7. CASE c \in {[encoded EXCEPT ![1] = [@ EXCEPT ![10] = "1"]], [encoded EXCEPT ![8] = [@ EXCEPT ![1] = <<"other">>]]}
    BY <2>7, <1>5
  <2> QED
    BY <2>2, <2>3, <2>4, <2>5, <2>6, <2>7
<1> QED
  BY <1>4, <1>6, <1>7
(* The action is the one that its inputs and some quoted routes determine;  *)
(* what is delivered is its calldata or a tampered one; and it ends as the  *)
(* executor's checks of what it reads have it.                              *)
Quoted(act) ==
  \E answers \in SUBSET {"curve", "uniswap"}, received \in {0, input.collateral} :
    LET routes == DeriveRoutes(Bounds, answers, received) IN
    /\ act = BuiltOf(routes)
    /\ ~(RequiresQuoteRoutes(Bounds) /\ routes = <<>> /\ HasQuoterConfigured)
RunsThrough(act, sharePrice) ==
  /\ Authorized(act)
  /\ input.type = "Rebalance" => OneMode(act.bounds)
  /\ input.type = "Open" => Opens(act.bounds, sharePrice)
BuiltInv ==
  /\ BuiltTypes /\ input.type \in PrimaryTypes
  /\ built.at \in {"derive", "assemble", "thrown", "assembled", "delivered", "executed", "reverted"}
  /\ built.at = "assemble" => built.action = Joined(CommonEnvelope, [bounds |-> Bounds])
  /\ built.at = "assembled" \/ Reached => Quoted(built.action)
  /\ Reached =>
       /\ input.type \in MarketTypes
       /\ LET calldata == EncodeAction(input.type, built.action) IN
          built.delivered \in Tampered(calldata) \cup {calldata}
  /\ built.at \in {"executed", "reverted"} =>
       /\ built.sharePrice \in SharePrices /\ built.sharePrice >= venue.sharePrice
       /\ built.at = "executed" <=> RunsThrough(ContractReads(input.type, built.delivered), built.sharePrice)

LEMMA BuiltStarts == BuiltInit => BuiltInv
<1> SUFFICES ASSUME BuiltInit PROVE BuiltInv
  OBVIOUS
<1>1. BuiltTypes /\ input.type \in PrimaryTypes
  <2>1. input \in [type : PrimaryTypes, collateral : Collaterals, leverage : Leverages, slippage : Slippages,
                   repayOnly : BOOLEAN]
    BY DEF BuiltInit
  <2>2. venue \in [sharePrice : SharePrices, feeTier : FeeTiers, curve : BOOLEAN, uniswap : BOOLEAN]
    BY DEF BuiltInit
  <2>3. Collaterals \subseteq Nat /\ Leverages \subseteq Nat /\ Slippages \subseteq 0 .. BPS
    BY BuiltAssumption DEF BuiltAssumption
  <2>4. SharePrices \subseteq Nat \ {0} /\ FeeTiers \subseteq Nat
    BY BuiltAssumption DEF BuiltAssumption
  <2>5. input.type \in PrimaryTypes /\ input.collateral \in Nat /\ input.leverage \in Nat /\ input.slippage \in 0 .. BPS
    BY <2>1, <2>3
  <2>6. venue.sharePrice \in Nat \ {0} /\ venue.feeTier \in Nat
    BY <2>2, <2>4
  <2> QED
    BY <2>5, <2>6 DEF BuiltTypes
<1>2. built = [at |-> "derive"]
  BY DEF BuiltInit
<1>3. built.at = "derive"
  BY <1>2
<1> QED
  BY <1>1, <1>3 DEF BuiltInv, Reached

(* An action is derived from inputs and a venue that no step changes.       *)
LEMMA Steady ==
  ASSUME UNCHANGED <<input, venue>>
  PROVE  /\ CommonEnvelope' = CommonEnvelope /\ Bounds' = Bounds
         /\ \A routes : BuiltOf(routes)' = BuiltOf(routes)
         /\ \A answers, received : DeriveRoutes(Bounds, answers, received)' = DeriveRoutes(Bounds, answers, received)
         /\ RequiresQuoteRoutes(Bounds)' = RequiresQuoteRoutes(Bounds) /\ HasQuoterConfigured' = HasQuoterConfigured
         /\ \A calldata : Tampered(calldata)' = Tampered(calldata)
<1>1. CommonEnvelope' = CommonEnvelope
  BY DEF CommonEnvelope
<1>2. Bounds' = Bounds
  BY DEF Bounds, DeriveOpenBounds, DeriveRebalanceBounds, DeriveExitBounds, DeriveForceExitBounds, Borrowing, FeeCaps,
         ConvertToShares
<1>3. ASSUME NEW b, NEW routes PROVE AssembleSubHashes(b, routes)' = AssembleSubHashes(b, routes)
  BY DEF AssembleSubHashes, FeeCapHashFor
<1>4. \A routes : BuiltOf(routes)' = BuiltOf(routes)
  BY <1>1, <1>2, <1>3 DEF BuiltOf
<1> QED
  BY <1>1, <1>2, <1>4 DEF DeriveRoutes, OpenRoutes, RebalanceRoutes, SellRoutes, ExitRoutes, RequiresQuoteRoutes, HasQuoterConfigured, Tampered
LEMMA SteadyChecks ==
  ASSUME UNCHANGED <<input, venue>>
  PROVE  /\ BuiltTypes' = BuiltTypes
         /\ \A x : Quoted(x)' = Quoted(x)
         /\ \A b, p : Opens(b, p)' = Opens(b, p)
<1>1. BuiltTypes' = BuiltTypes
  BY DEF BuiltTypes
<1>2. ASSUME NEW x PROVE Quoted(x)' = Quoted(x)
  BY Steady DEF Quoted
<1>3. \A b, p : Opens(b, p)' = Opens(b, p)
  BY DEF Opens, FlashPrincipal
<1> QED
  BY <1>1, <1>2, <1>3

LEMMA DerivedParts ==
  LET derived == Joined(CommonEnvelope, [bounds |-> Bounds]) IN
  /\ derived.bounds = Bounds
  /\ \A routes : Joined(derived, [hashes |-> AssembleSubHashes(Bounds, routes)]) = BuiltOf(routes)
<1>1. "bounds" \notin DOMAIN CommonEnvelope
  BY DEF CommonEnvelope
<1>2. Joined(CommonEnvelope, [bounds |-> Bounds]).bounds = Bounds
  BY <1>1 DEF Joined
<1> QED
  BY <1>2 DEF BuiltOf

LEMMA DeriveKeeps == BuiltInv /\ DeriveParams => BuiltInv'
<1> SUFFICES ASSUME BuiltInv, DeriveParams PROVE BuiltInv'
  OBVIOUS
<1>1. UNCHANGED <<input, venue>> /\ built' = [at |-> "assemble", action |-> Joined(CommonEnvelope, [bounds |-> Bounds])]
  BY DEF DeriveParams
<1>2. built'.at = "assemble" /\ built'.action = Joined(CommonEnvelope', [bounds |-> Bounds'])
  BY <1>1, Steady
<1>3. BuiltTypes' /\ (input.type \in PrimaryTypes)'
  BY <1>1, SteadyChecks DEF BuiltInv
<1> QED
  BY <1>2, <1>3 DEF BuiltInv, Reached

LEMMA AssembleKeeps == BuiltInv /\ Assemble => BuiltInv'
<1> SUFFICES ASSUME BuiltInv, Assemble PROVE BuiltInv'
  OBVIOUS
<1>1. UNCHANGED <<input, venue>> /\ built.action = Joined(CommonEnvelope, [bounds |-> Bounds])
  BY DEF Assemble, BuiltInv
<1>2. BuiltTypes' /\ (input.type \in PrimaryTypes)'
  BY <1>1, SteadyChecks DEF BuiltInv
<1>3. built.action.bounds = Bounds
  BY <1>1, DerivedParts
<1>4. PICK answers \in SUBSET {"curve", "uniswap"}, received \in {0, input.collateral} :
        LET routes == DeriveRoutes(Bounds, answers, received) IN
        IF RequiresQuoteRoutes(Bounds) /\ routes = <<>> /\ HasQuoterConfigured
        THEN built' = [at |-> "thrown"]
        ELSE built' = [at |-> "assembled", action |-> Joined(built.action, [hashes |-> AssembleSubHashes(Bounds, routes)])]
  BY <1>3 DEF Assemble
<1> DEFINE routes == DeriveRoutes(Bounds, answers, received)
<1>5. CASE RequiresQuoteRoutes(Bounds) /\ routes = <<>> /\ HasQuoterConfigured
  <2>1. built'.at = "thrown"
    BY <1>4, <1>5
  <2> QED
    BY <1>2, <2>1 DEF BuiltInv, Reached
<1>6. CASE ~(RequiresQuoteRoutes(Bounds) /\ routes = <<>> /\ HasQuoterConfigured)
  <2>1. built' = [at |-> "assembled", action |-> BuiltOf(routes)]
    BY <1>1, <1>4, <1>6, DerivedParts
  <2>2. Quoted(BuiltOf(routes))
    BY <1>6 DEF Quoted
  <2>3. built'.at = "assembled" /\ Quoted(built'.action)
    BY <2>1, <2>2
  <2>4. Quoted(built.action)'
    BY <1>1, <2>3, SteadyChecks
  <2> QED
    BY <1>2, <2>3, <2>4 DEF BuiltInv, Reached
<1> QED
  BY <1>5, <1>6

LEMMA DeliverKeeps == BuiltInv /\ Deliver => BuiltInv'
<1> SUFFICES ASSUME BuiltInv, Deliver PROVE BuiltInv'
  OBVIOUS
<1>1. UNCHANGED <<input, venue>> /\ input.type \in MarketTypes /\ Quoted(built.action)
  BY DEF Deliver, BuiltInv
<1>2. BuiltTypes' /\ (input.type \in PrimaryTypes)' /\ (input.type \in MarketTypes)'
  BY <1>1, SteadyChecks DEF BuiltInv
<1> DEFINE calldata == EncodeAction(input.type, built.action)
<1>3. PICK delivered \in Tampered(calldata) \cup {calldata} :
        built' = [at |-> "delivered", action |-> built.action, delivered |-> delivered]
  BY DEF Deliver
<1>4. built'.at = "delivered" /\ built'.action = built.action /\ built'.delivered = delivered
  BY <1>3
<1>5. Quoted(built.action)'
  BY <1>1, <1>4, SteadyChecks
<1>6. (built.delivered \in Tampered(EncodeAction(input.type, built.action)) \cup {EncodeAction(input.type, built.action)})'
  BY <1>1, <1>3, <1>4, Steady
<1> QED
  BY <1>2, <1>4, <1>5, <1>6 DEF BuiltInv, Reached

LEMMA RunKeeps == BuiltInv /\ RunAction => BuiltInv'
<1> SUFFICES ASSUME BuiltInv, RunAction PROVE BuiltInv'
  OBVIOUS
<1>1. UNCHANGED <<input, venue>> /\ built.at = "delivered"
  BY DEF RunAction
<1>2. BuiltTypes' /\ (input.type \in PrimaryTypes)' /\ (input.type \in MarketTypes)'
  BY <1>1, SteadyChecks DEF BuiltInv, Reached
<1> DEFINE read == ContractReads(input.type, built.delivered)
<1>3. PICK p \in {q \in SharePrices : q >= venue.sharePrice} :
        built' = [at |-> IF RunsThrough(read, p) THEN "executed" ELSE "reverted", action |-> built.action,
                  delivered |-> built.delivered, sharePrice |-> p]
  BY DEF RunAction, RunsThrough
<1>4. /\ built'.action = built.action /\ built'.delivered = built.delivered /\ built'.sharePrice = p
      /\ built'.at = IF RunsThrough(read, p) THEN "executed" ELSE "reverted"
  BY <1>3
<1>5. Quoted(built.action)'
  BY <1>1, <1>4, SteadyChecks DEF BuiltInv, Reached
<1>6. (built.delivered \in Tampered(EncodeAction(input.type, built.action)) \cup {EncodeAction(input.type, built.action)})'
  BY <1>1, <1>4, Steady DEF BuiltInv, Reached
<1>7. RunsThrough(ContractReads(input.type, built.delivered), built.sharePrice)' = RunsThrough(read, p)
  BY <1>1, <1>4, SteadyChecks DEF RunsThrough, Authorized, SignedDigest, TypedMessage
<1>8. (built.sharePrice \in SharePrices /\ built.sharePrice >= venue.sharePrice)'
  BY <1>1, <1>3, <1>4
<1>9. CASE RunsThrough(read, p)
  <2>1. built'.at = "executed"
    BY <1>4, <1>9
  <2> QED
    BY <1>2, <1>5, <1>6, <1>7, <1>8, <1>9, <2>1 DEF BuiltInv, Reached
<1>10. CASE ~RunsThrough(read, p)
  <2>1. built'.at = "reverted"
    BY <1>4, <1>10
  <2> QED
    BY <1>2, <1>5, <1>6, <1>7, <1>8, <1>10, <2>1 DEF BuiltInv, Reached
<1> QED
  BY <1>9, <1>10
LEMMA BuiltKeeps == BuiltInv /\ [BuiltNext]_builtVars => BuiltInv'
<1> SUFFICES ASSUME BuiltInv, [BuiltNext]_builtVars PROVE BuiltInv'
  OBVIOUS
<1>1. CASE UNCHANGED builtVars
  <2>1. UNCHANGED <<input, venue>> /\ built' = built
    BY <1>1 DEF builtVars
  <2>2. /\ Quoted(built.action)' = Quoted(built.action) /\ BuiltTypes' = BuiltTypes
        /\ (Joined(CommonEnvelope, [bounds |-> Bounds]))' = Joined(CommonEnvelope, [bounds |-> Bounds])
        /\ Tampered(EncodeAction(input.type, built.action))' = Tampered(EncodeAction(input.type, built.action))
    BY <2>1, Steady, SteadyChecks
  <2>3. RunsThrough(ContractReads(input.type, built.delivered), built.sharePrice)'
          = RunsThrough(ContractReads(input.type, built.delivered), built.sharePrice)
    BY <2>1, SteadyChecks DEF RunsThrough, Authorized, SignedDigest, TypedMessage
  <2> QED
    BY <2>1, <2>2, <2>3 DEF BuiltInv, Reached
<1> QED
  BY <1>1, DeriveKeeps, AssembleKeeps, DeliverKeeps, RunKeeps DEF BuiltNext

BuiltSpec == BuiltInit /\ [][BuiltNext]_builtVars

LEMMA BuiltInductive == BuiltSpec => []BuiltInv
BY BuiltStarts, BuiltKeeps, PTL DEF BuiltSpec

LEMMA AllMembers ==
  ASSUME BuiltInv, built.at = "assembled" \/ Reached
  PROVE  Whole(input.type, built.action)
<1>1. PICK routes : built.action = BuiltOf(routes)
  BY DEF BuiltInv, Quoted
<1> QED
  BY <1>1, BuiltWhole DEF BuiltInv

LEMMA InvTyped == BuiltInv => BuiltTypeOK
<1> SUFFICES ASSUME BuiltInv, built.at \notin {"derive", "assemble", "thrown"},
                    NEW m \in DOMAIN built.action \ {"executionKind", "mevProtectionMode", "mevWaiverBits"}
             PROVE  {Name(n) : n \in DOMAIN built.action[m]}
                      = {Preimages[StructOf(input.type, m)][i] : i \in DOMAIN Preimages[StructOf(input.type, m)]}
  BY DEF BuiltTypeOK, BuiltInv
<1> DEFINE list == Contract[StructOf(input.type, m)]
<1>1. Whole(input.type, built.action)
  BY AllMembers DEF BuiltInv, Reached
<1>2. m \in MembersIn(AbiMembers)
  BY <1>1 DEF Whole
<1>3. StructOf(input.type, m) # "uint8"
  <2>1. m \in {"identity", "freshness", "marketParams", "bounds", "hashes"}
    BY <1>2 DEF MembersIn, AbiMembers
  <2>2. input.type \in PrimaryTypes
    BY DEF BuiltInv
  <2> QED
    BY <2>1, <2>2 DEF StructOf, PrimaryTypes, MarketTypes
<1>4. DOMAIN built.action[m] = MembersIn(list)
  BY <1>1, <1>2, <1>3 DEF Whole
<1>5. Preimages[StructOf(input.type, m)] = Names(list)
  BY <1>3, StructsNamed, ContractListed DEF BuiltInv
<1>6. {Name(n) : n \in MembersIn(list)} = {Names(list)[i] : i \in DOMAIN Names(list)}
  <2> HIDE DEF list
  <2> QED
    BY DEF MembersIn, Names
<1> QED
  BY <1>4, <1>5, <1>6

LEMMA InvExecuted == BuiltInv => ExecutedAsSigned
<1> SUFFICES ASSUME BuiltInv, built.at = "executed"
             PROVE  ContractReads(input.type, built.delivered) = built.action
  <2>1. ASSUME ContractReads(input.type, built.delivered) = built.action, built.at = "executed", BuiltInv
        PROVE  [built.action EXCEPT !.bounds = built.action.bounds] = built.action
    <3>1. Whole(input.type, built.action)
      BY <2>1, AllMembers DEF Reached
    <3> QED
      BY <3>1 DEF Whole
  <2> QED
    BY <2>1 DEF ExecutedAsSigned
<1> DEFINE read == ContractReads(input.type, built.delivered)
           domain == DomainSeparator(Authorizer(input.type))
<1>1. input.type \in MarketTypes /\ input.type \in PrimaryTypes
  BY DEF BuiltInv, Reached
<1>2. Whole(input.type, built.action) /\ Whole(input.type, read)
  BY <1>1, AllMembers, ReadWhole DEF Reached
<1>3. ContractDigest(domain, input.type, read) = ContractDigest(domain, input.type, built.action)
  <2>1. Authorized(read)
    BY DEF BuiltInv, RunsThrough
  <2>2. SignedDigest(built.action) = WalletDigest(domain, input.type, built.action)
    BY <1>1, DomainsAgree DEF SignedDigest, TypedMessage, MarketTypes
  <2> QED
    BY <1>1, <2>1, <2>2, DigestsAgree DEF Authorized
<1>4. "feeCaps" \in MembersIn(Contract[StructOf(input.type, "bounds")]) => read.bounds.feeCaps = built.action.bounds.feeCaps
  BY <1>1, CapsCarried DEF BuiltInv, Reached
<1> QED
  BY <1>1, <1>2, <1>3, <1>4, DigestBinds

LEMMA InvShown == BuiltInv => ShownIsExecuted
BY ShownAlike DEF BuiltInv, ShownIsExecuted

LEMMA InvQuoted == BuiltInv => SignedIsQuoted
<1> SUFFICES ASSUME BuiltInv, built.at = "assembled", venue.curve \/ venue.uniswap,
                    \/ input.type = "Open"
                    \/ input.type = "Rebalance" /\ built.action.bounds.maxDebtIncrease > 0
                    \/ input.type = "Exit" /\ ~built.action.bounds.repayOnly
                    \/ input.type = "ForceExit"
             PROVE  built.action.hashes.quoteHash # <<>>
  BY DEF SignedIsQuoted
<1>1. PICK routes : built.action = BuiltOf(routes) /\ ~(RequiresQuoteRoutes(Bounds) /\ routes = <<>> /\ HasQuoterConfigured)
  BY DEF BuiltInv, Quoted
<1>2. built.action.bounds = Bounds /\ built.action.hashes = AssembleSubHashes(Bounds, routes)
  BY <1>1, BuiltMembers
<1>3. RequiresQuoteRoutes(Bounds) /\ HasQuoterConfigured
  BY <1>2 DEF RequiresQuoteRoutes, HasQuoterConfigured, MarketTypes
<1>4. routes # <<>>
  BY <1>1, <1>3
<1> QED
  BY <1>2, <1>4 DEF AssembleSubHashes, HashQuoteRoutes

LEMMA InvOneAction == BuiltInv => OneAction
BY InvTyped, InvExecuted, InvShown, InvQuoted, DigestedOnce DEF OneAction, BuiltInv

(* For every input, venue, quote and delivery: the SDK, the wallet and      *)
(* LoopV1Hashing compute one digest, although each lists the members of     *)
(* every struct for itself; what an executor executes is member by member   *)
(* the action signed, whatever a keeper made of encodeExecutorCalldata's    *)
(* output; decodeCalldata shows it; and assembleAuthorization lets nothing  *)
(* that trades be signed without a quote.                                   *)
THEOREM BuiltIsOneAction == BuiltSpec => []OneAction
BY InvOneAction, BuiltInductive, PTL

(* For every amount, leverage, slippage, fee tier and price, the bounds     *)
(* buildOpenParams derives are ones that executeOpen's flash loan, deposit  *)
(* and fee check meet, as OpenFeasible has it: eight roundings do not       *)
(* outweigh a basis point of slippage once Dust is borrowed.                *)
THEOREM OpenMeetsItsBounds == BuiltSpec => []BoundsSuffice
<1>1. BuiltInv => BoundsSuffice
  BY OpenBoundsSuffice DEF BuiltInv
<1> QED
  BY <1>1, BuiltInductive, PTL

LEMMA InvFeasible == BuiltInv => OpenFeasible
<1> SUFFICES ASSUME BuiltInv, built.at \in {"executed", "reverted"}, input.type = "Open", Untampered,
                    WithinSlippage(built.sharePrice)
             PROVE  built.at = "executed"
  BY DEF OpenFeasible
<1>1. input.type \in MarketTypes /\ input.type \in PrimaryTypes
  BY DEF MarketTypes, PrimaryTypes
<1>2. ContractReads(input.type, built.delivered) = built.action
  <2>1. Whole(input.type, built.action)
    BY AllMembers DEF Reached
  <2> QED
    BY <1>1, <2>1, EncodedIsRead DEF Untampered
<1>3. Authorized(built.action)
  BY <1>1, DigestsAgree, DomainsAgree DEF Authorized, SignedDigest, TypedMessage
<1>4. Opens(built.action.bounds, built.sharePrice)
  <2>1. built.action.bounds = DeriveOpenBounds
    <3>1. PICK routes : built.action = BuiltOf(routes)
      BY DEF BuiltInv, Quoted, Reached
    <3> QED
      BY <3>1, BuiltMembers DEF Bounds
  <2>2. built.sharePrice \in SharePrices /\ built.sharePrice >= venue.sharePrice
    BY DEF BuiltInv
  <2> QED
    BY <2>1, <2>2, OpenBoundsSuffice DEF BuiltInv, BoundsSuffice
<1> QED
  BY <1>2, <1>3, <1>4 DEF BuiltInv, RunsThrough

(* For every constant: an open the SDK derived, signed and delivered as     *)
(* encoded is executed, not reverted, whatever the fee tier up to FlashFee  *)
(* and the vault's gain that the slippage covers: executeOpen reads the     *)
(* bounds that were signed and its flash loan, deposit and fee meet them.   *)
THEOREM OpensAreFeasible == BuiltSpec => []OpenFeasible
BY InvFeasible, BuiltInductive, PTL

-----------------------------------------------------------------------------
(* The components beside each other (MCClient).                             *)

signState == signVars
flowState == flowVars
gateState == gateVars
evidenceState == evidenceVars

(* What is proved of a component alone holds in the instance that composes  *)
(* them: a part not examined stays in one of its own initial states.        *)
THEOREM PartsFollowTheirSpecs == Spec => SignSpec /\ FlowSpec /\ GateSpec /\ EvidenceSpec
<1>1. Init => SignInit /\ FlowInit /\ GateInit
  BY DEF Init
<1>2. Init => EvidenceInit
  <2> SUFFICES ASSUME Init PROVE EvidenceInit
    OBVIOUS
  <2>1. CASE part = "evidence"
    BY <2>1 DEF Init
  <2>2. CASE part # "evidence"
    <3>1. registry = ParRegistry /\ healthy = SourceIds /\ bundle = Idle
      BY <2>2 DEF Init
    <3>2. [id \in SourceIds |-> 0] \in [SourceIds -> Addresses]
      BY EvidenceAssumption DEF EvidenceAssumption
    <3> QED
      BY <3>1, <3>2 DEF EvidenceInit, ParRegistry
  <2> QED
    BY <2>1, <2>2
<1>3. [Next]_vars => [SignNext]_signState
  BY DEF Next, vars, Race, Drift, signState
<1>4. [Next]_vars => [FlowNext]_flowState
  BY DEF Next, vars, flowState
<1>5. [Next]_vars => [GateNext]_gateState
  BY DEF Next, vars, Builder, gateState
<1>6. [Next]_vars => [EvidenceNext]_evidenceState
  BY DEF Next, vars, Gather, evidenceState
<1> QED
  BY <1>1, <1>2, <1>3, <1>4, <1>5, <1>6, PTL
  DEF Spec, SignSpec, signState, FlowSpec, flowState, GateSpec, gateState, EvidenceSpec, evidenceState

(* An action's invariant asks nothing of its first state but what the one   *)
(* that is not examined has too.                                            *)
LEMMA BuiltBeside == Spec => []BuiltInv
<1>1. Init => BuiltInv
  <2> SUFFICES ASSUME Init PROVE BuiltInv
    OBVIOUS
  <2>1. CASE part = "built"
    BY <2>1, BuiltStarts DEF Init
  <2>2. CASE part # "built"
    <3>1. input = FirstInput /\ venue = ParVenue /\ built = [at |-> "derive"]
      BY <2>2 DEF Init
    <3>2. input.type = "Open" /\ input.collateral = 7 /\ input.leverage = 10000 /\ input.slippage = 0
      BY <3>1 DEF FirstInput
    <3>3. venue.sharePrice = 1000 /\ venue.feeTier = 5 /\ built.at = "derive"
      BY <3>1 DEF ParVenue
    <3>4. BuiltTypes /\ input.type \in PrimaryTypes
      BY <3>2, <3>3, SMT DEF BuiltTypes, BPS, PrimaryTypes, MarketTypes
    <3> QED
      BY <3>3, <3>4 DEF BuiltInv, Reached
  <2> QED
    BY <2>1, <2>2
<1>2. [Next]_vars => [BuiltNext]_builtVars
  BY DEF Next, vars, Assembly, builtVars
<1>3. BuiltInv /\ [Next]_vars => BuiltInv'
  BY <1>2, BuiltKeeps
<1> QED
  BY <1>1, <1>3, PTL DEF Spec

LEMMA FeedBeside == Spec => FeedDiscipline
<1> DEFINE FeedHere == part = "feed" => FeedInv
<1>1. Init => FeedHere
  BY FeedStarts DEF Init
<1>2. [Next]_vars => part' = part /\ [FeedNext]_feedVars /\ (part # "feed" => UNCHANGED feedVars)
  BY DEF Next, vars
<1>3. FeedHere /\ [Next]_vars => FeedHere'
  BY <1>2, FeedKeeps
<1>4. FeedHere /\ [Next]_vars => [Disciplined]_feedVars
  BY <1>2, FeedSteps
<1> QED
  BY <1>1, <1>3, <1>4, PTL DEF Spec, FeedDiscipline, Disciplined

(* One signature per order, the form as signed, evidence the chain takes, a *)
(* reviewed consent, one action from its inputs to its execution, an open   *)
(* that its bounds let pass and a feed that stays silent once cancelled:    *)
(* all hold where the components stand side by side.                        *)
COROLLARY ClientKeepsItsPromises ==
  Spec => /\ []SignedOnce /\ []FormIsSigned /\ []EvidenceHolds /\ []ReviewedConsent
          /\ []OneAction /\ []OpenFeasible
          /\ []PassedMeansAccepted /\ FeedDiscipline
<1>1. Spec => []SignedOnce /\ []FormIsSigned /\ []EvidenceHolds /\ []ReviewedConsent /\ []PassedMeansAccepted
  BY PartsFollowTheirSpecs, OrdersSignedOnce, ButtonSignsTheForm, EvidenceComplete, ConsentReviewed,
     PassedIsAccepted, PTL
<1>2. Spec => []OneAction /\ []OpenFeasible
  BY BuiltBeside, InvOneAction, InvFeasible, PTL
<1> QED
  BY <1>1, <1>2, FeedBeside
=============================================================================
