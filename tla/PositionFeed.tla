---------------------------- MODULE PositionFeed ----------------------------
(***************************************************************************)
(* sdk/src/live/sdk-impl.ts, subscribePosition: an interval starts a read  *)
(* of the position whether or not the last one has been answered, so reads *)
(* overlap, are answered in any order and may fail; the subscriber cancels *)
(* at any time.                                                            *)
(***************************************************************************)
EXTENDS Naturals, Sequences

CONSTANTS
  Holdings, Debts,   \* what a position may hold
  MaxPolls,            \* bound: reads under way
  MaxBlocks,           \* bound: blocks
  NoRisk

ASSUME FeedAssumption ==
  MaxPolls \in Nat \ {0} /\ MaxBlocks \in Nat \ {0} /\ NoRisk \notin [collateral : Holdings, debt : Debts]

VARIABLES
  history,   \* the position in every block
  polls,     \* the reads under way and the block each is pinned to
  cancelled,
  last,      \* the closure's `last'
  called     \* the subscriber's latest callback, odd ones told from even

feedVars == <<history, polls, cancelled, last, called>>

Balances == [collateral : Holdings, debt : Debts]
Polls == 1 .. MaxPolls
Now == Len(history)

Free == [at |-> "free"]
Pinning == [at |-> "pinning"]
PinnedTo(block) == [at |-> "reading", block |-> block]

Quiet == /\ polls = [i \in Polls |-> Free]
         /\ last = NoRisk /\ called = [risk |-> NoRisk, odd |-> FALSE]
NoSubscription == Quiet /\ cancelled = TRUE
FeedInit ==
  /\ history \in {<<p>> : p \in Balances}
  /\ Quiet /\ cancelled = FALSE

SetPoll(i, state) == polls' = [polls EXCEPT ![i] = state]

(* setInterval, and one tick at once.                                       *)
StartPoll(i) ==
  /\ ~cancelled /\ polls[i] = Free
  /\ SetPoll(i, Pinning)
  /\ UNCHANGED <<history, cancelled, last, called>>

(* getPositionRisk pins the head, then reads position, market and bounds    *)
(* there.                                                                   *)
PinPoll(i) ==
  /\ polls[i] = Pinning
  /\ SetPoll(i, PinnedTo(Now))
  /\ UNCHANGED <<history, cancelled, last, called>>

(* A price that is stale or missing is reported in the risk; the position   *)
(* is there all the same.                                                   *)
GetPositionRisk(block) == history[block]

CollateralChanged(risk) ==  \* mutant of Changed: the debt is not compared
  last = NoRisk \/ last.collateral # risk.collateral
Changed(risk) == last = NoRisk \/ last.collateral # risk.collateral \/ last.debt # risk.debt

CallBack(risk) == last' = risk /\ called' = [risk |-> risk, odd |-> ~called.odd]

(* The answer: not after a cancellation, and only what changed.             *)
UncheckedAnswer(i) ==  \* mutant of AnswerPoll: `cancelled' is not looked at again
  LET risk == GetPositionRisk(polls[i].block) IN
  /\ polls[i].at = "reading"
  /\ SetPoll(i, Free)
  /\ IF Changed(risk) THEN CallBack(risk) ELSE UNCHANGED <<last, called>>
  /\ UNCHANGED <<history, cancelled>>
AnswerPoll(i) ==
  LET risk == GetPositionRisk(polls[i].block) IN
  /\ polls[i].at = "reading"
  /\ SetPoll(i, Free)
  /\ IF ~cancelled /\ Changed(risk) THEN CallBack(risk) ELSE UNCHANGED <<last, called>>
  /\ UNCHANGED <<history, cancelled>>

(* A read that throws is swallowed; the next tick reads again.              *)
FailPoll(i) ==
  /\ polls[i] # Free
  /\ SetPoll(i, Free)
  /\ UNCHANGED <<history, cancelled, last, called>>

Cancel ==
  /\ ~cancelled
  /\ cancelled' = TRUE /\ last' = NoRisk
  /\ UNCHANGED <<history, polls, called>>

MovePosition ==
  /\ Now < MaxBlocks
  /\ \E p \in Balances : history' = Append(history, p)
  /\ UNCHANGED <<polls, cancelled, last, called>>

FeedNext ==
  \/ \E i \in Polls : StartPoll(i) \/ PinPoll(i) \/ AnswerPoll(i) \/ FailPoll(i)
  \/ Cancel \/ MovePosition

(* The timer goes off again and again, a read is bounded by the transport's *)
(* timeout, and requests do not fail for ever.                              *)
Ticks == \E i \in Polls : StartPoll(i)
Pins == \E i \in Polls : PinPoll(i)
Answers == \E i \in Polls : AnswerPoll(i)
FeedFairness == WF_feedVars(Ticks) /\ SF_feedVars(Pins) /\ SF_feedVars(Answers)
FeedSpec == FeedInit /\ [][FeedNext]_feedVars /\ FeedFairness

-----------------------------------------------------------------------------
(* However its reads overlap, a subscriber is called with positions that    *)
(* were, never twice in a row with the same one, and never once it has      *)
(* cancelled, although a read was on its way.                               *)
FeedDiscipline ==
  [][called' # called =>
       /\ ~cancelled
       /\ called'.risk # called.risk
       /\ \E n \in DOMAIN history : history[n] = called'.risk]_feedVars

(* When the position stops changing the subscriber ends up with it, also if *)
(* the answer to an older read comes last, or reads fail now and then.      *)
FeedSettles == <>[](cancelled \/ called.risk = history[Now])
=============================================================================
