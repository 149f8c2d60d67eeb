------------------------- MODULE SignedActionLedger -------------------------
(***************************************************************************)
(* What the authorization router promises the owners who sign for it, with *)
(* no contexts, frames, policies or Morpho in sight: every signed action   *)
(* has a one-shot key and a cap; a transaction settles some actions, each  *)
(* under a key nothing has spent, pays out at most each one's cap, and may *)
(* strike further keys out.                                                *)
(***************************************************************************)
EXTENDS Naturals

CONSTANTS
  Actions,   \* the actions owners signed
  Keys,      \* one-shot keys
  KeyOf,     \* the key of each action
  Cap        \* the most each action may pay out

VARIABLES
  spent,     \* keys settled or struck out
  paid       \* what each action has paid out

Init ==
  /\ spent = {}
  /\ paid = [a \in Actions |-> 0]

(* The actions of `settled' have distinct keys, all of them fresh.          *)
Settle(settled, struck) ==
  /\ \A a \in settled : KeyOf[a] \notin spent \cup struck
  /\ \A a, b \in settled : KeyOf[a] = KeyOf[b] => a = b
  /\ spent' = spent \cup {KeyOf[a] : a \in settled} \cup struck
  /\ DOMAIN paid' = Actions
  /\ \A a \in Actions \ settled : paid'[a] = paid[a]
  /\ \A a \in settled : paid'[a] <= paid[a] + Cap[a]

Next == \E settled \in SUBSET Actions, struck \in SUBSET Keys : Settle(settled, struck)

Spec == Init /\ [][Next]_<<spent, paid>>
=============================================================================
