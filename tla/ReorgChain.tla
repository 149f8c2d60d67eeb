----------------------------- MODULE ReorgChain -----------------------------
(***************************************************************************)
(* The chain the off-chain services read, as their node shows it: it grows *)
(* by a block and may lose its last blocks to another branch.  A block's   *)
(* hash stands for the block and all its ancestors.                        *)
(***************************************************************************)
EXTENDS Naturals, Sequences, FiniteSets, SequencesExt

CONSTANTS
  Events,            \* what the contracts may emit, each at most once on a chain
  None,              \* no event, no record
  StartBlock,        \* the deployment block, final; services start here
  MaxHeight,         \* bound: last block
  MaxReorgs          \* bound: replacements of the last blocks

ASSUME ChainAssumption ==
  /\ None \notin Events
  /\ StartBlock \in Nat \ {0} /\ MaxHeight \in Nat /\ MaxReorgs \in Nat
  /\ StartBlock <= MaxHeight

VARIABLES chain, reorgs

chainVars == <<chain, reorgs>>

Salts == {0, 1}      \* tells apart the blocks of two branches
Blocks == [salt : Salts, event : Events \cup {None}]
Quiet(salt) == [salt |-> salt, event |-> None]

HashAt(n) == SubSeq(chain, 1, n)
Exists(n) == n <= Len(chain)
EmittedIn(blocks) == {blocks[i].event : i \in DOMAIN blocks} \ {None}

ChainInit ==
  /\ chain = [i \in 1 .. StartBlock |-> Quiet(0)]
  /\ reorgs = 0

Grow(event) ==
  /\ Len(chain) < MaxHeight
  /\ chain' = Append(chain, [salt |-> Last(chain).salt, event |-> event])
  /\ UNCHANGED reorgs

(* The blocks after the n-th are gone and another follows it.               *)
Fork(n, event) ==
  /\ reorgs < MaxReorgs
  /\ reorgs' = reorgs + 1
  /\ chain' = Append(HashAt(n), [salt |-> 1 - chain[n + 1].salt, event |-> event])

ForkPoints == StartBlock .. Len(chain) - 1

Unseen(blocks) == (Events \cup {None}) \ EmittedIn(blocks)
Extend == \E event \in Unseen(chain) : Grow(event)
Reorganise == \E n \in ForkPoints : \E event \in Unseen(HashAt(n)) : Fork(n, event)
=============================================================================
