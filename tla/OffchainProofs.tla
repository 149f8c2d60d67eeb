---------------------------- MODULE OffchainProofs ----------------------------
(***************************************************************************)
(* The indexer and the anchor service over a chain that reorganises, for    *)
(* any events, depths, confirmations, batches, cadences and failures: the   *)
(* database agrees with itself in every state and, unless the chain moved   *)
(* under a tick, with the chain; anchors keep their distance and branch.    *)
(***************************************************************************)
EXTENDS MCOffchain, SequenceTheorems, NumberLemmas

-----------------------------------------------------------------------------
(* Prefixes                                                                 *)

IsList(c) == c \in Seq({c[i] : i \in DOMAIN c})

LEMMA PrefixOf ==
  ASSUME NEW c, IsList(c), NEW n \in 0 .. Len(c)
  PROVE  /\ IsList(SubSeq(c, 1, n)) /\ Len(SubSeq(c, 1, n)) = n
         /\ \A i \in 1 .. n : SubSeq(c, 1, n)[i] = c[i]
<1> DEFINE S == {c[i] : i \in DOMAIN c}
           p == SubSeq(c, 1, n)
<1>1. c \in Seq(S) /\ Len(c) \in Nat /\ n \in Nat /\ DOMAIN c = 1 .. Len(c)
  BY DEF IsList
<1>2. \A i \in 1 .. n : c[i] \in S
  BY <1>1
<1> HIDE DEF S
<1>3. p \in Seq(S) /\ Len(p) = n /\ \A i \in 1 .. n : p[i] = c[i]
  <2>1. 1 <= n => n - 1 + 1 = n
    BY <1>1
  <2>2. ~(1 <= n) => n = 0
    BY <1>1
  <2>3. /\ p \in Seq(S) /\ Len(p) = IF 1 <= n THEN n - 1 + 1 ELSE 0
        /\ \A i \in 1 .. n - 1 + 1 : p[i] = c[1 + i - 1]
    BY <1>1, <1>2, SubSeqProperties
  <2> QED
    BY <1>1, <2>1, <2>2, <2>3
<1> HIDE DEF p
<1>4. DOMAIN p = 1 .. n /\ \A i \in 1 .. Len(p) : p[i] \in {p[j] : j \in DOMAIN p}
  BY <1>1, <1>3
<1>5. IsList(p)
  BY <1>1, <1>3, <1>4 DEF IsList
<1> QED
  BY <1>3, <1>5 DEF p

LEMMA SameList ==
  ASSUME NEW c, NEW d, IsList(c), IsList(d), Len(c) = Len(d), \A i \in 1 .. Len(c) : c[i] = d[i]
  PROVE  c = d
BY SMTT(40) DEF IsList

LEMMA PrefixOfPrefix ==
  ASSUME NEW c, IsList(c), NEW n \in 0 .. Len(c), NEW m \in 0 .. n
  PROVE  SubSeq(SubSeq(c, 1, n), 1, m) = SubSeq(c, 1, m)
<1>1. m \in 0 .. Len(c) /\ Len(c) \in Nat /\ n \in Nat /\ m \in Nat
  BY DEF IsList
<1>2. IsList(SubSeq(c, 1, n)) /\ Len(SubSeq(c, 1, n)) = n
  BY PrefixOf
<1> QED
  BY <1>1, <1>2, PrefixOf, SameList

LEMMA WholePrefix ==
  ASSUME NEW c, IsList(c)
  PROVE  SubSeq(c, 1, Len(c)) = c
<1>1. Len(c) \in 0 .. Len(c)
  BY DEF IsList
<1> QED
  BY <1>1, PrefixOf, SameList

LEMMA Appended ==
  ASSUME NEW c, IsList(c), NEW b
  PROVE  /\ IsList(Append(c, b)) /\ Len(Append(c, b)) = Len(c) + 1
         /\ Append(c, b)[Len(c) + 1] = b
         /\ \A i \in 1 .. Len(c) : Append(c, b)[i] = c[i]
<1> DEFINE S == {c[i] : i \in DOMAIN c}
           a == Append(c, b)
<1>1. c \in Seq(S \cup {b}) /\ Len(c) \in Nat
  BY SeqMonotonic DEF IsList
<1>2. a \in Seq(S \cup {b}) /\ Len(a) = Len(c) + 1 /\ a[Len(c) + 1] = b
      /\ \A i \in 1 .. Len(c) : a[i] = c[i]
  BY <1>1
<1> HIDE DEF a, S
<1>3. \A i \in 1 .. Len(a) : a[i] \in {a[j] : j \in DOMAIN a}
  BY <1>2
<1>4. IsList(a)
  BY <1>1, <1>2, <1>3, SMTT(40) DEF IsList
<1> QED
  BY <1>2, <1>4 DEF a

LEMMA PrefixOfAppended ==
  ASSUME NEW c, IsList(c), NEW b, NEW m \in 0 .. Len(c)
  PROVE  SubSeq(Append(c, b), 1, m) = SubSeq(c, 1, m)
<1>1. Len(c) \in Nat /\ m \in Nat /\ m \in 0 .. Len(c) + 1
  BY DEF IsList
<1>2. m \in 0 .. Len(Append(c, b))
  BY <1>1, Appended
<1>3. \A i \in 1 .. m : Append(c, b)[i] = c[i]
  BY <1>1, Appended
<1> QED
  BY <1>1, <1>2, <1>3, Appended, PrefixOf, SameList

-----------------------------------------------------------------------------
(* The chain                                                                *)

RecordTables == {"action_steps", "registry_commits", "anchor_snapshots", "role_rotations"}

(* An event the indexer knows: a decoded one, or an anchor, which names a   *)
(* block.                                                                   *)
Recordable(event) ==
  /\ event.table \in RecordTables \cup {"policies"}
  /\ event.table = "policies" => event.change \in {"created", "updated", "revoking", "revoked"}
  /\ event.table = "anchor_snapshots" => event.number \in Nat

NewEvent(c, event) == event = None \/ (Recordable(event) /\ event \notin EmittedIn(c))

(* No event twice, and none before the contracts are there.                 *)
ChainShape(c) ==
  /\ IsList(c) /\ Len(c) \in StartBlock .. MaxHeight
  /\ \A i \in 1 .. Len(c) : c[i].event = None \/ Recordable(c[i].event)
  /\ \A i \in 1 .. StartBlock : c[i].event = None
  /\ \A i, j \in 1 .. Len(c) : c[i].event = c[j].event /\ c[i].event # None => i = j

AnchorsApart(c) ==
  \A i, j \in 1 .. Len(c) : i < j /\ IsAnchor(c[i].event) /\ IsAnchor(c[j].event) => j - i >= MinGap
NamesBranch(c, tx, j) ==
  tx.number <= j /\ (HashChecked(tx.number, j) => SubSeq(c, 1, tx.number) = tx.hash)
AnchorsNamed(c) == \A j \in 1 .. Len(c) : IsAnchor(c[j].event) => NamesBranch(c, c[j].event, j)

ChainSound(c) == ChainShape(c) /\ AnchorsApart(c) /\ AnchorsNamed(c)

LEMMA ShapeNumbers ==
  ASSUME NEW c, ChainShape(c)
  PROVE  /\ IsList(c) /\ Len(c) \in Nat /\ StartBlock \in Nat \ {0} /\ StartBlock <= Len(c)
         /\ DOMAIN c = 1 .. Len(c) /\ MaxHeight \in Nat /\ Len(c) <= MaxHeight
BY ChainAssumption DEF ChainShape, ChainAssumption, IsList

LEMMA ShapeAppended ==
  ASSUME NEW c, ChainShape(c), Len(c) < MaxHeight, NEW b, NewEvent(c, b.event)
  PROVE  ChainShape(Append(c, b))
<1> DEFINE a == Append(c, b)
           n == Len(c)
<1>1. /\ IsList(a) /\ Len(a) = n + 1 /\ a[n + 1] = b /\ \A i \in 1 .. n : a[i] = c[i]
      /\ n \in Nat /\ StartBlock \in Nat /\ StartBlock <= n /\ DOMAIN c = 1 .. n /\ MaxHeight \in Nat
  BY ShapeNumbers, Appended
<1> HIDE DEF a
<1>2. \A i \in 1 .. n + 1 : a[i].event = None \/ Recordable(a[i].event)
  BY <1>1 DEF ChainShape, NewEvent
<1>3. \A i \in 1 .. StartBlock : a[i].event = None
  BY <1>1 DEF ChainShape
<1>4. \A i \in 1 .. n : a[i].event = b.event => b.event = None
  BY <1>1 DEF NewEvent, EmittedIn
<1>5. ASSUME NEW i \in 1 .. n + 1, NEW j \in 1 .. n + 1, a[i].event = a[j].event, a[i].event # None
      PROVE  i = j
  <2>1. CASE i \in 1 .. n /\ j \in 1 .. n
    BY <1>1, <1>5, <2>1 DEF ChainShape
  <2>2. CASE i = n + 1 /\ j \in 1 .. n
    BY <1>1, <1>4, <1>5, <2>2
  <2>3. CASE j = n + 1 /\ i \in 1 .. n
    BY <1>1, <1>4, <1>5, <2>3
  <2> QED
    BY <1>1, <2>1, <2>2, <2>3
<1> QED
  BY <1>1, <1>2, <1>3, <1>5 DEF ChainShape, a

LEMMA ShapePrefix ==
  ASSUME NEW c, ChainSound(c), NEW n \in StartBlock .. Len(c)
  PROVE  ChainSound(SubSeq(c, 1, n)) /\ Len(SubSeq(c, 1, n)) = n
<1> DEFINE p == SubSeq(c, 1, n)
<1>1. /\ IsList(c) /\ Len(c) \in Nat /\ StartBlock \in Nat \ {0} /\ Len(c) <= MaxHeight
      /\ n \in Nat /\ n \in 0 .. Len(c) /\ MaxHeight \in Nat /\ ChainShape(c)
  BY ShapeNumbers DEF ChainSound
<1>2. IsList(p) /\ Len(p) = n /\ \A i \in 1 .. n : p[i] = c[i]
  BY <1>1, PrefixOf
<1>3. \A m \in 0 .. n : SubSeq(p, 1, m) = SubSeq(c, 1, m)
  BY <1>1, PrefixOfPrefix
<1> HIDE DEF p
<1>4. \A i \in 1 .. n : i \in 1 .. Len(c)
  BY <1>1
<1>5. ChainShape(p)
  BY <1>1, <1>2, <1>4 DEF ChainShape
<1>6. AnchorsApart(p)
  BY <1>2, <1>4 DEF ChainSound, AnchorsApart
<1>7. ASSUME NEW j \in 1 .. n, IsAnchor(p[j].event)
      PROVE  NamesBranch(p, p[j].event, j)
  <2> DEFINE tx == p[j].event
  <2>1. NamesBranch(c, tx, j) /\ tx.number \in Nat
    BY <1>2, <1>4, <1>7 DEF ChainSound, AnchorsNamed, ChainShape, Recordable, IsAnchor
  <2>2. HashChecked(tx.number, j) => tx.number \in 0 .. n
    BY <1>1, <2>1 DEF HashChecked
  <2> HIDE DEF tx
  <2>3. NamesBranch(p, tx, j)
    BY <1>3, <2>1, <2>2 DEF NamesBranch
  <2> QED
    BY <2>3 DEF tx
<1>8. AnchorsNamed(p)
  BY <1>2, <1>7 DEF AnchorsNamed
<1> QED
  BY <1>2, <1>5, <1>6, <1>8 DEF ChainSound, p

LEMMA LastAnchorIsLast ==
  ASSUME NEW c, ChainShape(c), NEW i \in 1 .. Len(c), IsAnchor(c[i].event)
  PROVE  LastAnchorBlock(c) \in 1 .. Len(c) /\ i <= LastAnchorBlock(c)
<1> DEFINE anchors == {k \in DOMAIN c : IsAnchor(c[k].event)}
<1>1. Len(c) \in Nat /\ DOMAIN c = 1 .. Len(c)
  BY ShapeNumbers
<1>2. anchors \in SUBSET (0 .. Len(c)) /\ i \in anchors /\ anchors \subseteq 1 .. Len(c)
  BY <1>1
<1>3. LastAnchorBlock(c) = CHOOSE k \in anchors : \A j \in anchors : j <= k
  BY <1>2 DEF LastAnchorBlock
<1> HIDE DEF anchors
<1>4. \E k \in anchors : \A j \in anchors : j <= k
  BY <1>1, <1>2, GreatestNumber
<1> QED
  BY <1>2, <1>3, <1>4

LEMMA SoundAppended ==
  ASSUME NEW c, ChainSound(c), Len(c) < MaxHeight, NEW b, NewEvent(c, b.event),
         IsAnchor(b.event) => Accepts(b.event, c, Len(c) + 1)
  PROVE  ChainSound(Append(c, b))
<1> DEFINE a == Append(c, b)
           n == Len(c)
<1>1. /\ IsList(c) /\ ChainShape(c) /\ n \in Nat /\ MinGap \in Nat
      /\ Len(a) = n + 1 /\ a[n + 1] = b /\ \A i \in 1 .. n : a[i] = c[i]
      /\ \A m \in 0 .. n : SubSeq(a, 1, m) = SubSeq(c, 1, m)
  <2>1. MinGap \in Nat
    BY AnchorAssumption, DivBounds DEF MinGap, AnchorAssumption
  <2> QED
    BY <2>1, ShapeNumbers, Appended, PrefixOfAppended DEF ChainSound
<1>2. ChainShape(a)
  BY ShapeAppended DEF ChainSound
<1> HIDE DEF a
<1>3. ASSUME NEW i \in 1 .. n + 1, NEW j \in 1 .. n + 1, i < j,
             IsAnchor(a[i].event), IsAnchor(a[j].event)
      PROVE  j - i >= MinGap
  <2>1. i \in 1 .. n
    BY <1>1, <1>3
  <2>2. CASE j \in 1 .. n
    BY <1>1, <1>3, <2>1, <2>2 DEF ChainSound, AnchorsApart
  <2>3. CASE j = n + 1
    <3>1. IsAnchor(c[i].event) /\ Accepts(b.event, c, n + 1)
      BY <1>1, <1>3, <2>1, <2>3
    <3>2. LastAnchorBlock(c) \in 1 .. n /\ i <= LastAnchorBlock(c)
      BY <1>1, <2>1, <3>1, LastAnchorIsLast
    <3>3. n + 1 >= LastAnchorBlock(c) + MinGap
      BY <1>1, <3>1, <3>2 DEF Accepts
    <3> QED
      BY <1>1, <2>1, <2>3, <3>2, <3>3
  <2> QED
    BY <1>1, <2>2, <2>3
<1>4. ASSUME NEW j \in 1 .. n + 1, IsAnchor(a[j].event)
      PROVE  NamesBranch(a, a[j].event, j)
  <2> DEFINE tx == a[j].event
  <2>1. tx.number \in Nat
    BY <1>1, <1>2, <1>4 DEF ChainShape, Recordable, IsAnchor
  <2>2. CASE j \in 1 .. n
    <3>1. NamesBranch(c, tx, j)
      BY <1>1, <1>4, <2>2 DEF ChainSound, AnchorsNamed
    <3>2. HashChecked(tx.number, j) => tx.number \in 0 .. n
      BY <1>1, <2>1, <2>2 DEF HashChecked
    <3> HIDE DEF tx
    <3>3. NamesBranch(a, tx, j)
      BY <1>1, <3>1, <3>2 DEF NamesBranch
    <3> QED
      BY <3>3 DEF tx
  <2>3. CASE j = n + 1
    <3>1. Accepts(tx, c, j)
      BY <1>1, <1>4, <2>3
    <3>2. HashChecked(tx.number, j) => tx.number \in 0 .. n
      BY <1>1, <2>1, <2>3 DEF HashChecked
    <3> HIDE DEF tx
    <3>3. NamesBranch(a, tx, j)
      BY <1>1, <3>1, <3>2 DEF NamesBranch, Accepts
    <3> QED
      BY <3>3 DEF tx
  <2> QED
    BY <1>1, <2>2, <2>3
<1> QED
  BY <1>1, <1>2, <1>3, <1>4 DEF ChainSound, AnchorsApart, AnchorsNamed, a
-----------------------------------------------------------------------------
(* The database and the tick                                                *)

RecordedOnce(rows) ==
  \A r, s \in rows : SameRecord(r.event, s.event) /\ r.event.table # "role_rotations" => r = s

(* RowsConsistent as a fact about a value of the database.                  *)
DbSound(d) ==
  /\ DOMAIN d = {"head", "blocks", "rows", "policies"}
  /\ d.head # NoHead => d.head.number \in StartBlock .. MaxHeight /\ Len(d.head.hash) = d.head.number
  /\ \A n \in DOMAIN d.blocks :
       /\ n \in StartBlock .. MaxHeight /\ Len(d.blocks[n]) = n
       /\ d.head # NoHead /\ n <= d.head.number
  /\ \A r \in d.rows :
       /\ r.event # None /\ r.event.table \in RecordTables
       /\ r.number \in DOMAIN d.blocks /\ d.blocks[r.number] = r.hash
  /\ DOMAIN d.policies = PolicyIds
  /\ \A p \in PolicyIds : d.policies[p] \in {None, "active", "revoking", "revoked"}
  /\ RecordedOnce(d.rows)

Above(d, n) == n \in Nat /\ StartBlock <= n /\ (d.head # NoHead => d.head.number < n)

(* Where a tick stores next is above the head.                              *)
TickSound(t, d) ==
  /\ t.at \in {"idle", "detect", "probe", "fetch", "index"}
  /\ t.at \in {"detect", "fetch"} =>
       t \in [at : {"detect", "fetch"}, safe : Nat, cursor : Nat] /\ Above(d, t.cursor)
  /\ t.at \in {"detect", "probe"} => d.head # NoHead
  /\ t.at = "probe" => t \in [at : {"probe"}, probe : Nat]
  /\ t.at = "index" =>
       /\ t \in [at : {"index"}, next : Nat, upper : Nat, logs : {t.logs}]
       /\ Above(d, t.next) /\ t.next <= t.upper
       /\ \A n \in t.next .. t.upper : t.logs[n] = None \/ Recordable(t.logs[n])

TransactionSound(tx) ==
  /\ tx.table = "anchor_snapshots" /\ tx.number \in Nat
  /\ Len(tx.hash) = tx.number /\ Len(tx.manifest.hash) = tx.number

HeadSound(head) == head.number \in StartBlock .. MaxHeight /\ Len(head.hash) = head.number

ServiceSound(s) ==
  /\ s.at \in {"idle", "read", "hash", "send"}
  /\ s.at = "read" =>
       /\ DOMAIN s = {"at", "head", "version", "latest", "waiting"}
       /\ "health" \notin s.waiting => HeadSound(s.head)
  /\ s.at = "hash" => HeadSound(s.head)
  /\ s.at = "send" => TransactionSound(s.tx)

SentSound(list) ==
  IsList(list) /\ Len(list) <= MaxSent /\ \A i \in 1 .. Len(list) : TransactionSound(list[i])

IndexerSound == DbSound(db) /\ TickSound(tick, db) /\ failures \in 0 .. MaxFailures

OffchainInv ==
  ChainSound(chain) /\ reorgs \in Nat /\ IndexerSound /\ ServiceSound(service) /\ SentSound(sent)

(* Unless the chain was reorganised under a tick, what is stored lies on    *)
(* one branch, events come with their blocks, and a tick that is past its   *)
(* check has the chain before it that it checked.                           *)
StoredBranch(d) ==
  /\ d.head # NoHead => IsList(d.head.hash)
  /\ \A n \in DOMAIN d.blocks : d.blocks[n] = SubSeq(d.head.hash, 1, n)
  /\ \A r \in d.rows : r.event \in EmittedIn(r.hash)
HeadOn(d, c) ==
  d.head # NoHead => d.head.number <= Len(c) /\ d.head.hash = SubSeq(c, 1, d.head.number)
OneBranch(d, c, t) ==
  /\ StoredBranch(d)
  /\ t.at \in {"detect", "fetch"} => t.safe <= Len(c)
  /\ t.at \in {"fetch", "index"} => HeadOn(d, c)
  /\ t.at = "index" => t.upper <= Len(c) /\ \A n \in t.next .. t.upper : t.logs[n] = c[n].event

(* And unless a rollback was cut off, no block and no row is missing.       *)
NextAfter(d) == IF d.head = NoHead THEN StartBlock ELSE d.head.number + 1
EventKept(rows, n, event) ==
  event = None \/ event \in PolicyEvents \/ \E r \in rows : r.number = n /\ r.event = event
NothingMissing(d, t) ==
  /\ DOMAIN d.blocks = StartBlock .. NextAfter(d) - 1
  /\ \A n \in DOMAIN d.blocks : EventKept(d.rows, n, d.head.hash[n].event)
  /\ t.at \in {"detect", "fetch"} => t.cursor = NextAfter(d)
  /\ t.at = "index" => t.next = NextAfter(d)

ScenarioEvents == \A i \in 1 .. Len(chain) : chain[i].event \in MCEvents \cup {None}

BranchInv ==
  /\ scenario = "anchor" => "straddled" \in mishaps
  /\ scenario # "anchor" => ScenarioEvents
  /\ "straddled" \notin mishaps => OneBranch(db, chain, tick)
  /\ mishaps = {} => NothingMissing(db, tick)

(* The chain becomes `b` after its n-th block.                              *)
Moves(n, b) ==
  /\ n < MaxHeight /\ chain' = Append(HashAt(n), b)
  /\ NewEvent(HashAt(n), b.event)
  /\ IsAnchor(b.event) => Accepts(b.event, HashAt(n), n + 1)
  /\ (n = Len(chain) /\ reorgs' = reorgs) \/ (n < Len(chain) /\ reorgs' = reorgs + 1)

LEMMA DecodedEvents ==
  \A e \in Events \cup {None} : \A c : e \notin EmittedIn(c) => NewEvent(c, e) /\ ~IsAnchor(e)
BY IndexerAssumption, AnchorAssumption
   DEF IndexerAssumption, AnchorAssumption, NewEvent, Recordable, RecordTables, IsAnchor

LEMMA IncludedAnchor ==
  ASSUME SentSound(sent), NEW tx \in ToSet(sent), NEW c, Includes(c, tx)
  PROVE  NewEvent(c, tx) /\ Accepts(tx, c, Len(c) + 1)
<1>1. TransactionSound(tx)
  BY DEF SentSound, ToSet, IsList
<1>2. Recordable(tx)
  BY <1>1 DEF TransactionSound, Recordable, RecordTables
<1> QED
  BY <1>2 DEF Includes, NewEvent

LEMMA ChainMoves ==
  ASSUME ChainSound(chain), SentSound(sent), ChainStep
  PROVE  \E n \in StartBlock .. Len(chain) : \E b : Moves(n, b)
<1>1. /\ IsList(chain) /\ Len(chain) \in Nat /\ StartBlock \in Nat \ {0} /\ StartBlock <= Len(chain)
      /\ MaxHeight \in Nat /\ Len(chain) <= MaxHeight /\ Len(chain) \in 0 .. Len(chain)
      /\ HashAt(Len(chain)) = chain
  BY ShapeNumbers, WholePrefix DEF ChainSound, HashAt
<1>2. \A n \in ForkPoints : n \in StartBlock .. Len(chain) /\ n < Len(chain) /\ n < MaxHeight
                            /\ Len(HashAt(n)) = n
  <2> SUFFICES ASSUME NEW n \in ForkPoints
               PROVE  n \in StartBlock .. Len(chain) /\ n < Len(chain) /\ n < MaxHeight
                      /\ n \in 0 .. Len(chain)
    BY <1>1, PrefixOf DEF HashAt
  <2> QED
    BY <1>1 DEF ForkPoints
<1>3. ASSUME NEW event, NewEvent(chain, event), Grow(event),
             IsAnchor(event) => Accepts(event, chain, Len(chain) + 1)
      PROVE  \E n \in StartBlock .. Len(chain) : \E b : Moves(n, b)
  <2> DEFINE b == [salt |-> Last(chain).salt, event |-> event]
  <2>1. Moves(Len(chain), b)
    BY <1>1, <1>3 DEF Moves, Grow
  <2> QED
    BY <1>1, <2>1
<1>4. ASSUME NEW n \in ForkPoints, NEW event, NewEvent(HashAt(n), event), Fork(n, event),
             IsAnchor(event) => Accepts(event, HashAt(n), n + 1)
      PROVE  \E m \in StartBlock .. Len(chain) : \E b : Moves(m, b)
  <2> DEFINE b == [salt |-> 1 - chain[n + 1].salt, event |-> event]
  <2>1. Moves(n, b)
    BY <1>2, <1>4 DEF Moves, Fork
  <2> QED
    BY <1>2, <2>1
<1>5. CASE Extend
  BY <1>3, <1>5, DecodedEvents DEF Extend, Unseen
<1>6. CASE Reorganise
  BY <1>4, <1>6, DecodedEvents DEF Reorganise, Unseen
<1>7. CASE IncludeAnchor
  <2>1. PICK tx \in ToSet(sent) :
          \/ Includes(chain, tx) /\ Grow(tx)
          \/ \E n \in ForkPoints : Includes(HashAt(n), tx) /\ Fork(n, tx)
    BY <1>7 DEF IncludeAnchor
  <2>2. CASE Includes(chain, tx) /\ Grow(tx)
    BY <1>3, <2>2, IncludedAnchor
  <2>3. ASSUME NEW n \in ForkPoints, Includes(HashAt(n), tx), Fork(n, tx)
        PROVE  \E m \in StartBlock .. Len(chain) : \E b : Moves(m, b)
    <3>1. NewEvent(HashAt(n), tx) /\ Accepts(tx, HashAt(n), n + 1)
      BY <1>2, <2>3, IncludedAnchor
    <3> QED
      BY <1>4, <2>3, <3>1
  <2> QED
    BY <2>1, <2>2, <2>3
<1> QED
  BY <1>5, <1>6, <1>7 DEF ChainStep

LEMMA ChainStaysSound ==
  ASSUME ChainSound(chain), NEW n \in StartBlock .. Len(chain), NEW b, Moves(n, b)
  PROVE  ChainSound(chain')
<1>1. ChainSound(HashAt(n)) /\ Len(HashAt(n)) = n
  BY ShapePrefix DEF HashAt
<1>2. ChainSound(Append(HashAt(n), b))
  BY <1>1, SoundAppended DEF Moves
<1> QED
  BY <1>2 DEF Moves

-----------------------------------------------------------------------------
(* What is stored                                                           *)

LEMMA InsertOnce ==
  ASSUME NEW rows, NEW row, RecordedOnce(rows), row.event.table \in RecordTables
  PROVE  /\ RecordedOnce(Insert(rows, row)) /\ Insert(rows, row) \subseteq rows \cup {row}
         /\ SameRows(rows, row) = {} => Insert(rows, row) = rows \cup {row}
<1>1. ASSUME NEW kept, kept \subseteq rows, SameRows(kept, row) = {}
      PROVE  RecordedOnce(kept \cup {row})
  BY <1>1 DEF RecordedOnce, SameRows, SameRecord
<1>2. CASE row.event.table = "action_steps"
  <2>1. Insert(rows, row) = IF SameRows(rows, row) = {} THEN rows \cup {row} ELSE rows
    BY <1>2 DEF Insert, InsertActionStep
  <2> QED
    BY <1>1, <2>1
<1>3. CASE row.event.table = "anchor_snapshots"
  <2>1. Insert(rows, row) = IF SameRows(rows, row) = {} THEN rows \cup {row} ELSE rows
    BY <1>3 DEF Insert, InsertSnapshot
  <2> QED
    BY <1>1, <2>1
<1>4. CASE row.event.table = "registry_commits"
  <2> DEFINE kept == rows \ SameRows(rows, row)
  <2>1. Insert(rows, row) = kept \cup {row}
    BY <1>4 DEF Insert, InsertRegistryCommit
  <2>2. SameRows(kept, row) = {}
    BY DEF SameRows
  <2> QED
    BY <1>1, <2>1, <2>2
<1>5. CASE row.event.table = "role_rotations"
  <2>1. Insert(rows, row) = rows \cup {row}
    BY <1>5 DEF Insert, InsertRoleRotation
  <2>2. RecordedOnce(rows \cup {row})
    BY <1>5 DEF RecordedOnce, SameRecord
  <2> QED
    BY <2>1, <2>2
<1> QED
  BY <1>2, <1>3, <1>4, <1>5 DEF RecordTables

LEMMA PoliciesTyped ==
  ASSUME NEW event, event.change \in {"created", "updated", "revoking", "revoked"},
         NEW state
  PROVE  PolicyState(event, state) \in {None, "active", "revoking", "revoked"}
BY DEF PolicyState

LEMMA StoreSound ==
  ASSUME DbSound(db), NEW n, Above(db, n), n <= MaxHeight, NEW hash, Len(hash) = n,
         NEW event, event = None \/ Recordable(event), Store(n, hash, event)
  PROVE  DbSound(db') /\ db'.head = HeadAt(n, hash)
<1> DEFINE row == [number |-> n, hash |-> hash, event |-> event]
           applied == ApplyEvent(event, n, hash)
           d == [head |-> HeadAt(n, hash), blocks |-> UpsertBlock(n, hash),
                 rows |-> applied.rows, policies |-> applied.policies]
<1>1. /\ n \in StartBlock .. MaxHeight /\ n \in Nat
      /\ \A m \in DOMAIN db.blocks : m < n /\ m \in StartBlock .. MaxHeight
  BY ChainAssumption DEF ChainAssumption, DbSound, Above
<1>2. applied.rows = db.rows \/ (Recordable(event) /\ event # None /\ event.table # "policies" /\ applied.rows = Insert(db.rows, row))
  BY DEF ApplyEvent
<1>3. applied.rows \subseteq db.rows \cup {row} /\ RecordedOnce(applied.rows)
      /\ (row \in applied.rows => row \in db.rows \/ (event # None /\ event.table \in RecordTables))
  BY <1>2, InsertOnce DEF DbSound, Recordable
<1>4. /\ DOMAIN applied.policies = PolicyIds
      /\ \A p \in PolicyIds : applied.policies[p] \in {None, "active", "revoking", "revoked"}
  <2>1. CASE event # None /\ event.table = "policies"
    <3>1. applied.policies = [db.policies EXCEPT ![event.policy] = PolicyState(event, @)]
      BY <2>1 DEF ApplyEvent
    <3>2. event.change \in {"created", "updated", "revoking", "revoked"}
      BY <2>1 DEF Recordable
    <3> HIDE DEF applied
    <3>3. \A state : PolicyState(event, state) \in {None, "active", "revoking", "revoked"}
      BY <3>2, PoliciesTyped
    <3> QED
      BY <3>1, <3>3 DEF DbSound
  <2>2. CASE ~(event # None /\ event.table = "policies")
    <3>1. applied.policies = db.policies
      BY <2>2 DEF ApplyEvent
    <3> QED
      BY <3>1 DEF DbSound
  <2> QED
    BY <2>1, <2>2
<1> HIDE DEF applied
<1>5. /\ DOMAIN d.blocks = DOMAIN db.blocks \cup {n} /\ d.blocks[n] = hash
      /\ \A m \in DOMAIN db.blocks : d.blocks[m] = db.blocks[m]
  BY <1>1 DEF UpsertBlock
<1>6. /\ d.head # NoHead /\ d.head.number = n /\ d.head.hash = hash
      /\ d.rows = applied.rows /\ d.policies = applied.policies
      /\ DOMAIN d = {"head", "blocks", "rows", "policies"}
  <2>1. HeadAt(n, hash).number = n /\ NoHead.number = 0
    BY DEF HeadAt, NoHead
  <2>2. n # 0
    BY <1>1, ChainAssumption DEF ChainAssumption
  <2> QED
    BY <2>1, <2>2 DEF HeadAt
<1> HIDE DEF d
<1>7. db' = d
  BY DEF Store, d, applied
<1>8. ASSUME NEW m \in DOMAIN d.blocks
      PROVE  m \in StartBlock .. MaxHeight /\ Len(d.blocks[m]) = m /\ m <= d.head.number
  <2>1. CASE m = n
    BY <1>1, <1>5, <1>6, <2>1
  <2>2. CASE m \in DOMAIN db.blocks
    <3>1. Len(db.blocks[m]) = m
      BY <2>2 DEF DbSound
    <3>2. m < n /\ m \in Nat
      BY <1>1, <2>2, ChainAssumption DEF ChainAssumption
    <3> QED
      BY <1>1, <1>5, <1>6, <2>2, <3>1, <3>2
  <2> QED
    BY <1>5, <2>1, <2>2
<1>9. ASSUME NEW r \in d.rows
      PROVE  /\ r.event # None /\ r.event.table \in RecordTables
             /\ r.number \in DOMAIN d.blocks /\ d.blocks[r.number] = r.hash
  <2>1. CASE r \in db.rows
    <3>1. r.number \in DOMAIN db.blocks /\ db.blocks[r.number] = r.hash
          /\ r.event # None /\ r.event.table \in RecordTables
      BY <2>1 DEF DbSound
    <3> QED
      BY <1>5, <3>1
  <2>2. CASE r = row /\ row \notin db.rows
    <3>1. event # None /\ event.table \in RecordTables
      BY <1>3, <1>6, <2>2
    <3> QED
      BY <1>5, <2>2, <3>1
  <2> QED
    BY <1>3, <1>6, <2>1, <2>2
<1>10. d.head # NoHead => d.head.number \in StartBlock .. MaxHeight /\ Len(d.head.hash) = d.head.number
  BY <1>1, <1>6
<1>11. DbSound(d)
  BY <1>3, <1>4, <1>6, <1>8, <1>9, <1>10 DEF DbSound
<1>12. d.head = HeadAt(n, hash)
  BY DEF d
<1> QED
  BY <1>7, <1>11, <1>12

LEMMA HighestStored ==
  ASSUME DbSound(db), tick.probe \in Nat, Candidates # {}
  PROVE  Highest \in Candidates /\ Highest \in DOMAIN db.blocks /\ Highest \in StartBlock .. MaxHeight
         /\ \A m \in Candidates : m <= Highest
<1>1. Candidates \in SUBSET (0 .. MaxHeight) /\ MaxHeight \in Nat
  BY ChainAssumption DEF ChainAssumption, Candidates, DbSound
<1>2. \E n \in Candidates : \A m \in Candidates : m <= n
  BY <1>1, GreatestNumber
<1>3. Highest \in Candidates /\ \A m \in Candidates : m <= Highest
  BY <1>2 DEF Highest
<1> QED
  BY <1>3 DEF Candidates, DbSound

LEMMA KeptRowsBelow ==
  ASSUME DbSound(db), NEW n
  PROVE  \A r \in KeptRows(n, Len(Tables)) : r \in db.rows /\ r.number <= n
<1>1. Len(Tables) = 4 /\ RecordTables = {Tables[i] : i \in 1 .. 4}
  BY DEF Tables, RecordTables
<1> QED
  BY <1>1 DEF KeptRows, DbSound

LEMMA FewerRowsSound ==
  ASSUME DbSound(db), NEW rows, rows \subseteq db.rows
  PROVE  RecordedOnce(rows) /\ \A r \in rows :
           /\ r.event # None /\ r.event.table \in RecordTables
           /\ r.number \in DOMAIN db.blocks /\ db.blocks[r.number] = r.hash
BY DEF DbSound, RecordedOnce

LEMMA RollbackSound ==
  ASSUME DbSound(db), NEW n \in DOMAIN db.blocks, NEW head,
         head = db.head \/ head = HeadAt(n, db.blocks[n])
  PROVE  DbSound([db EXCEPT !.rows = KeptRows(n, Len(Tables)), !.blocks = BlocksBelow(n + 1),
                            !.head = head])
<1> DEFINE rows == KeptRows(n, Len(Tables))
           blocks == BlocksBelow(n + 1)
           d == [db EXCEPT !.rows = rows, !.blocks = blocks, !.head = head]
<1>1. /\ d.rows = rows /\ d.blocks = blocks /\ d.head = head /\ d.policies = db.policies
      /\ DOMAIN d = {"head", "blocks", "rows", "policies"}
  BY DEF DbSound
<1>2. RecordedOnce(rows) /\ \A r \in rows :
        /\ r.event # None /\ r.event.table \in RecordTables
        /\ r.number \in DOMAIN db.blocks /\ db.blocks[r.number] = r.hash /\ r.number <= n
  BY KeptRowsBelow, FewerRowsSound
<1>3. n \in Nat /\ \A m \in DOMAIN db.blocks : m \in Nat /\ m \in StartBlock .. MaxHeight
  BY ChainAssumption DEF ChainAssumption, DbSound
<1>4. /\ DOMAIN blocks = {m \in DOMAIN db.blocks : m < n + 1}
      /\ \A m \in DOMAIN blocks : blocks[m] = db.blocks[m]
  BY DEF BlocksBelow
<1>5. n \in DOMAIN blocks /\ \A m \in DOMAIN db.blocks : m <= n => m \in DOMAIN blocks
  BY <1>3, <1>4
<1> HIDE DEF rows, blocks, d
<1>6. \A r \in rows : r.number \in DOMAIN blocks /\ blocks[r.number] = r.hash
  BY <1>2, <1>4, <1>5
<1>7. \A m \in DOMAIN blocks : m \in StartBlock .. MaxHeight /\ Len(blocks[m]) = m
  BY <1>4 DEF DbSound
<1>8. head # NoHead => head.number \in StartBlock .. MaxHeight /\ Len(head.hash) = head.number
  BY DEF DbSound, HeadAt
<1>9. HeadAt(n, db.blocks[n]) # NoHead /\ HeadAt(n, db.blocks[n]).number = n
  <2>1. n # 0
    BY ChainAssumption DEF ChainAssumption, DbSound
  <2>2. HeadAt(n, db.blocks[n]).number = n /\ NoHead.number = 0
    BY DEF HeadAt, NoHead
  <2> QED
    BY <2>1, <2>2
<1>10. ASSUME NEW m \in DOMAIN blocks
       PROVE  head # NoHead /\ m <= head.number
  <2>1. CASE head = db.head
    BY <1>4, <1>10, <2>1 DEF DbSound
  <2>2. CASE head = HeadAt(n, db.blocks[n])
    BY <1>3, <1>4, <1>9, <1>10, <2>2
  <2> QED
    BY <2>1, <2>2
<1>11. DbSound(d)
  BY <1>1, <1>2, <1>6, <1>7, <1>8, <1>10 DEF DbSound
<1> QED
  BY <1>11 DEF d, rows, blocks

LEMMA CutRollbackSound ==
  ASSUME DbSound(db), NEW n \in DOMAIN db.blocks, NEW k \in 1 .. Len(Tables)
  PROVE  DbSound(RolledBackPart(n, k))
<1>1. CASE k = Len(Tables)
  <2> DEFINE d == [db EXCEPT !.rows = KeptRows(n, Len(Tables)), !.blocks = BlocksBelow(n + 1),
                             !.head = db.head]
  <2>1. RolledBackPart(n, k) = [db EXCEPT !.rows = KeptRows(n, Len(Tables)), !.blocks = BlocksBelow(n + 1)]
    BY <1>1 DEF RolledBackPart
  <2>2. d = [db EXCEPT !.rows = KeptRows(n, Len(Tables)), !.blocks = BlocksBelow(n + 1)]
    BY DEF DbSound
  <2>3. DbSound(d)
    BY RollbackSound
  <2> QED
    BY <2>1, <2>2, <2>3
<1>2. CASE k # Len(Tables)
  <2> DEFINE rows == KeptRows(n, k)
             d == [db EXCEPT !.rows = rows]
  <2>1. RolledBackPart(n, k) = d
    <3>1. RolledBackPart(n, k) = [db EXCEPT !.rows = rows, !.blocks = db.blocks]
      BY <1>2 DEF RolledBackPart
    <3> QED
      BY <3>1 DEF DbSound
  <2>2. rows \subseteq db.rows
    BY DEF KeptRows
  <2>3. /\ d.rows = rows /\ d.blocks = db.blocks /\ d.head = db.head /\ d.policies = db.policies
        /\ DOMAIN d = {"head", "blocks", "rows", "policies"}
    BY DEF DbSound
  <2> HIDE DEF rows, d
  <2>4. DbSound(d)
    BY <2>2, <2>3, FewerRowsSound DEF DbSound
  <2> QED
    BY <2>1, <2>4
<1> QED
  BY <1>1, <1>2

LEMMA KnownHash ==
  ASSUME ChainShape(chain), NEW n \in Nat, Exists(n)
  PROVE  n \in 0 .. Len(chain) /\ IsList(HashAt(n)) /\ Len(HashAt(n)) = n
<1>1. n \in 0 .. Len(chain) /\ IsList(chain)
  BY ShapeNumbers DEF Exists
<1> QED
  BY <1>1, PrefixOf DEF HashAt

LEMMA IdleSound == \A d : TickSound(Idle, d)
BY DEF TickSound, Idle

LEMMA IndexerStaysSound ==
  ASSUME ChainShape(chain), IndexerSound, IndexerNext
  PROVE  IndexerSound'
<1>1. /\ DbSound(db) /\ TickSound(tick, db) /\ failures \in 0 .. MaxFailures
      /\ StartBlock \in Nat \ {0} /\ MaxHeight \in Nat /\ Len(chain) \in Nat /\ StartBlock <= Len(chain)
      /\ Confirmations \in Nat /\ Batch \in Nat \ {0} /\ MaxFailures \in Nat /\ Len(chain) <= MaxHeight
  BY ShapeNumbers, IndexerAssumption DEF IndexerAssumption, IndexerSound
<1>2. CASE StartTick
  <2>1. SafeTip \in Nat
    BY <1>1 DEF SafeTip
  <2>2. db.head # NoHead => db.head.number \in StartBlock .. MaxHeight
    BY <1>1 DEF DbSound
  <2> DEFINE cursor == IF db.head = NoHead THEN StartBlock ELSE db.head.number + 1
             phase == IF db.head = NoHead THEN "fetch" ELSE "detect"
  <2>3. Above(db, cursor) /\ cursor \in Nat
    BY <1>1, <2>2 DEF Above
  <2>4. phase \in {"detect", "fetch"} /\ (phase = "detect" => db.head # NoHead)
    OBVIOUS
  <2>5. tick' = [at |-> phase, safe |-> SafeTip, cursor |-> cursor] /\ db' = db /\ failures' = failures
    BY <1>2 DEF StartTick
  <2> HIDE DEF cursor, phase
  <2>6. TickSound(tick', db)
    BY <2>1, <2>3, <2>4, <2>5 DEF TickSound
  <2> QED
    BY <1>1, <2>5, <2>6 DEF IndexerSound
<1>3. CASE DetectReorg
  <2>1. /\ tick \in [at : {"detect", "fetch"}, safe : Nat, cursor : Nat] /\ Above(db, tick.cursor)
        /\ db.head # NoHead /\ tick.at = "detect" /\ db' = db /\ failures' = failures
    BY <1>1, <1>3 DEF DetectReorg, TickSound
  <2>2. db.head.number \in Nat
    BY <1>1, <2>1 DEF DbSound
  <2>3. CASE tick' = Idle
    BY <1>1, <2>1, <2>3, IdleSound DEF IndexerSound
  <2>4. CASE tick' = [tick EXCEPT !.at = "fetch"]
    <3>1. tick' \in [at : {"fetch"}, safe : Nat, cursor : Nat] /\ tick'.cursor = tick.cursor
      BY <2>1, <2>4
    <3>2. TickSound(tick', db)
      BY <2>1, <3>1 DEF TickSound
    <3> QED
      BY <1>1, <2>1, <3>2 DEF IndexerSound
  <2>5. CASE tick' = [at |-> "probe", probe |-> db.head.number]
    <3>1. TickSound(tick', db)
      BY <2>1, <2>2, <2>5 DEF TickSound
    <3> QED
      BY <1>1, <2>1, <3>1 DEF IndexerSound
  <2> QED
    BY <1>3, <2>3, <2>4, <2>5 DEF DetectReorg
<1>4. CASE ProbeDown
  <2>1. tick \in [at : {"probe"}, probe : Nat] /\ db.head # NoHead /\ db' = db /\ failures' = failures
    BY <1>1, <1>4 DEF ProbeDown, TickSound
  <2>2. CASE tick' = Idle
    BY <1>1, <2>1, <2>2, IdleSound DEF IndexerSound
  <2>3. CASE tick' # Idle
    <3>1. Candidates # {} /\ tick' = [tick EXCEPT !.probe = Highest - 1]
      BY <1>4, <2>3 DEF ProbeDown
    <3>2. Highest - 1 \in Nat
      BY <1>1, <2>1, <3>1, HighestStored
    <3>3. tick' \in [at : {"probe"}, probe : Nat]
      BY <2>1, <3>1, <3>2
    <3>4. TickSound(tick', db)
      BY <2>1, <3>3 DEF TickSound
    <3> QED
      BY <1>1, <2>1, <3>4 DEF IndexerSound
  <2> QED
    BY <2>2, <2>3
<1>5. CASE Rollback
  <2>1. Highest \in DOMAIN db.blocks
    BY <1>1, <1>5, HighestStored DEF Rollback, CommonAncestor, TickSound
  <2>2. DbSound(db')
    BY <1>1, <1>5, <2>1, RollbackSound DEF Rollback
  <2> QED
    BY <1>1, <1>5, <2>2, IdleSound DEF Rollback, IndexerSound
<1>6. CASE CrashInRollback
  <2>1. Highest \in DOMAIN db.blocks
    BY <1>1, <1>6, HighestStored DEF CrashInRollback, CommonAncestor, TickSound
  <2>2. DbSound(db')
    BY <1>1, <1>6, <2>1, CutRollbackSound DEF CrashInRollback
  <2>3. failures' \in 0 .. MaxFailures
    BY <1>1, <1>6 DEF CrashInRollback, Fails
  <2> QED
    BY <1>6, <2>2, <2>3, IdleSound DEF CrashInRollback, IndexerSound
<1>7. CASE FetchLogs
  <2>1. /\ tick \in [at : {"detect", "fetch"}, safe : Nat, cursor : Nat] /\ Above(db, tick.cursor)
        /\ db' = db /\ failures' = failures
    BY <1>1, <1>7 DEF FetchLogs, TickSound
  <2> DEFINE upper == IF tick.cursor + Batch - 1 < tick.safe THEN tick.cursor + Batch - 1 ELSE tick.safe
             logs == [n \in tick.cursor .. upper |-> IF Exists(n) THEN chain[n].event ELSE None]
  <2>2. CASE tick' = Idle
    BY <1>1, <2>1, <2>2, IdleSound DEF IndexerSound
  <2>3. CASE tick' # Idle
    <3>1. ~(tick.cursor > tick.safe) /\ tick' = [at |-> "index", next |-> tick.cursor, upper |-> upper, logs |-> logs]
      BY <1>7, <2>3 DEF FetchLogs
    <3>2. tick.cursor \in Nat /\ upper \in Nat /\ tick.cursor <= upper /\ 1 <= tick.cursor
      BY <1>1, <2>1, <3>1 DEF Above
    <3> HIDE DEF upper
    <3>3. \A n \in tick.cursor .. upper : logs[n] = None \/ Recordable(logs[n])
      <4> SUFFICES ASSUME NEW n \in tick.cursor .. upper, Exists(n)
                   PROVE  chain[n].event = None \/ Recordable(chain[n].event)
        OBVIOUS
      <4>1. n \in 1 .. Len(chain)
        BY <1>1, <3>2 DEF Exists
      <4> QED
        BY <4>1 DEF ChainShape
    <3> HIDE DEF logs
    <3>4. TickSound(tick', db)
      BY <2>1, <3>1, <3>2, <3>3 DEF TickSound
    <3> QED
      BY <1>1, <2>1, <3>4 DEF IndexerSound
  <2> QED
    BY <2>2, <2>3
<1>8. CASE IndexBlock
  <2>1. /\ tick.at = "index" /\ tick \in [at : {"index"}, next : Nat, upper : Nat, logs : {tick.logs}]
        /\ Above(db, tick.next) /\ tick.next <= tick.upper
        /\ \A n \in tick.next .. tick.upper : tick.logs[n] = None \/ Recordable(tick.logs[n])
        /\ failures' = failures
    BY <1>1, <1>8 DEF IndexBlock, TickSound
  <2> DEFINE n == tick.next
  <2>2. CASE ~Exists(n)
    <3>1. tick' = Idle /\ db' = db
      BY <1>8, <2>2 DEF IndexBlock
    <3> QED
      BY <1>1, <2>1, <3>1, IdleSound DEF IndexerSound
  <2>3. CASE Exists(n)
    <3>1. /\ Store(n, HashAt(n), tick.logs[n])
          /\ tick' = IF n = tick.upper THEN Idle ELSE [tick EXCEPT !.next = n + 1]
      BY <1>8, <2>3 DEF IndexBlock
    <3>2. n \in Nat /\ n <= MaxHeight /\ Len(HashAt(n)) = n /\ n \in tick.next .. tick.upper
      BY <1>1, <2>1, <2>3, KnownHash
    <3>3. DbSound(db') /\ db'.head = HeadAt(n, HashAt(n))
      BY <1>1, <2>1, <3>1, <3>2, StoreSound
    <3>4. CASE n = tick.upper
      BY <1>1, <2>1, <3>1, <3>3, <3>4, IdleSound DEF IndexerSound
    <3>5. CASE n # tick.upper
      <4>1. tick' = [tick EXCEPT !.next = n + 1]
        BY <3>1, <3>5
      <4>2. /\ tick' \in [at : {"index"}, next : Nat, upper : Nat, logs : {tick.logs}]
            /\ tick'.next = n + 1 /\ tick'.upper = tick.upper /\ tick'.logs = tick.logs /\ tick'.at = "index"
        BY <2>1, <3>2, <4>1
      <4>3. Above(db', n + 1) /\ n + 1 <= tick.upper
        BY <1>1, <2>1, <3>2, <3>3, <3>5 DEF Above, HeadAt
      <4>4. \A m \in n + 1 .. tick.upper : m \in n .. tick.upper
        BY <3>2
      <4>5. TickSound(tick', db')
        BY <2>1, <4>2, <4>3, <4>4 DEF TickSound
      <4> QED
        BY <1>1, <2>1, <3>3, <4>5 DEF IndexerSound
    <3> QED
      BY <3>4, <3>5
  <2> QED
    BY <2>2, <2>3
<1>9. CASE TickFails
  BY <1>1, <1>9, IdleSound DEF TickFails, Fails, IndexerSound
<1> QED
  BY <1>2, <1>3, <1>4, <1>5, <1>6, <1>7, <1>8, <1>9 DEF IndexerNext, IndexerStep

LEMMA ServiceStaysSound ==
  ASSUME ChainShape(chain), DbSound(db), ServiceSound(service), SentSound(sent),
         ServiceStep \/ ServiceFails
  PROVE  ServiceSound(service)' /\ SentSound(sent)'
<1>1. ServiceSound(Asleep)
  BY DEF ServiceSound, Asleep
<1>2. ASSUME NEW s, service' = s, ServiceSound(s), sent' = sent
      PROVE  ServiceSound(service)' /\ SentSound(sent)'
  BY <1>2
<1>3. CASE StartService
  <2> DEFINE s == [at |-> "read", head |-> None, version |-> None, latest |-> None,
                   waiting |-> {"health", "registry", "snapshots"}]
  <2>1. ServiceSound(s)
    BY DEF ServiceSound
  <2> QED
    BY <1>2, <1>3, <2>1 DEF StartService
<1>4. ASSUME NEW request \in {"health", "registry", "snapshots"}, Answer(request)
      PROVE  ServiceSound(service)' /\ SentSound(sent)'
  <2>1. /\ DOMAIN service = {"at", "head", "version", "latest", "waiting"} /\ service.at = "read"
        /\ "health" \notin service.waiting => HeadSound(service.head)
        /\ sent' = sent
    BY <1>4 DEF Answer, ServiceSound
  <2>2. CASE request = "health"
    <3>1. CASE db.head = NoHead
      BY <1>1, <1>2, <1>4, <2>1, <2>2, <3>1 DEF Answer
    <3>2. CASE db.head # NoHead
      <4>1. service' = [service EXCEPT !.waiting = @ \ {request}, !.head = db.head]
        BY <1>4, <2>2, <3>2 DEF Answer
      <4>2. HeadSound(db.head)
        BY <3>2 DEF DbSound, HeadSound
      <4>3. /\ DOMAIN service' = {"at", "head", "version", "latest", "waiting"}
            /\ service'.at = "read" /\ service'.head = db.head
        BY <2>1, <4>1
      <4>4. ServiceSound(service')
        BY <4>2, <4>3 DEF ServiceSound
      <4> QED
        BY <1>2, <2>1, <4>4
    <3> QED
      BY <3>1, <3>2
  <2>3. CASE request # "health"
    <3>1. /\ DOMAIN service' = {"at", "head", "version", "latest", "waiting"}
          /\ service'.at = "read" /\ service'.head = service.head
          /\ service'.waiting = service.waiting \ {request}
      <4>1. CASE request = "registry"
        BY <1>4, <2>1, <4>1 DEF Answer
      <4>2. CASE request = "snapshots"
        BY <1>4, <2>1, <4>2 DEF Answer
      <4> QED
        BY <1>4, <2>3, <4>1, <4>2
    <3>2. ServiceSound(service')
      BY <2>1, <2>3, <3>1 DEF ServiceSound
    <3> QED
      BY <1>2, <2>1, <3>2
  <2> QED
    BY <2>2, <2>3
<1>5. CASE Decide
  <2>1. HeadSound(service.head) /\ sent' = sent
    BY <1>5 DEF Decide, ServiceSound
  <2>2. CASE service' = Asleep
    BY <1>1, <1>2, <2>1, <2>2
  <2>3. CASE service' = [at |-> "hash", head |-> service.head, version |-> service.version]
    <3>1. ServiceSound(service')
      BY <2>1, <2>3 DEF ServiceSound
    <3> QED
      BY <1>2, <2>1, <3>1
  <2> QED
    BY <1>5, <2>2, <2>3 DEF Decide
<1>6. CASE GetBlockHash
  <2>1. HeadSound(service.head) /\ sent' = sent
    BY <1>6 DEF GetBlockHash, ServiceSound
  <2>2. CASE service' = Asleep
    BY <1>1, <1>2, <2>1, <2>2
  <2>3. CASE service' # Asleep
    <3> DEFINE n == service.head.number
               tx == [table |-> "anchor_snapshots", nonce |-> Len(sent) + 1, number |-> n,
                      hash |-> HashAt(n),
                      manifest |-> [hash |-> service.head.hash, version |-> service.version]]
    <3>1. Exists(n) /\ service' = [at |-> "send", tx |-> tx]
      BY <1>6, <2>3 DEF GetBlockHash
    <3>2. n \in Nat /\ Len(service.head.hash) = n
      BY <2>1, ChainAssumption DEF ChainAssumption, HeadSound
    <3>3. Len(HashAt(n)) = n
      BY <3>1, <3>2, KnownHash
    <3>4. TransactionSound(tx)
      BY <3>2, <3>3 DEF TransactionSound
    <3> HIDE DEF tx
    <3>5. ServiceSound(service')
      BY <3>1, <3>4 DEF ServiceSound
    <3> QED
      BY <1>2, <2>1, <3>5
  <2> QED
    BY <2>2, <2>3
<1>7. CASE Send
  <2>1. service' = Asleep /\ TransactionSound(service.tx)
    BY <1>7 DEF Send, ServiceSound
  <2>2. CASE sent' = sent
    BY <1>1, <1>2, <2>1, <2>2
  <2>3. CASE sent' # sent
    <3>1. Len(sent) < MaxSent /\ sent' = Append(sent, service.tx)
      BY <1>7, <2>3 DEF Send
    <3>2. IsList(sent) /\ Len(sent) \in Nat /\ MaxSent \in Nat
      BY AnchorAssumption DEF AnchorAssumption, SentSound, IsList
    <3>3. /\ IsList(sent') /\ Len(sent') = Len(sent) + 1 /\ sent'[Len(sent) + 1] = service.tx
          /\ \A i \in 1 .. Len(sent) : sent'[i] = sent[i]
      BY <3>1, <3>2, Appended
    <3>4. \A i \in 1 .. Len(sent') : TransactionSound(sent'[i])
      BY <2>1, <3>2, <3>3 DEF SentSound
    <3>5. SentSound(sent')
      BY <3>1, <3>2, <3>3, <3>4 DEF SentSound
    <3> QED
      BY <1>1, <2>1, <3>5
  <2> QED
    BY <2>2, <2>3
<1>8. CASE ServiceFails
  BY <1>1, <1>2, <1>8 DEF ServiceFails
<1> QED
  BY <1>3, <1>4, <1>5, <1>6, <1>7, <1>8 DEF ServiceStep

-----------------------------------------------------------------------------
(* The inductive invariant                                                  *)

LEMMA OffchainStarts == Init => OffchainInv
<1> SUFFICES ASSUME Init
             PROVE  OffchainInv
  OBVIOUS
<1> USE DEF Init, ChainInit, IndexerInit, AnchorInit
<1>1. StartBlock \in Nat /\ StartBlock <= MaxHeight /\ MaxHeight \in Nat /\ MaxFailures \in Nat /\ MaxSent \in Nat
  BY ChainAssumption, IndexerAssumption, AnchorAssumption
     DEF ChainAssumption, IndexerAssumption, AnchorAssumption
<1>2. /\ IsList(chain) /\ Len(chain) = StartBlock /\ \A i \in 1 .. Len(chain) : chain[i].event = None
  <2> DEFINE S == {chain[i] : i \in DOMAIN chain}
  <2>1. DOMAIN chain = 1 .. StartBlock /\ \A i \in 1 .. StartBlock : chain[i].event = None
    BY <1>1 DEF Quiet
  <2>2. chain \in [1 .. StartBlock -> S]
    BY <1>1
  <2> HIDE DEF S
  <2>3. chain \in Seq(S) /\ Len(chain) = StartBlock
    BY <1>1, <2>2, SeqDef
  <2> QED
    BY <2>1, <2>3 DEF IsList, S
<1>3. ChainShape(chain)
  BY <1>1, <1>2 DEF ChainShape
<1>4. ChainSound(chain)
  BY <1>2, <1>3 DEF ChainSound, AnchorsApart, AnchorsNamed, IsAnchor
<1>5. DbSound(db)
  BY DEF DbSound, RecordedOnce
<1>6. SentSound(sent)
  BY <1>1 DEF SentSound, IsList
<1>7. ServiceSound(service)
  BY DEF ServiceSound, Asleep
<1> QED
  BY <1>1, <1>4, <1>5, <1>6, <1>7, IdleSound DEF OffchainInv, IndexerSound

LEMMA OffchainSteps == OffchainInv /\ [Next]_offchainVars => OffchainInv'
<1> SUFFICES ASSUME OffchainInv, [Next]_offchainVars
             PROVE  OffchainInv'
  OBVIOUS
<1>1. ChainShape(chain) /\ DbSound(db)
  BY DEF OffchainInv, ChainSound, IndexerSound
<1>2. CASE ChainStep
  <2>1. PICK n \in StartBlock .. Len(chain) : \E b : Moves(n, b)
    BY <1>2, ChainMoves DEF OffchainInv
  <2>2. PICK b : Moves(n, b)
    BY <2>1
  <2>3. ChainSound(chain)' /\ reorgs' \in Nat
    BY <2>2, ChainStaysSound DEF OffchainInv, Moves
  <2> QED
    BY <1>2, <2>3 DEF ChainStep, OffchainInv, IndexerSound, indexerVars, anchorVars
<1>3. CASE Index
  <2>1. IndexerNext
    BY <1>3 DEF Index, IndexerNext
  <2>2. IndexerSound'
    BY <1>1, <2>1, IndexerStaysSound DEF OffchainInv
  <2> QED
    BY <1>3, <2>2 DEF Index, OffchainInv, chainVars, anchorVars
<1>4. CASE Anchor
  <2>1. ServiceSound(service)' /\ SentSound(sent)'
    BY <1>1, <1>4, ServiceStaysSound DEF Anchor, OffchainInv
  <2> QED
    BY <1>4, <2>1 DEF Anchor, OffchainInv, IndexerSound, chainVars, indexerVars
<1>5. CASE UNCHANGED offchainVars
  BY <1>5 DEF offchainVars, chainVars, indexerVars, anchorVars, OffchainInv, IndexerSound
<1> QED
  BY <1>2, <1>3, <1>4, <1>5 DEF Next

(* Chain, database, service and transactions stay sound together.           *)
THEOREM OffchainInductive == Spec => []OffchainInv
<1> QED
  BY OffchainStarts, OffchainSteps, PTL DEF Spec

(* The database agrees with itself in every state, also where a rollback   *)
(* was cut off between two statements and whatever was indexed after.       *)
THEOREM DatabaseAgrees == Spec => []RowsConsistent
<1>1. OffchainInv => RowsConsistent
  <2> SUFFICES ASSUME OffchainInv
               PROVE  RowsConsistent
    OBVIOUS
  <2>1. DbSound(db) /\ TickSound(tick, db) /\ failures \in 0 .. MaxFailures
    BY DEF OffchainInv, IndexerSound
  <2>2. IndexerTypeOK
    BY <2>1 DEF DbSound, TickSound, IndexerTypeOK
  <2>3. RowsIndexed /\ NothingBeyondHead
    BY <2>1 DEF DbSound, RowsIndexed, NothingBeyondHead
  <2>4. EventsRecordedOnce
    BY <2>1 DEF DbSound, RecordedOnce, EventsRecordedOnce
  <2> QED
    BY <2>2, <2>3, <2>4 DEF RowsConsistent
<1> QED
  BY <1>1, OffchainInductive, PTL

(* On every branch accepted anchors keep the contract's distance and, when  *)
(* their block was recent, name a block of their own branch, whatever the   *)
(* service resent and wherever the chain went in between.                   *)
THEOREM AnchorsKeepBranch == Spec => []AnchorsSound
<1>1. OffchainInv => AnchorsSound
  <2> SUFFICES ASSUME OffchainInv
               PROVE  AnchorsSound
    OBVIOUS
  <2>1. ChainSound(chain) /\ ServiceSound(service) /\ SentSound(sent) /\ DOMAIN chain = 1 .. Len(chain)
        /\ DOMAIN sent = 1 .. Len(sent)
    BY ShapeNumbers DEF OffchainInv, ChainSound, SentSound, IsList
  <2>2. AnchorTypeOK
    BY <2>1 DEF ServiceSound, SentSound, TransactionSound, AnchorTypeOK
  <2>3. AnchorsSpaced
    BY <2>1 DEF ChainSound, AnchorsApart, AnchorsSpaced
  <2>4. AnchorsOnBranch
    BY <2>1 DEF ChainSound, AnchorsNamed, NamesBranch, AnchorsOnBranch, HashAt
  <2> QED
    BY <2>2, <2>3, <2>4 DEF AnchorsSound
<1> QED
  BY <1>1, OffchainInductive, PTL

-----------------------------------------------------------------------------
(* One branch                                                               *)

LEMMA StoreEffect ==
  ASSUME DbSound(db), NEW n, Above(db, n), NEW hash, NEW event,
         event = None \/ Recordable(event), Store(n, hash, event)
  PROVE  /\ db'.head = HeadAt(n, hash)
         /\ DOMAIN db'.blocks = DOMAIN db.blocks \cup {n} /\ db'.blocks[n] = hash
         /\ \A m \in DOMAIN db.blocks : m # n /\ db'.blocks[m] = db.blocks[m]
         /\ db'.rows \subseteq db.rows \cup {[number |-> n, hash |-> hash, event |-> event]}
         /\ event # None /\ event.table # "policies" =>
              db'.rows = Insert(db.rows, [number |-> n, hash |-> hash, event |-> event])
         /\ event = None \/ event.table = "policies" => db'.rows = db.rows
<1> DEFINE row == [number |-> n, hash |-> hash, event |-> event]
<1>1. \A m \in DOMAIN db.blocks : m # n
  <2> SUFFICES ASSUME n \in DOMAIN db.blocks
               PROVE  FALSE
    OBVIOUS
  <2>1. n \in Nat /\ db.head # NoHead /\ n <= db.head.number /\ db.head.number < n
    BY DEF DbSound, Above
  <2>2. db.head.number \in Nat
    BY <2>1, ChainAssumption DEF ChainAssumption, DbSound
  <2> QED
    BY <2>1, <2>2
<1>2. db'.head = HeadAt(n, hash) /\ db'.blocks = UpsertBlock(n, hash) /\ db'.rows = ApplyEvent(event, n, hash).rows
  BY DEF Store
<1>3. CASE event = None
  <2>1. db'.rows = db.rows
    BY <1>2, <1>3 DEF ApplyEvent
  <2> QED
    BY <1>1, <1>2, <1>3, <2>1 DEF UpsertBlock
<1>4. CASE event # None /\ event.table = "policies"
  <2>1. db'.rows = db.rows
    BY <1>2, <1>4 DEF ApplyEvent
  <2> QED
    BY <1>1, <1>2, <1>4, <2>1 DEF UpsertBlock
<1>5. CASE event # None /\ event.table # "policies"
  <2>1. db'.rows = Insert(db.rows, row)
    BY <1>2, <1>5 DEF ApplyEvent
  <2>2. RecordedOnce(db.rows) /\ row.event.table \in RecordTables
    BY <1>5 DEF DbSound, Recordable
  <2>3. Insert(db.rows, row) \subseteq db.rows \cup {row}
    BY <2>2, InsertOnce
  <2> HIDE DEF row
  <2>4. db'.rows \subseteq db.rows \cup {row}
    BY <2>1, <2>3
  <2> QED
    BY <1>1, <1>2, <1>5, <2>1, <2>4 DEF UpsertBlock, row
<1> QED
  BY <1>3, <1>4, <1>5

LEMMA StoreOnBranch ==
  ASSUME ChainShape(chain), DbSound(db), StoredBranch(db), HeadOn(db, chain),
         NEW n, Above(db, n), n <= Len(chain), Store(n, HashAt(n), chain[n].event)
  PROVE  StoredBranch(db') /\ HeadOn(db', chain)
<1> DEFINE hash == HashAt(n)
           event == chain[n].event
           row == [number |-> n, hash |-> hash, event |-> event]
<1>1. /\ IsList(chain) /\ Len(chain) \in Nat /\ n \in 1 .. Len(chain) /\ n \in 0 .. Len(chain) /\ n \in Nat
      /\ event = None \/ Recordable(event)
      /\ IsList(hash) /\ Len(hash) = n /\ hash = SubSeq(chain, 1, n)
      /\ SubSeq(hash, 1, n) = hash /\ \A i \in 1 .. n : hash[i] = chain[i]
  <2>1. IsList(chain) /\ Len(chain) \in Nat /\ n \in 1 .. Len(chain) /\ n \in 0 .. Len(chain) /\ n \in Nat
    BY ShapeNumbers DEF Above
  <2> QED
    BY <2>1, PrefixOf, WholePrefix DEF ChainShape, HashAt
<1>2. \A m \in 0 .. n : SubSeq(hash, 1, m) = SubSeq(chain, 1, m)
  BY <1>1, PrefixOfPrefix
<1>3. /\ db'.head = HeadAt(n, hash)
      /\ DOMAIN db'.blocks = DOMAIN db.blocks \cup {n} /\ db'.blocks[n] = hash
      /\ \A m \in DOMAIN db.blocks : m # n /\ db'.blocks[m] = db.blocks[m]
      /\ db'.rows \subseteq db.rows \cup {row}
  BY <1>1, StoreEffect
<1>4. DbSound(db') /\ MaxHeight \in Nat /\ StartBlock \in Nat
  <2>1. n <= MaxHeight /\ MaxHeight \in Nat /\ StartBlock \in Nat
    BY <1>1, ShapeNumbers
  <2> QED
    BY <1>1, <2>1, StoreSound
<1> HIDE DEF hash, event
<1>5. ASSUME NEW m \in DOMAIN db.blocks
      PROVE  db.blocks[m] = SubSeq(hash, 1, m)
  <2>1. db.head # NoHead /\ m <= db.head.number /\ m \in Nat /\ db.head.number \in Nat /\ db.head.number < n
    BY <1>4 DEF DbSound, Above
  <2>2. db.blocks[m] = SubSeq(SubSeq(chain, 1, db.head.number), 1, m)
    BY <2>1 DEF StoredBranch, HeadOn
  <2>3. m \in 0 .. n /\ m \in 0 .. db.head.number /\ db.head.number \in 0 .. Len(chain)
    BY <1>1, <2>1
  <2> QED
    BY <1>1, <1>2, <2>2, <2>3, PrefixOfPrefix
<1>6. \A m \in DOMAIN db'.blocks : db'.blocks[m] = SubSeq(hash, 1, m)
  BY <1>1, <1>3, <1>5
<1>7. ASSUME NEW r \in db'.rows
      PROVE  r.event \in EmittedIn(r.hash)
  <2>1. CASE r \in db.rows
    BY <2>1 DEF StoredBranch
  <2>2. CASE r = row
    <3>1. event # None
      BY <1>4, <1>7, <2>2 DEF DbSound
    <3>2. n \in DOMAIN hash /\ hash[n].event = event
      BY <1>1 DEF IsList, event
    <3> QED
      BY <2>2, <3>1, <3>2 DEF EmittedIn
  <2> QED
    BY <1>3, <2>1, <2>2
<1>8. db'.head.hash = hash /\ db'.head.number = n
  BY <1>3 DEF HeadAt
<1> QED
  BY <1>1, <1>6, <1>7, <1>8 DEF StoredBranch, HeadOn

LEMMA RollbackOnBranch ==
  ASSUME DbSound(db), StoredBranch(db), NEW n \in DOMAIN db.blocks, NEW rows, rows \subseteq db.rows
  PROVE  /\ StoredBranch([db EXCEPT !.rows = rows])
         /\ StoredBranch([db EXCEPT !.rows = rows, !.blocks = BlocksBelow(n + 1)])
         /\ StoredBranch([db EXCEPT !.rows = rows, !.blocks = BlocksBelow(n + 1),
                                    !.head = HeadAt(n, db.blocks[n])])
<1> DEFINE blocks == BlocksBelow(n + 1)
           head == HeadAt(n, db.blocks[n])
           d == [db EXCEPT !.rows = rows, !.blocks = blocks, !.head = head]
           e == [db EXCEPT !.rows = rows, !.blocks = blocks]
           f == [db EXCEPT !.rows = rows]
<1>1. /\ d.rows = rows /\ d.blocks = blocks /\ d.head = head
      /\ e.rows = rows /\ e.blocks = blocks /\ e.head = db.head
      /\ f.rows = rows /\ f.blocks = db.blocks /\ f.head = db.head
  BY DEF DbSound
<1>2. /\ \A m \in DOMAIN blocks : m \in DOMAIN db.blocks /\ m < n + 1 /\ blocks[m] = db.blocks[m]
      /\ head.number = n /\ head.hash = db.blocks[n]
  BY DEF BlocksBelow, HeadAt
<1>3. db.head # NoHead /\ IsList(db.head.hash) /\ n \in 0 .. Len(db.head.hash) /\ n \in Nat
  <2>1. db.head # NoHead /\ n <= db.head.number /\ n \in Nat /\ Len(db.head.hash) = db.head.number
        /\ db.head.number \in Nat
    BY ChainAssumption DEF ChainAssumption, DbSound
  <2> QED
    BY <2>1 DEF StoredBranch
<1>4. db.blocks[n] = SubSeq(db.head.hash, 1, n) /\ IsList(db.blocks[n])
  BY <1>3, PrefixOf, ZenonT(40) DEF StoredBranch
<1>5. \A m \in 0 .. n : SubSeq(db.blocks[n], 1, m) = SubSeq(db.head.hash, 1, m)
  BY <1>3, <1>4, PrefixOfPrefix
<1>6. \A m \in DOMAIN blocks : m \in 0 .. n
  BY <1>2, <1>3, ChainAssumption DEF ChainAssumption, DbSound
<1> HIDE DEF blocks, head, d, e, f
<1>7. \A r \in rows : r.event \in EmittedIn(r.hash)
  BY DEF StoredBranch
<1>8. StoredBranch(f)
  BY <1>1, <1>7 DEF StoredBranch
<1>9. StoredBranch(e)
  BY <1>1, <1>2, <1>7 DEF StoredBranch
<1>10. \A m \in DOMAIN blocks : blocks[m] = SubSeq(head.hash, 1, m)
  <2> SUFFICES ASSUME NEW m \in DOMAIN blocks
               PROVE  blocks[m] = SubSeq(head.hash, 1, m)
    OBVIOUS
  <2>1. m \in DOMAIN db.blocks /\ blocks[m] = db.blocks[m] /\ m \in 0 .. n
    BY <1>2, <1>6
  <2>2. db.blocks[m] = SubSeq(db.head.hash, 1, m)
    BY <2>1 DEF StoredBranch
  <2> QED
    BY <1>2, <1>5, <2>1, <2>2
<1>11. StoredBranch(d)
  BY <1>1, <1>2, <1>4, <1>7, <1>10 DEF StoredBranch
<1> QED
  BY <1>8, <1>9, <1>11 DEF d, e, f, blocks, head

LEMMA CutOnBranch ==
  ASSUME DbSound(db), StoredBranch(db), NEW n \in DOMAIN db.blocks, NEW k \in 1 .. Len(Tables)
  PROVE  StoredBranch(RolledBackPart(n, k))
<1> DEFINE rows == KeptRows(n, k)
<1>1. rows \subseteq db.rows
  BY DEF KeptRows
<1>2. CASE k = Len(Tables)
  <2>1. RolledBackPart(n, k) = [db EXCEPT !.rows = rows, !.blocks = BlocksBelow(n + 1)]
    BY <1>2 DEF RolledBackPart
  <2> HIDE DEF rows
  <2>2. StoredBranch([db EXCEPT !.rows = rows, !.blocks = BlocksBelow(n + 1)])
    BY <1>1, RollbackOnBranch
  <2> QED
    BY <2>1, <2>2
<1>3. CASE k # Len(Tables)
  <2>1. RolledBackPart(n, k) = [db EXCEPT !.rows = rows, !.blocks = db.blocks]
    BY <1>3 DEF RolledBackPart
  <2>2. [db EXCEPT !.rows = rows, !.blocks = db.blocks] = [db EXCEPT !.rows = rows]
    BY DEF DbSound
  <2> HIDE DEF rows
  <2>3. StoredBranch([db EXCEPT !.rows = rows])
    BY <1>1, RollbackOnBranch
  <2> QED
    BY <2>1, <2>2, <2>3
<1> QED
  BY <1>2, <1>3

LEMMA IndexerKeepsBranch ==
  ASSUME ChainShape(chain), IndexerSound, OneBranch(db, chain, tick), IndexerNext
  PROVE  OneBranch(db', chain, tick')
<1>1. /\ DbSound(db) /\ TickSound(tick, db) /\ StoredBranch(db)
      /\ StartBlock \in Nat \ {0} /\ Len(chain) \in Nat /\ StartBlock <= Len(chain)
      /\ Confirmations \in Nat /\ Batch \in Nat \ {0}
  BY ShapeNumbers, IndexerAssumption DEF IndexerAssumption, IndexerSound, OneBranch
<1>2. ASSUME NEW d, StoredBranch(d)
      PROVE  OneBranch(d, chain, Idle)
  BY <1>2 DEF OneBranch, Idle
<1>3. CASE StartTick
  <2>1. tick'.at \in {"detect", "fetch"} /\ tick'.safe = SafeTip /\ db' = db
        /\ (tick'.at = "fetch" => db.head = NoHead)
    BY <1>3 DEF StartTick
  <2>2. SafeTip <= Len(chain)
    BY <1>1 DEF SafeTip
  <2> QED
    BY <1>1, <2>1, <2>2 DEF OneBranch, HeadOn
<1>4. CASE DetectReorg
  <2>1. /\ tick \in [at : {"detect", "fetch"}, safe : Nat, cursor : Nat] /\ tick.at = "detect"
        /\ tick.safe <= Len(chain) /\ db' = db
    BY <1>1, <1>4 DEF DetectReorg, TickSound, OneBranch
  <2>2. CASE tick' = Idle
    BY <1>1, <1>2, <2>1, <2>2
  <2>3. CASE tick' = [tick EXCEPT !.at = "fetch"] /\ Exists(db.head.number) /\ HashAt(db.head.number) = db.head.hash
    <3>1. tick'.at = "fetch" /\ tick'.safe = tick.safe
      BY <2>1, <2>3
    <3>2. HeadOn(db, chain)
      BY <2>3 DEF HeadOn, Exists, HashAt
    <3> QED
      BY <1>1, <2>1, <3>1, <3>2 DEF OneBranch
  <2>4. CASE tick' = [at |-> "probe", probe |-> db.head.number]
    BY <1>1, <2>1, <2>4 DEF OneBranch
  <2> QED
    BY <1>4, <2>2, <2>3, <2>4 DEF DetectReorg
<1>5. CASE ProbeDown
  <2>1. tick \in [at : {"probe"}, probe : Nat] /\ db' = db
    BY <1>1, <1>5 DEF ProbeDown, TickSound
  <2>2. CASE tick' = Idle
    BY <1>1, <1>2, <2>1, <2>2
  <2>3. CASE tick' = [tick EXCEPT !.probe = Highest - 1]
    <3>1. tick'.at = "probe"
      BY <2>1, <2>3
    <3> QED
      BY <1>1, <2>1, <3>1 DEF OneBranch
  <2> QED
    BY <1>5, <2>2, <2>3 DEF ProbeDown
<1>6. CASE Rollback
  <2>1. Highest \in DOMAIN db.blocks
    BY <1>1, <1>6, HighestStored DEF Rollback, CommonAncestor, TickSound
  <2>2. KeptRows(Highest, Len(Tables)) \subseteq db.rows
    BY DEF KeptRows
  <2>3. StoredBranch(db')
    BY <1>1, <1>6, <2>1, <2>2, RollbackOnBranch DEF Rollback
  <2> QED
    BY <1>2, <1>6, <2>3 DEF Rollback
<1>7. CASE CrashInRollback
  <2>1. Highest \in DOMAIN db.blocks
    BY <1>1, <1>7, HighestStored DEF CrashInRollback, CommonAncestor, TickSound
  <2>2. StoredBranch(db')
    BY <1>1, <1>7, <2>1, CutOnBranch DEF CrashInRollback
  <2> QED
    BY <1>2, <1>7, <2>2 DEF CrashInRollback
<1>8. CASE FetchLogs
  <2>1. /\ tick \in [at : {"detect", "fetch"}, safe : Nat, cursor : Nat] /\ Above(db, tick.cursor)
        /\ tick.safe <= Len(chain) /\ HeadOn(db, chain) /\ db' = db
    BY <1>1, <1>8 DEF FetchLogs, TickSound, OneBranch
  <2> DEFINE upper == IF tick.cursor + Batch - 1 < tick.safe THEN tick.cursor + Batch - 1 ELSE tick.safe
             logs == [n \in tick.cursor .. upper |-> IF Exists(n) THEN chain[n].event ELSE None]
  <2>2. CASE tick' = Idle
    BY <1>1, <1>2, <2>1, <2>2
  <2>3. CASE tick' # Idle
    <3>1. tick' = [at |-> "index", next |-> tick.cursor, upper |-> upper, logs |-> logs]
      BY <1>8, <2>3 DEF FetchLogs
    <3>2. tick.cursor \in Nat /\ upper \in Nat /\ upper <= Len(chain)
      <4>1. tick.cursor \in Nat /\ tick.safe \in Nat /\ tick.cursor + Batch - 1 \in Nat
        BY <1>1, <2>1 DEF Above
      <4> QED
        BY <1>1, <2>1, <4>1
    <3> HIDE DEF upper
    <3>3. \A n \in tick.cursor .. upper : Exists(n) /\ logs[n] = chain[n].event
      BY <1>1, <3>2 DEF Exists
    <3> HIDE DEF logs
    <3>4. tick'.at = "index" /\ tick'.next = tick.cursor /\ tick'.upper = upper /\ tick'.logs = logs
      BY <3>1
    <3> QED
      BY <1>1, <2>1, <3>2, <3>3, <3>4 DEF OneBranch
  <2> QED
    BY <2>2, <2>3
<1>9. CASE IndexBlock
  <2>1. /\ tick.at = "index" /\ tick \in [at : {"index"}, next : Nat, upper : Nat, logs : {tick.logs}]
        /\ Above(db, tick.next) /\ tick.next <= tick.upper /\ HeadOn(db, chain)
        /\ tick.upper <= Len(chain) /\ \A n \in tick.next .. tick.upper : tick.logs[n] = chain[n].event
    BY <1>1, <1>9 DEF IndexBlock, TickSound, OneBranch
  <2> DEFINE n == tick.next
  <2>2. n \in Nat /\ n <= Len(chain) /\ Exists(n) /\ n \in tick.next .. tick.upper /\ tick.upper \in Nat
    BY <1>1, <2>1 DEF Exists
  <2>3. /\ Store(n, HashAt(n), chain[n].event)
        /\ tick' = IF n = tick.upper THEN Idle ELSE [tick EXCEPT !.next = n + 1]
    BY <1>9, <2>1, <2>2 DEF IndexBlock
  <2>4. StoredBranch(db') /\ HeadOn(db', chain)
    BY <1>1, <2>1, <2>2, <2>3, StoreOnBranch
  <2>5. CASE tick' = Idle
    BY <1>2, <2>4, <2>5
  <2>6. CASE tick' = [tick EXCEPT !.next = n + 1]
    <3>1. tick'.at = "index" /\ tick'.next = n + 1 /\ tick'.upper = tick.upper /\ tick'.logs = tick.logs
      BY <2>1, <2>6
    <3>2. \A m \in n + 1 .. tick.upper : m \in n .. tick.upper
      BY <2>2
    <3> QED
      BY <2>1, <2>4, <3>1, <3>2 DEF OneBranch
  <2> QED
    BY <2>3, <2>5, <2>6
<1>10. CASE TickFails
  BY <1>1, <1>2, <1>10 DEF TickFails
<1> QED
  BY <1>3, <1>4, <1>5, <1>6, <1>7, <1>8, <1>9, <1>10 DEF IndexerNext, IndexerStep

(* A chain that only grows leaves what the tick read of it as it was.       *)
LEMMA GrowthKeepsBranch ==
  ASSUME NEW c, ChainShape(c), NEW b, IndexerSound, OneBranch(db, c, tick), NEW a, a = Append(c, b)
  PROVE  OneBranch(db, a, tick)
<1>1. /\ IsList(c) /\ Len(c) \in Nat /\ Len(a) = Len(c) + 1
      /\ \A i \in 1 .. Len(c) : a[i] = c[i]
      /\ \A m \in 0 .. Len(c) : SubSeq(a, 1, m) = SubSeq(c, 1, m)
  BY ShapeNumbers, Appended, PrefixOfAppended
<1>2. db.head # NoHead => db.head.number \in Nat
  BY ChainAssumption DEF ChainAssumption, IndexerSound, DbSound
<1>3. ASSUME HeadOn(db, c)
      PROVE  HeadOn(db, a)
  <2> SUFFICES ASSUME db.head # NoHead
               PROVE  db.head.number <= Len(a) /\ db.head.hash = SubSeq(a, 1, db.head.number)
    BY DEF HeadOn
  <2>1. db.head.number \in Nat /\ db.head.number <= Len(c) /\ db.head.hash = SubSeq(c, 1, db.head.number)
    BY <1>2, <1>3 DEF HeadOn
  <2>2. db.head.number \in 0 .. Len(c) /\ db.head.number <= Len(a)
    BY <1>1, <2>1
  <2> QED
    BY <1>1, <2>1, <2>2
<1>4. tick.at \in {"detect", "fetch"} => tick.safe \in Nat /\ tick.safe <= Len(c)
  BY DEF IndexerSound, TickSound, OneBranch
<1>5. ASSUME tick.at = "index"
      PROVE  tick.upper <= Len(a) /\ \A n \in tick.next .. tick.upper : tick.logs[n] = a[n].event
  <2>1. /\ tick.upper \in Nat /\ tick.next \in Nat /\ 1 <= tick.next /\ tick.upper <= Len(c)
        /\ \A n \in tick.next .. tick.upper : tick.logs[n] = c[n].event
    BY <1>5, ChainAssumption DEF ChainAssumption, IndexerSound, TickSound, Above, OneBranch
  <2>2. \A n \in tick.next .. tick.upper : n \in 1 .. Len(c)
    BY <1>1, <2>1
  <2> QED
    BY <1>1, <2>1, <2>2
<1>6. /\ StoredBranch(db)
      /\ tick.at \in {"detect", "fetch"} => tick.safe <= Len(a)
      /\ tick.at \in {"fetch", "index"} => HeadOn(db, a)
  <2>1. tick.at \in {"detect", "fetch"} => tick.safe <= Len(a)
    BY <1>1, <1>4
  <2>2. StoredBranch(db) /\ (tick.at \in {"fetch", "index"} => HeadOn(db, c))
    BY DEF OneBranch
  <2> QED
    BY <1>3, <2>1, <2>2
<1> QED
  BY <1>5, <1>6 DEF OneBranch

-----------------------------------------------------------------------------
(* Nothing missing                                                          *)

LEMMA RecordedEvents ==
  \A e \in MCEvents : /\ e \in PolicyEvents <=> e.table = "policies"
                      /\ e.table # "anchor_snapshots"
BY DEF MCEvents, PolicyEvents, Created, Revoked, Commit, Rotation, Step

LEMMA NextInChain ==
  ASSUME DbSound(db), HeadOn(db, chain), ChainShape(chain)
  PROVE  NextAfter(db) \in Nat /\ StartBlock <= NextAfter(db)
         /\ (db.head # NoHead => db.head.number \in StartBlock .. Len(chain))
<1>1. StartBlock \in Nat /\ MaxHeight \in Nat /\ Len(chain) \in Nat
  BY ShapeNumbers
<1>2. db.head # NoHead => db.head.number \in StartBlock .. MaxHeight /\ db.head.number <= Len(chain)
  BY DEF DbSound, HeadOn
<1> QED
  BY <1>1, <1>2 DEF NextAfter

LEMMA StoreMissesNothing ==
  ASSUME ChainShape(chain), ScenarioEvents, DbSound(db), StoredBranch(db), HeadOn(db, chain),
         NEW n, n = NextAfter(db), n <= Len(chain), Store(n, HashAt(n), chain[n].event),
         NothingMissing(db, Idle)
  PROVE  NothingMissing(db', Idle) /\ NextAfter(db') = n + 1
<1> DEFINE event == chain[n].event
           hash == HashAt(n)
           row == [number |-> n, hash |-> hash, event |-> event]
<1>1. /\ IsList(chain) /\ Len(chain) \in Nat /\ n \in Nat /\ n \in 0 .. Len(chain) /\ n \in 1 .. Len(chain)
      /\ Above(db, n) /\ StartBlock \in Nat \ {0} /\ StartBlock <= n
      /\ (db.head # NoHead => db.head.number \in StartBlock .. Len(chain) /\ n = db.head.number + 1)
      /\ (db.head = NoHead => n = StartBlock)
  BY ShapeNumbers, NextInChain DEF Above, NextAfter
<1>2. event \in MCEvents \cup {None} /\ (event = None \/ Recordable(event))
  BY <1>1 DEF ScenarioEvents, ChainShape
<1>3. /\ db'.head = HeadAt(n, hash) /\ DOMAIN db'.blocks = DOMAIN db.blocks \cup {n}
      /\ db'.rows \subseteq db.rows \cup {row}
      /\ event # None /\ event.table # "policies" => db'.rows = Insert(db.rows, row)
      /\ event = None \/ event.table = "policies" => db'.rows = db.rows
  BY <1>1, <1>2, StoreEffect
<1>4. /\ \A i \in 1 .. n : hash[i] = chain[i]
      /\ \A m \in 1 .. n : \A i \in 1 .. m : SubSeq(chain, 1, m)[i] = chain[i]
      /\ \A m \in 1 .. n : DOMAIN SubSeq(chain, 1, m) = 1 .. m
  <2>1. \A m \in 1 .. n : m \in 0 .. Len(chain)
    BY <1>1
  <2>2. \A m \in 1 .. n : /\ \A i \in 1 .. m : SubSeq(chain, 1, m)[i] = chain[i]
                          /\ IsList(SubSeq(chain, 1, m)) /\ Len(SubSeq(chain, 1, m)) = m
    BY <1>1, <2>1, PrefixOf
  <2>3. n \in 1 .. n
    BY <1>1
  <2> QED
    BY <2>2, <2>3 DEF HashAt, IsList
<1>5. ASSUME NEW m \in DOMAIN db.blocks
      PROVE  /\ db.head # NoHead /\ m \in 1 .. n /\ m < n /\ m <= db.head.number /\ StartBlock <= m
             /\ db.blocks[m] = SubSeq(chain, 1, m) /\ db.head.hash[m] = chain[m]
  <2>1. /\ db.head # NoHead /\ m <= db.head.number /\ m \in StartBlock .. MaxHeight
        /\ db.head.number <= Len(chain) /\ db.head.hash = SubSeq(chain, 1, db.head.number)
        /\ db.blocks[m] = SubSeq(db.head.hash, 1, m)
    BY DEF DbSound, HeadOn, StoredBranch
  <2>2. m \in Nat /\ 1 <= m /\ StartBlock <= m /\ db.head.number \in Nat /\ n = db.head.number + 1
    BY <1>1, <2>1
  <2>3. m \in 1 .. n /\ m < n /\ db.head.number \in 1 .. n /\ m \in 1 .. db.head.number
        /\ m \in 0 .. db.head.number /\ db.head.number \in 0 .. Len(chain)
    BY <1>1, <2>1, <2>2
  <2>4. SubSeq(db.head.hash, 1, m) = SubSeq(chain, 1, m)
    BY <1>1, <2>1, <2>3, PrefixOfPrefix
  <2>5. db.head.hash[m] = chain[m]
    BY <1>4, <2>1, <2>3
  <2> QED
    BY <2>1, <2>2, <2>3, <2>4, <2>5
<1> HIDE DEF hash
<1>6. ASSUME event # None, event.table # "policies"
      PROVE  db'.rows = db.rows \cup {row}
  <2>1. event.table # "anchor_snapshots" /\ event.table \in RecordTables
    BY <1>2, <1>6, RecordedEvents DEF Recordable
  <2>2. ASSUME NEW r \in db.rows, SameRecord(r.event, event)
        PROVE  FALSE
    <3>1. r.event = event
      BY <2>1, <2>2 DEF SameRecord
    <3>2. r.number \in DOMAIN db.blocks /\ db.blocks[r.number] = r.hash /\ r.event \in EmittedIn(r.hash)
      BY DEF DbSound, StoredBranch
    <3> DEFINE m == r.number
    <3>3. r.hash = SubSeq(chain, 1, m) /\ m \in 1 .. n /\ m < n
      BY <1>5, <3>2
    <3>4. PICK i \in 1 .. m : chain[i].event = event
      BY <1>4, <3>1, <3>2, <3>3 DEF EmittedIn
    <3>5. i \in 1 .. Len(chain) /\ i # n
      BY <1>1, <3>3
    <3> QED
      BY <1>1, <1>6, <3>4, <3>5 DEF ChainShape
  <2>3. SameRows(db.rows, row) = {}
    BY <2>2 DEF SameRows
  <2>4. RecordedOnce(db.rows) /\ row.event.table \in RecordTables
    BY <2>1 DEF DbSound
  <2> HIDE DEF row
  <2> QED
    BY <1>3, <1>6, <2>3, <2>4, InsertOnce
<1>7. db.rows \subseteq db'.rows
  BY <1>2, <1>3, <1>6
<1>8. EventKept(db'.rows, n, event)
  <2>1. CASE event = None \/ event \in PolicyEvents
    BY <2>1 DEF EventKept
  <2>2. CASE event # None /\ event \notin PolicyEvents
    <3>1. row \in db'.rows
      BY <1>2, <1>6, <2>2, RecordedEvents
    <3>2. row.number = n /\ row.event = event
      OBVIOUS
    <3> HIDE DEF row, event
    <3> QED
      BY <3>1, <3>2 DEF EventKept
  <2> QED
    BY <2>1, <2>2
<1>9. db'.head # NoHead /\ db'.head.number = n /\ db'.head.hash = hash /\ NextAfter(db') = n + 1
  <2>1. HeadAt(n, hash).number = n /\ NoHead.number = 0 /\ HeadAt(n, hash).hash = hash /\ n # 0
    BY <1>1 DEF HeadAt, NoHead
  <2> QED
    BY <1>3, <2>1 DEF NextAfter
<1>10. ASSUME NEW m \in DOMAIN db.blocks
       PROVE  EventKept(db'.rows, m, hash[m].event)
  <2>1. EventKept(db.rows, m, db.head.hash[m].event)
    BY DEF NothingMissing
  <2>2. EventKept(db.rows, m, hash[m].event)
    BY <1>4, <1>5, <2>1
  <2> QED
    BY <1>7, <2>2 DEF EventKept
<1>11. \A m \in DOMAIN db'.blocks : EventKept(db'.rows, m, db'.head.hash[m].event)
  <2>1. hash[n].event = event /\ n \in 1 .. n
    BY <1>1, <1>4
  <2> HIDE DEF event
  <2> QED
    BY <1>3, <1>8, <1>9, <1>10, <2>1
<1>12. DOMAIN db'.blocks = StartBlock .. n
  <2>1. DOMAIN db.blocks = StartBlock .. n - 1
    BY DEF NothingMissing
  <2> QED
    BY <1>1, <1>3, <2>1
<1>13. NothingMissing(db', Idle)
  <2>1. DOMAIN db'.blocks = StartBlock .. NextAfter(db') - 1
    BY <1>1, <1>9, <1>12
  <2>2. Idle.at = "idle"
    BY DEF Idle
  <2> QED
    BY <1>11, <2>1, <2>2 DEF NothingMissing
<1> QED
  BY <1>9, <1>13

LEMMA RollbackMissesNothing ==
  ASSUME DbSound(db), StoredBranch(db), NEW n \in DOMAIN db.blocks, NothingMissing(db, Idle),
         NEW d, d = [db EXCEPT !.rows = KeptRows(n, Len(Tables)), !.blocks = BlocksBelow(n + 1),
                               !.head = HeadAt(n, db.blocks[n])]
  PROVE  NothingMissing(d, Idle)
<1> DEFINE rows == KeptRows(n, Len(Tables))
           blocks == BlocksBelow(n + 1)
           head == HeadAt(n, db.blocks[n])
<1>1. d.rows = rows /\ d.blocks = blocks /\ d.head = head
  BY DEF DbSound
<1>2. /\ db.head # NoHead /\ n \in Nat \ {0} /\ StartBlock \in Nat /\ StartBlock <= n /\ IsList(db.head.hash)
      /\ n <= db.head.number /\ db.head.number \in Nat /\ Len(db.head.hash) = db.head.number
  BY ChainAssumption DEF ChainAssumption, DbSound, StoredBranch
<1>3. head.number = n /\ head.hash = db.blocks[n] /\ head # NoHead /\ NextAfter(d) = n + 1
  <2>1. head.number = n /\ head.hash = db.blocks[n] /\ NoHead.number = 0
    BY DEF HeadAt, NoHead
  <2> QED
    BY <1>1, <1>2, <2>1 DEF NextAfter
<1>4. DOMAIN blocks = {m \in DOMAIN db.blocks : m < n + 1}
  BY DEF BlocksBelow
<1>5. DOMAIN db.blocks = StartBlock .. db.head.number
  <2>1. DOMAIN db.blocks = StartBlock .. NextAfter(db) - 1
    BY DEF NothingMissing
  <2> QED
    BY <1>2, <2>1 DEF NextAfter
<1>6. DOMAIN blocks = StartBlock .. n
  <2> HIDE DEF blocks
  <2> DEFINE top == db.head.number
  <2>1. DOMAIN blocks = {m \in StartBlock .. top : m < n + 1}
    BY <1>4, <1>5
  <2>2. top \in Nat /\ n <= top /\ n \in Nat /\ StartBlock \in Nat
    BY <1>2
  <2> HIDE DEF top
  <2> QED
    BY <2>1, <2>2
<1>7. \A r \in db.rows : r.number <= n => r \in rows
  BY DEF KeptRows
<1> HIDE DEF rows, blocks, head
<1>8. ASSUME NEW m \in DOMAIN blocks
      PROVE  EventKept(rows, m, head.hash[m].event)
  <2>1. m \in DOMAIN db.blocks /\ m <= n /\ m \in 1 .. n
    BY <1>2, <1>5, <1>6, ChainAssumption DEF ChainAssumption
  <2>2. head.hash[m] = db.head.hash[m]
    <3>1. db.blocks[n] = SubSeq(db.head.hash, 1, n) /\ n \in 0 .. Len(db.head.hash)
      BY <1>2 DEF StoredBranch
    <3>2. SubSeq(db.head.hash, 1, n)[m] = db.head.hash[m]
      BY <1>2, <2>1, <3>1, PrefixOf
    <3> QED
      BY <1>3, <3>1, <3>2
  <2>3. EventKept(db.rows, m, db.head.hash[m].event)
    BY <2>1 DEF NothingMissing
  <2> QED
    BY <1>7, <2>1, <2>2, <2>3 DEF EventKept
<1>9. DOMAIN d.blocks = StartBlock .. NextAfter(d) - 1
  BY <1>1, <1>2, <1>3, <1>6
<1>10. Idle.at = "idle"
  BY DEF Idle
<1> QED
  BY <1>1, <1>8, <1>9, <1>10 DEF NothingMissing

LEMMA IndexerMissesNothing ==
  ASSUME ChainShape(chain), ScenarioEvents, IndexerSound, OneBranch(db, chain, tick),
         NothingMissing(db, tick), IndexerStep \/ TickFails
  PROVE  NothingMissing(db', tick')
<1>1. /\ DbSound(db) /\ TickSound(tick, db) /\ StoredBranch(db)
      /\ DOMAIN db.blocks = StartBlock .. NextAfter(db) - 1
      /\ \A n \in DOMAIN db.blocks : EventKept(db.rows, n, db.head.hash[n].event)
  BY DEF IndexerSound, OneBranch, NothingMissing
<1>2. ASSUME db' = db, tick'.at \in {"detect", "fetch"} => tick'.cursor = NextAfter(db),
             tick'.at = "index" => tick'.next = NextAfter(db)
      PROVE  NothingMissing(db', tick')
  BY <1>1, <1>2 DEF NothingMissing
<1>3. Idle.at = "idle"
  BY DEF Idle
<1>4. CASE StartTick
  BY <1>2, <1>4 DEF StartTick, NextAfter
<1>5. CASE DetectReorg
  <2>1. tick \in [at : {"detect", "fetch"}, safe : Nat, cursor : Nat] /\ tick.cursor = NextAfter(db)
        /\ tick.at = "detect" /\ db' = db
    BY <1>1, <1>5 DEF DetectReorg, TickSound, NothingMissing
  <2>2. CASE tick' = [tick EXCEPT !.at = "fetch"]
    <3>1. tick'.at = "fetch" /\ tick'.cursor = tick.cursor
      BY <2>1, <2>2
    <3> QED
      BY <1>2, <2>1, <3>1
  <2>3. CASE tick' = Idle \/ tick' = [at |-> "probe", probe |-> db.head.number]
    <3>1. tick'.at \in {"idle", "probe"}
      BY <1>3, <2>3
    <3> QED
      BY <1>2, <2>1, <3>1
  <2> QED
    BY <1>5, <2>2, <2>3 DEF DetectReorg
<1>6. CASE ProbeDown
  <2>1. tick \in [at : {"probe"}, probe : Nat] /\ db' = db
    BY <1>1, <1>6 DEF ProbeDown, TickSound
  <2>2. tick' = Idle \/ tick' = [tick EXCEPT !.probe = Highest - 1]
    BY <1>6 DEF ProbeDown
  <2>3. tick'.at \in {"idle", "probe"}
    BY <1>3, <2>1, <2>2
  <2> QED
    BY <1>2, <2>1, <2>3
<1>7. CASE Rollback
  <2>1. Highest \in DOMAIN db.blocks
    BY <1>1, <1>7, HighestStored DEF Rollback, CommonAncestor, TickSound
  <2>2. NothingMissing(db, Idle)
    BY <1>1, <1>3 DEF NothingMissing
  <2>3. db' = [db EXCEPT !.rows = KeptRows(Highest, Len(Tables)), !.blocks = BlocksBelow(Highest + 1),
                         !.head = HeadAt(Highest, db.blocks[Highest])] /\ tick' = Idle
    BY <1>7 DEF Rollback
  <2>4. NothingMissing(db', Idle)
    BY <1>1, <2>1, <2>2, <2>3, RollbackMissesNothing
  <2> QED
    BY <2>3, <2>4
<1>8. CASE FetchLogs
  <2>1. tick.cursor = NextAfter(db) /\ db' = db
    BY <1>8 DEF FetchLogs, NothingMissing
  <2>2. tick' = Idle \/ (tick'.at = "index" /\ tick'.next = tick.cursor)
    BY <1>8 DEF FetchLogs
  <2> QED
    BY <1>2, <1>3, <2>1, <2>2
<1>9. CASE IndexBlock
  <2>1. /\ tick.at = "index" /\ tick \in [at : {"index"}, next : Nat, upper : Nat, logs : {tick.logs}]
        /\ tick.next <= tick.upper /\ tick.next = NextAfter(db) /\ HeadOn(db, chain)
        /\ tick.upper <= Len(chain) /\ \A n \in tick.next .. tick.upper : tick.logs[n] = chain[n].event
    BY <1>1, <1>9 DEF IndexBlock, TickSound, OneBranch, NothingMissing
  <2> DEFINE n == tick.next
  <2>2. n \in Nat /\ n <= Len(chain) /\ Exists(n) /\ n \in tick.next .. tick.upper
    <3>1. Len(chain) \in Nat
      BY ShapeNumbers
    <3> QED
      BY <2>1, <3>1 DEF Exists
  <2>3. /\ Store(n, HashAt(n), chain[n].event)
        /\ tick' = IF n = tick.upper THEN Idle ELSE [tick EXCEPT !.next = n + 1]
    BY <1>9, <2>1, <2>2 DEF IndexBlock
  <2>4. NothingMissing(db, Idle)
    BY <1>1, <1>3 DEF NothingMissing
  <2>5. NothingMissing(db', Idle) /\ NextAfter(db') = n + 1
    BY <1>1, <2>1, <2>2, <2>3, <2>4, StoreMissesNothing
  <2>6. CASE tick' = Idle
    BY <2>5, <2>6
  <2>7. CASE tick' = [tick EXCEPT !.next = n + 1]
    <3>1. tick'.at = "index" /\ tick'.next = n + 1
      BY <2>1, <2>7
    <3> QED
      BY <2>5, <3>1 DEF NothingMissing
  <2> QED
    BY <2>3, <2>6, <2>7
<1>10. CASE TickFails
  BY <1>2, <1>3, <1>10 DEF TickFails
<1> QED
  BY <1>4, <1>5, <1>6, <1>7, <1>8, <1>9, <1>10 DEF IndexerStep

-----------------------------------------------------------------------------
(* What an indexer at rest holds                                            *)

LEMMA BranchStarts == Init => BranchInv
<1> SUFFICES ASSUME Init
             PROVE  BranchInv
  OBVIOUS
<1> USE DEF Init, ChainInit, IndexerInit, AnchorInit
<1>1. StartBlock \in Nat /\ DOMAIN chain = 1 .. StartBlock /\ Len(chain) = StartBlock
      /\ \A i \in 1 .. StartBlock : chain[i].event = None
  BY ChainAssumption DEF ChainAssumption, Quiet
<1>2. ScenarioEvents
  BY <1>1 DEF ScenarioEvents
<1>3. db.head = NoHead /\ DOMAIN db.blocks = {} /\ db.rows = {} /\ tick.at = "idle"
  BY DEF Idle
<1>4. OneBranch(db, chain, tick)
  BY <1>3 DEF OneBranch, StoredBranch
<1>5. StartBlock .. StartBlock - 1 = {}
  BY <1>1
<1>6. NothingMissing(db, tick)
  BY <1>3, <1>5 DEF NothingMissing, NextAfter
<1>7. scenario = "anchor" => "straddled" \in mishaps
  OBVIOUS
<1> QED
  BY <1>2, <1>4, <1>6, <1>7 DEF BranchInv

LEMMA BranchSteps == OffchainInv /\ BranchInv /\ [Next]_offchainVars => BranchInv'
<1> SUFFICES ASSUME OffchainInv, BranchInv, [Next]_offchainVars
             PROVE  BranchInv'
  OBVIOUS
<1>1. ChainShape(chain) /\ IndexerSound
  BY DEF OffchainInv, ChainSound
<1>2. CASE ChainStep
  <2>1. PICK n \in StartBlock .. Len(chain) : \E b : Moves(n, b)
    BY <1>2, ChainMoves DEF OffchainInv
  <2>2. PICK b : Moves(n, b)
    BY <2>1
  <2>3. ChainShape(chain)'
    BY <2>2, ChainStaysSound DEF OffchainInv, ChainSound
  <2>4. /\ db' = db /\ tick' = tick /\ scenario' = scenario
        /\ mishaps' = mishaps \cup IF tick # Idle /\ reorgs' # reorgs THEN {"straddled"} ELSE {}
        /\ \A event \in EmittedIn(chain') : OfScenario(event)
    BY <1>2 DEF ChainStep, indexerVars
  <2>5. scenario # "anchor" => ScenarioEvents'
    <3> SUFFICES ASSUME scenario # "anchor", NEW i \in 1 .. Len(chain'), chain'[i].event # None
                 PROVE  chain'[i].event \in MCEvents
      BY DEF ScenarioEvents
    <3>1. chain'[i].event \in EmittedIn(chain')
      BY <2>3 DEF EmittedIn, ChainShape, IsList
    <3>2. OfScenario(chain'[i].event)
      BY <2>4, <3>1
    <3> QED
      BY <3>2 DEF OfScenario, MCEvents
  <2>6. ASSUME "straddled" \notin mishaps'
        PROVE  OneBranch(db', chain', tick')
    <3>1. OneBranch(db, chain, tick) /\ (tick = Idle \/ reorgs' = reorgs)
      BY <2>4, <2>6 DEF BranchInv
    <3>2. CASE tick = Idle
      BY <2>4, <3>1, <3>2 DEF OneBranch, Idle
    <3>3. CASE reorgs' = reorgs
      <4>1. reorgs \in Nat /\ IsList(chain)
        BY <1>1 DEF OffchainInv, ChainShape
      <4>2. n = Len(chain)
        BY <2>2, <3>3, <4>1 DEF Moves
      <4>3. chain' = Append(chain, b)
        BY <2>2, <4>1, <4>2, WholePrefix DEF Moves, HashAt
      <4> QED
        BY <1>1, <2>4, <3>1, <4>3, GrowthKeepsBranch
    <3> QED
      BY <3>1, <3>2, <3>3
  <2>7. mishaps' = {} => NothingMissing(db', tick')
    BY <2>4 DEF BranchInv
  <2>8. scenario' = "anchor" => "straddled" \in mishaps'
    BY <2>4 DEF BranchInv
  <2> QED
    BY <2>4, <2>5, <2>6, <2>7, <2>8 DEF BranchInv
<1>3. CASE Index
  <2>1. /\ chain' = chain /\ scenario' = scenario /\ IndexerNext
        /\ mishaps' = mishaps \/ mishaps' = mishaps \cup {"interrupted"}
        /\ mishaps' = {} => mishaps = {} /\ (IndexerStep \/ TickFails)
    BY <1>3 DEF Index, IndexerNext, chainVars
  <2>2. ScenarioEvents => ScenarioEvents'
    BY <2>1 DEF ScenarioEvents
  <2>3. "straddled" \notin mishaps' => OneBranch(db', chain', tick')
    BY <1>1, <2>1, IndexerKeepsBranch DEF BranchInv
  <2>4. mishaps' = {} => NothingMissing(db', tick')
    BY <1>1, <2>1, IndexerMissesNothing DEF BranchInv
  <2> QED
    BY <2>1, <2>2, <2>3, <2>4 DEF BranchInv
<1>4. CASE Anchor \/ UNCHANGED offchainVars
  <2>1. UNCHANGED <<chain, db, tick, scenario, mishaps>>
    BY <1>4 DEF Anchor, offchainVars, chainVars, indexerVars, mcVars
  <2> QED
    BY <2>1 DEF BranchInv, ScenarioEvents
<1> QED
  BY <1>2, <1>3, <1>4 DEF Next

(* An indexer at rest under no reorganisation in the middle of a tick holds *)
(* rows of its chain only and, when no rollback was cut off, all of them.   *)
THEOREM RestingRowsExact == Spec => []RowsExact
<1>1. OffchainInv /\ BranchInv => RowsExact
  <2> SUFFICES ASSUME OffchainInv, BranchInv
               PROVE  RowsExact
    OBVIOUS
  <2>1. ChainShape(chain) /\ DbSound(db) /\ IsList(chain) /\ Len(chain) \in Nat /\ StartBlock \in Nat \ {0}
        /\ MaxHeight \in Nat
    BY ShapeNumbers DEF OffchainInv, ChainSound, IndexerSound
  <2>2. ASSUME AtRest, "straddled" \notin mishaps
        PROVE  /\ StoredBranch(db) /\ db.head # NoHead /\ db.head.number \in StartBlock .. Len(chain)
               /\ db.head.hash = SubSeq(chain, 1, db.head.number)
    <3>1. db.head # NoHead /\ db.head.number = SafeTip /\ db.head.hash = SubSeq(chain, 1, SafeTip)
      BY <2>2 DEF AtRest, AtTip, HashAt
    <3>2. SafeTip <= Len(chain)
      BY <2>1, IndexerAssumption DEF IndexerAssumption, SafeTip
    <3>3. db.head.number \in StartBlock .. MaxHeight
      BY <2>1, <3>1 DEF DbSound
    <3> QED
      BY <2>1, <2>2, <3>1, <3>2, <3>3 DEF BranchInv, OneBranch
  <2>3. ASSUME AtRest, "straddled" \notin mishaps, NEW r \in Served
        PROVE  r.event \in EmittedIn(HashAt(r.number))
    <3>1. r \in db.rows
      BY <2>3 DEF Served, ServedSteps, ServedCommits, ServedSnapshots, ServedRotations, ServedFrom
    <3> DEFINE n == r.number
    <3>2. n \in DOMAIN db.blocks /\ db.blocks[n] = r.hash /\ n \in StartBlock .. MaxHeight /\ n <= db.head.number
      BY <2>1, <3>1 DEF DbSound
    <3>3. n \in 0 .. db.head.number /\ db.head.number \in 0 .. Len(chain)
      BY <2>1, <2>2, <2>3, <3>2
    <3>4. r.hash = SubSeq(SubSeq(chain, 1, db.head.number), 1, n)
      BY <2>2, <2>3, <3>2 DEF StoredBranch
    <3>5. r.hash = HashAt(n)
      BY <2>1, <3>3, <3>4, PrefixOfPrefix DEF HashAt
    <3> QED
      BY <2>2, <2>3, <3>1, <3>5 DEF StoredBranch
  <2>4. OrphansDropped
    BY <2>3 DEF OrphansDropped, OrphansExcluded
  <2>5. ASSUME mishaps = {}, AtRest, NEW n \in 1 .. db.head.number,
               chain[n].event # None, chain[n].event \notin PolicyEvents
        PROVE  \E r \in Served : r.number = n /\ r.event = chain[n].event
    <3>1. db.head # NoHead /\ db.head.number \in StartBlock .. Len(chain)
          /\ db.head.hash = SubSeq(chain, 1, db.head.number) /\ NothingMissing(db, tick)
      BY <2>2, <2>5 DEF BranchInv
    <3>2. ~(n \in 1 .. StartBlock) \/ n = StartBlock
      BY <2>1, <2>5 DEF ChainShape
    <3>3. n \in StartBlock .. db.head.number /\ NextAfter(db) - 1 = db.head.number
          /\ db.head.number \in 0 .. Len(chain)
      BY <2>1, <3>1, <3>2 DEF NextAfter
    <3>4. n \in DOMAIN db.blocks
      BY <3>1, <3>3 DEF NothingMissing
    <3>5. EventKept(db.rows, n, db.head.hash[n].event)
      BY <3>1, <3>4 DEF NothingMissing
    <3>6. db.head.hash[n] = chain[n]
      BY <2>1, <3>1, <3>3, PrefixOf
    <3>7. PICK r \in db.rows : r.number = n /\ r.event = chain[n].event
      BY <2>5, <3>5, <3>6 DEF EventKept
    <3>8. r \in Served
      BY <2>1 DEF DbSound, RecordTables, Served, ServedSteps, ServedCommits, ServedSnapshots, ServedRotations,
                  ServedFrom
    <3> QED
      BY <3>7, <3>8
  <2>6. RowsComplete
    BY <2>5 DEF RowsComplete
  <2> QED
    BY <2>4, <2>6 DEF RowsExact
<1> QED
  BY <1>1, OffchainInductive, BranchStarts, BranchSteps, OffchainSteps, OffchainStarts, PTL DEF Spec
=============================================================================
