------------------------------ MODULE Indexer ------------------------------
(***************************************************************************)
(* indexer/src: the poll loop that copies contract events into a database, *)
(* one block per transaction, and rolls the database back when the block   *)
(* hash it stored for its head is no longer the chain's.  A step is the    *)
(* code from one answer of the node to the next request; the chain moves   *)
(* between steps, and the process or a request may fail at any of them.    *)
(***************************************************************************)
EXTENDS ReorgChain

CONSTANTS
  Confirmations,     \* config.confirmationBlocks
  ReorgDepth,        \* config.reorgDepth
  Batch,             \* most blocks asked for at once
  MaxFailures        \* bound: crashes and failed requests

ASSUME IndexerAssumption ==
  /\ Confirmations \in Nat /\ ReorgDepth \in Nat
  /\ Batch \in Nat \ {0} /\ MaxFailures \in Nat
  /\ \A e \in Events :
       /\ e.table \in {"action_steps", "registry_commits", "anchor_snapshots", "role_rotations", "policies"}
       /\ e.table = "policies" => e.change \in {"created", "updated", "revoking", "revoked"}

VARIABLES
  db,        \* head, block_index, the four tables cleared on a rollback, policies
  tick,      \* the tick under way, lost in a crash
  failures

indexerVars == <<db, tick, failures>>

Tables == <<"action_steps", "registry_commits", "anchor_snapshots", "role_rotations">>
PolicyIds == {e.policy : e \in {x \in Events : x.table = "policies"}}

Idle == [at |-> "idle"]
HeadAt(n, hash) == [number |-> n, hash |-> hash]
NoHead == HeadAt(0, <<>>)    \* before the first block is stored

IndexerInit ==
  /\ db = [head |-> NoHead, blocks |-> <<>>, rows |-> {}, policies |-> [p \in PolicyIds |-> None]]
  /\ tick = Idle
  /\ failures = 0

SafeTip == IF Len(chain) > Confirmations THEN Len(chain) - Confirmations ELSE 0

-----------------------------------------------------------------------------
(* The database                                                             *)

BlocksBelow(n) == [i \in {j \in DOMAIN db.blocks : j < n} |-> db.blocks[i]]

(* An event is known by its transaction and log, a snapshot by its block    *)
(* and manifest.                                                            *)
SameRecord(e, f) ==
  \/ e = f
  \/ /\ e.table = "anchor_snapshots" /\ f.table = "anchor_snapshots"
     /\ <<e.number, e.manifest>> = <<f.number, f.manifest>>
SameRows(rows, row) == {r \in rows : SameRecord(r.event, row.event)}

(* A step or a snapshot that is there stays, a commit is replaced, and a    *)
(* rotation is not looked for.                                              *)
InsertActionStep(rows, row) == IF SameRows(rows, row) = {} THEN rows \cup {row} ELSE rows
InsertSnapshot(rows, row) == IF SameRows(rows, row) = {} THEN rows \cup {row} ELSE rows
InsertRegistryCommit(rows, row) == (rows \ SameRows(rows, row)) \cup {row}
InsertRoleRotation(rows, row) == rows \cup {row}

Insert(rows, row) ==
  CASE row.event.table = "action_steps"     -> InsertActionStep(rows, row)
    [] row.event.table = "registry_commits" -> InsertRegistryCommit(rows, row)
    [] row.event.table = "anchor_snapshots" -> InsertSnapshot(rows, row)
    [] row.event.table = "role_rotations"   -> InsertRoleRotation(rows, row)

PolicyState(event, state) ==
  IF event.change \in {"created", "updated"} THEN "active"
  ELSE IF state = None THEN None ELSE event.change

ApplyEvent(event, n, hash) ==
  CASE event = None -> [rows |-> db.rows, policies |-> db.policies]
    [] event # None /\ event.table = "policies" ->
         [rows |-> db.rows,
          policies |-> [db.policies EXCEPT ![event.policy] = PolicyState(event, @)]]
    [] OTHER ->
         [rows |-> Insert(db.rows, [number |-> n, hash |-> hash, event |-> event]),
          policies |-> db.policies]

UpsertBlock(n, hash) == [i \in DOMAIN db.blocks \cup {n} |-> IF i = n THEN hash ELSE db.blocks[i]]

(* The block and its event, and the head, in one transaction.               *)
Store(n, hash, event) ==
  LET applied == ApplyEvent(event, n, hash)
  IN db' = [head |-> HeadAt(n, hash), blocks |-> UpsertBlock(n, hash),
            rows |-> applied.rows, policies |-> applied.policies]

(* What the API answers from each table: its rows as they are stored.       *)
ServedFrom(table) == {r \in db.rows : r.event.table = table}
ServedSteps == ServedFrom("action_steps")
ServedCommits == ServedFrom("registry_commits")
ServedSnapshots == ServedFrom("anchor_snapshots")
ServedRotations == ServedFrom("role_rotations")
Served == ServedSteps \cup ServedCommits \cup ServedSnapshots \cup ServedRotations

-----------------------------------------------------------------------------
(* A tick                                                                   *)

Fails == failures < MaxFailures /\ failures' = failures + 1

StartTick ==
  /\ tick = Idle
  /\ tick' = [at |-> IF db.head = NoHead THEN "fetch" ELSE "detect", safe |-> SafeTip,
              cursor |-> IF db.head = NoHead THEN StartBlock ELSE db.head.number + 1]
  /\ UNCHANGED <<db, failures>>

(* detectReorg: the block of the stored head is asked for first.            *)
DetectReorg ==
  /\ tick.at = "detect"
  /\ tick' = IF ~Exists(db.head.number) THEN Idle
             ELSE IF HashAt(db.head.number) = db.head.hash THEN [tick EXCEPT !.at = "fetch"]
             ELSE [at |-> "probe", probe |-> db.head.number]
  /\ UNCHANGED <<db, failures>>

Floor == IF db.head.number > ReorgDepth THEN db.head.number - ReorgDepth ELSE 0

(* Stored blocks still to be compared, from the probe down to the floor;    *)
(* the highest is asked for.                                                *)
Candidates == {n \in DOMAIN db.blocks : Floor <= n /\ n <= tick.probe}
Highest == CHOOSE n \in Candidates : \A m \in Candidates : m <= n
CommonAncestor == Candidates # {} /\ Exists(Highest) /\ HashAt(Highest) = db.blocks[Highest]

ImpatientProbe ==  \* mutant of ProbeDown: gives up at the first block that differs
  /\ tick.at = "probe"
  /\ ~CommonAncestor
  /\ tick' = Idle
  /\ UNCHANGED <<db, failures>>
ProbeDown ==
  /\ tick.at = "probe"
  /\ ~CommonAncestor
  /\ tick' = IF Candidates = {} \/ ~Exists(Highest) \/ Highest = 0 THEN Idle
             ELSE [tick EXCEPT !.probe = Highest - 1]
  /\ UNCHANGED <<db, failures>>

(* The first k tables of a rollback to block n.                             *)
LeakyRows(n, k) ==  \* mutant of KeptRows: the commits are forgotten
  {r \in db.rows : r.number <= n \/ r.event.table = "registry_commits"
                     \/ \A i \in 1 .. k : r.event.table # Tables[i]}
KeptRows(n, k) ==
  {r \in db.rows : r.number <= n \/ \A i \in 1 .. k : r.event.table # Tables[i]}

(* Policies stay as they are.                                               *)
Rollback ==
  /\ tick.at = "probe"
  /\ CommonAncestor
  /\ tick' = Idle
  /\ db' = [db EXCEPT !.rows = KeptRows(Highest, Len(Tables)), !.blocks = BlocksBelow(Highest + 1),
                      !.head = HeadAt(Highest, db.blocks[Highest])]
  /\ UNCHANGED failures

(* The process dies between two statements of a rollback.                   *)
HeadFirst(n, k) ==  \* mutant of RolledBackPart: the head moves before the tables are cleared
  [db EXCEPT !.rows = KeptRows(n, k), !.head = [number |-> n, hash |-> db.blocks[n]]]
RolledBackPart(n, k) ==
  [db EXCEPT !.rows = KeptRows(n, k), !.blocks = IF k = Len(Tables) THEN BlocksBelow(n + 1) ELSE @]

CrashInRollback ==
  /\ tick.at = "probe"
  /\ CommonAncestor
  /\ Fails
  /\ \E k \in 1 .. Len(Tables) : db' = RolledBackPart(Highest, k)
  /\ tick' = Idle

FetchLogs ==
  /\ tick.at = "fetch"
  /\ LET upper == IF tick.cursor + Batch - 1 < tick.safe THEN tick.cursor + Batch - 1 ELSE tick.safe
     IN tick' = IF tick.cursor > tick.safe THEN Idle
                ELSE [at |-> "index", next |-> tick.cursor, upper |-> upper,
                      logs |-> [n \in tick.cursor .. upper |->
                                  IF Exists(n) THEN chain[n].event ELSE None]]
  /\ UNCHANGED <<db, failures>>

(* The block is asked for now, the logs were before.                        *)
IndexBlock ==
  /\ tick.at = "index"
  /\ IF Exists(tick.next)
     THEN /\ Store(tick.next, HashAt(tick.next), tick.logs[tick.next])
          /\ tick' = IF tick.next = tick.upper THEN Idle ELSE [tick EXCEPT !.next = @ + 1]
     ELSE tick' = Idle /\ UNCHANGED db
  /\ UNCHANGED failures

(* A request is refused or the process restarts: the tick is gone.          *)
TickFails ==
  /\ tick # Idle
  /\ Fails
  /\ tick' = Idle
  /\ UNCHANGED db

IndexerStep == StartTick \/ DetectReorg \/ ProbeDown \/ Rollback \/ FetchLogs \/ IndexBlock
IndexerNext == IndexerStep \/ CrashInRollback \/ TickFails

-----------------------------------------------------------------------------
(* Properties *)

(* Types; a stored hash, the head's too, is one of a block of that number.  *)
IndexerTypeOK ==
  /\ db.head # NoHead => /\ db.head.number \in StartBlock .. MaxHeight
                       /\ Len(db.head.hash) = db.head.number
  /\ DOMAIN db.blocks \subseteq StartBlock .. MaxHeight
  /\ \A n \in DOMAIN db.blocks : Len(db.blocks[n]) = n
  /\ \A r \in db.rows : r.number \in StartBlock .. MaxHeight /\ r.event # None
  /\ \A p \in PolicyIds : db.policies[p] \in {None, "active", "revoking", "revoked"}
  /\ tick.at \in {"idle", "detect", "probe", "fetch", "index"}
  /\ failures \in 0 .. MaxFailures

(* Every row lies in a block that is stored, with the hash stored for it,   *)
(* wherever a rollback was cut off and whatever was indexed after.          *)
RowsIndexed ==
  \A r \in db.rows : r.number \in DOMAIN db.blocks /\ db.blocks[r.number] = r.hash

(* Nothing stored lies beyond the head.                                     *)
NothingBeyondHead ==
  \A n \in DOMAIN db.blocks \cup {r.number : r \in db.rows} :
    db.head # NoHead /\ n <= db.head.number

(* No event is recorded twice, also when a reorganisation moves it to       *)
(* another block between the logs and the blocks of one tick.               *)
EventsRecordedOnce ==
  \A r, s \in db.rows :
    SameRecord(r.event, s.event) /\ r.event.table # "role_rotations" => r = s

(* The database agrees with itself in every state, in the middle of a       *)
(* rollback too.                                                            *)
RowsConsistent == IndexerTypeOK /\ RowsIndexed /\ NothingBeyondHead /\ EventsRecordedOnce

(* Once the chain and the failures settle, the indexer reaches the last     *)
(* confirmed block, on the right branch, and stays there.                   *)
AtTip == db.head # NoHead /\ db.head.number = SafeTip /\ db.head.hash = HashAt(SafeTip)
Synced == SafeTip >= StartBlock => AtTip
CatchesUp == <>[]Synced

(* When the indexer stands on the chain's last confirmed block, what it     *)
(* serves are events of that chain ("provisional events whose tx no longer  *)
(* appears in the canonical chain are ... excluded from subsequent reads"). *)
AtRest == tick = Idle /\ AtTip
OrphansExcluded ==
  AtRest => \A r \in Served : r.event \in EmittedIn(HashAt(r.number))
=============================================================================
