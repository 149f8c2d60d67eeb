--------------------------- MODULE AnchorService ---------------------------
(***************************************************************************)
(* anchor/src and LoopAnchorRegistry: a service reads the indexer, decides *)
(* whether the indexer's head is due to be notarized and sends it, with    *)
(* the block hash its node reports, to a contract that checks the hash and *)
(* the distance from the last anchor.  A transaction, once sent, may be    *)
(* included in any later block of any branch.                              *)
(***************************************************************************)
EXTENDS Indexer

CONSTANTS
  CadenceBlocks,     \* registry.anchorCadenceBlocks
  ServiceCadence,    \* what the service works with: its override or cached value
  MinIndexerLag,     \* config.minIndexerLagBlocks
  HashWindow,        \* blocks whose hash the EVM knows (256)
  MaxSent            \* bound: transactions sent

ASSUME AnchorAssumption ==
  /\ CadenceBlocks \in Nat /\ ServiceCadence \in Nat /\ MinIndexerLag \in Nat
  /\ HashWindow \in Nat /\ MaxSent \in Nat
  /\ \A e \in Events : e.table # "anchor_snapshots"  \* anchors are the transactions sent

VARIABLES
  service,   \* the service's tick, lost in a restart
  sent       \* transactions sent, oldest first

anchorVars == <<service, sent>>

Asleep == [at |-> "idle"]

AnchorInit == service = Asleep /\ sent = <<>>

-----------------------------------------------------------------------------
(* LoopAnchorRegistry                                                       *)

IsAnchor(event) == event # None /\ event.table = "anchor_snapshots"

LastAnchorBlock(blocks) ==
  LET anchors == {i \in DOMAIN blocks : IsAnchor(blocks[i].event)}
  IN IF anchors = {} THEN 0 ELSE CHOOSE i \in anchors : \A j \in anchors : j <= i

MinGap == IF CadenceBlocks \div 4 = 0 THEN 1 ELSE CadenceBlocks \div 4

HashChecked(number, height) == height > number /\ height - number <= HashWindow

(* The call succeeds in block `height` on top of `blocks`.                  *)
BlindAccepts(tx, blocks, height) ==     \* mutant of Accepts: the hash is not compared
  /\ tx.number <= height
  /\ LastAnchorBlock(blocks) # 0 => height >= LastAnchorBlock(blocks) + MinGap
Accepts(tx, blocks, height) ==
  /\ tx.number <= height
  /\ HashChecked(tx.number, height) => SubSeq(blocks, 1, tx.number) = tx.hash
  /\ LastAnchorBlock(blocks) # 0 => height >= LastAnchorBlock(blocks) + MinGap

(* A block includes a transaction that was sent and that its branch does    *)
(* not hold yet.                                                            *)
Includes(blocks, tx) ==
  /\ tx \in ToSet(sent) \ EmittedIn(blocks)
  /\ Accepts(tx, blocks, Len(blocks) + 1)

IncludeAnchor ==
  \E tx \in ToSet(sent) :
    \/ Includes(chain, tx) /\ Grow(tx)
    \/ \E n \in ForkPoints : Includes(HashAt(n), tx) /\ Fork(n, tx)

-----------------------------------------------------------------------------
(* The service                                                              *)

LatestOf(numbers) == IF numbers = {} THEN None ELSE CHOOSE n \in numbers : \A m \in numbers : m <= n
LatestVersion == LatestOf({r.event.version : r \in {x \in db.rows : x.event.table = "registry_commits"}})
LatestSnapshot == LatestOf({r.event.number : r \in {x \in db.rows : IsAnchor(x.event)}})

StartService ==
  /\ service = Asleep
  /\ service' = [at |-> "read", head |-> None, version |-> None, latest |-> None,
                 waiting |-> {"health", "registry", "snapshots"}]
  /\ UNCHANGED sent

(* The three requests are answered in any order, each from the database as  *)
(* it is then; with no head the tick fails.                                 *)
Answer(request) ==
  /\ service.at = "read" /\ request \in service.waiting
  /\ service' = CASE request = "health" ->
                       IF db.head = NoHead THEN Asleep
                       ELSE [service EXCEPT !.waiting = @ \ {request}, !.head = db.head]
                  [] request = "registry" ->
                       [service EXCEPT !.waiting = @ \ {request}, !.version = LatestVersion]
                  [] OTHER ->
                       [service EXCEPT !.waiting = @ \ {request}, !.latest = LatestSnapshot]
  /\ UNCHANGED sent

DecideSubmit(currentBlock, read) ==
  /\ currentBlock >= read.head.number + MinIndexerLag
  /\ read.latest = None \/ read.head.number >= read.latest + ServiceCadence

Decide ==
  /\ service.at = "read" /\ service.waiting = {}
  /\ service' = IF DecideSubmit(Len(chain), service)
                THEN [at |-> "hash", head |-> service.head, version |-> service.version]
                ELSE Asleep
  /\ UNCHANGED sent

(* The node's hash of the block, then a simulated call at the node's head   *)
(* and the transaction; the manifest was made from what the indexer said.   *)
GetBlockHash ==
  /\ service.at = "hash"
  /\ service' = IF Exists(service.head.number)
                THEN [at |-> "send",
                      tx |-> [table |-> "anchor_snapshots", nonce |-> Len(sent) + 1,
                              number |-> service.head.number, hash |-> HashAt(service.head.number),
                              manifest |-> [hash |-> service.head.hash, version |-> service.version]]]
                ELSE Asleep
  /\ UNCHANGED sent

Send ==
  /\ service.at = "send"
  /\ service' = Asleep
  /\ \/ Accepts(service.tx, chain, Len(chain)) /\ Len(sent) < MaxSent /\ sent' = Append(sent, service.tx)
     \/ ~Accepts(service.tx, chain, Len(chain)) /\ UNCHANGED sent

(* A request fails or the service restarts; the receipt it waits for may    *)
(* come, report a revert or time out, and what was sent stays sent.         *)
ServiceFails ==
  /\ service # Asleep
  /\ service' = Asleep
  /\ UNCHANGED sent

ServiceStep ==
  StartService \/ (\E request \in {"health", "registry", "snapshots"} : Answer(request))
    \/ Decide \/ GetBlockHash \/ Send

-----------------------------------------------------------------------------
(* Properties *)

AnchorTypeOK ==
  /\ service.at \in {"idle", "read", "hash", "send"}
  /\ Len(sent) <= MaxSent
  /\ \A i \in DOMAIN sent : /\ Len(sent[i].hash) = sent[i].number
                            /\ Len(sent[i].manifest.hash) = sent[i].number

(* On every branch, whatever the service resent after a timeout, a restart  *)
(* or a lagging indexer, accepted anchors keep the contract's distance.     *)
AnchorsSpaced ==
  \A i, j \in DOMAIN chain :
    i < j /\ IsAnchor(chain[i].event) /\ IsAnchor(chain[j].event) => j - i >= MinGap

(* An anchor whose block was recent names a block of its own branch, also   *)
(* when the branch changed after the service read the hash.                 *)
AnchorsOnBranch ==
  \A j \in DOMAIN chain : IsAnchor(chain[j].event) =>
    LET tx == chain[j].event
    IN /\ tx.number <= j
       /\ HashChecked(tx.number, j) => HashAt(tx.number) = tx.hash

(* Whatever the service sends and resends, what a branch holds is spaced,   *)
(* typed and its own.                                                       *)
AnchorsSound == AnchorTypeOK /\ AnchorsSpaced /\ AnchorsOnBranch
=============================================================================
