---------------------------- MODULE SignSession ----------------------------
(***************************************************************************)
(* How an owner's browser tabs turn inputs into a transaction: useAction-  *)
(* Params derives an action, usePreview quotes it, a click builds, signs   *)
(* and attaches it (wallet/sign.ts over sdk/src/live/sdk-impl.ts) and      *)
(* broadcasts.  Every await is a step; the chain and the other tabs move   *)
(* between any two.  A nonce (slot, bit) is the number 256 * slot + bit.   *)
(***************************************************************************)
EXTENDS Naturals, Sequences, FiniteSets

CONSTANTS
  Tabs,
  Types,        \* the primary types whose nonces LoopAuthorization spends
  LastNonce,    \* NONCE_SLOT_SCAN_LIMIT * 256 - 1
  Prices,       \* what the venue's quoter may answer
  MaxQuoteAge,  \* DEFAULT_MAX_QUOTE_AGE_BLOCKS (30)
  MaxHead,      \* bound: last block
  MaxVersion,   \* bound: registry versions
  MaxSent,      \* bound: transactions broadcast
  None

ASSUME SignAssumption ==
  /\ LastNonce \in Nat /\ MaxQuoteAge \in Nat /\ MaxSent \in Nat
  /\ MaxHead \in Nat \ {0} /\ MaxVersion \in Nat \ {0}
  /\ None \notin Prices \cup Types

VARIABLES
  head,      \* the chain's last block
  price,     \* what the quoter answers now; a quote is never pinned to a block
  version,   \* registryVersion; a version's registryMerkleRoot is named by it
  executed,  \* the transactions that took effect, in order
  sent,      \* the transactions broadcast so far
  tab        \* what each tab holds

signVars == <<head, price, version, executed, sent, tab>>

Nonces == 0 .. LastNonce

(* The nonces of a type spent by the first n executions.                    *)
SpentBy(n, type) ==
  {executed[i].action.nonce : i \in {j \in 1 .. n : executed[j].action.type = type}}
Spent(type) == SpentBy(Len(executed), type)

NoDraft == [type |-> None, version |-> None, root |-> None, block |-> None]
NoJob == [at |-> "none", action |-> None, pin |-> None, quote |-> None, signed |-> None]

SignInit ==
  /\ head = 1 /\ version = 1
  /\ price \in Prices
  /\ executed = <<>> /\ sent = {}
  /\ tab = [t \in Tabs |-> [draft |-> NoDraft, shown |-> None, quoted |-> FALSE, job |-> NoJob]]

SetDraft(t, draft) == tab' = [tab EXCEPT ![t] = [@ EXCEPT !.draft = draft]]
SetJob(t, job) == tab' = [tab EXCEPT ![t] = [@ EXCEPT !.job = job]]

-----------------------------------------------------------------------------
(* Deriving the action (useActionParams, build*Params, deriveEnvelopeBase)  *)

(* An edited input clears what is shown and starts a query; a refetch keeps *)
(* the old action on the screen until the new one is there.                 *)
Edit(t, type, refetch) ==
  /\ tab[t].draft = NoDraft
  /\ refetch => tab[t].shown # None /\ tab[t].shown.type = type
  /\ tab' = [tab EXCEPT ![t] =
       [tab[t] EXCEPT !.draft = [NoDraft EXCEPT !.type = type],
                      !.shown = IF refetch THEN tab[t].shown ELSE None,
                      !.quoted = refetch /\ tab[t].quoted]]
  /\ UNCHANGED <<head, price, version, executed, sent>>

(* Promise.all: version, root and block are three requests.                 *)
ReadEnvelope(t) ==
  LET d == tab[t].draft IN
  /\ d.type # None
  /\ \/ d.version = None /\ SetDraft(t, [d EXCEPT !.version = version])
     \/ d.root = None /\ SetDraft(t, [d EXCEPT !.root = version])
     \/ d.block = None /\ SetDraft(t, [d EXCEPT !.block = head])
  /\ UNCHANGED <<head, price, version, executed, sent>>

AllRead(d) == d.type # None /\ d.version # None /\ d.root # None /\ d.block # None

AnyFree(n, used) == n \in Nonces \ used  \* mutant of FirstFree: not the first that is free
FirstFree(n, used) == n \in Nonces \ used /\ \A m \in 0 .. n - 1 : m \in used

(* allocateNonce: the first bit not set when it is read.  `readAt' counts   *)
(* the executions that read could see.                                      *)
AllocateNonce(t) ==
  LET d == tab[t].draft IN
  /\ AllRead(d)
  /\ \E n \in Nonces :
       /\ FirstFree(n, Spent(d.type))
       /\ tab' = [tab EXCEPT ![t] =
            [@ EXCEPT !.draft = NoDraft, !.quoted = FALSE,
                      !.shown = [type |-> d.type, version |-> d.version, root |-> d.root,
                                 block |-> d.block, nonce |-> n, readAt |-> Len(executed)]]]
  /\ UNCHANGED <<head, price, version, executed, sent>>

(* All scanned slots are full, or a read failed: no retry, no action.       *)
DeriveFails(t) ==
  /\ tab[t].draft # NoDraft
  /\ SetDraft(t, NoDraft)
  /\ UNCHANGED <<head, price, version, executed, sent>>

(* previewTransaction: signing stays disabled until the shown action has a  *)
(* preview; the query is not asked again while that action is shown.        *)
Preview(t) ==
  /\ tab[t].shown # None /\ ~tab[t].quoted
  /\ tab' = [tab EXCEPT ![t] = [@ EXCEPT !.quoted = TRUE]]
  /\ UNCHANGED <<head, price, version, executed, sent>>

-----------------------------------------------------------------------------
(* Signing it (onSign, signAndAttachAction)                                 *)

(* What the digest binds: the action, the evidence at the pinned block and  *)
(* the routes quoted when it is assembled.                                  *)
Digest(action, pin, quote) == [action |-> action, pin |-> pin, quote |-> quote]

Click(t) ==
  /\ tab[t].quoted /\ tab[t].job.at = "none"
  /\ SetJob(t, [NoJob EXCEPT !.at = "build", !.action = tab[t].shown])
  /\ UNCHANGED <<head, price, version, executed, sent>>

(* buildTransaction pins the head, resolves the evidence there, quotes.     *)
PinHead(t) ==
  LET job == tab[t].job IN
  /\ job.at = "build" /\ job.pin = None
  /\ SetJob(t, [job EXCEPT !.pin = head])
  /\ UNCHANGED <<head, price, version, executed, sent>>
Build(t) ==
  LET job == tab[t].job IN
  /\ job.at = "build" /\ job.pin # None
  /\ SetJob(t, [job EXCEPT !.at = "wallet", !.signed = Digest(job.action, job.pin, price)])
  /\ UNCHANGED <<head, price, version, executed, sent>>

(* The wallet signs the typed data of that assembly.                        *)
WalletSigns(t) ==
  LET job == tab[t].job IN
  /\ job.at = "wallet"
  /\ SetJob(t, [job EXCEPT !.at = "attach"])
  /\ UNCHANGED <<head, price, version, executed, sent>>

PinInWindow(pin) == pin <= head /\ head - pin <= MaxQuoteAge

Held(t) == SetJob(t, tab[t].job)  \* mutant of Throw: the old request stays
Throw(t) == SetJob(t, NoJob)

(* attachSignature, up to its first await: the pin against the head.        *)
CheckPin(t) ==
  LET job == tab[t].job IN
  /\ job.at = "attach"
  /\ IF PinInWindow(job.pin) THEN SetJob(t, [job EXCEPT !.at = "assemble"]) ELSE Throw(t)
  /\ UNCHANGED <<head, price, version, executed, sent>>

(* The rest: assembled again at the same pin, refused with QuoteDrift when  *)
(* the digest is not the one signed.                                        *)
SameDigest(job, quote) == Digest(job.action, job.pin, quote) = job.signed

Attach(t) ==
  LET job == tab[t].job IN
  /\ job.at = "assemble"
  /\ IF SameDigest(job, price) THEN SetJob(t, [job EXCEPT !.at = "send", !.quote = price]) ELSE Throw(t)
  /\ UNCHANGED <<head, price, version, executed, sent>>

(* broadcastTx: the wallet sends it.  LoopBuilder keeps the action on the   *)
(* screen, so that it can be signed again; Positions drops it.              *)
Transaction(job) == [action |-> job.action, pin |-> job.pin, quote |-> job.quote, signed |-> job.signed]
Broadcast(t) ==
  LET job == tab[t].job IN
  /\ job.at = "send" /\ Cardinality(sent) < MaxSent
  /\ sent' = sent \cup {Transaction(job)}
  /\ \E keep \in BOOLEAN :
       tab' = [tab EXCEPT ![t] =
         [tab[t] EXCEPT !.job = NoJob, !.quoted = keep /\ tab[t].quoted,
                        !.shown = IF keep THEN tab[t].shown ELSE None]]
  /\ UNCHANGED <<head, price, version, executed>>

(* The owner refuses a wallet request, or a read fails.                     *)
SignFails(t) ==
  /\ tab[t].job.at # "none"
  /\ Throw(t)
  /\ UNCHANGED <<head, price, version, executed, sent>>

-----------------------------------------------------------------------------
(* The chain                                                                *)

Fresh(action) == head <= action.block + MaxQuoteAge

(* What the executor and LoopAuthorization check of a digest of this kind;  *)
(* the digest is computed from the calldata.                                *)
Unspent(action) == action.nonce \notin Spent(action.type)
Accepts(tx) ==
  /\ tx.action.version = version /\ tx.action.root = version
  /\ Fresh(tx.action)
  /\ Digest(tx.action, tx.pin, tx.quote) = tx.signed
  /\ Unspent(tx.action)

Include(tx) ==
  /\ Accepts(tx)
  /\ executed' = Append(executed, tx)
  /\ UNCHANGED <<head, price, version, sent, tab>>

Mine ==
  /\ head < MaxHead
  /\ head' = head + 1
  /\ price' \in Prices
  /\ version' \in {version, version + 1} /\ version' <= MaxVersion
  /\ UNCHANGED <<executed, sent, tab>>

-----------------------------------------------------------------------------
Derive(t) == ReadEnvelope(t) \/ AllocateNonce(t)
Sdk(t) == Derive(t) \/ Preview(t) \/ PinHead(t) \/ Build(t) \/ CheckPin(t) \/ Attach(t)
Owner(t) ==
  \/ \E type \in Types, refetch \in BOOLEAN : Edit(t, type, refetch)
  \/ Click(t) \/ WalletSigns(t) \/ Broadcast(t)
Fails(t) == DeriveFails(t) \/ SignFails(t)

SignNext ==
  \/ \E t \in Tabs : Sdk(t) \/ Owner(t) \/ Fails(t)
  \/ \E tx \in sent : Include(tx)
  \/ Mine

SignSpec == SignInit /\ [][SignNext]_signVars

(* The quorum client bounds every read by a timeout; nothing bounds the     *)
(* owner, the wallet or the chain.                                          *)
FairSignSpec == SignSpec /\ \A t \in Tabs : WF_signVars(CheckPin(t) \/ Attach(t))

-----------------------------------------------------------------------------
Actions == [type : Types, version : 1 .. MaxVersion, root : 1 .. MaxVersion, block : 1 .. MaxHead,
            nonce : Nonces, readAt : Nat]

(* The type of every variable, and that a tab works on derived actions.     *)
SignTypeOK ==
  /\ head \in 1 .. MaxHead /\ version \in 1 .. MaxVersion /\ price \in Prices
  /\ \A t \in Tabs :
       /\ tab[t].shown \in Actions \cup {None}
       /\ tab[t].quoted => tab[t].shown # None
       /\ tab[t].job.at # "none" => tab[t].job.action \in Actions
  /\ \A tx \in sent : tx.action \in Actions
  /\ \A i \in DOMAIN executed : executed[i] \in sent

(* Of the orders of one kind that an owner signed in any number of tabs, no *)
(* two execute unless the second was derived after the first had executed:  *)
(* tabs that race, and a button pressed again, never buy twice.             *)
OneAtATime ==
  \A i, j \in DOMAIN executed :
    i < j /\ executed[i].action.type = executed[j].action.type =>
      i <= executed[j].action.readAt

(* What is sent carries the quote the wallet showed and signed, however the *)
(* market moved while the wallet was open.                                  *)
SentAsSigned == \A tx \in sent : Digest(tx.action, tx.pin, tx.quote) = tx.signed

(* An attach that starts ends, with a transaction or an error.              *)
AttachEnds == \A t \in Tabs : tab[t].job.at \in {"attach", "assemble"} ~> tab[t].job.at \in {"send", "none"}

(* Racing tabs, reloads and moving quotes: typed, once each, as signed.     *)
SignedOnce == SignTypeOK /\ OneAtATime /\ SentAsSigned
=============================================================================
