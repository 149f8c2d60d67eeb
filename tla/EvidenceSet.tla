---------------------------- MODULE EvidenceSet ----------------------------
(***************************************************************************)
(* The evidence an action binds.  The SDK reads which sources the registry *)
(* requires (resolveEvidence, sdk-impl.ts), a resolver gathers them, the   *)
(* encoder sorts and hashes them; blocks later LoopV1Validation accepts or *)
(* refuses what a keeper delivers.                                         *)
(***************************************************************************)
EXTENDS Naturals, Sequences, FiniteSets

CONSTANTS
  SourceIds,    \* the sources Phase 1 requires, numbered in the order of their id hashes
  Sequencer,    \* the one whose live reading may be degraded; another's may be stale
  Addresses,    \* what a source may name, numbers; 0 is the zero address
  FreshFor,     \* sourceFreshnessThreshold of every source
  BlockSeconds, \* 2 on Base
  QuoteLife,    \* maxQuoteAgeBlocks of the action
  Height        \* bound: last block

ASSUME EvidenceAssumption ==
  /\ SourceIds \subseteq Nat /\ IsFiniteSet(SourceIds) /\ Sequencer \in SourceIds
  /\ Addresses \subseteq Nat /\ 0 \in Addresses
  /\ FreshFor \in Nat /\ BlockSeconds \in Nat /\ QuoteLife \in Nat /\ Height \in Nat \ {0}

VARIABLES
  registry, \* what the registry holds after each block
  healthy,  \* the sources whose venue answers as it should
  bundle    \* the action whose evidence is gathered

evidenceVars == <<registry, healthy, bundle>>

Statuses == {"fresh", "stale", "degraded"}
Sources == [id : SourceIds, address : Addresses \ {0}, status : Statuses, lastUpdateBlock : 1 .. Height]
Latest == registry[Len(registry)]

(* _validateEvidenceSourceSet: a type's set is this one, once it is set.    *)
RequiredIds ==
  CHOOSE ids \in [1 .. Cardinality(SourceIds) -> SourceIds] :
    \A i, j \in DOMAIN ids : i < j => ids[i] < ids[j]

Idle == [at |-> "idle", type |-> "Open", resolver |-> "none", version |-> 0, quoteBlock |-> 0,
         pin |-> 0, required |-> <<>>, sources |-> <<>>, delivered |-> <<>>]

EvidenceInit ==
  /\ registry \in {<<[version |-> 1, required |-> set, canonical |-> canonical]>> :
                     set \in {<<>>, RequiredIds}, canonical \in [SourceIds -> Addresses]}
  /\ healthy = SourceIds
  /\ bundle = Idle

-----------------------------------------------------------------------------
(* The chain                                                                *)

(* A block, with a configuration batch in it or without.                    *)
ConfigBlock ==
  /\ Len(registry) < Height
  /\ \/ registry' = Append(registry, Latest)
     \/ \E id \in SourceIds, address \in Addresses :
          registry' = Append(registry, [Latest EXCEPT !.version = @ + 1,
                                                      !.canonical = [@ EXCEPT ![id] = address]])
     \/ /\ Latest.required = <<>>
        /\ registry' = Append(registry, [Latest EXCEPT !.version = @ + 1, !.required = RequiredIds])
  /\ UNCHANGED <<healthy, bundle>>

VenueFails ==
  /\ \E id \in healthy : healthy' = healthy \ {id}
  /\ UNCHANGED <<registry, bundle>>

-----------------------------------------------------------------------------
(* The SDK                                                                  *)

(* deriveEnvelopeBase.                                                      *)
ReadVersion(type, resolver) ==
  /\ bundle.at = "idle"
  /\ bundle' = [Idle EXCEPT !.at = "versioned", !.type = type, !.resolver = resolver,
                             !.version = Latest.version, !.quoteBlock = Len(registry)]
  /\ UNCHANGED <<registry, healthy>>

(* assembleAuthorization pins the evidence to the head.                     *)
PinBlock ==
  /\ bundle.at = "versioned"
  /\ bundle' = [bundle EXCEPT !.at = "pinned", !.pin = Len(registry)]
  /\ UNCHANGED <<registry, healthy>>

(* The required set is read at whatever block is last, not at the pin, and  *)
(* a read that fails is taken for an empty set.                             *)
ReadRequired ==
  /\ bundle.at = "pinned"
  /\ \E set \in {Latest.required, <<>>} : bundle' = [bundle EXCEPT !.at = "required", !.required = set]
  /\ UNCHANGED <<registry, healthy>>

CanonicalSource(id, block) == registry[block].canonical[id]

(* materialize: a venue that cannot be read is bound as fresh.              *)
VenueStatus(id, read) ==
  IF id \notin read \/ id \in healthy THEN "fresh" ELSE IF id = Sequencer THEN "degraded" ELSE "stale"

LiveSources(read) ==
  [i \in DOMAIN bundle.required |->
     LET id == bundle.required[i] IN
     [id |-> id, address |-> CanonicalSource(id, bundle.pin),
      status |-> VenueStatus(id, read), lastUpdateBlock |-> bundle.pin]]

CanonicalSources == LiveSources({})

(* A resolver of the integrator's own, in any order and with any address.   *)
CustomSources ==
  LET One == {[id |-> id, address |-> address, status |-> "fresh", lastUpdateBlock |-> bundle.pin] :
                id \in SourceIds, address \in Addresses \ {0}} IN
  UNION {[1 .. n -> One] : n \in 0 .. Cardinality(SourceIds) + 1}

Gathered ==
  CASE bundle.resolver = "live" -> {LiveSources(read) : read \in SUBSET SourceIds}
    [] bundle.resolver = "canonical" -> {CanonicalSources}
    [] bundle.resolver = "custom" -> CustomSources
    [] OTHER -> {<<>>}

Key(source) == <<source.id, source.address>>
Keys(sources) == {Key(sources[i]) : i \in DOMAIN sources}
Precedes(a, b) == a.id < b.id \/ (a.id = b.id /\ a.address < b.address)
StrictlyAscending(sources) == \A i \in 1 .. Len(sources) - 1 : Precedes(sources[i], sources[i + 1])

Distinct(sources) == Cardinality(Keys(sources)) = Len(sources)
Covers(sources) == \A i \in DOMAIN bundle.required : \E j \in DOMAIN sources : sources[j].id = bundle.required[i]
AtCanonical(sources, block) ==
  \A i \in DOMAIN sources : CanonicalSource(sources[i].id, block) \in {0, sources[i].address}

(* What buildAuthorization goes on with; anything else throws.              *)
Signable(sources) ==
  /\ bundle.resolver = "none" => bundle.required = <<>>
  /\ bundle.resolver \in {"live", "canonical"} =>
       \A i \in DOMAIN bundle.required : CanonicalSource(bundle.required[i], bundle.pin) # 0
  /\ Distinct(sources) /\ Covers(sources) /\ AtCanonical(sources, bundle.pin)

(* The order of sources no two of which are the same.                       *)
SortSources(sources) ==
  CHOOSE sorted \in [DOMAIN sources -> {sources[i] : i \in DOMAIN sources}] :
    /\ Keys(sorted) = Keys(sources)
    /\ \A i, j \in DOMAIN sources : i < j => Precedes(sorted[i], sorted[j])

Resolve ==
  /\ bundle.at = "required"
  /\ \E sources \in Gathered :
       bundle' = IF Signable(sources)
                  THEN [bundle EXCEPT !.at = "bound", !.sources = SortSources(sources)]
                  ELSE [Idle EXCEPT !.at = "thrown"]
  /\ UNCHANGED <<registry, healthy>>

-----------------------------------------------------------------------------
(* LoopV1Validation.validateEvidence                                        *)

HashSources(sources) == sources

Admissible(status) == status = "fresh" \/ (bundle.type = "ForceExit" /\ status = "degraded")

SameIds(sources) ==  \* mutant of RequiredSources: what is there is looked at, not what is missing
  \A i \in DOMAIN sources : \E j \in DOMAIN Latest.required : sources[i].id = Latest.required[j]
RequiredSources(sources) ==
  /\ Len(sources) = Len(Latest.required)
  /\ \A i \in DOMAIN sources : sources[i].id = Latest.required[i]

ValidateEvidence(sources) ==
  /\ HashSources(sources) = HashSources(bundle.sources)
  /\ RequiredSources(sources) /\ StrictlyAscending(sources)
  /\ AtCanonical(sources, Len(registry))
  /\ \A i \in DOMAIN sources :
       /\ Admissible(sources[i].status)
       /\ FreshFor # 0 => Len(registry) <= sources[i].lastUpdateBlock + FreshFor

(* The other checks of the action that its evidence relies on.  A force     *)
(* exit has no quote to be stale.                                           *)
SameVersion == bundle.version = Latest.version
InTime == bundle.type = "ForceExit" \/ Len(registry) <= bundle.quoteBlock + QuoteLife

(* What a keeper may deliver: what was bound, or that without a source, or  *)
(* with every source called fresh.                                          *)
Deliverable ==
  {bundle.sources, [i \in DOMAIN bundle.sources |-> [bundle.sources[i] EXCEPT !.status = "fresh"]]}
    \cup {SubSeq(bundle.sources, 2, Len(bundle.sources))}

Execute ==
  /\ bundle.at = "bound"
  /\ SameVersion /\ InTime
  /\ \E sources \in Deliverable :
       /\ ValidateEvidence(sources)
       /\ bundle' = [bundle EXCEPT !.at = "executed", !.delivered = sources]
  /\ UNCHANGED <<registry, healthy>>

EvidenceNext ==
  \/ ConfigBlock /\ bundle.at # "executed"
  \/ VenueFails
  \/ \E type \in {"Open", "ForceExit"}, resolver \in {"none", "canonical", "live", "custom"} : ReadVersion(type, resolver)
  \/ PinBlock \/ ReadRequired \/ Resolve \/ Execute

EvidenceSpec == EvidenceInit /\ [][EvidenceNext]_evidenceVars

-----------------------------------------------------------------------------
(* Well-typed; what is bound has no source twice.                           *)
EvidenceTypeOK ==
  /\ Len(registry) \in 1 .. Height /\ healthy \subseteq SourceIds
  /\ bundle.at \in {"idle", "versioned", "pinned", "required", "bound", "thrown", "executed"}
  /\ bundle.required \in {<<>>, RequiredIds}
  /\ \A i \in DOMAIN bundle.sources : bundle.sources[i] \in Sources
  /\ StrictlyAscending(bundle.sources)

(* Evidence of the right length whose sources all answer well is accepted   *)
(* as long as the registry has the version the action names, although the   *)
(* set was read at another block than the one it is pinned to and whatever  *)
(* order a resolver returned it in.                                         *)
BoundIsAcceptable ==
  (/\ bundle.at = "bound" /\ SameVersion
   /\ bundle.required = Latest.required /\ Len(bundle.sources) = Len(bundle.required)
   /\ \A i \in DOMAIN bundle.sources : Admissible(bundle.sources[i].status)
   /\ Len(registry) <= bundle.pin + FreshFor)
  => ValidateEvidence(bundle.sources)

(* What executes carries every source the registry requires, although a     *)
(* failed read of that set lets the SDK sign an empty bundle, and each at   *)
(* the address that was canonical when the evidence was pinned.             *)
ExecutedIsComplete ==
  bundle.at = "executed" =>
    /\ {bundle.delivered[i].id : i \in DOMAIN bundle.delivered} = {Latest.required[i] : i \in DOMAIN Latest.required}
    /\ AtCanonical(bundle.delivered, bundle.pin)

(* A keeper cannot make a source look better than the one the owner signed. *)
DeliveredAsBound == bundle.at = "executed" => bundle.delivered = bundle.sources

(* validateExactSet, the check the SDK offers integrators, tells what the   *)
(* contract will say of the set once it is sorted.                          *)
ExactSet(sources, block) ==
  /\ Distinct(sources)
  /\ Keys(sources) = {<<registry[block].required[i], CanonicalSource(registry[block].required[i], block)>> :
                        i \in DOMAIN registry[block].required}
ExactSetAsOnChain ==
  LET required == {Latest.required[i] : i \in DOMAIN Latest.required} IN
  bundle.at = "bound" /\ (\A id \in SourceIds : Latest.canonical[id] # 0) =>
    (ExactSet(bundle.sources, Len(registry))
       <=> RequiredSources(bundle.sources) /\ AtCanonical(bundle.sources, Len(registry)))

(* Evidence reaches the chain complete, unaltered and as the SDK checked it.*)
EvidenceHolds == EvidenceTypeOK /\ BoundIsAcceptable /\ ExecutedIsComplete /\ DeliveredAsBound /\ ExactSetAsOnChain

(* The registry's thresholds are in seconds (LoopRegistry.sol:96, 636), and *)
(* so are they compared by the risk adapter: what executes is no older.     *)
FreshInSeconds ==
  bundle.at = "executed" /\ FreshFor # 0 =>
    \A i \in DOMAIN bundle.delivered :
      (Len(registry) - bundle.delivered[i].lastUpdateBlock) * BlockSeconds <= FreshFor
=============================================================================
