# wstDIEM loop protocol: verification project

TLA+ models of the protocol's contracts and of its off-chain services, the TLC
instances that check them, and proofs of the results that matter for every
value of the constants. Paths below are relative to the repository's root
(`src/`); `contracts` stands for `contracts/v2`.

## 1. The system

A user holds a leveraged wstDIEM position on Morpho. She signs EIP-712 digests
(Open, Rebalance, Exit, ForceExit, AutomationExec, Revoke); an executor, called
by anyone the digest allows, takes a flash loan and asks `LoopAuthorization` to
touch the position on her behalf. Governance configures a registry, a guardian
may pause, an indexer copies events into SQLite and an anchor service notarizes
the indexer's head on chain. The SDK, used by the web app, finds out through
several nodes and the indexer whether an action may be signed, derives its bounds,
binds evidence, and hands the owner's wallet what to sign.

```
owner --signs--> digest --submitted by--> keeper / operator / owner
                               |
                 LoopExecutorV2, LoopForceExitExecutor
   flash pool <--callback--|          |  validate..., executeMorpho
   vault, Curve <----------|   LoopAuthorization ----> Morpho
                               |  reads
        LoopRegistry (versions, timelocks, roles, fingerprints), EmergencyGuardian,
        LoopRiskOracleAdapter
                               | events
                    indexer (SQLite) --HTTP--> anchor service --> LoopAnchorRegistry
                               | HTTP
   web app --> SDK: readiness, gates, evidence, digest <-- quorum of nodes
```

| Component | State | Operations | What is hard | What makes it correct |
|---|---|---|---|---|
| `LoopAuthorization` with its validation libraries | nonce words, policies, activity blocks; transient action context | five `validate...`, `executeMorpho`, `executeRevoke`, policy calls, `cancelNonce` | the context outlives the frame that armed it; the nonce is spent by the last Morpho call only; any frame may revert | a signature acts once, within its bounds, under authority in force |
| `LoopExecutorV2`, `LoopForceExitExecutor`, base, position arithmetic | flash arm slot and guard, throttle counters | five `execute...`, two caught attempts, flash callback | failure between any two external calls, rounding of fees, an inner frame that reverts inside an outer one that goes on | nothing is left in an executor, the loan can be repaid, the owner gets what she signed |
| `LoopRegistry` configuration, `LoopFingerprintRegistry` | version, venues, pending batch, pending fingerprints | queue, supersede, cancel, apply, close bootstrap, queue fingerprint, validate | what was queued and what it is applied to differ; a batch may fail half way | no change without a larger version and its announced delay |
| Critical roles of `LoopRegistry` | role holders, pending roles | set, apply | pending updates that cross | keys separate, role timelock |
| `EmergencyGuardian` | pause bits, expiries, toggle blocks, incident | pause, unpause, reaffirm, rotate | expiry leaves the bit set | pauses are bounded and rate limited |
| `LoopRiskOracleAdapter` | none | bitmap from eight reads, debt and health of a position | any read may fail, feeds go quiet, shares become debt by its own rounding | risk rises on sound sources only; debt is not understated |
| `LoopFeeRouter` | receivers | forwards fees | nothing calls it yet | not modelled |
| `LoopAnchorRegistry` | last anchor | `submitStateSnapshot`, with or without hash | reorganisations | anchors spaced and on their branch |
| Indexer | SQLite tables, head | tick: detect, roll back, index | reorganisation between requests, crash in a rollback | the tables are those of the canonical chain |
| Anchor service | none but its timer | tick: read, decide, send, wait | torn reads, lost receipts, retries | no wrong or early anchor |
| SDK: quorum and readiness | a query in progress | quorum read, pin, parallel reads, anchor cross-check | requests answered one by one while the chain forks; providers that lag or lie together | allowed means allowed by the chain at a real block, on a real anchor |
| SDK: building and evidence | an action on its way | derive bounds, quote, bind evidence, hash, encode | five lists of the same struct members; a quote or a registry that changes in between; integer rounding | one digest everywhere; the bundle signed is one the chain takes |
| SDK: gates, subscription | gate statuses; reads under way | six gates; polling | comparisons repeated from the contract; overlapping reads, cancellation | what passes is accepted; callbacks in order, none after cancelling |
| Web app | drafts, drawer, force-exit panel | derive, preview, sign, broadcast; tick, type, wait | several tabs, refetches under an open wallet, conditions that change under a tick | what is signed is what was shown, once, after review |
| Indexer API | none | routes over the tables | partial rows, answers from different moments | as the indexer's tables; signature and paging not modelled |

`PROJECT.json` lists every component with its files and status, and the hazards
(a line of code and what can go wrong there) the properties are for.

## 2. Modules

| Module | Models |
|---|---|
| `SignedActionLedger` | abstract: one-shot keys, caps, and what a transaction may settle or strike out |
| `LoopAuthorization` | `LoopAuthorization.sol`, `LoopForceExitAuthorizer.sol` and the libraries they call; the EVM's frames, reverts and transient storage |
| `LoopAuthorizationProofs`, `LoopAuthorizationLedgerProofs` | proofs about it: types, nonces and amounts; what its steps may never do, and that it implements the ledger |
| `LoopExecutor` | both executors on top of `LoopAuthorization`, the flash pool, vault, Morpho, Curve and token balances they move |
| `LoopExecutorProofs` | proofs about it |
| `ChainClock` | block number shared by the governance modules |
| `LoopRegistry` | configuration batches, bootstrap, fingerprints |
| `CriticalRoles` | role queue and key separation |
| `EmergencyGuardian` | pauses |
| `RiskOracle` | the adapter, the feeds, vault, pool and Morpho it reads, the checks that use it |
| `GovernanceProofs` | proofs about registry, roles, guardian and adapter, alone and on one chain |
| `ReorgChain` | a chain that grows and loses its last blocks, as a node shows it |
| `Indexer` | the poll loop, reorganisation detection, rollback and tables |
| `AnchorService` | service and `LoopAnchorRegistry` on top of `Indexer` |
| `OffchainProofs` | proofs about chain, indexer and anchor service together |
| `RpcQuorum` | providers, families and faults; a value or height agreed by a threshold of families |
| `Readiness`, `ReadinessProofs` | `getReadiness` and the anchor cross-check over `ReorgChain` and `RpcQuorum`; proofs |
| `SignSession` | tabs that derive, quote, sign, attach and broadcast; the nonce search |
| `SigningGates` | the loop builder's form, MEV mode, the six post-matrix gates, the drawer's button, beside the contract's gates |
| `ForceExitFlow` | the force-exit panel from readiness to execution |
| `EvidenceSet` | evidence from the registry's required set to the validation on chain |
| `ActionEncoding`, `BuiltAction` | struct members in each of their lists; an action's bounds, quotes, digests, calldata and execution |
| `PositionFeed` | `subscribePosition` |
| `ClientProofs` | proofs about signing, gates, force exit, evidence, an open's bounds and the subscription |
| `NumberLemmas` | least and greatest numbers, induction and recursion over segments of numbers, quotients |
| `MC...` | instances: digests (`MCLoopDigests`), scenarios, parts, bounds |

Composition is by EXTENDS, bottom up: an executor step that calls the
authorization conjoins that module's action (`ExecuteMorpho`, `Validate`,
`EnterFrame`) with what it does to the executor's own variables, and the anchor
service reads the indexer's `db`, `Readiness` reads through `RpcQuorum` from
`ReorgChain`, and `RiskOracle` asks `EmergencyGuardian`.

### How state and actions correspond to the code

*LoopAuthorization.* `state` is everything a revert rolls back: nonces (the set
of spent `(owner, nonce)`), policies per owner, activity blocks, the transient
context, and counters of what ran and what was released. `frames` is the stack
of copies a revert would restore, one per open call frame; the bottom one is
the transaction. `EnterFrame`, `LeaveFrame`, `RevertFrame` and
`EndTransaction` are the EVM: a revert restores the copy, the end of a
transaction clears the transient context and nothing else does. Each
`Validate...` action is the whole Solidity function with its calls into
`_validateCommon`, `LoopV1ActionValidation` and `LoopForceExitAuthorizer`, ending in
`ArmContext`; `ExecuteMorphoStep` and `ExecuteMorphoTerminal` are `executeMorpho`
before and at the programme's last selector. A digest is a record of the signed
fields; a signature is membership in `Digests`. Risk bits and the oracle are the
set `registry.conditions`, which changes at any time between transactions.

*LoopExecutor.* `job` is the flash context with a stage in place of the program
counter; `books` are Morpho positions and balances; `saved` is their copy at the
start of the transaction. The stages follow the callback: `supply`, `borrow` or
`repay`, `withdraw`, `swap`, then `settle` (post-state and loan), `finish`
(sweep). Vault and Curve prices are inputs. `world` is what governance and the
market move between transactions: a pause, whether a risk adapter is registered,
and the oracle's price, which may be missing. Morpho's health check, the signed
health factor and, where an adapter is registered, the leverage are measured at
that price; without an adapter leverage is debt over collateral as they stand. At
every stage the transaction may revert, which covers all checks whose data is
abstracted. A direct action's revert restores everything; an attempt's
(`RevertAttempt`) leaves the outer frame, which records the failure
(`CatchFailure`). The debt does not accrue interest inside a transaction.

*Governance.* `config`, `queues`, `gates` hold what `_commitBatch`,
`queueExternalFingerprintUpdate` and the bootstrap switches write; `live` is what
venues show. `settings` are the two slots of readiness that the owner sets in one
call, with neither a batch nor a new version: the risk adapter and the price feed's
freshness threshold. A batch is a sequence of operations folded by `Course`; if one is
not applicable the batch changes nothing. `announced`, `roleLog` and `toggles`
are history variables that no guard reads.

*RiskOracle.* The adapter has no state, so its functions are operators and the
actions are those of what it reads: rounds of the price feed, the sequencer
going down and up, the vault's rate, the pool's depth, reads that revert
(`unread`), the guardian, and Morpho, which accrues before every call and rounds
against the caller. `RiskMayRise` is the conjunction the code asks for: the
executor's `requireNotPaused` and the authorization's `validateLiveStateBitmap`.

*Indexer.* A step is the code between two answers of the node, so the chain may
move between `DetectReorg`, each `ProbeDown`, `FetchLogs` and each `IndexBlock`. Every
database write of one block is one transaction in the code and one action here;
the rollback is six statements outside a transaction, so `CrashInRollback` may stop
after any of them. A block's hash is the sequence of blocks up to it.

*AnchorService.* The three reads of a tick are answered in any order, each from
the database of its moment; hash, simulation and transaction follow one by one;
what was sent may be included in any later block of any branch.

*RpcQuorum, Readiness.* `query` is the promise chain of `getReadiness`: the field
`at` is the await it stands at, `waiting` the requests of a `Promise.all` that are
still open, and the chain, the indexer and the registered submitter move between
any two answers. A provider that is not faulty answers what the chain says at the
pinned block or fails, one of a faulty family anything; a quorum read is one step,
since its answers concern one pinned block. Any answer may be a time-out.

*SignSession.* `tab[t].draft` collects the three reads of `useActionParams`, `shown`
and `quoted` are the drawer, `job` the click in progress with the pin, quote and
signature it holds. Head, price and version move between any two steps, and a
transaction that was sent executes in any order or never.

*SigningGates.* `form`, `action` and `gates` are what the builder's hooks hold, each
`Unset` while it is loading and keyed as the hooks key it. `preview` is one on its
way: three parallel reads, each of the latest block of its own moment, answered in any
order with harvests, setters and blocks in between, then the allow-list. A gate is an
operator of what was read, beside the operator of the contract's own check of the chain;
`seen` keeps what the gates shown were evaluated from. A stale preview stays until the
next is there, and one out of the query's cache is one whose reads took as long. Nodes
that lag behind the chain's head are a matter of the readiness query.

*ForceExitFlow.* `panel` is the confirmation's state with ticked boxes, typed token
and countdown, `shown` the bitmap of the last readiness, `request` what a click
set going; `live` changes at any moment.

*EvidenceSet.* `registry` keeps every block's required set and canonical addresses,
because reads are pinned; `bundle` goes from idle over pinned and bound to
delivered and executed. *ActionEncoding* and *BuiltAction* have one list of members
per place the code lists them, and a hash is the tuple of what it is taken of;
`built` is an action from `derive` to `executed`, also with altered calldata.

*PositionFeed.* `polls` are the overlapping reads of one interval, each free,
pinning or reading at its block; `last` and `cancelled` are the closure's variables.

## 3. Plan

In order of what the system's safety depends on most:

1. authorization: one-shot ledger, policies, gates (done, proved);
2. executors on top of it (done, every safety property proved);
3. governance: roles, guardian, configuration (done, proved);
4. indexer, chain and anchor service (done, every safety property proved);
5. risk adapter beside the guardian (done, proved);
6. SDK and app: quorum and readiness, signing session, gates, force exit, evidence,
   subscription, encodings and bounds (done, every safety property proved);
7. left to model: the remaining parameter setters of the registry,
   `LoopFeeRouter` once something calls it, the response signature of the API, the
   revocation's builder, event history and its paging.

## 4. Runs

| Run | Question | Bounds |
|---|---|---|
| `authorization_replay` | can any order of digests that share nonces, cancellations and nested reverting frames replay a signature or exceed its bounds? Also: refinement of the ledger. | four digests of which two share a nonce and two more types pay out; two nested frames, two blocks, amounts 0..2 |
| `authorization_scenarios` | is what completes authorised at that moment: policy active, gates open, operator entitled? | one policy, two hashes, two registry versions, three blocks; or one risk condition at a time with recovery after two blocks |
| `executor_flows` | do the flash-loan flows leave balances, loan and position as signed, whatever fails? | six digests: open, leverage-up, partial unwind, two exits under one nonce, force exit; amounts around a hundred so that the 1% fee and the dust rule round, four prices of the pool, one donation; one change of the world: a pause, the oracle 5% lower, without a price, or lower and no adapter |
| `executor_throttle` | does the throttle bound failures and expire? | two automations and a force exit; window of one block, maximum two, submissions in blocks 1..3, block 5 |
| `governance` | do versions, venues, roles and pauses change only as announced? does risk rise only on sound sources, and is debt never understated? | one part per behaviour; four batches of which one fails half way, two venues, delay 1 (roles 2), four blocks; adapter and threshold set before the first batch and unset when the market is ready; one read failing at a time, heartbeat 1, grace 2, one toggle; up to 11 borrowed assets, two collaterals, three prices, two borrowers |
| `offchain` | does the indexer hold the canonical chain's rows and catch up, and are anchors spaced and on their branch? | height 4, two reorganisations (one with the service awake), one crash or failed request, batch 2, one confirmation |
| `readiness` | is an allowed action one the chain allows, at a real block, on an anchor the contract accepted, and does every query end? | four SDK configurations; two providers of one faulty family and one that works, threshold 2; height 4, one reorganisation, at most two events (one once forked, or beside a lying indexer); blocks of lag, confirmation and staleness 1 |
| `client` | is what the browser signs one action, once, as shown, with gates and evidence the chain takes, and is a subscription faithful? | one part per behaviour: two tabs over two nonces, one tab with quotes that age, two critical conditions and a dwell of two seconds, six gates over three blocks, two cooling periods, two sources and two registry versions over four blocks, a grid of collaterals, leverages, slippages, rates and fee tiers, two overlapping polls over three blocks |
| `offchain_orphans`, `readiness_stalled`, `rebalance_modes`, `evidence_seconds` | disagreements, section 6 | the instances above, or the smallest that show them; for `readiness_stalled` an honest indexer that follows the chain until the query begins, height 4, no reorganisation, no lag, staleness 1 |

Why these bounds are enough to be interesting: a replay needs two digests on
one nonce, one success and one retry in a frame that reverts, which two frames
and a handful of digests contain; a throttle window that straddles another
needs two windows and two submitters; crossing role updates need two roles and
three holders; a mid-tick reorganisation needs a batch of two blocks and one
replacement, a stale probe needs a second. Every action and every disjunct of
the next-state relations fires in a passing run, and for each property a mutant
of a mapped definition (named beside it, `\* mutant of`) makes TLC report a
violation under the same configuration.

In `authorization_scenarios`, `governance`, `offchain` and `client` a variable chosen at
the start (`scenario`, `part`) says which question a behaviour asks. The parts of
governance and of the client share at most the block number, so their product would add
no behaviour; a policy and a risk condition, or a commit and a rotation, are kept apart
to bound the state space, and what a mixture could add is not covered. In the anchor
scenario, which stores no commits, the registry's answer comes first, since it is the
same at any moment. `offchain` allows deadlock: at the bounds nothing more can happen.
`mishaps` records whether a reorganisation hit the middle of a tick or a crash the
middle of a rollback, so that what holds without them is stated as such; with the first,
`OrphansExcluded` fails (section 6).

Where several statements concern the same state, and each is a plain conjunct, a
run checks them as one property: `BooksBalance` (types, nothing left behind, loan
repayable), `ExecutedUnderAuthority` (nonce spent, no borrowing under a pause),
`NoncesAccounted`, `GovernedAsAnnounced`, `KeysGoverned` (keys separate, role timelock),
`PauseDiscipline`, `VersionedAndReady`, `RowsConsistent`, `RowsExact`, `AnchorsSound`,
`AnchorIsTheChains`, `SignedOnce`, `ReviewedConsent`, `FormIsSigned`, `EvidenceHolds`,
`OneAction`; each is defined beside its parts, which are commented one by one.

In `readiness` the order of two answers is left open only where either depends on what
happens in between (`InOrder`), and a chain holds the events that matter to the
configuration. After a query's result nothing moves until the next query, which is no
different from a first one; where a chain holds fewer events the theorems of section 5
cover any number. In `client`, `Race` uses that tabs are alike, and `Builder` moves the chain under the
private mode, which has no waivers, since no gate asks for both; there the harvest
gate's reads are answered in any order, elsewhere in one. `OpenFeasible` speaks of
fee tiers up to 30 basis points, of slippages of which twice exceeds the fee and the
vault's drift together, and of loans of at least 200000 wei (`Dust`), since the bounds
are eight roundings away from what executes and a basis point of less does not make up
for them: section 6 lists what happens outside.

### Fairness

`executor_throttle` assumes that a transaction that has begun runs to its end (the EVM
does not stop half way) and that blocks keep being produced: strong fairness for the
block, since transactions between blocks come and go. `offchain` assumes that the poll
loop runs on (`setInterval` in `indexer.ts` starts a tick whenever none is running, and
every error inside one is caught) and that blocks keep coming, both weak fairness;
failures and reorganisations are finite by bound, which is the property's own premise
("once chain and failures settle"). `readiness` assumes that a query's next step is
taken, because every transport has a time-out and a time-out is an answer
(`quorum.ts:410`); not that nodes or indexer answer. `client` assumes that a signature
that was asked for is answered and the attach that follows runs (`AttachEnds`), and for
the subscription that its interval fires (weak) and that, of polls started again and
again, pins and answers happen again and again (strong), since single reads may fail for
ever in between (`FeedSettles`). Nothing assumes that an owner, a keeper, governance or
the anchor service ever acts.

### Checking it again

In this directory, `tlc -config LoopExecutorFlows.cfg MCLoopExecutor.tla` and so on for
each pair in `PROJECT.json` ("runs"); `tlapm GovernanceProofs.tla` and so on for
each `...Proofs` module and `NumberLemmas.tla`. The longest run, and the longest proof,
take a few minutes.

## 5. Proofs

Assumptions are those named in the modules (`AuthorizationAssumption`,
`ExecutorAssumption`, `RegistryAssumption`, `RolesAssumption`, `GuardianAssumption`,
`ClockAssumption`, `RiskAssumption`, `ChainAssumption`, `IndexerAssumption`,
`AnchorAssumption`, `QuorumAssumption`, `FaultAssumption`, `ReadinessAssumption`,
`EventAssumption`, `SignAssumption`, `GateAssumption`, `ForceExitAssumption`,
`EvidenceAssumption`, `BuiltAssumption`, `FeedAssumption`). They give the constants'
types; beyond types they say that a governance account is not the first guardian (its
constructor requires that), that delays are positive and batches not empty, that an open
signs a maximum to borrow, that fewer families are faulty than the threshold, that an
initial position without collateral owes nothing, that executors own no positions, that
a digest has zero for a bound that its type has no field for, and that anchors come on
chain by the service's transactions alone. Owners, digests, amounts, prices, depth of
frames, delays, batches, providers, tabs, sources and heights are arbitrary. TLC
evaluates every assumption on the instance of its run.

| Theorem | Says |
|---|---|
| `TypeCorrect`, `OneShotInductive` | `LoopAuthorization`'s types and the invariant `OneShot`, in the state and in every copy a revert would restore |
| `NoncesAccountedFor`, `SignedSpendBounded` | a nonce is spent exactly when one terminal call ran under it or it was cancelled; no digest releases more than its signed bound |
| `LedgerImplemented` | the contract implements `SignedActionLedger` |
| `ReleasesPaired`, `AuthorityStaysInForce`, `PoliciesKeepHistory`, `DebtDrawnWhenSafe`, `OperatorsWait` | what its steps may never do; `HistoryInductive` is their invariant |
| `ExecutorKeepsAuthorization` | every behaviour of the executors is one of `LoopAuthorization` |
| `BooksAlwaysBalance`, `OutcomeAsSigned`, `UnwindingCost` | nothing is left behind, loans are repayable, outcomes are as signed; on `InFlightInductive` |
| `ExecutesUnderAuthority`, `PausedBeforeBorrowing` | success and spent nonce agree, a pause stops borrowing; on `SpendingInductive` |
| `ThrottleBounds`, `ThrottleRunsOut` | failures in any window; nobody prolongs a throttle |
| `RegistryInductive`, `NoticeGiven`, `RegistryVersioned`, `BatchesTimelocked` | the registry's guarantees |
| `RolesGoverned` | key separation and the role timelock |
| `GuardianTypeCorrect`, `PausesExpire`, `PausesDisciplined` | the guardian's guarantees |
| `RiskRisesOnSoundSources`, `DebtCoversRepayment` | bitmap and executor together let risk rise only on sound sources; debt is not understated |
| `PartsKeepTheirSpecs`, `GovernanceAnnounced` | the same on the chain the four share |
| `DatabaseAgrees`, `RestingRowsExact`, `AnchorsKeepBranch` | indexer and anchors; on `OffchainInductive` |
| `AgreedReadSound`, `AgreedHeightSound` | what a quorum agrees on, a working provider said |
| `AgreedReadAvailable` | the truth is agreed on once enough families report it |
| `AllowedOnlyByTheChain`, `PinnedToTheChain`, `AllowedOnAnAnchor` | the guarantees of a readiness query |
| `QueriesShorten` | each of its steps leaves fewer to its end |
| `OrdersSignedOnce`, `ButtonSignsTheForm`, `PassedIsAccepted` | tabs, builder and gates |
| `EvidenceComplete` | evidence from resolver to chain |
| `BuiltIsOneAction`, `DigestsDiffer` | an action is hashed, signed, encoded, shown and executed as one; no digest stands for two |
| `OpensAreFeasible`, `OpenMeetsItsBounds` | an open is executed within its slippage; the arithmetic of its derived bounds |
| `ConsentReviewed`, `FeedDisciplined` | a force exit's waivers, a subscription's callbacks |
| `ClientKeepsItsPromises` | all of the client's results where its components stand side by side |

*One-shot authority.* `NonceAccounting` is not inductive: a revert replaces the
state by a copy nothing was said of, and the terminal call releases what the
context, not the digest, allows. `OneShot` therefore says of the state *and of
every frame's copy* that nonces are accounted for, that what was released is
within the signature, that policies store zero bounds, and that an armed
context's bound is within its digest's, with nothing released yet for a digest
whose nonce is fresh. A validator arms only such contexts, a call moves from
one safe state to another, and the EVM's steps push, pop and restore safe
copies.

*Ledger and policies.* Those results relate two states, so `History` orders the copies:
each frame's precedes the next and the live state in nonces, releases and policies
(`Since`). It also says what an armed context remembers of its check (`InForce`): the
configuration, the block and the copy that the transaction began with cannot change under
it, and the owner's policies only if she is recorded as having written them. The
refinement maps a committed state to the ledger: inside a transaction every step
stutters, and its end settles what the bottom copy and the state differ in.

*Executors.* `JobSound` lets every executor step be read as a step of the authorization,
so its theorems hold unchanged. `InFlight` gives each stage's balances as a function of
the digest and of the position found (`Measured`, `Advancing`) and says that copies a
revert restores are clean. `Spending` counts terminal calls against successes in every
copy; that a withdrawal really is the last call needs that Morpho leaves no debt without
collateral (`NoBadDebt`). `ThrottleBounds` needs more than the counter: how many of a
window's failures lie before its start, at it, and after it (`CounterSound`). The same
invariant (`Throttling`) says that whatever is under way was let in by its counter, so a
throttled one is left alone until its window is over (`ThrottleRunsOut`).

*Registry.* `NoticeServed` says of a configuration *and* a queue of fingerprints that
whatever is in force served its own notice; an operation keeps it, so the recursive
function `Course` does over a whole batch, by induction over the batch's positions.
Readiness is a conjunction of configuration, venues, `gates` and `settings`, and each
action but three leaves all of it as it is or makes it true. Of the three, a batch
changes the configuration and a venue itself; the third, the owner's call that unsets
the adapter or the threshold, is allowed for in the statement and shown to leave the
timelocked part (`Guarded`) standing.

*Roles.* A pending update equals what was announced and is due one delay after
it (`PendingAnnounced`). Separation is checked both when an update is queued
and when it is applied; the second check is the one the invariant needs.

*Guardian.* The contract's toggle block is the last toggle's, and while the bit
is set the expiry is `AutoExpire` after the last endorsement (`RecordsAgree`).
That this says nothing of expiry makes it inductive: bits outlive their pause.

*Risk adapter.* The feed's record of the sequencer and its history agree
(`OutageKnown`): up since the last outage's end or later. Clear bits then give each
source's condition, and the executor's call is what makes a silent guardian close
the gate. Debt rests on `SharesCovered`: the owner's shares are among the market's and
these at most the assets times the virtual shares, which borrowing (rounded up),
repaying (rounded down) and accruing keep.

*Indexer and anchors.* `OffchainInv` has one part per component: blocks carry real,
new events and accepted anchors keep their distance (`ChainSound`); rows are of stored
blocks below the head, in any order of the rollback's statements (`DbSound`); each stage
of a tick knows what its requests found (`TickSound`). `RestingRowsExact` adds, while no
reorganisation met a tick, that what is stored is a prefix of one branch and what is
about to be stored continues it (`OneBranch`), and, while no rollback was cut off, that
nothing before the cursor is missing (`NothingMissing`). It is the one theorem about the
instance's kinds of events, since which table an event lands in depends on its kind.

*Readiness.* A set of members that reports one value with the support of a
threshold of families contains one of a family that is not faulty
(`SupportedByHonest`). `ReadInv` adds, for a query in progress, its shape, that the
pinned block exists on the chain unless it was replaced within the query
(`QueryInv`), that the submitter read is the one in office there (`SubmitterKnown`) and
that a log found is one the chain emitted (`LogChecked`), over a chain whose blocks
are real and whose replaced ones are remembered (`ChainInv`). Each answer keeps
these whatever the chain does before the next. `Best` names a value whenever there is an
answer at all (`BestIsBest`, by taking the least of what support falls short of, and then
the first member), so that the quorum, which refuses lies, does return the truth.
`Remaining` counts the stages and unanswered requests before a query: since nothing is
asked twice, it falls with every step, and `QueryEnds` needs fairness only for that
answers come.

*Signing.* `SignInv`: every order held by a tab, in flight or executed carries the first
nonce that was free when it was derived. Of two executed orders the later one's nonce
was still free when the earlier executed, so had it been derived before, it would have
had a smaller or the same nonce, which by then was spent. `GateInv` says that the action
previewed is the form's, since every change of the form drops it, and that what was read
is of a block there was. Since the head only grows, a harvest gate that passed has a head
behind it that is past the harvest and cooling it read, whichever came first; what was
recorded since is the theorem's premise.

*Evidence.* A version names one required set and one set of addresses (`VersionsName`),
and a bundle under way has the shape its stage promises (`BundleSound`). That sorting
makes a bundle the one the chain expects rests on two facts about lists proved by
induction over positions: every finite set of numbers has an ascending list
(`SortingOrder`, by taking the least one left), and two ascending lists with the same
members are equal (`RisingUnique`).

*One action.* `BuiltInv` says that an action is the one its inputs, the venue and some
quoted routes determine, that what is delivered is its calldata or a tampered one, and
that it executed exactly if the executor's checks of what it read hold. Everything else
is about the lists. Each party's list of a struct names the same members (`ListsAlike`),
so hashes agree (`DigestsAgree`), and each list covers the struct (`BuiltWhole`), so
reading calldata by position gives every member back (`EncodedIsRead`) and equal digests
give equal members (`DigestBinds`). Fee caps enter a digest as their hash: they are
equal because a keeper changes none (`CapsCarried`) or, for calldata of any origin,
because their hash lists all three (`DigestsDiffer`).

*An open's bounds.* The derived bounds differ from what executes by eight roundings.
`SlippageCovers` and `SharesSuffice` turn the strict slippage condition into a whole basis
point of margin, which a loan of `Dust` makes larger than all of them. An open
delivered as encoded is read as signed, so nothing but its bounds could refuse it
(`InvFeasible`).

*Force exit.* `FlowInv` relates the flag to the input that precedes it: the countdown
is never older than the last input, is at its start while the panel is not armed, and
the flag is set only at its end, with the token typed (`PanelSound`). The token matters:
typing it right leaves the flag as it is, which is sound only because it cannot be set
then.

*Subscription.* Every pinned read is of a block that is there, and `last` is what the
subscriber was last called with (`FeedInv`).

*Numbers.* The library's induction theorems take an operator as a parameter, which the
provers cannot instantiate. `NumberLemmas` states induction and recursion for a set or a
function over a segment of numbers instead, from the well-foundedness of `<`, and
every induction above cites it.

Only model-checked is liveness, `ThrottleExpires`, `CatchesUp`, `QueryEnds`, `AttachEnds`
and `FeedSettles`: fairness and ENABLED are out of the proof system's reach. Of
`QueryEnds` and `ThrottleExpires` the parts that need neither are proved
(`QueriesShorten`, `ThrottleRunsOut`).

## 6. Disagreements

Shown by a run that TLC must find violated:

- `offchain_orphans`: logs and block hashes of one tick are separate requests and
  parent hashes are not compared, so rows of an orphaned block can be served with
  the head on the canonical chain.
- `readiness_stalled`: an anchor's age is counted from the head the indexer reports,
  so an honest one that stopped reports the head it stopped at beside the last anchor it
  stored, which stays fresh by that clock (`sdk-impl.ts:1030`).
- `rebalance_modes`: the bounds the SDK derives for a rebalance that levers up are
  the corner that the contracts refuse as ambiguous (`sdk-impl.ts:1956`).
- `evidence_seconds`: a threshold in seconds is compared with a number of blocks
  (`LoopV1Validation.sol:63`), so evidence may be twice as old on a 2-second chain.

Met while modelling, without a run of their own:

Contracts:

- `createPolicy` stores a collateral bound of zero and automation arms it
  (`LoopAuthorization.sol:510`), so DELEVERAGE_ONLY automation, documented with
  `maxCollateralSold > 0` (`PROTOCOL.md:711`), can never withdraw.
- `throttleCounters` is keyed by policy id alone, and ids count from 1 per owner
  (`LoopExecutorV2.sol:25`, `PROTOCOL.md:727`), so one owner's failures throttle
  another's policy.
- An OWNER_DIRECT digest is checked against the authorization's caller, which is the
  executor (`LoopAuthorization.sol:133`), so the owner-direct path of
  `PROTOCOL.md:719` is refused; the SDK defaults to KEEPER_PERMISSIONLESS, where
  `LAUNCH_READINESS.md:131` says OWNER_DIRECT.
- An exit that signs no collateral to sell and is not REPAY_ONLY ends, for the
  executor, at the repayment; the authorization armed the withdrawal as the call
  that spends the nonce (`LoopExecutorV2.sol:339`). Given tokens for the loan's fee it
  completes and its nonce stays free (`PROTOCOL.md:414`). `ExecutedUnderAuthority` is
  the statement for every other nonce.
- The bitmap's pause bit is not "the same surface as requireNotPaused", as the
  comment says (`LoopRiskOracleAdapter.sol:115`): a pause of Rebalance alone blocks
  Open, and a guardian that does not answer raises no bit. The second check covers it.
- `readPositionState` after a failed position read reports no debt and so the best
  health factor, although it zeroes the price (`LoopRiskOracleAdapter.sol:72`).
- The adapter and the position arithmetic read debt from Morpho's stored totals, so
  interest since the last accrual is missing: `DebtNeverUnderstated` says so
  ("pending"), and a full exit repays that much less.
- A canonical source without code makes `computeStateBitmap` revert, which
  `validateLiveStateBitmap` takes for a harness and lets pass
  (`LoopV1ActionValidation.sol:126`); the model takes sources to have code.
- A flash-fee cap of zero means none, and dust at the 30-basis-point tier may exceed
  a cap by rounding.
- `updatePolicy` rewrites a revoked policy's hash, though its NatSpec speaks of an
  active one (`contracts/v2/LoopAuthorization.sol:516`).
- Force exit asks that the signed failure modes equal one mode exactly, so two
  simultaneous failures cannot be acknowledged (`LoopForceExitAuthorizer.sol:160`).
- REPAY_ONLY automation flash-borrows the debt and withdraws nothing, so it can
  only repay the loan from tokens sent ahead (`LoopExecutorV2.sol:250`).
- Slippage is compared in both directions, so a price better than expected by more
  than the tolerance reverts (`LoopV1PositionMath.sol:116`).
- A fingerprint's baseline is the level when it was queued; a venue rotated by a
  batch fails validation until a fingerprint queued afterwards has served its delay.
- `assertProductionReadiness` validates fingerprints only for a market with a flash
  pool (`LoopFingerprintRegistry.sol:166`): one without it is ready with none.
- Two conditions of readiness are taken back by direct calls of the owner without a
  timelock, and without a new version by which signed digests would notice: the risk
  adapter and the price feed's freshness threshold may be set to zero
  (`LoopRegistry.sol:636`, `:649`). `ReadinessStable` names them as the exception.
- `recordHarvest` takes any block number, also of the past, so a harvest reported late
  opens the window earlier than its transaction would (`LoopRegistry.sol:527`).
- The guardian may pause again as soon as a pause expires; only the rate limit,
  shorter than a pause, holds it back.

Indexer and anchor service:

- A rollback leaves the policies table, and indexing again does not undo a
  revocation that no longer exists (`reorg/detector.ts:83`).
- A reorganisation deeper than `reorgDepth`, or of the first indexed block, does not
  make the indexer exit, as its README says, but fail every tick
  (`indexer/src/indexer.ts:127`, `reorg/detector.ts:36`).
- A rollback cut off by a crash, followed by the return of the old branch, loses the
  rows already deleted: the head still matches and nothing is fetched again
  (`reorg/detector.ts:79`). `RowsComplete` excludes this history.
- The anchor's manifest binds the block hash the indexer stored, the contract checks
  the one the node reports afterwards, and nobody compares the two, so a head that
  was just reorganised away can be notarized (`anchor/src/submitter/tx.ts:47`).
- Anchor service: head, version and last snapshot are three reads and may stem from
  three moments (`anchor/src/indexer-client.ts:30`); a resubmission while the
  indexer lags is held off only by the contract's quarter cadence.


SDK:

- An exit's `minRepayment` is derived as collateral less slippage, but the executor
  repays the debt: exits the app builds for the pool are refused unless the debt
  comes near the collateral (`PROTOCOL.md:337`).
- Zero slippage makes every open revert on the vault's rounding; slippage must
  cover half the flash fee, and the smallest loans may revert on rounding alone.
- A leverage of one is 10000 to the SDK, while the executor computes debt over
  collateral; a rebalance that levers up asks for at least the loan in shares.
- The quoted routes of an open are not what the executor runs.
- Evidence read live takes the pinned block for a source's last update, so its
  threshold bounds the age of the read and not of the feed; a failed venue read is
  bound as fresh; a failed read of the required set gives an empty bundle; a custom
  resolver may return more sources than the chain takes.
- `buildRevokeExecuteTransaction` encodes a tuple that is not the contract's struct.
- The harvest gate's three reads are of no one block (`sdk-impl.ts:2958`): a harvest
  recorded between them passes a gate evaluated for a block in which the contract
  refuses. `PassedMeansAccepted` therefore speaks of harvests no later than the one read.
- A failed read makes a gate not applicable, and `gatesAllPassStrict` passes when a
  required gate is absent; the harvest gate treats a market that was never harvested,
  and a force exit, otherwise than the contract; zero throttle settings always fail.
- `attachSignature` quotes again, so a comment that the chain's advance cannot cause
  a drift (`wallet/sign.ts:40`) does not hold; a quote the builder shows is never
  refetched.
- A position's health or price alone never reaches a subscriber, since only
  collateral and debt are compared, and an older read answered late is shown until
  the next poll. `getPositionRisk` reads the vault's rate and the sequencer at the
  latest block beside reads that are pinned.
- `getIncidentHistory` sorts by block only.

App:

- `MevModeSelector` says "Sign disabled until cleared." of excess waivers, but nothing
  disables the button; `isHighRiskAction` overlooks a rebalance that adds debt
  (`high-risk.ts:18`).
- A refetch that disarms the force-exit panel does not reset the countdown
  (`useForceExitFlow.ts:11`).
- `useRevoke` never signs or broadcasts, and `onSignPolicy` is a stub.

## 7. Not modelled, and why

Hashing, ABI and signature checks (a digest is its fields); token approvals;
gas; interest inside a transaction; Morpho's liquidations; the price, liquidity,
utilisation and liquidation-distance bounds of the post-state check (they only
revert, and a revert is possible at every stage); the adapter's views that only
show; `LoopFeeRouter`, which nothing calls; in the registry, the setters other than
those of the risk adapter, the feed's threshold, the harvest cooling and the wallet
allow-list (what they set are constants of the models or not read by them); in the SDK, event history,
paging, error texts, type declarations and the text a preimage is shown as; in the
app, screens that only show and everything about policies, whose handlers are
stubs; the API's paging, health and response signature; configuration parsing,
command lines, deployment scripts, mocks, tests and vendored code.
