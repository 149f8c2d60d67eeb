---------------------------- MODULE BuiltAction ----------------------------
(***************************************************************************)
(* An action from the builder's inputs to its execution: build*Params      *)
(* derives its bounds, assembleAuthorization quotes and hashes it, the     *)
(* wallet signs, encodeExecutorCalldata encodes, a keeper delivers, the    *)
(* executor hashes what it reads and runs it (sdk/src/live/sdk-impl.ts).   *)
(***************************************************************************)
EXTENDS ActionEncoding

CONSTANTS
  Collaterals, Leverages, Slippages, \* builder inputs; leverage and slippage in basis points
  SharePrices,                       \* what 1000 shares of the vault are worth
  FeeTiers                           \* of the flash pool, in basis points

BPS == 10000

ASSUME BuiltAssumption ==
  /\ Collaterals \subseteq Nat /\ Leverages \subseteq Nat /\ Slippages \subseteq 0 .. BPS
  /\ SharePrices \subseteq Nat \ {0} /\ FeeTiers \subseteq Nat

VARIABLES
  input, \* what is asked for: type, collateral, leverage, slippage, repayOnly
  venue, \* sharePrice, feeTier; curve and uniswap: which quoters are configured
  built  \* the action on its way

builtVars == <<input, venue, built>>

ProtocolFee == 100
FlashFee == 30
ForceExitFlashFee == 50

PartOf(amount, bps) == (amount * bps) \div BPS
ApplySlippage(amount, bps) == IF bps >= BPS THEN 0 ELSE PartOf(amount, BPS - bps)

-----------------------------------------------------------------------------
(* build*Params                                                             *)

RawShares(assets) == assets  \* mutant of ConvertToShares: as if the vault traded at par
ConvertToShares(assets) == (assets * 1000) \div venue.sharePrice

Borrowing == PartOf(input.collateral, IF input.leverage > BPS THEN input.leverage - BPS ELSE 0)
FeeCaps(base) ==
  [flashFeeCap |-> PartOf(base, FlashFee), protocolFeeCap |-> PartOf(input.collateral, ProtocolFee), automationFeeCap |-> 0]

DeriveOpenBounds ==
  LET maxBorrowed == PartOf(Borrowing, BPS + input.slippage) IN
  [equityCollateral |-> input.collateral,
   minWstDiemReceived |-> PartOf(ConvertToShares(Borrowing), BPS - input.slippage),
   minBorrowedDiem |-> PartOf(Borrowing, BPS - input.slippage), maxBorrowedDiem |-> maxBorrowed,
   maxSlippageBps |-> input.slippage, maxPriceImpactBps |-> input.slippage, maxLeverageBps |-> input.leverage,
   minHealthFactor |-> 105, minLiquidationDistanceBps |-> 500, maxMorphoUtilizationImpactBps |-> 500,
   feeCaps |-> FeeCaps(maxBorrowed)]

DeriveRebalanceBounds ==
  [targetLeverageBps |-> input.leverage, targetLeverageToleranceBps |-> 200, minPostHealthFactor |-> 105,
   minLiquidationDistanceBps |-> 500, maxDebtIncrease |-> Borrowing, maxCollateralSold |-> input.collateral,
   maxSlippageBps |-> input.slippage, maxCurvePositionShareBps |-> 2000, maxMorphoUtilizationImpactBps |-> 500,
   feeCaps |-> FeeCaps(Borrowing)]

DeriveExitBounds ==
  [minRepayment |-> PartOf(input.collateral, BPS - input.slippage), maxCollateralSold |-> input.collateral,
   maxSlippageBps |-> input.slippage, maxCurvePositionShareBps |-> 2000, maxMorphoUtilizationImpactBps |-> 500,
   feeCaps |-> FeeCaps(input.collateral), repayOnly |-> input.repayOnly, acceptsThirdPartyRepay |-> FALSE]

DeriveForceExitBounds ==
  [minRepayment |-> PartOf(input.collateral, BPS - input.slippage), maxCollateralSold |-> input.collateral,
   looseSlippageBps |-> input.slippage, looseFlashFeeCap |-> PartOf(input.collateral, ForceExitFlashFee),
   maxCurvePositionShareBps |-> 2000, acknowledgedRisks |-> 1]

(* A revocation and an automation are written by hand, their placeholders   *)
(* are dispatchDigest's.                                                    *)
RevokeBounds == [policyId |-> 1, policyClass |-> 0, effectiveBlock |-> 0]
AutomationBounds ==
  [triggerConditionHash |-> <<"trigger">>, underlyingPrimaryType |-> 0, underlyingActionHash |-> <<"underlying">>,
   policyHash |-> <<>>, boundSubsetHash |-> <<>>, notBeforeBlock |-> 0, notAfterBlock |-> 0]

Bounds ==
  CASE input.type = "Open" -> DeriveOpenBounds [] input.type = "Rebalance" -> DeriveRebalanceBounds
    [] input.type = "Exit" -> DeriveExitBounds [] input.type = "ForceExit" -> DeriveForceExitBounds
    [] input.type = "Revoke" -> RevokeBounds [] OTHER -> AutomationBounds

CommonEnvelope ==
  [executionKind |-> 1, mevProtectionMode |-> 1, mevWaiverBits |-> 0,
   identity |-> [owner |-> "owner", chainId |-> "8453", verifyingContract |-> Authorizer(input.type), market |-> "market",
                 executor |-> IF input.type = "ForceExit" THEN "LoopForceExitExecutor" ELSE "LoopExecutorV2",
                 registryVersion |-> "1", registryMerkleRoot |-> "root", policyId |-> "0", nonceSlot |-> "0",
                 nonceBit |-> "0"],
   freshness |-> [deadline |-> "600", quoteBlockNumber |-> "7", maxQuoteAgeBlocks |-> "30", maxQuoteDeviationBps |-> "100"],
   marketParams |-> [loanToken |-> "DIEM", collateralToken |-> "wstDIEM", oracle |-> "oracle", irm |-> "irm", lltv |-> "lltv"]]

DeriveParams ==
  /\ built.at = "derive"
  /\ built' = [at |-> "assemble", action |-> Joined(CommonEnvelope, [bounds |-> Bounds])]
  /\ UNCHANGED <<input, venue>>

-----------------------------------------------------------------------------
(* assembleAuthorization                                                    *)

CurveRoute(sold, amount, received, slippage) ==
  <<"CURVE", IF sold = "DIEM" THEN 0 ELSE 1, IF sold = "DIEM" THEN 1 ELSE 0, amount, ApplySlippage(received, slippage)>>

(* `answers': the venues whose quote does not fail; `received': Curve's.    *)
OpenRoutes(amount, slippage, answers, received) ==
  IF amount = 0 THEN <<>>
  ELSE (IF venue.curve /\ "curve" \in answers THEN <<CurveRoute("DIEM", amount, received, slippage)>> ELSE <<>>)
       \o (IF venue.uniswap /\ "uniswap" \in answers THEN <<<<"UNISWAP_V3_FLASH", amount, 500>>>> ELSE <<>>)

RebalanceRoutes(b, answers, received) ==
  IF b.maxDebtIncrease = 0 THEN <<<<"REPAY_ONLY", b.maxCollateralSold>>>>
  ELSE OpenRoutes(b.maxDebtIncrease, b.maxSlippageBps, answers, received)

SellRoutes(b, slippage, answers, received) ==
  IF venue.curve /\ "curve" \in answers /\ b.maxCollateralSold > 0
  THEN <<CurveRoute("wstDIEM", b.maxCollateralSold, received, slippage)>> ELSE <<>>
ExitRoutes(b, answers, received) ==
  IF b.repayOnly THEN <<<<"REPAY_ONLY", b.minRepayment>>>> ELSE SellRoutes(b, b.maxSlippageBps, answers, received)

DeriveRoutes(b, answers, received) ==
  CASE input.type = "Open" -> OpenRoutes(b.maxBorrowedDiem, b.maxSlippageBps, answers, received)
    [] input.type = "Rebalance" -> RebalanceRoutes(b, answers, received)
    [] input.type = "Exit" -> ExitRoutes(b, answers, received)
    [] input.type = "ForceExit" -> SellRoutes(b, b.looseSlippageBps, answers, received)
    [] OTHER -> <<>>

RequiresQuoteRoutes(b) ==
  \/ input.type \in {"Open", "ForceExit"}
  \/ input.type = "Rebalance" /\ b.maxDebtIncrease > 0
  \/ input.type = "Exit" /\ ~b.repayOnly
HasQuoterConfigured == input.type \in MarketTypes /\ (venue.curve \/ venue.uniswap)

NoCaps == [flashFeeCap |-> 0, protocolFeeCap |-> 0, automationFeeCap |-> 0]
FeeCapHashFor(b) ==
  FeeCapsHash(CASE input.type \in {"Open", "Rebalance", "Exit"} -> b.feeCaps
                [] input.type = "ForceExit" -> [NoCaps EXCEPT !.flashFeeCap = b.looseFlashFeeCap]
                [] OTHER -> NoCaps)

HashQuoteRoutes(routes) == IF routes = <<>> THEN <<>> ELSE <<"WSTDIEM_QUOTE_V1", routes>>
AssembleSubHashes(b, routes) ==
  [quoteHash |-> HashQuoteRoutes(routes), spenderListHash |-> <<"spenders">>, allowanceScheduleHash |-> <<"allowances">>,
   feeCapHash |-> FeeCapHashFor(b), evidenceBundleHash |-> <<"evidence">>]

(* An automation's underlying type is a placeholder until it is hashed, for *)
(* the digest and for the wallet in two places.                             *)
WithUnderlyingType(action) ==
  IF input.type = "AutomationExec" THEN [action EXCEPT !.bounds = [@ EXCEPT !.underlyingPrimaryType = 2]] ELSE action
TypedMessage(action) ==
  IF input.type = "AutomationExec" THEN [action EXCEPT !.bounds = [@ EXCEPT !.underlyingPrimaryType = 2]] ELSE action

DispatchDigest(action) == SdkDigest(DomainSeparator(Authorizer(input.type)), input.type, WithUnderlyingType(action))
SignedDigest(action) == WalletDigest(WalletDomain(input.type), input.type, TypedMessage(action))

(* The quoters answer, or fail, one by one.                                 *)
Assemble ==
  /\ built.at = "assemble"
  /\ \E answers \in SUBSET {"curve", "uniswap"}, received \in {0, input.collateral} :
       LET b == built.action.bounds
           routes == DeriveRoutes(b, answers, received)
           action == Joined(built.action, [hashes |-> AssembleSubHashes(b, routes)]) IN
       IF RequiresQuoteRoutes(b) /\ routes = <<>> /\ HasQuoterConfigured
       THEN built' = [at |-> "thrown"]
       ELSE built' = [at |-> "assembled", action |-> action]
  /\ UNCHANGED <<input, venue>>

-----------------------------------------------------------------------------
(* Calldata, and what becomes of it                                         *)

(* A keeper may change any number in it.                                    *)
Tampered(calldata) ==
  LET list == Abi[StructOf(input.type, "bounds")]
      numbers == {i \in DOMAIN list : list[i] \notin {"feeCaps", "repayOnly", "acceptsThirdPartyRepay"}} IN
  {[calldata EXCEPT ![i] = @ + 1] : i \in 3 .. 5}
    \cup {[calldata EXCEPT ![7] = [@ EXCEPT ![i] = @ + 1]] : i \in numbers}
    \cup {[calldata EXCEPT ![7] = [@ EXCEPT ![i] = ~@]] : i \in DOMAIN list \ (numbers \cup {j \in DOMAIN list : list[j] = "feeCaps"})}
    \cup {[calldata EXCEPT ![1] = [@ EXCEPT ![10] = "1"]], [calldata EXCEPT ![8] = [@ EXCEPT ![1] = <<"other">>]]}

Deliver ==
  /\ built.at = "assembled" /\ input.type \in MarketTypes
  /\ LET calldata == EncodeAction(input.type, built.action) IN
     \E delivered \in Tampered(calldata) \cup {calldata} :
       built' = [at |-> "delivered", action |-> built.action, delivered |-> delivered]
  /\ UNCHANGED <<input, venue>>

Authorized(action) ==
  ContractDigest(DomainSeparator(Authorizer(input.type)), input.type, action) = SignedDigest(built.action)

(* executeRebalance's modes.                                                *)
OneMode(b) == ~(b.maxDebtIncrease > 0 /\ b.maxCollateralSold > 0)

(* _flashPrincipalForBudget, the pool's fee and the deposit into the vault, *)
(* whose shares are worth no less than when the bounds were derived.        *)
FlashPrincipal(budget) == (budget * BPS) \div (BPS + venue.feeTier)
CeilDiv(a, b) == IF a = 0 THEN 0 ELSE (a - 1) \div b + 1
Opens(b, sharePrice) ==
  LET flash == FlashPrincipal(b.maxBorrowedDiem)
      minted == (flash * 1000) \div sharePrice IN
  /\ b.feeCaps.flashFeeCap # 0 => CeilDiv(flash * venue.feeTier, BPS) <= b.feeCaps.flashFeeCap
  /\ flash # 0 /\ b.minWstDiemReceived # 0 => minted >= b.minWstDiemReceived

(* What an exit does with its bounds is LoopExecutor's.                     *)
RunAction ==
  /\ built.at = "delivered"
  /\ \E sharePrice \in {p \in SharePrices : p >= venue.sharePrice} :
       LET action == ContractReads(input.type, built.delivered)
           done == /\ Authorized(action)
                   /\ input.type = "Rebalance" => OneMode(action.bounds)
                   /\ input.type = "Open" => Opens(action.bounds, sharePrice) IN
       built' = [at |-> IF done THEN "executed" ELSE "reverted", action |-> built.action,
                 delivered |-> built.delivered, sharePrice |-> sharePrice]
  /\ UNCHANGED <<input, venue>>

BuiltInit ==
  /\ input \in [type : PrimaryTypes, collateral : Collaterals, leverage : Leverages, slippage : Slippages, repayOnly : BOOLEAN]
  /\ input.repayOnly => input.type = "Exit"
  /\ venue \in [sharePrice : SharePrices, feeTier : FeeTiers, curve : BOOLEAN, uniswap : BOOLEAN]
  /\ built = [at |-> "derive"]

BuiltNext == DeriveParams \/ Assemble \/ Deliver \/ RunAction

-----------------------------------------------------------------------------
Reached == built.at \in {"delivered", "executed", "reverted"}
Untampered == built.delivered = EncodeAction(input.type, built.action)

(* Well-typed; every member of a struct has a value.                        *)
BuiltTypeOK ==
  /\ built.at \in {"derive", "assemble", "thrown", "assembled", "delivered", "executed", "reverted"}
  /\ built.at \notin {"derive", "assemble", "thrown"} =>
       \A m \in DOMAIN built.action \ {"executionKind", "mevProtectionMode", "mevWaiverBits"} :
         LET struct == StructOf(input.type, m) IN
         {Name(n) : n \in DOMAIN built.action[m]} = {Preimages[struct][i] : i \in DOMAIN Preimages[struct]}

(* The SDK, the wallet and the contract compute one digest of an action,    *)
(* although each has its own lists of members, its own domain, and an       *)
(* automation's underlying type is filled in twice.                         *)
OneDigest ==
  built.at = "assembled" =>
    LET signed == SignedDigest(built.action) IN
    /\ DispatchDigest(built.action) = signed
    /\ ContractDigest(DomainSeparator(Authorizer(input.type)), input.type, TypedMessage(built.action)) = signed

(* What executes is what was signed, in every member, whatever a keeper     *)
(* makes of the calldata.                                                   *)
ExecutedAsSigned ==
  built.at = "executed" => [ContractReads(input.type, built.delivered) EXCEPT !.bounds = built.action.bounds] = built.action
                           /\ ContractReads(input.type, built.delivered).bounds = built.action.bounds

(* decodeCalldata shows of any calldata what the executor would execute.    *)
ShownIsExecuted ==
  Reached =>
    LET shown == SdkReads(input.type, built.delivered)
        read == ContractReads(input.type, built.delivered) IN
    /\ \A m \in {"identity", "freshness", "executionKind", "mevProtectionMode", "mevWaiverBits", "bounds"} : shown[m] = read[m]
    /\ shown.hashes.evidenceBundleHash = read.hashes.evidenceBundleHash

(* Whatever the vault's price, an Open the SDK derives is executed as       *)
(* signed as long as twice its slippage exceeds the flash fee and the yield *)
(* that the vault gained since: the deposit is not below the signed floor   *)
(* of shares, the fee not above the signed cap.  Each bound is rounded down *)
(* and each fee up: of a borrowing of less than Dust wei, a basis point is  *)
(* too little to make up for that.                                          *)
Dust == 200000
YieldDrift(sharePrice) == CeilDiv((sharePrice - venue.sharePrice) * BPS, venue.sharePrice)
WithinSlippage(sharePrice) ==
  /\ Borrowing >= Dust /\ venue.feeTier <= FlashFee
  /\ 2 * input.slippage > venue.feeTier + YieldDrift(sharePrice)
OpenFeasible ==
  built.at \in {"executed", "reverted"} /\ input.type = "Open" /\ Untampered /\ WithinSlippage(built.sharePrice)
  => built.at = "executed"

(* What trades is not signed without a quote while a quoter is configured,  *)
(* although a quoter that fails is passed over.                             *)
SignedIsQuoted ==
  /\ built.at = "assembled" /\ (venue.curve \/ venue.uniswap)
  /\ \/ input.type = "Open"
     \/ input.type = "Rebalance" /\ built.action.bounds.maxDebtIncrease > 0
     \/ input.type = "Exit" /\ ~built.action.bounds.repayOnly
     \/ input.type = "ForceExit"
  => built.action.hashes.quoteHash # <<>>

(* Everyone who hashes, encodes, shows or executes an action has the same.  *)
OneAction == BuiltTypeOK /\ OneDigest /\ ExecutedAsSigned /\ ShownIsExecuted /\ SignedIsQuoted

(* PROTOCOL.md:293: "no Phase 1 mode combines debt-increase with            *)
(* collateral-sale".  The bounds the SDK derives do.                        *)
DerivedRebalanceHasOneMode ==
  built.at = "assembled" /\ input.type = "Rebalance" => OneMode(built.action.bounds)
=============================================================================
