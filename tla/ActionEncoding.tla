--------------------------- MODULE ActionEncoding ---------------------------
(***************************************************************************)
(* An action is hashed by the SDK (sdk/src/eip712), by the owner's wallet  *)
(* from the typed data, and by the executor from its calldata, and is      *)
(* decoded again to be shown.  Each keeps its own list of every struct's   *)
(* members.  A hash is the tuple of what goes into it, so equal hashes are *)
(* equal inputs; a struct's type string is its name and members.           *)
(***************************************************************************)
EXTENDS Naturals, Sequences

MarketTypes == {"Open", "Rebalance", "Exit", "ForceExit"}
PrimaryTypes == MarketTypes \cup {"Revoke", "AutomationExec"}

(* The struct that an action's member holds; the others are numbers.        *)
StructOf(type, member) ==
  CASE member = "identity" -> "ActionIdentity" [] member = "freshness" -> "Freshness"
    [] member = "marketParams" -> "MorphoMarketParams" [] member = "hashes" -> "DigestHashes"
    [] member = "bounds" -> [Open |-> "OpenBounds", Rebalance |-> "RebalanceBounds", Exit |-> "ExitBounds",
                             ForceExit |-> "ForceExitBounds", Revoke |-> "RevokeBounds",
                             AutomationExec |-> "AutomationBounds"][type]
    [] OTHER -> "uint8"

(* The members of two records that have none in common.                     *)
Joined(f, g) == [m \in DOMAIN f \cup DOMAIN g |-> IF m \in DOMAIN f THEN f[m] ELSE g[m]]

-----------------------------------------------------------------------------
(* The lists                                                                *)

(* eip712/typehashes.ts: the members the type strings name.                 *)
Preimages ==
  [ActionIdentity |-> <<"owner", "chainId", "verifyingContract", "market", "executor", "registryVersion",
                        "registryMerkleRoot", "policyId", "nonceSlot", "nonceBit">>,
   Freshness |-> <<"deadline", "quoteBlockNumber", "maxQuoteAgeBlocks", "maxQuoteDeviationBps">>,
   FeeCaps |-> <<"flashFeeCap", "protocolFeeCap", "automationFeeCap">>,
   DigestHashes |-> <<"quoteHash", "spenderListHash", "allowanceScheduleHash", "feeCapHash", "evidenceBundleHash">>,
   MorphoMarketParams |-> <<"loanToken", "collateralToken", "oracle", "irm", "lltv">>,
   OpenBounds |-> <<"equityCollateral", "minWstDiemReceived", "minBorrowedDiem", "maxBorrowedDiem", "maxSlippageBps",
                    "maxPriceImpactBps", "maxLeverageBps", "minHealthFactor", "minLiquidationDistanceBps",
                    "maxMorphoUtilizationImpactBps", "feeCapsHash">>,
   RebalanceBounds |-> <<"targetLeverageBps", "targetLeverageToleranceBps", "minPostHealthFactor",
                         "minLiquidationDistanceBps", "maxDebtIncrease", "maxCollateralSold", "maxSlippageBps",
                         "maxCurvePositionShareBps", "maxMorphoUtilizationImpactBps", "feeCapsHash">>,
   ExitBounds |-> <<"minRepayment", "maxCollateralSold", "maxSlippageBps", "maxCurvePositionShareBps",
                    "maxMorphoUtilizationImpactBps", "feeCapsHash", "repayOnly", "acceptsThirdPartyRepay">>,
   ForceExitBounds |-> <<"minRepayment", "maxCollateralSold", "looseSlippageBps", "looseFlashFeeCap",
                         "maxCurvePositionShareBps", "acknowledgedRisks">>,
   RevokeBounds |-> <<"policyId", "policyClass", "effectiveBlock">>,
   AutomationBounds |-> <<"triggerConditionHash", "underlyingPrimaryType", "underlyingActionHash", "policyHash",
                          "boundSubsetHash", "notBeforeBlock", "notAfterBlock">>]
ActionPreimage(type) ==
  CASE type \in MarketTypes -> <<"identity", "freshness", "executionKind", "mevProtectionMode", "mevWaiverBits",
                                 "marketParams", "bounds", "hashes">>
    [] type = "Revoke" -> <<"identity", "freshness", "executionKind", "bounds", "hashes">>
    [] OTHER -> <<"identity", "freshness", "executionKind", "mevProtectionMode", "mevWaiverBits", "bounds", "hashes">>

(* eip712/sub-hashes.ts: what each hash function encodes, in its order.     *)
HashedIdentity ==
  [ActionIdentity |-> <<"owner", "chainId", "verifyingContract", "market", "executor", "registryVersion",
                        "registryMerkleRoot", "policyId", "nonceSlot", "nonceBit">>,
   Freshness |-> <<"deadline", "quoteBlockNumber", "maxQuoteAgeBlocks", "maxQuoteDeviationBps">>,
   FeeCaps |-> <<"flashFeeCap", "protocolFeeCap", "automationFeeCap">>]
HashedContext ==
  [DigestHashes |-> <<"quoteHash", "spenderListHash", "allowanceScheduleHash", "feeCapHash", "evidenceBundleHash">>,
   MorphoMarketParams |-> <<"loanToken", "collateralToken", "oracle", "irm", "lltv">>]
SwappedBand ==  \* mutant of HashedBorrowing: the ends of the borrow band change places
  LET list == Preimages.OpenBounds IN
  [Preimages EXCEPT !.OpenBounds = [list EXCEPT ![3] = list[4], ![4] = list[3]]]
HashedBorrowing ==
  [OpenBounds |-> <<"equityCollateral", "minWstDiemReceived", "minBorrowedDiem", "maxBorrowedDiem", "maxSlippageBps",
                    "maxPriceImpactBps", "maxLeverageBps", "minHealthFactor", "minLiquidationDistanceBps",
                    "maxMorphoUtilizationImpactBps", "feeCapsHash">>,
   RebalanceBounds |-> <<"targetLeverageBps", "targetLeverageToleranceBps", "minPostHealthFactor",
                         "minLiquidationDistanceBps", "maxDebtIncrease", "maxCollateralSold", "maxSlippageBps",
                         "maxCurvePositionShareBps", "maxMorphoUtilizationImpactBps", "feeCapsHash">>]
HashedRepaying ==
  [ExitBounds |-> <<"minRepayment", "maxCollateralSold", "maxSlippageBps", "maxCurvePositionShareBps",
                    "maxMorphoUtilizationImpactBps", "feeCapsHash", "repayOnly", "acceptsThirdPartyRepay">>,
   ForceExitBounds |-> <<"minRepayment", "maxCollateralSold", "looseSlippageBps", "looseFlashFeeCap",
                         "maxCurvePositionShareBps", "acknowledgedRisks">>,
   RevokeBounds |-> <<"policyId", "policyClass", "effectiveBlock">>,
   AutomationBounds |-> <<"triggerConditionHash", "underlyingPrimaryType", "underlyingActionHash", "policyHash",
                          "boundSubsetHash", "notBeforeBlock", "notAfterBlock">>]
Hashed == Joined(Joined(HashedIdentity, HashedContext), Joined(HashedBorrowing, HashedRepaying))

(* eip712/digest.ts: the order in which an action's parts are combined.     *)
HashedMarketMembers == <<"identity", "freshness", "executionKind", "mevProtectionMode", "mevWaiverBits",
                         "marketParams", "bounds", "hashes">>
HashedMembers(type) ==
  CASE type \in MarketTypes -> HashedMarketMembers
    [] type = "Revoke" -> <<"identity", "freshness", "executionKind", "bounds", "hashes">>
    [] OTHER -> <<"identity", "freshness", "executionKind", "mevProtectionMode", "mevWaiverBits", "bounds", "hashes">>

(* eip712/typed-data.ts: the types a wallet is given.                       *)
Typed ==
  [ActionIdentity |-> <<"owner", "chainId", "verifyingContract", "market", "executor", "registryVersion",
                        "registryMerkleRoot", "policyId", "nonceSlot", "nonceBit">>,
   Freshness |-> <<"deadline", "quoteBlockNumber", "maxQuoteAgeBlocks", "maxQuoteDeviationBps">>,
   MorphoMarketParams |-> <<"loanToken", "collateralToken", "oracle", "irm", "lltv">>,
   DigestHashes |-> <<"quoteHash", "spenderListHash", "allowanceScheduleHash", "feeCapHash", "evidenceBundleHash">>,
   OpenBounds |-> <<"equityCollateral", "minWstDiemReceived", "minBorrowedDiem", "maxBorrowedDiem", "maxSlippageBps",
                    "maxPriceImpactBps", "maxLeverageBps", "minHealthFactor", "minLiquidationDistanceBps",
                    "maxMorphoUtilizationImpactBps", "feeCapsHash">>,
   RebalanceBounds |-> <<"targetLeverageBps", "targetLeverageToleranceBps", "minPostHealthFactor",
                         "minLiquidationDistanceBps", "maxDebtIncrease", "maxCollateralSold", "maxSlippageBps",
                         "maxCurvePositionShareBps", "maxMorphoUtilizationImpactBps", "feeCapsHash">>,
   ExitBounds |-> <<"minRepayment", "maxCollateralSold", "maxSlippageBps", "maxCurvePositionShareBps",
                    "maxMorphoUtilizationImpactBps", "feeCapsHash", "repayOnly", "acceptsThirdPartyRepay">>,
   ForceExitBounds |-> <<"minRepayment", "maxCollateralSold", "looseSlippageBps", "looseFlashFeeCap",
                         "maxCurvePositionShareBps", "acknowledgedRisks">>,
   RevokeBounds |-> <<"policyId", "policyClass", "effectiveBlock">>,
   AutomationBounds |-> <<"triggerConditionHash", "underlyingPrimaryType", "underlyingActionHash", "policyHash",
                          "boundSubsetHash", "notBeforeBlock", "notAfterBlock">>]
TypedMembers(type) ==
  CASE type \in MarketTypes -> <<"identity", "freshness", "executionKind", "mevProtectionMode", "mevWaiverBits",
                                 "marketParams", "bounds", "hashes">>
    [] type = "Revoke" -> <<"identity", "freshness", "executionKind", "bounds", "hashes">>
    [] OTHER -> <<"identity", "freshness", "executionKind", "mevProtectionMode", "mevWaiverBits", "bounds", "hashes">>

(* LoopV1EIP712's structs, in LoopV1Hashing's order.                         *)
ContractContext ==
  [ActionIdentity |-> <<"owner", "chainId", "verifyingContract", "market", "executor", "registryVersion",
                        "registryMerkleRoot", "policyId", "nonceSlot", "nonceBit">>,
   Freshness |-> <<"deadline", "quoteBlockNumber", "maxQuoteAgeBlocks", "maxQuoteDeviationBps">>,
   MorphoMarketParams |-> <<"loanToken", "collateralToken", "oracle", "irm", "lltv">>,
   DigestHashes |-> <<"quoteHash", "spenderListHash", "allowanceScheduleHash", "feeCapHash", "evidenceBundleHash">>]
ContractBounds ==
  [OpenBounds |-> <<"equityCollateral", "minWstDiemReceived", "minBorrowedDiem", "maxBorrowedDiem", "maxSlippageBps",
                    "maxPriceImpactBps", "maxLeverageBps", "minHealthFactor", "minLiquidationDistanceBps",
                    "maxMorphoUtilizationImpactBps", "feeCaps">>,
   RebalanceBounds |-> <<"targetLeverageBps", "targetLeverageToleranceBps", "minPostHealthFactor",
                         "minLiquidationDistanceBps", "maxDebtIncrease", "maxCollateralSold", "maxSlippageBps",
                         "maxCurvePositionShareBps", "maxMorphoUtilizationImpactBps", "feeCaps">>,
   ExitBounds |-> <<"minRepayment", "maxCollateralSold", "maxSlippageBps", "maxCurvePositionShareBps",
                    "maxMorphoUtilizationImpactBps", "feeCaps", "repayOnly", "acceptsThirdPartyRepay">>,
   ForceExitBounds |-> <<"minRepayment", "maxCollateralSold", "looseSlippageBps", "looseFlashFeeCap",
                         "maxCurvePositionShareBps", "acknowledgedRisks">>,
   RevokeBounds |-> <<"policyId", "policyClass", "effectiveBlock">>,
   AutomationBounds |-> <<"triggerConditionHash", "underlyingPrimaryType", "underlyingActionHash", "policyHash",
                          "boundSubsetHash", "notBeforeBlock", "notAfterBlock">>]
Contract == Joined(ContractContext, ContractBounds)
ContractMembers(type) ==
  CASE type \in MarketTypes -> <<"identity", "freshness", "executionKind", "mevProtectionMode", "mevWaiverBits",
                                 "marketParams", "bounds", "hashes">>
    [] type = "Revoke" -> <<"identity", "freshness", "executionKind", "bounds", "hashes">>
    [] OTHER -> <<"identity", "freshness", "executionKind", "mevProtectionMode", "mevWaiverBits", "bounds", "hashes">>

(* live/abis.ts: the components of the executors' calldata.                 *)
AbiContext ==
  [ActionIdentity |-> <<"owner", "chainId", "verifyingContract", "market", "executor", "registryVersion",
                        "registryMerkleRoot", "policyId", "nonceSlot", "nonceBit">>,
   Freshness |-> <<"deadline", "quoteBlockNumber", "maxQuoteAgeBlocks", "maxQuoteDeviationBps">>,
   MorphoMarketParams |-> <<"loanToken", "collateralToken", "oracle", "irm", "lltv">>,
   DigestHashes |-> <<"quoteHash", "spenderListHash", "allowanceScheduleHash", "feeCapHash", "evidenceBundleHash">>]
AbiBounds ==
  [OpenBounds |-> <<"equityCollateral", "minWstDiemReceived", "minBorrowedDiem", "maxBorrowedDiem", "maxSlippageBps",
                    "maxPriceImpactBps", "maxLeverageBps", "minHealthFactor", "minLiquidationDistanceBps",
                    "maxMorphoUtilizationImpactBps", "feeCaps">>,
   RebalanceBounds |-> <<"targetLeverageBps", "targetLeverageToleranceBps", "minPostHealthFactor",
                         "minLiquidationDistanceBps", "maxDebtIncrease", "maxCollateralSold", "maxSlippageBps",
                         "maxCurvePositionShareBps", "maxMorphoUtilizationImpactBps", "feeCaps">>,
   ExitBounds |-> <<"minRepayment", "maxCollateralSold", "maxSlippageBps", "maxCurvePositionShareBps",
                    "maxMorphoUtilizationImpactBps", "feeCaps", "repayOnly", "acceptsThirdPartyRepay">>,
   ForceExitBounds |-> <<"minRepayment", "maxCollateralSold", "looseSlippageBps", "looseFlashFeeCap",
                         "maxCurvePositionShareBps", "acknowledgedRisks">>]
Abi == Joined(AbiContext, AbiBounds)
AbiMembers == <<"identity", "freshness", "executionKind", "mevProtectionMode", "mevWaiverBits",
                "marketParams", "bounds", "hashes">>

-----------------------------------------------------------------------------
(* Hashes                                                                   *)

(* EIP-712's encodeType: the members and those of every struct among them.  *)
Name(member) == IF member = "feeCaps" THEN "feeCapsHash" ELSE member
Names(list) == [i \in DOMAIN list |-> Name(list[i])]
TypeString(type, members, lists) ==
  LET structs == {StructOf(type, members[i]) : i \in DOMAIN members} \ {"uint8"} IN
  <<type, members, [s \in structs |-> Names(lists[s])]>>

FeeCapsHash(caps) == <<"FeeCaps", Preimages.FeeCaps, [i \in 1 .. 3 |-> caps[HashedIdentity.FeeCaps[i]]]>>

(* A struct's value, a record; its fee caps are hashed where they stand.    *)
StructHash(struct, names, list, value) ==
  <<struct, names, [i \in DOMAIN list |->
     IF Name(list[i]) = "feeCapsHash" THEN FeeCapsHash(value.feeCaps) ELSE value[list[i]]]>>

ActionHash(type, string, members, names, lists, action) ==
  <<string, [i \in DOMAIN members |->
     LET m == members[i] s == StructOf(type, m) IN
     IF s = "uint8" THEN action[m] ELSE StructHash(s, Names(names[s]), lists[s], action[m])]>>

(* The digest of an action's members under a domain.                        *)
SdkDigest(domain, type, action) ==
  <<domain, ActionHash(type, TypeString(type, ActionPreimage(type), Preimages), HashedMembers(type), Preimages, Hashed, action)>>
WalletDigest(domain, type, action) ==
  <<domain, ActionHash(type, TypeString(type, TypedMembers(type), Typed), TypedMembers(type), Typed, Typed, action)>>
ContractDigest(domain, type, action) ==
  <<domain, ActionHash(type, TypeString(type, ContractMembers(type), Contract), ContractMembers(type), Contract, Contract, action)>>

(* The domain: the SDK asks the contract that will check the digest, the    *)
(* wallet gets it from buildTypedData.                                      *)
Authorizer(type) == IF type = "ForceExit" THEN "LoopForceExitAuthorizer" ELSE "LoopAuthorization"
WalletDomain(type) ==
  IF type = "ForceExit" THEN <<"WSTDIEM ForceExit", "LoopForceExitAuthorizer">> ELSE <<"WSTDIEM Loop", "LoopAuthorization">>
DomainSeparator(contract) ==
  IF contract = "LoopForceExitAuthorizer" THEN <<"WSTDIEM ForceExit", contract>> ELSE <<"WSTDIEM Loop", contract>>

-----------------------------------------------------------------------------
(* Calldata: values by position, read back by the reader's own lists.       *)

Positions(list, value) == [i \in DOMAIN list |-> value[list[i]]]
AtNames(list, positions) ==
  [n \in {list[i] : i \in DOMAIN list} |-> positions[CHOOSE i \in DOMAIN list : list[i] = n]]

EncodeAction(type, action) ==
  [i \in DOMAIN AbiMembers |->
     LET m == AbiMembers[i] s == StructOf(type, m) IN
     IF s = "uint8" THEN action[m] ELSE Positions(Abi[s], action[m])]

ReadAction(type, members, lists, calldata) ==
  LET at == AtNames(members, calldata) IN
  [m \in DOMAIN at |-> LET s == StructOf(type, m) IN IF s = "uint8" THEN at[m] ELSE AtNames(lists[s], at[m])]

(* What the executor executes, and what decodeCalldata shows.               *)
ContractReads(type, calldata) == ReadAction(type, ContractMembers(type), Contract, calldata)
SdkReads(type, calldata) == ReadAction(type, AbiMembers, Abi, calldata)
=============================================================================
