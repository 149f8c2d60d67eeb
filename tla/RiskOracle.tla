----------------------------- MODULE RiskOracle -----------------------------
(***************************************************************************)
(* contracts/v2/LoopRiskOracleAdapter.sol: the state bitmap computed out   *)
(* of a price feed, the sequencer's uptime feed, the vault, Morpho and the *)
(* guardian, each of which may fail to answer, and the health of a         *)
(* position.  Around it what it reads, and the two checks a risk-raising   *)
(* action passes: the authorization's of the bitmap, the executor's of the *)
(* guardian.  A second is a block.                                         *)
(***************************************************************************)
EXTENDS EmergencyGuardian

CONSTANTS
  Heartbeat,      \* sourceFreshnessThreshold of the price feed, 0 when unset
  Grace,          \* SEQUENCER_GRACE_SECONDS
  NavBaseline,    \* registry.navBaseline, 0 when unset
  Navs,           \* what a share of the vault may be worth
  Wad,            \* one, of prices and health factors
  Lltv,           \* in units of Wad
  Prices,         \* of Morpho's oracle, in units of Wad, 0 for none
  Collaterals,    \* what the position may hold
  VirtualShares,  \* Morpho's VIRTUAL_SHARES; VIRTUAL_ASSETS is 1
  MaxAssets       \* bound: borrowed assets and interest

ASSUME RiskAssumption ==
  /\ Heartbeat \in Nat /\ Grace \in Nat \ {0} /\ NavBaseline \in Nat /\ Navs \subseteq Nat
  /\ Wad \in Nat \ {0} /\ Lltv \in 1 .. Wad /\ Prices \subseteq Nat /\ Collaterals \subseteq Nat
  /\ VirtualShares \in Nat \ {0} /\ MaxAssets \in Nat

VARIABLES
  feed,       \* the price feed's round: its answer is positive, when it was updated
  uptime,     \* the sequencer feed's round: up or not, and since when
  nav,        \* vault.convertToAssets(WAD)
  deep,       \* the Curve pool's second balance reaches MIN_CURVE_DEPTH
  unread,     \* the contracts whose calls revert now
  market,     \* Morpho's market: stored totals, interest not yet accrued, the oracle's price
  position,   \* the owner's: borrow shares and collateral
  outage      \* history: the last block in which the sequencer was down

feedVars == <<feed, uptime, nav, deep, unread, outage>>
healthVars == <<market, position>>
riskVars == <<feedVars, healthVars>>

ReadContracts == {"FEED", "SEQUENCER", "VAULT", "CURVE", "MORPHO", "ORACLE", "GUARDIAN", "CONFIG"}

RiskInit ==
  /\ feed = [positive |-> TRUE, updated |-> block]
  /\ uptime = [up |-> TRUE, started |-> 0] /\ outage = 0
  /\ nav \in Navs /\ deep = TRUE /\ unread = {}
  /\ \E price \in Prices \ {0} : market = [assets |-> 0, shares |-> 0, pending |-> 0, price |-> price]
  /\ \E c \in Collaterals : position = [shares |-> 0, collateral |-> c]

-----------------------------------------------------------------------------
(* readPositionState                                                        *)

Answered(source, value) == IF source \in unread THEN 0 ELSE value

FlooredDebt(borrowShares) ==  \* mutant of Debt: shares are rounded down
  IF market.shares = 0 THEN borrowShares ELSE (borrowShares * market.assets) \div market.shares
Debt(borrowShares) ==
  IF market.shares = 0 THEN borrowShares
  ELSE (borrowShares * market.assets + market.shares - 1) \div market.shares

ReadDebt == Debt(Answered("MORPHO", position.shares))
ReadCollateral == Answered("MORPHO", position.collateral)
OraclePrice == Answered("ORACLE", market.price)
CollateralValue == (ReadCollateral * OraclePrice) \div Wad

(* Of a position that owes something.                                       *)
HealthFactor == (CollateralValue * Lltv) \div ReadDebt
LiquidationDistance == IF HealthFactor <= Wad THEN 0 ELSE HealthFactor - Wad

-----------------------------------------------------------------------------
(* computeStateBitmap                                                       *)

ChainlinkStale ==
  Heartbeat # 0 /\ ("FEED" \in unread \/ ~feed.positive \/ feed.updated = 0 \/ block > feed.updated + Heartbeat)

SequencerDownOrGrace ==
  "SEQUENCER" \in unread \/ ~uptime.up \/ block < uptime.started + Grace

NavStep == IF NavBaseline > nav THEN NavBaseline - nav ELSE nav - NavBaseline
NavMissing ==
  \/ "VAULT" \in unread \/ nav = 0
  \/ NavBaseline # 0 /\ NavStep * 10000 > NavBaseline * 50

MorphoMissing == "MORPHO" \in unread \/ OraclePrice = 0
Unbacked == ReadDebt # 0 /\ ReadCollateral = 0

(* A guardian that does not answer raises no bit.                           *)
OpenPauseBits ==  \* mutant of GuardianBits: it is asked about Open alone
  IF "GUARDIAN" \notin unread /\ IsPaused("OPEN") THEN {"PAUSE_OPEN_INCREASE"} ELSE {}
GuardianBits ==
  IF "GUARDIAN" \in unread THEN {}
  ELSE (IF \E t \in Pauseable : IsPaused(t) THEN {"PAUSE_OPEN_INCREASE"} ELSE {})
         \cup (IF incidentState = "INVESTIGATING" THEN {"INCIDENT_INVESTIGATING"} ELSE {})
         \cup (IF incidentState = "MITIGATING" THEN {"INCIDENT_MITIGATING"} ELSE {})

ComputeStateBitmap ==
  LET Bits == [CONFIG_INTEGRITY_FAILURE |-> "CONFIG" \in unread \/ MorphoMissing,
               ORACLE_DEGRADED |-> ChainlinkStale,
               SEQUENCER_DOWN_OR_GRACE |-> SequencerDownOrGrace,
               CURVE_LIQUIDITY_INSUFFICIENT |-> "CURVE" \in unread \/ ~deep,
               VAULT_EVIDENCE_MISSING |-> NavMissing,
               MORPHO_OWNER_EVIDENCE_MISSING |-> MorphoMissing \/ Unbacked]
  IN {bit \in DOMAIN Bits : Bits[bit]} \cup GuardianBits

(* Open and a leverage-raising Rebalance: every bit computed here but the   *)
(* pool's depth blocks them; the executor asks the guardian too, and about  *)
(* the one type it is about to run.                                         *)
RiskUpHardBlock ==
  {"CONFIG_INTEGRITY_FAILURE", "PAUSE_OPEN_INCREASE", "ORACLE_DEGRADED", "MORPHO_OWNER_EVIDENCE_MISSING",
   "SEQUENCER_DOWN_OR_GRACE", "INCIDENT_INVESTIGATING", "INCIDENT_MITIGATING", "VAULT_EVIDENCE_MISSING"}
ValidateLiveStateBitmap == ComputeStateBitmap \cap RiskUpHardBlock = {}
RequireNotPaused(t) == "GUARDIAN" \notin unread /\ ~IsPaused(t)
RiskMayRise(t) == RequireNotPaused(t) /\ ValidateLiveStateBitmap

-----------------------------------------------------------------------------
(* What the adapter reads                                                   *)

UpdateFeed ==
  /\ uptime.up
  /\ \E positive \in BOOLEAN : feed' = [positive |-> positive, updated |-> block]
  /\ UNCHANGED <<uptime, nav, deep, unread, outage>>

SwitchSequencer ==
  /\ uptime' = [up |-> ~uptime.up, started |-> block] /\ outage' = block
  /\ UNCHANGED <<feed, nav, deep, unread>>

MoveNav == nav' \in Navs /\ UNCHANGED <<feed, uptime, deep, unread, outage>>
TradeOnCurve == deep' = ~deep /\ UNCHANGED <<feed, uptime, nav, unread, outage>>
BreakReads ==
  /\ unread' \in {{}} \cup {{s} : s \in ReadContracts}
  /\ UNCHANGED <<feed, uptime, nav, deep, outage>>

FeedsStep == (UpdateFeed \/ SwitchSequencer \/ MoveNav \/ TradeOnCurve \/ BreakReads) /\ UNCHANGED healthVars

(* While the sequencer is down every block is one of the outage.            *)
FeedsTick ==
  /\ outage' = IF uptime.up THEN outage ELSE block'
  /\ UNCHANGED <<feed, uptime, nav, deep, unread, healthVars>>

-----------------------------------------------------------------------------
(* Morpho: every call accrues interest first and rounds against the caller. *)

Accrued == market.assets + market.pending
SharesUp(assets) == (assets * (market.shares + VirtualShares) + Accrued) \div (Accrued + 1)
SharesDown(assets) == (assets * (market.shares + VirtualShares)) \div (Accrued + 1)
AssetsUp(shares) ==
  (shares * (Accrued + 1) + market.shares + VirtualShares - 1) \div (market.shares + VirtualShares)

Healthy == (((position.collateral * market.price) \div Wad) * Lltv) \div Wad >= AssetsUp(position.shares)

Trade(assets, shares, mine) ==
  /\ market' = [market EXCEPT !.assets = assets, !.shares = shares, !.pending = 0]
  /\ position' = [position EXCEPT !.shares = @ + (IF mine THEN shares - market.shares ELSE 0)]

(* Someone else may borrow and repay too.                                   *)
Borrow(assets, mine) ==
  /\ Accrued + assets <= MaxAssets
  /\ Trade(Accrued + assets, market.shares + SharesUp(assets), mine)
  /\ mine => Healthy'
Repay(assets, mine) ==
  /\ SharesDown(assets) <= IF mine THEN position.shares ELSE market.shares - position.shares
  /\ Trade(IF assets > Accrued THEN 0 ELSE Accrued - assets, market.shares - SharesDown(assets), mine)
Accrue == market.pending > 0 /\ Trade(Accrued, market.shares, FALSE)

EarnInterest ==
  /\ market.assets > 0 /\ Accrued < MaxAssets
  /\ market' = [market EXCEPT !.pending = @ + 1] /\ UNCHANGED position
MovePrice == \E price \in Prices : market' = [market EXCEPT !.price = price] /\ UNCHANGED position

HealthStep ==
  /\ \/ \E assets \in 1 .. MaxAssets, mine \in BOOLEAN : Borrow(assets, mine) \/ Repay(assets, mine)
     \/ Accrue \/ EarnInterest \/ MovePrice
  /\ UNCHANGED feedVars

RiskNext ==
  \/ (FeedsStep \/ HealthStep) /\ UNCHANGED <<block, guardianVars>>
  \/ GuardianStep /\ UNCHANGED riskVars
  \/ Tick /\ FeedsTick /\ UNCHANGED guardianVars
RiskSpec ==
  ClockInit /\ GuardianInit /\ RiskInit /\ [][RiskNext]_<<block, guardianVars, riskVars>>

-----------------------------------------------------------------------------
(* Properties *)

RiskTypeOK ==
  /\ feed \in [positive : BOOLEAN, updated : Nat]
  /\ uptime \in [up : BOOLEAN, started : Nat] /\ outage \in Nat
  /\ nav \in Navs /\ deep \in BOOLEAN /\ unread \subseteq ReadContracts
  /\ market \in [assets : Nat, shares : Nat, pending : Nat, price : Prices]
  /\ position \in [shares : Nat, collateral : Collaterals]

(* Risk may rise only Grace after the sequencer's last outage, on a recent  *)
(* price, under no pause of either type and no open incident, and whatever  *)
(* does not answer closes a gate: the bitmap passes over a silent guardian, *)
(* the executor does not.                                                   *)
RiskRisesWhenSound ==
  \A t \in Pauseable : RiskMayRise(t) =>
    /\ unread \subseteq {"CURVE"} \cup (IF Heartbeat = 0 THEN {"FEED"} ELSE {})
    /\ uptime.up /\ block >= outage + Grace
    /\ Heartbeat # 0 => feed.positive /\ block - feed.updated <= Heartbeat
    /\ \A u \in Pauseable : ~IsPaused(u)
    /\ incidentState \notin {"INVESTIGATING", "MITIGATING"}

(* LoopRiskOracleAdapter.sol:64: "Ceil shares->assets so HF/debt never      *)
(* understate the Morpho repay requirement": so it is, once Morpho has      *)
(* accrued its interest, after any borrowing, repaying and accruing, and a  *)
(* position Morpho may liquidate is never reported at a distance.           *)
DebtNeverUnderstated ==
  /\ RiskTypeOK
  /\ unread = {} /\ market.pending = 0 /\ position.shares # 0 =>
       /\ Debt(position.shares) >= AssetsUp(position.shares)
       /\ ~Healthy => LiquidationDistance = 0
=============================================================================
