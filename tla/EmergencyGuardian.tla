-------------------------- MODULE EmergencyGuardian --------------------------
(***************************************************************************)
(* contracts/v2/EmergencyGuardian.sol: the guardian pauses Open and        *)
(* leverage-increasing Rebalance for a limited time, governance may extend *)
(* a pause that holds and replace the guardian.                            *)
(***************************************************************************)
EXTENDS ChainClock

CONSTANTS
  Accounts,          \* callers
  Governance,        \* governanceRole, immutable
  InitialGuardian,
  RateLimit,         \* PAUSE_RATE_LIMIT_BLOCKS
  AutoExpire         \* PAUSE_AUTO_EXPIRE_BLOCKS

Pauseable == {"OPEN", "REBALANCE"}   \* PAUSEABLE_PRIMARY_TYPE_MASK
Incidents == {"NONE", "INVESTIGATING", "MITIGATING", "RESOLVED"}

ASSUME GuardianAssumption ==
  /\ Governance \in Accounts /\ InitialGuardian \in Accounts /\ Governance # InitialGuardian
  /\ RateLimit \in Nat /\ AutoExpire \in Nat \ {0}

VARIABLES
  guardianRole, pauseBitmap, pauseExpiryBlocks, lastToggleBlock, incidentState,
  toggles    \* history, per type: pauses and lifts so far, block of the last, and of the last
             \* act that set or extended a pause

guardianVars ==
  <<guardianRole, pauseBitmap, pauseExpiryBlocks, lastToggleBlock, incidentState, toggles>>

NoToggle == [count |-> 0, last |-> 0, endorsed |-> 0]

GuardianInit ==
  /\ guardianRole = InitialGuardian
  /\ pauseBitmap = {}
  /\ pauseExpiryBlocks = [t \in Pauseable |-> 0]
  /\ lastToggleBlock = [t \in Pauseable |-> 0]
  /\ incidentState = "NONE"
  /\ toggles = [t \in Pauseable |-> NoToggle]

IsPaused(t) == t \in pauseBitmap /\ block < pauseExpiryBlocks[t]

RateLimited(t) == lastToggleBlock[t] # 0 /\ block < lastToggleBlock[t] + RateLimit

Pause(t, caller) ==
  /\ caller = guardianRole
  /\ ~RateLimited(t)
  /\ ~IsPaused(t)
  /\ lastToggleBlock' = [lastToggleBlock EXCEPT ![t] = block]
  /\ pauseBitmap' = pauseBitmap \cup {t}
  /\ pauseExpiryBlocks' = [pauseExpiryBlocks EXCEPT ![t] = block + AutoExpire]
  /\ toggles' = [toggles EXCEPT ![t] = [count |-> @.count + 1, last |-> block, endorsed |-> block]]
  /\ UNCHANGED <<guardianRole, incidentState>>

(* Without its bit the call returns and changes nothing; an expired pause   *)
(* still has it.                                                            *)
Unpause(t, caller) ==
  /\ caller = guardianRole
  /\ t \in pauseBitmap
  /\ ~RateLimited(t)
  /\ lastToggleBlock' = [lastToggleBlock EXCEPT ![t] = block]
  /\ pauseBitmap' = pauseBitmap \ {t}
  /\ pauseExpiryBlocks' = [pauseExpiryBlocks EXCEPT ![t] = 0]
  /\ toggles' = [toggles EXCEPT ![t] = [count |-> @.count + 1, last |-> block, endorsed |-> @.endorsed]]
  /\ UNCHANGED <<guardianRole, incidentState>>

AccumulatedExpiry(t) == pauseExpiryBlocks[t] + AutoExpire  \* mutant of ReaffirmedExpiry
ReaffirmedExpiry(t) == block + AutoExpire

RevivingReaffirmPause(t, caller) ==  \* mutant of ReaffirmPause: a pause that ran out is extended
  /\ caller = Governance
  /\ t \in pauseBitmap
  /\ pauseExpiryBlocks' = [pauseExpiryBlocks EXCEPT ![t] = ReaffirmedExpiry(t)]
  /\ toggles' = [toggles EXCEPT ![t].endorsed = block]
  /\ UNCHANGED <<guardianRole, pauseBitmap, lastToggleBlock, incidentState>>
ReaffirmPause(t, caller) ==
  /\ caller = Governance
  /\ IsPaused(t)
  /\ pauseExpiryBlocks' = [pauseExpiryBlocks EXCEPT ![t] = ReaffirmedExpiry(t)]
  /\ toggles' = [toggles EXCEPT ![t].endorsed = block]
  /\ UNCHANGED <<guardianRole, pauseBitmap, lastToggleBlock, incidentState>>

SetIncidentState(next, caller) ==
  /\ caller = guardianRole
  /\ incidentState' = next
  /\ UNCHANGED <<guardianRole, pauseBitmap, pauseExpiryBlocks, lastToggleBlock, toggles>>

ClearIncidentState(caller) ==
  /\ caller = Governance
  /\ incidentState' = "NONE"
  /\ UNCHANGED <<guardianRole, pauseBitmap, pauseExpiryBlocks, lastToggleBlock, toggles>>

RotateGuardianRole(next, caller) ==
  /\ caller = Governance
  /\ next # Governance
  /\ guardianRole' = next
  /\ UNCHANGED <<pauseBitmap, pauseExpiryBlocks, lastToggleBlock, incidentState, toggles>>

GuardianStep ==
  /\ \E caller \in Accounts :
       \/ \E t \in Pauseable :
            Pause(t, caller) \/ Unpause(t, caller) \/ ReaffirmPause(t, caller)
       \/ \E next \in Incidents : SetIncidentState(next, caller)
       \/ ClearIncidentState(caller)
       \/ \E next \in Accounts : RotateGuardianRole(next, caller)
  /\ UNCHANGED block

GuardianTick == Tick /\ UNCHANGED guardianVars

GuardianSpec ==
  ClockInit /\ GuardianInit /\ [][GuardianStep \/ GuardianTick]_<<block, guardianVars>>

-----------------------------------------------------------------------------
(* Properties *)

(* Types, and the two roles stay apart whoever is rotated in.               *)
GuardianTypeOK ==
  /\ guardianRole \in Accounts \ {Governance}
  /\ pauseBitmap \subseteq Pauseable
  /\ pauseExpiryBlocks \in [Pauseable -> Nat] /\ lastToggleBlock \in [Pauseable -> Nat]
  /\ incidentState \in Incidents
  /\ toggles \in [Pauseable -> [count: Nat, last: Nat, endorsed: Nat]]
  /\ block \in Nat \ {0}

(* No pause holds longer than AutoExpire after the last time its authority  *)
(* set or extended it: reaffirming early does not add to the time left      *)
(* ("auto-expire after 7 days without governance reaffirmation").           *)
PauseBounded ==
  \A t \in Pauseable : IsPaused(t) => block < toggles[t].endorsed + AutoExpire

(* Pauses and lifts of a type are at least RateLimit blocks apart, also     *)
(* across an expiry, a reaffirmation or a change of guardian.               *)
ToggleRate ==
  [][\A t \in Pauseable :
       toggles'[t].count # toggles[t].count =>
         toggles[t].last = 0 \/ block >= toggles[t].last + RateLimit]_<<block, guardianVars>>

(* A pause starts with a toggle, which only the guardian can make: neither  *)
(* governance nor the passing of blocks ever starts or revives one.         *)
OnlyTogglesPause ==
  [][\A t \in Pauseable :
       ~IsPaused(t) /\ IsPaused(t)' => toggles'[t].count # toggles[t].count]_<<block, guardianVars>>

(* The guardian's toggles alone start pauses, and are spaced.               *)
PauseDiscipline == ToggleRate /\ OnlyTogglesPause
=============================================================================
