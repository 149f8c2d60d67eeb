---------------------------- MODULE CriticalRoles ----------------------------
(***************************************************************************)
(* The critical roles of contracts/v2/LoopRegistry.sol: each is set at once*)
(* while it is empty and afterwards through a queue with a delay.          *)
(***************************************************************************)
EXTENDS ChainClock

CONSTANTS
  Roles, Holders,    \* the role ids and the addresses that may hold them
  NoOne,             \* the zero address
  RoleDelay          \* registryTimelockBlocks()

RoleIds ==
  {"INDEXER_SIGNER", "ANCHOR_SUBMITTER", "EMERGENCY_GUARDIAN", "GOVERNANCE", "HARVEST_AUTHORITY"}

ASSUME RolesAssumption ==
  /\ Roles \subseteq RoleIds /\ NoOne \notin Holders
  /\ RoleDelay \in Nat \ {0}

VARIABLES
  roles, pendingRoles,
  roleLog    \* history, per role: who was last announced, and when

roleVars == <<roles, pendingRoles, roleLog>>

NoPending == [next |-> NoOne, effectiveBlock |-> 0]

RolesInit ==
  /\ roles = [r \in RoleIds |-> NoOne]
  /\ pendingRoles = [r \in RoleIds |-> NoPending]
  /\ roleLog = [r \in RoleIds |-> [next |-> NoOne, block |-> 0]]

(* The indexer's signer and the anchor's submitter must be different keys.  *)
Counterpart(role) ==
  CASE role = "INDEXER_SIGNER" -> "ANCHOR_SUBMITTER"
    [] role = "ANCHOR_SUBMITTER" -> "INDEXER_SIGNER"

PendingSeparate(role, next) ==  \* mutant of Separate: only the holder's own pending update is seen
  role \in {"INDEXER_SIGNER", "ANCHOR_SUBMITTER"} => next # pendingRoles[Counterpart(role)].next
Separate(role, next) ==
  role \in {"INDEXER_SIGNER", "ANCHOR_SUBMITTER"} => next # roles[Counterpart(role)]

QueueRole(role, next) ==
  pendingRoles' =
    [pendingRoles EXCEPT ![role] = [next |-> next, effectiveBlock |-> block + RoleDelay]]

(* Called by the registry's owner.                                          *)
SetRole(role, next) ==
  /\ next # NoOne
  /\ Separate(role, next)
  /\ IF roles[role] = NoOne
     THEN roles' = [roles EXCEPT ![role] = next] /\ UNCHANGED <<pendingRoles, roleLog>>
     ELSE /\ QueueRole(role, next)
          /\ roleLog' = [roleLog EXCEPT ![role] = [next |-> next, block |-> block]]
          /\ UNCHANGED roles

Cleared(pending) == NoPending

ApplyRole(role) ==
  LET pending == pendingRoles[role] IN
    /\ pending.next # NoOne
    /\ block >= pending.effectiveBlock
    /\ Separate(role, pending.next)
    /\ roles' = [roles EXCEPT ![role] = pending.next]
    /\ pendingRoles' = [pendingRoles EXCEPT ![role] = Cleared(@)]
    /\ UNCHANGED roleLog

RolesStep ==
  /\ \E role \in Roles : (\E next \in Holders : SetRole(role, next)) \/ ApplyRole(role)
  /\ UNCHANGED block

RolesTick == Tick /\ UNCHANGED roleVars

RolesSpec == ClockInit /\ RolesInit /\ [][RolesStep \/ RolesTick]_<<block, roleVars>>

-----------------------------------------------------------------------------
(* Properties *)

(* Types, and an update is pending with both its parts or with neither.     *)
RolesTypeOK ==
  /\ roles \in [RoleIds -> Holders \cup {NoOne}]
  /\ pendingRoles \in [RoleIds -> [next: Holders \cup {NoOne}, effectiveBlock: Nat]]
  /\ roleLog \in [RoleIds -> [next: Holders \cup {NoOne}, block: Nat]]
  /\ \A r \in RoleIds : pendingRoles[r].next = NoOne <=> pendingRoles[r].effectiveBlock = 0
  /\ block \in Nat \ {0}

(* The key that signs indexed data never also submits the anchors that are  *)
(* to keep it honest, whatever order two pending updates are applied in.    *)
KeysSeparate ==
  roles["INDEXER_SIGNER"] # NoOne => roles["INDEXER_SIGNER"] # roles["ANCHOR_SUBMITTER"]

(* A role once held is never given up, and changes hands only to the holder *)
(* announced last, RoleDelay blocks after the announcement: superseding a   *)
(* pending update starts the delay again.                                   *)
HandedOver ==
  \A role \in Roles :
    roles[role] # NoOne /\ roles'[role] # roles[role] =>
      /\ roles'[role] = roleLog[role].next /\ roles'[role] # NoOne
      /\ block >= roleLog[role].block + RoleDelay

(* No step puts one key into both roles, or changes hands but as announced  *)
(* (LoopRegistry.sol, setIndexerSigningKey and the rest).                   *)
KeysGoverned == [][HandedOver /\ KeysSeparate']_<<block, roleVars>>
=============================================================================
