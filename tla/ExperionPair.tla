----------------------------- MODULE ExperionPair -----------------------------
(***************************************************************************)
(* Two redundancy managers of mini-honeywell-experion-pks *)
(* (dcs_redundancy.c) and the link between them.  Each manager is a C *)
(* structure of its own that learns of its partner from heartbeats alone. *)
(* *)
(* The link holds the last heartbeat sent in each direction: one that is *)
(* replaced before it is received, or dropped, is lost, and one that stays *)
(* is received again.  Left out: sequence numbers and time stamps, which *)
(* no code compares, the failover history, and the FTE, bumpless-ramp and *)
(* SIL calculations, which share no state with the managers. *)
(***************************************************************************)
EXTENDS Naturals

CONSTANTS
  MaxMissed,       \* RED_MAX_MISSED_HEARTBEATS
  RequestedRoles   \* roles the application asks redundancy_set_role for

VARIABLES
  current_role,   \* role of each manager
  pair_health,    \* health of the pair, as each manager sees it
  missed,         \* missed_heartbeats, up to MaxMissed
  sync,           \* sync_progress: in_progress, success and what is lost
  link            \* heartbeat on its way to each manager

roleVars == <<current_role, pair_health>>
vars == <<current_role, pair_health, missed, sync, link>>

Manager == {"A", "B"}

Partner(m) == IF m = "A" THEN "B" ELSE "A"

Role == {"UNKNOWN", "PRIMARY", "BACKUP", "SOLO", "SYNCING", "OFFLINE"}

ASSUME MaxMissedAssumption == MaxMissed \in Nat \ {0}
ASSUME RolesAssumption == RequestedRoles \subseteq Role

(* The other values of RedundancyPairHealth are assigned nowhere. *)
PairHealth == {"HEALTHY", "DEGRADED", "PRIMARY_ONLY"}

(* to is partner_id, ok is health_status = 0x00. *)
Heartbeat == [to : {"primary_id", "backup_id"}, ok : BOOLEAN]

NoHeartbeat == [to |-> "nobody", ok |-> FALSE]

(* lost: bytes_total - bytes_transferred is above zero. *)
SyncProgress == [in_progress : BOOLEAN, success : BOOLEAN, lost : BOOLEAN]

Init ==
  /\ current_role = [m \in Manager |-> "UNKNOWN"]
  /\ pair_health = [m \in Manager |-> "HEALTHY"]
  /\ missed = [m \in Manager |-> 0]
  /\ sync = [m \in Manager |->
               [in_progress |-> FALSE, success |-> FALSE, lost |-> FALSE]]
  /\ link = [m \in Manager |-> NoHeartbeat]

-----------------------------------------------------------------------------
(* Roles *)

(* The switch of redundancy_set_role. *)
ValidTransition(from, to) ==
  CASE to = "PRIMARY" -> from \in {"BACKUP", "SOLO", "UNKNOWN"}
    [] to = "BACKUP"  -> from \in {"UNKNOWN", "SOLO"}
    [] to = "SYNCING" -> from = "BACKUP"
    [] OTHER          -> TRUE

SetRole(m, role) ==
  /\ ValidTransition(current_role[m], role)
  /\ current_role' = [current_role EXCEPT ![m] = role]
  /\ pair_health' = [pair_health EXCEPT ![m] =
                       IF role = "SOLO" THEN "PRIMARY_ONLY" ELSE @]
  /\ UNCHANGED <<missed, sync, link>>

(* Mutant: whoever is not PRIMARY takes over. *)
TakeOverFromAnyRole(m) ==
  /\ current_role[m] # "PRIMARY"
  /\ current_role' = [current_role EXCEPT ![m] = "PRIMARY"]
  /\ pair_health' = [pair_health EXCEPT ![m] = "PRIMARY_ONLY"]
  /\ UNCHANGED <<missed, sync, link>>

(* redundancy_trigger_failover: a backup takes over on any trigger ... *)
TakeOver(m) ==
  /\ current_role[m] \in {"BACKUP", "SOLO"}
  /\ current_role' = [current_role EXCEPT ![m] = "PRIMARY"]
  /\ pair_health' = [pair_health EXCEPT ![m] = "PRIMARY_ONLY"]
  /\ UNCHANGED <<missed, sync, link>>

(* ... and a primary that finds its own fault (PRIMARY_FAILURE) yields. *)
Yield(m) ==
  /\ current_role[m] = "PRIMARY"
  /\ current_role' = [current_role EXCEPT ![m] = "OFFLINE"]
  /\ UNCHANGED <<pair_health, missed, sync, link>>

-----------------------------------------------------------------------------
(* Heartbeats *)

(* A primary addresses its backup; any other role addresses the primary. *)
SendHeartbeat(m) ==
  /\ link' = [link EXCEPT ![Partner(m)] =
                [to |-> IF current_role[m] = "PRIMARY" THEN "backup_id"
                                                       ELSE "primary_id",
                 ok |-> pair_health[m] = "HEALTHY"]]
  /\ UNCHANGED <<roleVars, missed, sync>>

Drop(m) ==
  /\ link[m] # NoHeartbeat
  /\ link' = [link EXCEPT ![m] = NoHeartbeat]
  /\ UNCHANGED <<roleVars, missed, sync>>

(* Which identifier a manager answers to depends on its role. *)
Addressed(m) ==
  link[m].to = IF current_role[m] = "PRIMARY" THEN "primary_id" ELSE "backup_id"

CountMissed(m) ==
  missed' = [missed EXCEPT ![m] = IF @ < MaxMissed THEN @ + 1 ELSE @]

Heard(m) ==
  /\ missed' = [missed EXCEPT ![m] = 0]
  /\ pair_health' = [pair_health EXCEPT ![m] =
                       IF link[m].ok THEN "HEALTHY" ELSE "DEGRADED"]

(* Mutant: the count is reset before the partner is checked. *)
ResetThenCheck(m) ==
  IF Addressed(m) THEN Heard(m)
  ELSE missed' = [missed EXCEPT ![m] = 0] /\ UNCHANGED pair_health

(* Mutant: the health the partner reports is not looked at. *)
TrustingHeartbeat(m) ==
  IF Addressed(m)
  THEN /\ missed' = [missed EXCEPT ![m] = 0]
       /\ pair_health' = [pair_health EXCEPT ![m] = "HEALTHY"]
  ELSE CountMissed(m) /\ UNCHANGED pair_health

receive_heartbeat(m) ==
  IF Addressed(m) THEN Heard(m) ELSE CountMissed(m) /\ UNCHANGED pair_health

ReceiveHeartbeat(m) ==
  /\ link[m] # NoHeartbeat
  /\ receive_heartbeat(m)
  /\ link' \in {link, [link EXCEPT ![m] = NoHeartbeat]}
  /\ UNCHANGED <<current_role, sync>>

(* The application counts a heartbeat that did not come: the library only *)
(* counts those that come from the wrong partner. *)
MissHeartbeat(m) ==
  /\ CountMissed(m)
  /\ UNCHANGED <<roleVars, sync, link>>

CheckHealth(m) ==
  /\ missed[m] >= MaxMissed
  /\ pair_health' = [pair_health EXCEPT ![m] = "PRIMARY_ONLY"]
  /\ UNCHANGED <<current_role, missed, sync, link>>

-----------------------------------------------------------------------------
(* Synchronisation *)

(* Mutant: the result of the last synchronisation is not cleared. *)
StartKeepingSuccess(m, sized) ==
  /\ sync' = [sync EXCEPT ![m].in_progress = TRUE, ![m].lost = sized]
  /\ current_role' = [current_role EXCEPT ![m] = "SYNCING"]
  /\ UNCHANGED <<pair_health, missed, link>>

(* sized: some of the categories has a size (operator locks have none). *)
(* The role is set without the check of redundancy_set_role. *)
StartSync(m, sized) ==
  /\ sync' = [sync EXCEPT ![m] =
                [in_progress |-> TRUE, success |-> FALSE, lost |-> sized]]
  /\ current_role' = [current_role EXCEPT ![m] = "SYNCING"]
  /\ UNCHANGED <<pair_health, missed, link>>

(* The caller reports completion of what it has started. *)
CompleteSync(m) ==
  /\ sync[m].in_progress
  /\ sync' = [sync EXCEPT ![m] =
                [in_progress |-> FALSE, success |-> TRUE, lost |-> FALSE]]
  /\ current_role' = [current_role EXCEPT ![m] = "BACKUP"]
  /\ pair_health' = [pair_health EXCEPT ![m] = "HEALTHY"]
  /\ UNCHANGED <<missed, link>>

-----------------------------------------------------------------------------
Next ==
  \E m \in Manager :
    \/ \E role \in RequestedRoles : SetRole(m, role)
    \/ TakeOver(m) \/ Yield(m)
    \/ SendHeartbeat(m) \/ Drop(m) \/ ReceiveHeartbeat(m) \/ MissHeartbeat(m)
    \/ CheckHealth(m)
    \/ \E sized \in BOOLEAN : StartSync(m, sized)
    \/ CompleteSync(m)

Spec == Init /\ [][Next]_vars

(* Heartbeats are sent and health is checked periodically, and a link that *)
(* loses heartbeats does not lose all of them.  Roles are free. *)
FairSpec ==
  Spec /\ \A m \in Manager : /\ WF_vars(SendHeartbeat(m))
                             /\ SF_vars(ReceiveHeartbeat(m))
                             /\ WF_vars(CheckHealth(m))

-----------------------------------------------------------------------------
(* Properties *)

PairTypeOK ==
  /\ current_role \in [Manager -> Role]
  /\ pair_health \in [Manager -> PairHealth]
  /\ missed \in [Manager -> 0 .. MaxMissed]
  /\ sync \in [Manager -> SyncProgress]
  /\ link \in [Manager -> Heartbeat \cup {NoHeartbeat}]

(* redundancy_trigger_failover logs a failover as bumpless when the last *)
(* synchronisation succeeded: then none of its data is missing, however *)
(* often it was started again. *)
BumplessLosesNothing == \A m \in Manager : sync[m].success => ~ sync[m].lost

(* A manager that yielded, or whose data is being copied, is not made *)
(* PRIMARY by any one call, whatever triggers and role requests come. *)
DownStaysDown ==
  [][\A m \in Manager : current_role[m] \in {"OFFLINE", "SYNCING"}
                          => current_role'[m] # "PRIMARY"]_vars

(* Each manager reports its own view of the pair and adopts its partner's. *)
(* Once neither believes the pair healthy and no older heartbeat says so, *)
(* heartbeats alone never bring either back: it takes a synchronisation. *)
Unwell(m) == /\ pair_health[m] # "HEALTHY"
             /\ ~ link[m].ok

RecoveryTakesSync ==
  [][(\A m \in Manager : Unwell(m))
       => \A m \in Manager : \/ pair_health'[m] # "HEALTHY"
                             \/ sync[m].in_progress /\ ~ sync'[m].in_progress]_vars

(* Two managers that both remain PRIMARY reject each other's heartbeats *)
(* and so come to know that the pair is broken, old heartbeats that were *)
(* accepted on the way notwithstanding. *)
BothPrimary == \A m \in Manager : current_role[m] = "PRIMARY"

SplitBrainNoticed ==
  <>[] BothPrimary => <>[] (\A m \in Manager : pair_health[m] = "PRIMARY_ONLY")
=============================================================================
