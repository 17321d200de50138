-------------------------- MODULE RedundancyGroup ---------------------------
(***************************************************************************)
(* The redundancy group of mini-dcs-redundancy-failover: redundancy_core.c *)
(* and the group-changing half of failover_engine.c. *)
(* *)
(* A group is one C structure that every call reads and rewrites, so it is *)
(* modelled as a record and each call as an operator from group to group. *)
(* The fields kept are the ones some guard of the code reads.  Left out: *)
(* identifiers, CPU load, fault and failover counters, time stamps, and *)
(* primary_capable and network_reachable, which are TRUE for every module *)
(* from redundancy_group_add_module on (nothing under src/ clears them). *)
(* *)
(* The specification at the end is what a group does, without clocks: the *)
(* calls in any order, where a timeout check may find any set of watched *)
(* slots late.  FailoverEngine, which keeps the heartbeat times, is shown *)
(* to implement it. *)
(***************************************************************************)
EXTENDS Integers, FiniteSets

CONSTANTS
  N,          \* n_modules
  MRequired   \* m_required, the M of MooN

MAX_MODULES == 8   \* REDUNDANCY_MAX_MODULES

ASSUME NAssumption == N \in 1 .. MAX_MODULES
ASSUME MAssumption == MRequired \in 1 .. N

Slot == 0 .. N - 1

Role == {"PRIMARY", "SECONDARY", "STANDBY", "OFFLINE"}

Health == {"HEALTHY", "DEGRADED", "FAULTY", "OFFLINE", "FAIL_SAFE", "MAINT",
           "TESTING"}

(* FAILING_OVER and RECOVERING are declared but no code assigns them. *)
FailoverState == {"NORMAL", "DEGRADED", "FAILED_OVER", "SPLIT_BRAIN"}

Group == [role            : [Slot -> Role],
          health          : [Slot -> Health],
          primary_index   : Slot,
          secondary_index : Slot,
          group_healthy   : BOOLEAN,
          degraded_mode   : BOOLEAN,
          failover_state  : FailoverState]

-----------------------------------------------------------------------------
(* Scans of the module array. *)

(* The loops "for i = 0 .. n-1 ... break" stop at the lowest slot. *)
First(S) == CHOOSE i \in S : \A j \in S : i <= j

HealthySlots(g) == {i \in Slot : g.health[i] = "HEALTHY"}

PrimaryRoles(g) == {i \in Slot : g.role[i] = "PRIMARY"}

healthy_count(g) == Cardinality(HealthySlots(g))

(* Lower slot, higher priority (failover_engine_init). *)
election_priority(i) == MAX_MODULES - i

HighestPriority(S) ==
  CHOOSE i \in S : \A j \in S : election_priority(i) >= election_priority(j)

-----------------------------------------------------------------------------
(* redundancy_core.c *)

(* redundancy_group_init followed by redundancy_group_add_module on every *)
(* slot: the group each test and example starts from. *)
ConfiguredGroup ==
  [role            |-> [i \in Slot |-> CASE i = 0 -> "PRIMARY"
                                         [] i = 1 -> "SECONDARY"
                                         [] OTHER -> "STANDBY"],
   health          |-> [i \in Slot |-> "HEALTHY"],
   primary_index   |-> 0,
   secondary_index |-> IF N > 1 THEN 1 ELSE 0,
   group_healthy   |-> TRUE,
   degraded_mode   |-> FALSE,
   failover_state  |-> "NORMAL"]

(* Adding a module again, in a group that is already running. *)
group_add_module(g, s) ==
  LET added == [g EXCEPT
                  !.health[s] = "HEALTHY",
                  !.role[s]   = CASE s = 0 -> "PRIMARY"
                                  [] s = 1 -> "SECONDARY"
                                  [] OTHER -> "STANDBY",
                  !.primary_index   = IF s = 0 THEN 0 ELSE @,
                  !.secondary_index = IF s = 1 THEN 1 ELSE @]
  IN  [added EXCEPT !.group_healthy = healthy_count(added) >= MRequired]

(* The health of one slot is set, the group re-evaluated, and, when the *)
(* slot is the primary and no longer healthy, the first healthy peer *)
(* promoted.  Only FAULTY and OFFLINE take the role from the old primary. *)
module_set_health(g, s, h) ==
  LET marked   == [g EXCEPT !.health[s] = h]
      peers    == HealthySlots(marked) \ {s}
      promotes == s = g.primary_index /\ h # "HEALTHY" /\ peers # {}
      demotes  == /\ h \in {"FAULTY", "OFFLINE"}
                  /\ s = g.primary_index /\ g.role[s] = "PRIMARY"
      enough   == healthy_count(marked) >= MRequired
      demoted  == IF demotes THEN [g.role EXCEPT ![s] = "OFFLINE"] ELSE g.role
  IN  [marked EXCEPT
         !.role = IF promotes THEN [demoted EXCEPT ![First(peers)] = "PRIMARY"]
                              ELSE demoted,
         !.primary_index = IF promotes THEN First(peers) ELSE @,
         !.group_healthy = enough,
         !.degraded_mode = enough /\ healthy_count(marked) < N]

-----------------------------------------------------------------------------
(* failover_engine.c, the calls that rewrite the group. *)

(* failover_process_heartbeat stores the health the message carries and *)
(* re-evaluates nothing. *)
process_heartbeat(g, s, h) == [g EXCEPT !.health[s] = h]

elect_primary(g) == HighestPriority(HealthySlots(g))

(* Mutant: the old primary is not demoted. *)
execute_without_demotion(g) ==
  IF HealthySlots(g) = {}
  THEN [g EXCEPT !.failover_state = "DEGRADED"]
  ELSE [g EXCEPT !.role[elect_primary(g)] = "PRIMARY",
                 !.primary_index  = elect_primary(g),
                 !.failover_state = "FAILED_OVER"]

execute(g) ==
  LET best   == elect_primary(g)
      old    == g.primary_index
      others == HealthySlots(g) \ {best}
      roles  == [g.role EXCEPT
                   ![old]  = IF g.health[old] = "FAULTY" THEN "OFFLINE"
                                                         ELSE "STANDBY",
                   ![best] = "PRIMARY"]
  IN  IF HealthySlots(g) = {}
      THEN [g EXCEPT !.failover_state = "DEGRADED"]
      ELSE [g EXCEPT
              !.role = IF others = {} THEN roles
                       ELSE [roles EXCEPT ![First(others)] = "SECONDARY"],
              !.primary_index   = best,
              !.secondary_index = IF others = {} THEN @ ELSE First(others),
              !.failover_state  = "FAILED_OVER"]

(* Mutant: the two role assignments swapped. *)
failback_demotes_last(g, target) ==
  [g EXCEPT !.role = [@ EXCEPT ![target]          = "PRIMARY",
                               ![g.primary_index] = "SECONDARY"],
            !.primary_index   = target,
            !.secondary_index = g.primary_index]

(* The caller checks the guard: the target is healthy. *)
execute_failback(g, target) ==
  [g EXCEPT !.role = [@ EXCEPT ![g.primary_index] = "SECONDARY",
                               ![target]          = "PRIMARY"],
            !.primary_index   = target,
            !.secondary_index = g.primary_index]

(* Mutant: the loser is demoted but primary_index is not moved. *)
split_brain_keeps_index(g) ==
  LET best == HighestPriority(PrimaryRoles(g))
  IN  IF Cardinality(PrimaryRoles(g)) <= 1
      THEN g
      ELSE [g EXCEPT !.role = [i \in Slot |->
                         IF i \in PrimaryRoles(g) \ {best} THEN "STANDBY"
                                                           ELSE @[i]],
                     !.failover_state = "SPLIT_BRAIN"]

detect_split_brain(g) ==
  LET best == HighestPriority(PrimaryRoles(g))
  IN  IF Cardinality(PrimaryRoles(g)) <= 1
      THEN g
      ELSE [g EXCEPT
              !.role = [i \in Slot |->
                          IF i \in PrimaryRoles(g) \ {best} THEN "STANDBY"
                                                            ELSE @[i]],
              !.primary_index  = best,
              !.failover_state = "SPLIT_BRAIN"]

(* Mutant: the priorities compared the wrong way round. *)
bully_election_reversed(g, initiator) ==
  IF \E i \in HealthySlots(g) \ {initiator} :
       election_priority(i) < election_priority(initiator)
  THEN elect_primary(g)
  ELSE initiator

(* failover_bully_election: an initiator that sees a healthy module of *)
(* higher priority defers to the election, otherwise it wins itself. *)
bully_election(g, initiator) ==
  IF \E i \in HealthySlots(g) \ {initiator} :
       election_priority(i) > election_priority(initiator)
  THEN elect_primary(g)
  ELSE initiator

(* Mutant: a late slot gives the role up only if it had it before the loop.*)
timed_out_keeping(g, late) ==
  LET turn[i \in 0 .. N] ==
        IF i = 0 THEN g
        ELSE IF i - 1 \notin late THEN turn[i - 1]
        ELSE [module_set_health(turn[i - 1], i - 1, "FAULTY") EXCEPT
                !.role[i - 1] = IF i - 1 = g.primary_index THEN @
                                ELSE turn[i - 1].role[i - 1]]
  IN  turn[N]

(* The loop of failover_check_timeouts calls module_set_health(i, FAULTY) *)
(* for the slots i of late, in ascending order.  Its result in closed *)
(* form: if the primary is late, the role goes to the first survivor, and *)
(* when that survivor lies above the primary, every late healthy slot in *)
(* between holds the role for one iteration and is left OFFLINE. *)
(* MCLibrary compares it with the loop, iteration by iteration. *)
timed_out(g, late) ==
  LET p         == g.primary_index
      marked    == [g EXCEPT !.health = [i \in Slot |->
                       IF i \in late THEN "FAULTY" ELSE @[i]]]
      survivors == HealthySlots(marked)
      briefly   == {i \in late \cap HealthySlots(g) :
                      i > p /\ \A j \in survivors : i < j}
      dropped   == briefly \cup {i \in {p} : g.role[i] = "PRIMARY"}
      heir      == IF survivors # {} THEN First(survivors)
                   ELSE IF briefly # {}
                        THEN CHOOSE i \in briefly : \A j \in briefly : j <= i
                        ELSE p
      roles     == [i \in Slot |->
                      IF i \in survivors /\ i = heir THEN "PRIMARY"
                      ELSE IF i \in dropped THEN "OFFLINE" ELSE g.role[i]]
      enough    == healthy_count(marked) >= MRequired
  IN  IF late = {}
      THEN g
      ELSE [marked EXCEPT
              !.role          = IF p \in late THEN roles ELSE g.role,
              !.primary_index = IF p \in late THEN heir ELSE p,
              !.group_healthy = enough,
              !.degraded_mode = enough /\ healthy_count(marked) < N]

(* failover_check_timeouts after its loop: a primary that is not healthy *)
(* in a group still believed healthy triggers a failover. *)
check_timeouts(g, late) ==
  LET swept == timed_out(g, late)
  IN  IF /\ swept.health[swept.primary_index] # "HEALTHY"
         /\ swept.group_healthy
      THEN execute(swept)
      ELSE swept

-----------------------------------------------------------------------------
CONSTANTS
  HeartbeatHealth,  \* health values that heartbeats carry
  ReportedHealth,   \* health values that diagnostics report
  Replaceable       \* slots whose module may be added again while running

ASSUME EnvironmentAssumption ==
  /\ HeartbeatHealth \subseteq Health /\ ReportedHealth \subseteq Health
  /\ Replaceable \subseteq Slot

VARIABLE grp   \* the redundancy group

TypeOK == grp \in Group

Init == grp = ConfiguredGroup

Watched(s) == grp.health[s] \notin {"OFFLINE", "FAIL_SAFE"}

ProcessHeartbeat(s, h) == grp' = process_heartbeat(grp, s, h)

CheckTimeouts(late) == grp' = check_timeouts(grp, late)

SetHealth(s, h) == grp' = module_set_health(grp, s, h)

ReplaceModule(s) == grp' = group_add_module(grp, s)

Execute == grp' = execute(grp)

Failback(target) ==
  /\ grp.health[target] = "HEALTHY"
  /\ grp' = execute_failback(grp, target)

DetectSplitBrain == grp' = detect_split_brain(grp)

Next ==
  \/ \E s \in Slot, h \in HeartbeatHealth : ProcessHeartbeat(s, h)
  \/ \E late \in SUBSET {s \in Slot : Watched(s)} : CheckTimeouts(late)
  \/ \E s \in Slot, h \in ReportedHealth : SetHealth(s, h)
  \/ \E s \in Replaceable : ReplaceModule(s)
  \/ Execute
  \/ \E s \in Slot : Failback(s)
  \/ DetectSplitBrain

Spec == Init /\ [][Next]_grp

(* Heartbeats of healthy modules keep coming, and polls that find nobody *)
(* late; nobody has to call failover_execute or a failback by hand. *)
GroupFairSpec ==
  /\ Spec
  /\ \A s \in Slot : WF_grp(ProcessHeartbeat(s, "HEALTHY"))
  /\ WF_grp(CheckTimeouts({}))

-----------------------------------------------------------------------------
(* Properties. *)

(* Diagnostics that only ever report a module good or dead, and a fixed *)
(* set of modules: the setting in which roles are unambiguous. *)
FailStop ==
  /\ ReportedHealth \subseteq {"HEALTHY", "FAULTY", "OFFLINE"}
  /\ Replaceable = {}

(* No two modules hold the PRIMARY role, and the one that does is the one *)
(* primary_index names, whatever the order of heartbeats, time-outs, *)
(* reports, failovers and failbacks. *)
OnePrimary == \A i \in Slot : grp.role[i] = "PRIMARY" => i = grp.primary_index

Headless == PrimaryRoles(grp) = {}

(* A call leaves the group without a PRIMARY only when it leaves it *)
(* without a healthy module. *)
HeadlessOnTotalLoss ==
  [][~ Headless /\ Headless' => HealthySlots(grp') = {}]_grp

Leads(g) ==
  g.role[g.primary_index] = "PRIMARY" /\ g.health[g.primary_index] = "HEALTHY"

(* The role is handed on (failover_engine.c:108-138): when a healthy module*)
(* holds it and is named by primary_index, then after a timeout check, and *)
(* whatever set of slots it found late, again a healthy module does, unless*)
(* none is left; and a module that held the role for one turn of the loop *)
(* only, being late itself, has given it up, in any group whatever. *)
RoleIsHandedOn ==
  \A late \in SUBSET {s \in Slot : Watched(s)} :
    LET g == check_timeouts(grp, late) IN
    /\ PrimaryRoles(g) \subseteq PrimaryRoles(grp) \cup {g.primary_index}
    /\ Leads(grp) /\ HealthySlots(g) # {} => Leads(g)

(* A bully election ends with the leader that the priority election names, *)
(* whichever healthy module starts it (failover_bully_election). *)
BullyAgreement ==
  \A i \in HealthySlots(grp) : bully_election(grp, i) = elect_primary(grp)

(* After failover_detect_split_brain exactly one of the modules that held *)
(* the PRIMARY role keeps it, and primary_index names it. *)
SplitBrainResolved ==
  [][DetectSplitBrain /\ Cardinality(PrimaryRoles(grp)) > 1
       => PrimaryRoles(grp') = {grp'.primary_index}]_grp

(* "When the primary fails, a new primary must be elected": once every *)
(* module is healthy, some module gets the PRIMARY role (or some module is *)
(* not healthy any more). *)
LeaderEventually == HealthySlots(grp) = Slot ~> (Headless => HealthySlots(grp) # Slot)
=============================================================================
