-------------------------- MODULE RedundancyProofs --------------------------
(***************************************************************************)
(* Theorems about RedundancyGroup, for every size of the group, every M of *)
(* MooN and every health values that heartbeats and diagnostics report: *)
(* the calls keep the group well formed, and in a fail-stop setting no two *)
(* modules ever hold the PRIMARY role.  Then FailoverEngine, with its *)
(* clocks, heartbeat ages and missed counters, is shown to implement the *)
(* group, for every timeout and delay, so what holds of the group holds of *)
(* the engine. *)
(* *)
(* Then state_sync.c.  VersionVectors, for every number of controllers and *)
(* every bound on updates and messages: VectorTypeOK /\ *)
(* VectorsCountUpdates is inductive, and CompareIsInclusion follows from *)
(* it without looking at steps.  StateSync, for every memory, every set of *)
(* regions, overlapping or not, and every buffer: no written byte is *)
(* forgotten, and a transfer that reports COMPLETE passes verification. *)
(* *)
(* Last the library as a whole: LibrarySound is what MCLibrary asks of *)
(* voting_mechanism.c, diagnostic_monitor.c, availability_model.c and the *)
(* closed form of the timeout loop.  Each part has its invariant - *)
(* IsVoter, FaultsOK, MeasuredOK, RingOK, CachedOK, MarkovOK -, and the *)
(* properties follow from it by arguments about data: order statistics, *)
(* sums, partial sums of a binomial row, values of a tree from below. *)
(***************************************************************************)
EXTENDS FailoverEngine, StateSync, MCLibrary, InductionLemmas, SequenceTheorems,
        FiniteSetTheorems, TLAPS

-----------------------------------------------------------------------------
(* The scans of the module array return a slot of the set they scan. *)

(* A non-empty set of slots has a least element. *)
LEMMA LeastSlot ==
  ASSUME NEW S \in SUBSET Slot, S # {}
  PROVE  \E i \in S : \A j \in S : i <= j
<1>1. Slot \subseteq {0, 1, 2, 3, 4, 5, 6, 7}
  BY NAssumption DEF Slot, MAX_MODULES
<1>2. CASE 0 \in S BY <1>1, <1>2
<1>3. CASE 1 \in S /\ 0 \notin S BY <1>1, <1>3
<1>4. CASE 2 \in S /\ S \cap {0, 1} = {} BY <1>1, <1>4
<1>5. CASE 3 \in S /\ S \cap {0, 1, 2} = {} BY <1>1, <1>5
<1>6. CASE 4 \in S /\ S \cap {0, 1, 2, 3} = {} BY <1>1, <1>6
<1>7. CASE 5 \in S /\ S \cap {0, 1, 2, 3, 4} = {} BY <1>1, <1>7
<1>8. CASE 6 \in S /\ S \cap {0, 1, 2, 3, 4, 5} = {} BY <1>1, <1>8
<1>9. CASE 7 \in S /\ S \cap {0, 1, 2, 3, 4, 5, 6} = {} BY <1>1, <1>9
<1> QED BY <1>1, <1>2, <1>3, <1>4, <1>5, <1>6, <1>7, <1>8, <1>9

(* The same for the greatest, by reflecting the slots in the last one. *)
LEMMA GreatestSlot ==
  ASSUME NEW S \in SUBSET Slot, S # {}
  PROVE  \E i \in S : \A j \in S : j <= i
<1> DEFINE Mirror == {i \in Slot : N - 1 - i \in S}
<1>1. \A i \in Slot : N - 1 - i \in Slot /\ N - 1 - (N - 1 - i) = i
  BY NAssumption DEF Slot, MAX_MODULES
<1>2. Mirror # {}
  BY <1>1
<1> HIDE DEF Mirror
<1>3. PICK i \in Mirror : \A j \in Mirror : i <= j
  <2>1. Mirror \in SUBSET Slot BY DEF Mirror
  <2> QED BY <1>2, <2>1, LeastSlot
<1>4. N - 1 - i \in S /\ \A j \in S : i <= N - 1 - j
  BY <1>1, <1>3 DEF Mirror
<1>5. i \in Slot /\ \A j \in S : j \in Slot
  BY <1>3 DEF Mirror
<1> QED
  <2>1. \A j \in S : j <= N - 1 - i
    BY <1>4, <1>5, NAssumption DEF Slot, MAX_MODULES
  <2> QED BY <1>4, <2>1

LEMMA FirstInSet ==
  ASSUME NEW S \in SUBSET Slot, S # {}
  PROVE  First(S) \in S
BY LeastSlot DEF First

LEMMA HighestPriorityInSet ==
  ASSUME NEW S \in SUBSET Slot, S # {}
  PROVE  HighestPriority(S) \in S
<1>1. PICK i \in S : \A j \in S : i <= j
  BY LeastSlot
<1>2. \A j \in S : election_priority(i) >= election_priority(j)
  BY <1>1, NAssumption DEF Slot, election_priority, MAX_MODULES
<1> QED BY <1>2 DEF HighestPriority

LEMMA HealthyCountNat ==
  ASSUME NEW g
  PROVE  healthy_count(g) \in Nat
<1>1. IsFiniteSet(Slot)
  BY NAssumption, FS_Interval DEF Slot, MAX_MODULES
<1>2. HealthySlots(g) \subseteq Slot
  BY DEF HealthySlots
<1> QED
  BY <1>1, <1>2, FS_Subset, FS_CardinalityType DEF healthy_count

(* So the comparisons with m_required and n_modules are Booleans. *)
LEMMA CountCompares ==
  ASSUME NEW g
  PROVE  /\ (healthy_count(g) >= MRequired) \in BOOLEAN
         /\ (healthy_count(g) < N) \in BOOLEAN
BY HealthyCountNat, NAssumption, MAssumption DEF MAX_MODULES

-----------------------------------------------------------------------------
(* Every call maps a well-formed group to a well-formed group. *)

LEMMA ConfiguredType == ConfiguredGroup \in Group
<1>1. 0 \in Slot /\ (N > 1 => 1 \in Slot)
  BY NAssumption DEF Slot, MAX_MODULES
<1> QED
  BY <1>1 DEF ConfiguredGroup, Group, Role, Health, FailoverState

LEMMA HeartbeatType ==
  ASSUME NEW g \in Group, NEW s \in Slot, NEW h \in Health
  PROVE  process_heartbeat(g, s, h) \in Group
BY DEF process_heartbeat, Group

LEMMA AddModuleType ==
  ASSUME NEW g \in Group, NEW s \in Slot
  PROVE  group_add_module(g, s) \in Group
<1> DEFINE role  == CASE s = 0 -> "PRIMARY" [] s = 1 -> "SECONDARY"
                      [] OTHER -> "STANDBY"
           added == [g EXCEPT !.health[s] = "HEALTHY",
                              !.role[s]   = role,
                              !.primary_index   = IF s = 0 THEN 0 ELSE @,
                              !.secondary_index = IF s = 1 THEN 1 ELSE @]
<1>1. role \in Role
  BY DEF Role
<1>2. added \in Group
  <2> HIDE DEF role
  <2> QED BY <1>1 DEF Group, Health
<1> HIDE DEF added
<1>3. [added EXCEPT !.group_healthy = healthy_count(added) >= MRequired]
        \in Group
  BY <1>2, CountCompares DEF Group
<1> QED BY <1>3 DEF group_add_module, added

LEMMA SetHealthType ==
  ASSUME NEW g \in Group, NEW s \in Slot, NEW h \in Health
  PROVE  module_set_health(g, s, h) \in Group
<1> DEFINE marked   == [g EXCEPT !.health[s] = h]
           peers    == HealthySlots(marked) \ {s}
           promotes == s = g.primary_index /\ h # "HEALTHY" /\ peers # {}
           demotes  == /\ h \in {"FAULTY", "OFFLINE"}
                       /\ s = g.primary_index /\ g.role[s] = "PRIMARY"
           enough   == healthy_count(marked) >= MRequired
           demoted  == IF demotes THEN [g.role EXCEPT ![s] = "OFFLINE"]
                                  ELSE g.role
           roles    == IF promotes
                       THEN [demoted EXCEPT ![First(peers)] = "PRIMARY"]
                       ELSE demoted
           leader   == IF promotes THEN First(peers) ELSE g.primary_index
           degraded == enough /\ healthy_count(marked) < N
<1>1. promotes => First(peers) \in Slot
  BY FirstInSet DEF HealthySlots
<1>2. marked \in Group
  BY DEF Group
<1>3. roles \in [Slot -> Role] /\ leader \in Slot
  BY <1>1 DEF Group, Role
<1>4. enough \in BOOLEAN /\ degraded \in BOOLEAN
  BY CountCompares
<1>5. module_set_health(g, s, h) =
        [marked EXCEPT !.role = roles, !.primary_index = leader,
                       !.group_healthy = enough, !.degraded_mode = degraded]
  BY DEF module_set_health
<1> HIDE DEF marked, roles, leader, enough, degraded
<1> QED BY <1>2, <1>3, <1>4, <1>5 DEF Group

LEMMA ExecuteType ==
  ASSUME NEW g \in Group
  PROVE  execute(g) \in Group
<1> DEFINE best   == elect_primary(g)
           others == HealthySlots(g) \ {best}
<1>1. HealthySlots(g) \in SUBSET Slot /\ others \in SUBSET Slot
  BY DEF HealthySlots
<1>2. HealthySlots(g) # {} => best \in Slot
  BY <1>1, HighestPriorityInSet DEF elect_primary
<1>3. others # {} => First(others) \in Slot
  BY <1>1, FirstInSet
<1> QED
  BY <1>2, <1>3 DEF execute, Group, Role, FailoverState

LEMMA FailbackType ==
  ASSUME NEW g \in Group, NEW t \in Slot
  PROVE  execute_failback(g, t) \in Group
BY DEF execute_failback, Group, Role

LEMMA SplitBrainType ==
  ASSUME NEW g \in Group
  PROVE  detect_split_brain(g) \in Group
<1>1. PrimaryRoles(g) \in SUBSET Slot
  BY DEF PrimaryRoles
<1>2. PrimaryRoles(g) # {} => HighestPriority(PrimaryRoles(g)) \in Slot
  BY <1>1, HighestPriorityInSet
<1>3. CASE Cardinality(PrimaryRoles(g)) <= 1
  BY <1>3 DEF detect_split_brain
<1>4. CASE ~ (Cardinality(PrimaryRoles(g)) <= 1)
  <2>1. PrimaryRoles(g) # {}
    BY <1>4, FS_EmptySet
  <2> QED
    BY <1>2, <1>4, <2>1 DEF detect_split_brain, Group, Role, FailoverState
<1> QED BY <1>3, <1>4

LEMMA TimedOutType ==
  ASSUME NEW g \in Group, NEW late \in SUBSET Slot
  PROVE  timed_out(g, late) \in Group
<1> DEFINE p         == g.primary_index
           marked    == [g EXCEPT !.health = [i \in Slot |->
                           IF i \in late THEN "FAULTY" ELSE @[i]]]
           survivors == HealthySlots(marked)
           briefly   == {i \in late \cap HealthySlots(g) :
                           i > p /\ \A j \in survivors : i < j}
           dropped   == briefly \cup {i \in {p} : g.role[i] = "PRIMARY"}
           last      == CHOOSE i \in briefly : \A j \in briefly : j <= i
           heir      == IF survivors # {} THEN First(survivors)
                        ELSE IF briefly # {} THEN last ELSE p
           roles     == [i \in Slot |->
                           IF i \in survivors /\ i = heir THEN "PRIMARY"
                           ELSE IF i \in dropped THEN "OFFLINE" ELSE g.role[i]]
           role2     == IF p \in late THEN roles ELSE g.role
           leader    == IF p \in late THEN heir ELSE p
           enough    == healthy_count(marked) >= MRequired
           degraded  == enough /\ healthy_count(marked) < N
<1>1. marked \in Group
  BY DEF Group, Health
<1>2. survivors \in SUBSET Slot /\ briefly \in SUBSET Slot
  BY DEF HealthySlots
<1>3. heir \in Slot
  <2>1. survivors # {} => First(survivors) \in Slot
    BY <1>2, FirstInSet
  <2>2. briefly # {} => last \in Slot
    BY <1>2, GreatestSlot
  <2>3. p \in Slot
    BY DEF Group
  <2> HIDE DEF survivors, briefly, last, p
  <2> QED BY <2>1, <2>2, <2>3
<1>4. role2 \in [Slot -> Role] /\ leader \in Slot
  <2> HIDE DEF survivors, dropped, heir
  <2> QED BY <1>3 DEF Group, Role
<1>5. enough \in BOOLEAN /\ degraded \in BOOLEAN
  BY CountCompares
<1>6. late # {} =>
        timed_out(g, late) =
          [marked EXCEPT !.role = role2, !.primary_index = leader,
                         !.group_healthy = enough, !.degraded_mode = degraded]
  BY Zenon DEF timed_out
<1>7. late = {} => timed_out(g, late) = g
  BY DEF timed_out
<1> HIDE DEF marked, role2, leader, enough, degraded
<1> QED BY <1>1, <1>4, <1>5, <1>6, <1>7 DEF Group

LEMMA CheckTimeoutsType ==
  ASSUME NEW g \in Group, NEW late \in SUBSET Slot
  PROVE  check_timeouts(g, late) \in Group
BY TimedOutType, ExecuteType DEF check_timeouts

-----------------------------------------------------------------------------
(* The group is well formed in every reachable state. *)

(* Whatever heartbeats and diagnostics report, and however slots are *)
(* replaced, every index stays in range and every field in its type. *)
THEOREM TypeCorrect == Spec => []TypeOK
<1>1. Init => TypeOK
  BY ConfiguredType DEF Init, TypeOK
<1>2. TypeOK /\ [Next]_grp => TypeOK'
  <2> SUFFICES ASSUME TypeOK, [Next]_grp PROVE TypeOK'
    OBVIOUS
  <2> USE DEF TypeOK
  <2>1. CASE UNCHANGED grp
    BY <2>1
  <2>2. ASSUME NEW s \in Slot, NEW h \in HeartbeatHealth,
               ProcessHeartbeat(s, h)
        PROVE  TypeOK'
    BY <2>2, HeartbeatType, EnvironmentAssumption DEF ProcessHeartbeat
  <2>3. ASSUME NEW late \in SUBSET {s \in Slot : Watched(s)},
               CheckTimeouts(late)
        PROVE  TypeOK'
    BY <2>3, CheckTimeoutsType DEF CheckTimeouts
  <2>4. ASSUME NEW s \in Slot, NEW h \in ReportedHealth, SetHealth(s, h)
        PROVE  TypeOK'
    BY <2>4, SetHealthType, EnvironmentAssumption DEF SetHealth
  <2>5. ASSUME NEW s \in Replaceable, ReplaceModule(s)
        PROVE  TypeOK'
    BY <2>5, AddModuleType, EnvironmentAssumption DEF ReplaceModule
  <2>6. CASE Execute
    BY <2>6, ExecuteType DEF Execute
  <2>7. ASSUME NEW s \in Slot, Failback(s)
        PROVE  TypeOK'
    BY <2>7, FailbackType DEF Failback
  <2>8. CASE DetectSplitBrain
    BY <2>8, SplitBrainType DEF DetectSplitBrain
  <2> QED
    BY <2>1, <2>2, <2>3, <2>4, <2>5, <2>6, <2>7, <2>8 DEF Next
<1> QED BY <1>1, <1>2, PTL DEF Spec

-----------------------------------------------------------------------------
(* At most one PRIMARY. *)

(* OnePrimary, of a group that is a value rather than the state. *)
Unambiguous(g) == \A i \in Slot : g.role[i] = "PRIMARY" => i = g.primary_index

(* A report that finds the primary bad also takes the role from it. *)
LEMMA SetHealthUnambiguous ==
  ASSUME NEW g \in Group, Unambiguous(g), NEW s \in Slot,
         NEW h \in {"HEALTHY", "FAULTY", "OFFLINE"}
  PROVE  Unambiguous(module_set_health(g, s, h))
<1> DEFINE marked   == [g EXCEPT !.health[s] = h]
           peers    == HealthySlots(marked) \ {s}
           promotes == s = g.primary_index /\ h # "HEALTHY" /\ peers # {}
           demotes  == /\ h \in {"FAULTY", "OFFLINE"}
                       /\ s = g.primary_index /\ g.role[s] = "PRIMARY"
           demoted  == IF demotes THEN [g.role EXCEPT ![s] = "OFFLINE"]
                                  ELSE g.role
           roles    == IF promotes
                       THEN [demoted EXCEPT ![First(peers)] = "PRIMARY"]
                       ELSE demoted
           leader   == IF promotes THEN First(peers) ELSE g.primary_index
<1>1. /\ module_set_health(g, s, h).role = roles
      /\ module_set_health(g, s, h).primary_index = leader
  BY DEF module_set_health, Group
<1>2. promotes => \A i \in Slot : demoted[i] # "PRIMARY"
  BY DEF Unambiguous, Group
<1>3. \A i \in Slot : demoted[i] = "PRIMARY" => i = g.primary_index
  BY DEF Unambiguous, Group
<1>4. demoted \in [Slot -> Role]
  BY DEF Group, Role
<1> HIDE DEF demoted, peers
<1>5. \A i \in Slot : roles[i] = "PRIMARY" => i = leader
  BY <1>2, <1>3, <1>4
<1> HIDE DEF roles, leader
<1> QED BY <1>1, <1>5 DEF Unambiguous

(* A failover moves the role: the old primary gives it up whether it is *)
(* faulty or not, and the new secondary is another module. *)
LEMMA ExecuteUnambiguous ==
  ASSUME NEW g \in Group, Unambiguous(g)
  PROVE  Unambiguous(execute(g))
<1> DEFINE best   == elect_primary(g)
           others == HealthySlots(g) \ {best}
           rest   == IF g.health[g.primary_index] = "FAULTY" THEN "OFFLINE"
                                                             ELSE "STANDBY"
           moved  == [g.role EXCEPT ![g.primary_index] = rest,
                                    ![best] = "PRIMARY"]
           roles  == IF others = {} THEN moved
                     ELSE [moved EXCEPT ![First(others)] = "SECONDARY"]
<1>1. CASE HealthySlots(g) = {}
  BY <1>1 DEF execute, Unambiguous, Group
<1>2. CASE HealthySlots(g) # {}
  <2>1. /\ execute(g).role = roles
        /\ execute(g).primary_index = best
    BY <1>2 DEF execute, Group
  <2>2. \A i \in Slot : moved[i] = "PRIMARY" => i = best
    BY DEF Unambiguous, Group
  <2>3. moved \in [Slot -> Role \cup {"STANDBY", "OFFLINE"}]
    BY DEF Group, Role
  <2>4. \A i \in Slot : roles[i] = "PRIMARY" => i = best
    <3> HIDE DEF moved, others
    <3> QED BY <2>2, <2>3
  <2> QED BY <2>1, <2>4 DEF Unambiguous
<1> QED BY <1>1, <1>2

LEMMA FailbackUnambiguous ==
  ASSUME NEW g \in Group, Unambiguous(g), NEW t \in Slot
  PROVE  Unambiguous(execute_failback(g, t))
BY DEF execute_failback, Unambiguous, Group

LEMMA SplitBrainUnambiguous ==
  ASSUME NEW g \in Group, Unambiguous(g)
  PROVE  Unambiguous(detect_split_brain(g))
<1>1. PrimaryRoles(g) \subseteq {g.primary_index}
  BY DEF PrimaryRoles, Unambiguous
<1>2. /\ IsFiniteSet({g.primary_index})
      /\ Cardinality({g.primary_index}) = 1
  BY FS_Singleton
<1>3. Cardinality(PrimaryRoles(g)) <= 1
  BY <1>1, <1>2, FS_Subset, FS_CardinalityType
<1> QED BY <1>3 DEF detect_split_brain

(* The sweep takes the role from the primary it finds late, and every *)
(* module that held it on the way is late itself and left OFFLINE. *)
LEMMA TimedOutUnambiguous ==
  ASSUME NEW g \in Group, Unambiguous(g), NEW late \in SUBSET Slot
  PROVE  Unambiguous(timed_out(g, late))
<1> DEFINE p         == g.primary_index
           marked    == [g EXCEPT !.health = [i \in Slot |->
                           IF i \in late THEN "FAULTY" ELSE @[i]]]
           survivors == HealthySlots(marked)
           briefly   == {i \in late \cap HealthySlots(g) :
                           i > p /\ \A j \in survivors : i < j}
           dropped   == briefly \cup {i \in {p} : g.role[i] = "PRIMARY"}
           last      == CHOOSE i \in briefly : \A j \in briefly : j <= i
           heir      == IF survivors # {} THEN First(survivors)
                        ELSE IF briefly # {} THEN last ELSE p
           roles     == [i \in Slot |->
                           IF i \in survivors /\ i = heir THEN "PRIMARY"
                           ELSE IF i \in dropped THEN "OFFLINE" ELSE g.role[i]]
           role2     == IF p \in late THEN roles ELSE g.role
           leader    == IF p \in late THEN heir ELSE p
<1>1. CASE late = {}
  BY <1>1 DEF timed_out
<1>2. CASE late # {}
  <2>1. /\ timed_out(g, late).role = role2
        /\ timed_out(g, late).primary_index = leader
    <3>1. timed_out(g, late) =
            [marked EXCEPT
               !.role = role2, !.primary_index = leader,
               !.group_healthy = healthy_count(marked) >= MRequired,
               !.degraded_mode = /\ healthy_count(marked) >= MRequired
                                 /\ healthy_count(marked) < N]
      BY <1>2, Zenon DEF timed_out
    <3> HIDE DEF role2, leader
    <3> QED BY <3>1 DEF Group
  <2>2. \A i \in Slot : roles[i] = "PRIMARY" => i = heir
    <3>1. \A i \in Slot : i \notin dropped => g.role[i] # "PRIMARY"
      BY DEF Unambiguous
    <3> HIDE DEF survivors, dropped, heir
    <3> QED BY <3>1
  <2>3. \A i \in Slot : role2[i] = "PRIMARY" => i = leader
    <3> HIDE DEF roles, heir
    <3> QED BY <2>2 DEF Unambiguous
  <2> HIDE DEF role2, leader
  <2> QED BY <2>1, <2>3 DEF Unambiguous
<1> QED BY <1>1, <1>2

(* With diagnostics that report a module good or dead, and no module *)
(* replaced, no sequence of heartbeats, time-outs, reports, failovers, *)
(* failbacks and split-brain checks gives two modules the PRIMARY role. *)
THEOREM OnePrimaryHolds == ASSUME FailStop PROVE Spec => []OnePrimary
<1>1. Init => OnePrimary
  BY DEF Init, ConfiguredGroup, OnePrimary
<1>2. TypeOK /\ OnePrimary /\ [Next]_grp => OnePrimary'
  <2> SUFFICES ASSUME TypeOK, OnePrimary, [Next]_grp
               PROVE  Unambiguous(grp')
    BY DEF OnePrimary, Unambiguous
  <2>1. grp \in Group /\ Unambiguous(grp)
    BY DEF TypeOK, OnePrimary, Unambiguous
  <2>2. CASE UNCHANGED grp
    BY <2>1, <2>2
  <2>3. ASSUME NEW s \in Slot, NEW h \in HeartbeatHealth,
               ProcessHeartbeat(s, h)
        PROVE  Unambiguous(grp')
    BY <2>1, <2>3 DEF ProcessHeartbeat, process_heartbeat, Unambiguous, Group
  <2>4. ASSUME NEW late \in SUBSET {s \in Slot : Watched(s)},
               CheckTimeouts(late)
        PROVE  Unambiguous(grp')
    BY <2>1, <2>4, TimedOutUnambiguous, TimedOutType, ExecuteUnambiguous
       DEF CheckTimeouts, check_timeouts
  <2>5. ASSUME NEW s \in Slot, NEW h \in ReportedHealth, SetHealth(s, h)
        PROVE  Unambiguous(grp')
    BY <2>1, <2>5, FailStop, SetHealthUnambiguous DEF SetHealth, FailStop
  <2>6. CASE Execute
    BY <2>1, <2>6, ExecuteUnambiguous DEF Execute
  <2>7. ASSUME NEW s \in Slot, Failback(s)
        PROVE  Unambiguous(grp')
    BY <2>1, <2>7, FailbackUnambiguous DEF Failback
  <2>8. CASE DetectSplitBrain
    BY <2>1, <2>8, SplitBrainUnambiguous DEF DetectSplitBrain
  <2> QED
    BY <2>2, <2>3, <2>4, <2>5, <2>6, <2>7, <2>8, FailStop DEF Next, FailStop
<1> QED BY <1>1, <1>2, TypeCorrect, PTL DEF Spec
-----------------------------------------------------------------------------
(* The role is not lost. *)

(* What a call may do to a group that has a PRIMARY. *)
Led(g) == PrimaryRoles(g) # {} \/ HealthySlots(g) = {}

(* A failover finds a PRIMARY unless nobody is healthy; the module made *)
(* SECONDARY after it is another one. *)
LEMMA ExecuteLeads ==
  ASSUME NEW g \in Group
  PROVE  /\ Led(execute(g))
         /\ HealthySlots(execute(g)) = HealthySlots(g)
         /\ HealthySlots(g) # {} =>
              execute(g).primary_index \in HealthySlots(g)
<1> DEFINE best   == elect_primary(g)
           others == HealthySlots(g) \ {best}
<1>1. CASE HealthySlots(g) = {}
  BY <1>1 DEF execute, Led, HealthySlots, Group
<1>2. CASE HealthySlots(g) # {}
  <2>1. HealthySlots(g) \in SUBSET Slot /\ others \in SUBSET Slot
    BY DEF HealthySlots
  <2>2. best \in HealthySlots(g)
    BY <1>2, <2>1, HighestPriorityInSet DEF elect_primary
  <2>3. others # {} => First(others) \in Slot /\ First(others) # best
    BY <2>1, FirstInSet
  <2>4. execute(g).role[best] = "PRIMARY"
    BY <1>2, <2>1, <2>2, <2>3 DEF execute, Group
  <2>5. /\ execute(g).primary_index = best
        /\ HealthySlots(execute(g)) = HealthySlots(g)
    BY <1>2 DEF execute, Group, HealthySlots
  <2> QED BY <2>1, <2>2, <2>4, <2>5 DEF Led, PrimaryRoles
<1> QED BY <1>1, <1>2

(* The sweep hands the role of a late primary to a survivor, if any. *)
LEMMA TimedOutLeads ==
  ASSUME NEW g \in Group, PrimaryRoles(g) # {}, Unambiguous(g),
         NEW late \in SUBSET Slot
  PROVE  Led(timed_out(g, late))
<1> DEFINE p         == g.primary_index
           marked    == [g EXCEPT !.health = [i \in Slot |->
                           IF i \in late THEN "FAULTY" ELSE @[i]]]
           survivors == HealthySlots(marked)
           briefly   == {i \in late \cap HealthySlots(g) :
                           i > p /\ \A j \in survivors : i < j}
           dropped   == briefly \cup {i \in {p} : g.role[i] = "PRIMARY"}
           last      == CHOOSE i \in briefly : \A j \in briefly : j <= i
           heir      == IF survivors # {} THEN First(survivors)
                        ELSE IF briefly # {} THEN last ELSE p
           roles     == [i \in Slot |->
                           IF i \in survivors /\ i = heir THEN "PRIMARY"
                           ELSE IF i \in dropped THEN "OFFLINE" ELSE g.role[i]]
           role2     == IF p \in late THEN roles ELSE g.role
<1>1. CASE late = {}
  BY <1>1 DEF timed_out, Led
<1>2. CASE late # {}
  <2>1. /\ timed_out(g, late).role = role2
        /\ timed_out(g, late).health = marked.health
    <3> DEFINE leader == IF p \in late THEN heir ELSE p
    <3>1. timed_out(g, late) =
            [marked EXCEPT
               !.role = role2, !.primary_index = leader,
               !.group_healthy = healthy_count(marked) >= MRequired,
               !.degraded_mode = /\ healthy_count(marked) >= MRequired
                                 /\ healthy_count(marked) < N]
      BY <1>2, Zenon DEF timed_out
    <3>2. marked \in Group
      BY DEF Group, Health
    <3> HIDE DEF role2, leader, marked
    <3> QED BY <3>1, <3>2 DEF Group
  <2>2. HealthySlots(timed_out(g, late)) = survivors
    BY <2>1 DEF HealthySlots
  <2>3. CASE p \notin late
    <3>1. role2 = g.role
      BY <2>3
    <3> HIDE DEF role2
    <3> QED BY <2>1, <3>1 DEF Led, PrimaryRoles
  <2>4. CASE p \in late /\ survivors # {}
    <3>1. survivors \in SUBSET Slot
      BY DEF HealthySlots
    <3>2. heir \in survivors /\ heir \in Slot
      BY <2>4, <3>1, FirstInSet
    <3> HIDE DEF survivors, dropped, heir
    <3>3. role2[heir] = "PRIMARY"
      BY <2>4, <3>2
    <3> HIDE DEF role2
    <3> QED BY <2>1, <3>2, <3>3 DEF Led, PrimaryRoles
  <2> QED BY <2>2, <2>3, <2>4 DEF Led
<1> QED BY <1>1, <1>2

LEMMA SetHealthLeads ==
  ASSUME NEW g \in Group, PrimaryRoles(g) # {}, Unambiguous(g),
         NEW s \in Slot, NEW h \in {"HEALTHY", "FAULTY", "OFFLINE"}
  PROVE  Led(module_set_health(g, s, h))
<1> DEFINE marked   == [g EXCEPT !.health[s] = h]
           peers    == HealthySlots(marked) \ {s}
           promotes == s = g.primary_index /\ h # "HEALTHY" /\ peers # {}
           demotes  == /\ h \in {"FAULTY", "OFFLINE"}
                       /\ s = g.primary_index /\ g.role[s] = "PRIMARY"
           demoted  == IF demotes THEN [g.role EXCEPT ![s] = "OFFLINE"]
                                  ELSE g.role
           roles    == IF promotes
                       THEN [demoted EXCEPT ![First(peers)] = "PRIMARY"]
                       ELSE demoted
<1>1. /\ module_set_health(g, s, h).role = roles
      /\ HealthySlots(module_set_health(g, s, h)) = HealthySlots(marked)
  BY DEF module_set_health, Group, HealthySlots
<1>2. demoted \in [Slot -> Role] /\ marked.health[s] = h
  BY DEF Group, Role
<1>3. CASE promotes
  <2>1. peers \in SUBSET Slot
    BY DEF HealthySlots
  <2>2. First(peers) \in Slot
    BY <1>3, <2>1, FirstInSet
  <2>3. roles[First(peers)] = "PRIMARY"
    <3> HIDE DEF demoted, peers
    <3> QED BY <1>2, <1>3, <2>2
  <2> HIDE DEF roles, peers
  <2> QED BY <1>1, <2>2, <2>3 DEF Led, PrimaryRoles
<1>4. CASE demotes /\ ~ promotes
  <2>1. HealthySlots(marked) = {}
    BY <1>2, <1>4 DEF HealthySlots
  <2> QED BY <1>1, <2>1 DEF Led
<1>5. CASE ~ demotes /\ ~ promotes
  <2>1. roles = g.role
    BY <1>5
  <2> HIDE DEF roles
  <2> QED BY <1>1, <2>1 DEF Led, PrimaryRoles
<1> QED BY <1>3, <1>4, <1>5

(* In the fail-stop setting no call takes the role from the last PRIMARY *)
(* while a module is healthy: the module that loses it has a successor. *)
THEOREM HeadlessHolds == ASSUME FailStop PROVE Spec => HeadlessOnTotalLoss
<1>1. TypeOK /\ OnePrimary /\ [Next]_grp
        => [~ Headless /\ Headless' => HealthySlots(grp') = {}]_grp
  <2> SUFFICES ASSUME TypeOK, OnePrimary, Next, PrimaryRoles(grp) # {}
               PROVE  Led(grp')
    BY DEF Headless, Led
  <2>1. grp \in Group /\ Unambiguous(grp)
    BY DEF TypeOK, OnePrimary, Unambiguous
  <2>2. ASSUME NEW s \in Slot, NEW h \in HeartbeatHealth,
               ProcessHeartbeat(s, h)
        PROVE  Led(grp')
    BY <2>1, <2>2 DEF ProcessHeartbeat, process_heartbeat, Led, PrimaryRoles,
                      Group
  <2>3. ASSUME NEW late \in SUBSET {s \in Slot : Watched(s)},
               CheckTimeouts(late)
        PROVE  Led(grp')
    BY <2>1, <2>3, TimedOutLeads, TimedOutType, ExecuteLeads
       DEF CheckTimeouts, check_timeouts
  <2>4. ASSUME NEW s \in Slot, NEW h \in ReportedHealth, SetHealth(s, h)
        PROVE  Led(grp')
    BY <2>1, <2>4, FailStop, SetHealthLeads DEF SetHealth, FailStop
  <2>5. CASE Execute
    BY <2>1, <2>5, ExecuteLeads DEF Execute
  <2>6. ASSUME NEW s \in Slot, Failback(s)
        PROVE  Led(grp')
    BY <2>1, <2>6 DEF Failback, execute_failback, Led, PrimaryRoles, Group
  <2>7. CASE DetectSplitBrain
    <3>1. PrimaryRoles(grp) \subseteq {grp.primary_index}
      BY <2>1 DEF PrimaryRoles, Unambiguous
    <3>2. /\ IsFiniteSet({grp.primary_index})
          /\ Cardinality({grp.primary_index}) = 1
      BY FS_Singleton
    <3>3. Cardinality(PrimaryRoles(grp)) <= 1
      BY <3>1, <3>2, FS_Subset, FS_CardinalityType
    <3> QED BY <2>7, <3>3 DEF DetectSplitBrain, detect_split_brain, Led
  <2> QED
    BY <2>2, <2>3, <2>4, <2>5, <2>6, <2>7, FailStop DEF Next, FailStop
<1> QED BY <1>1, TypeCorrect, OnePrimaryHolds, PTL DEF Spec, HeadlessOnTotalLoss

-----------------------------------------------------------------------------
(* The repairs: split-brain detection, bully election. *)

(* However a group came to have several PRIMARY modules, the detection *)
(* leaves one of them, and primary_index on it. *)
THEOREM SplitBrainRepaired == Spec => SplitBrainResolved
<1>1. TypeOK => [DetectSplitBrain /\ Cardinality(PrimaryRoles(grp)) > 1
                   => PrimaryRoles(grp') = {grp'.primary_index}]_grp
  <2> SUFFICES ASSUME grp \in Group, DetectSplitBrain,
                      Cardinality(PrimaryRoles(grp)) > 1
               PROVE  PrimaryRoles(grp') = {grp'.primary_index}
    BY DEF TypeOK
  <2> DEFINE best  == HighestPriority(PrimaryRoles(grp))
             roles == [i \in Slot |->
                         IF i \in PrimaryRoles(grp) \ {best} THEN "STANDBY"
                                                             ELSE grp.role[i]]
  <2>1. /\ PrimaryRoles(grp) \in SUBSET Slot
        /\ PrimaryRoles(grp) # {}
        /\ ~ (Cardinality(PrimaryRoles(grp)) <= 1)
    <3>1. PrimaryRoles(grp) \in SUBSET Slot
      BY DEF PrimaryRoles
    <3>2. IsFiniteSet(Slot)
      BY NAssumption, FS_Interval DEF Slot, MAX_MODULES
    <3>3. Cardinality(PrimaryRoles(grp)) \in Nat
      BY <3>1, <3>2, FS_Subset, FS_CardinalityType
    <3> QED BY <3>1, <3>3, FS_EmptySet
  <2>2. best \in PrimaryRoles(grp)
    BY <2>1, HighestPriorityInSet
  <2>3. grp'.role = roles /\ grp'.primary_index = best
    BY <2>1 DEF DetectSplitBrain, detect_split_brain, Group
  <2> HIDE DEF best
  <2>4. \A i \in Slot : roles[i] = "PRIMARY" <=> i = best
    BY <2>2 DEF PrimaryRoles
  <2> HIDE DEF roles
  <2> QED BY <2>1, <2>2, <2>3, <2>4 DEF PrimaryRoles
<1> QED BY <1>1, TypeCorrect, PTL DEF SplitBrainResolved

(* No two slots have the same priority, so the election has one outcome, *)
(* whichever healthy module calls for it. *)
THEOREM BullyAgrees == Spec => []BullyAgreement
<1>1. BullyAgreement
  <2> SUFFICES ASSUME NEW i \in HealthySlots(grp),
                      \A j \in HealthySlots(grp) \ {i} :
                        ~ (election_priority(j) > election_priority(i))
               PROVE  i = elect_primary(grp)
    BY DEF BullyAgreement, bully_election
  <2>1. HealthySlots(grp) \in SUBSET Slot
    BY DEF HealthySlots
  <2>2. PICK k \in HealthySlots(grp) :
          /\ k = elect_primary(grp)
          /\ \A j \in HealthySlots(grp) :
               election_priority(k) >= election_priority(j)
    <3>1. PICK l \in HealthySlots(grp) : \A j \in HealthySlots(grp) : l <= j
      BY <2>1, LeastSlot
    <3>2. \A j \in HealthySlots(grp) :
            election_priority(l) >= election_priority(j)
      BY <2>1, <3>1, NAssumption DEF Slot, election_priority, MAX_MODULES
    <3> QED BY <3>2 DEF elect_primary, HighestPriority
  <2> QED
    BY <2>1, <2>2, NAssumption DEF Slot, election_priority, MAX_MODULES
<1> QED BY <1>1, PTL

-----------------------------------------------------------------------------
(* Only watched slots are found late: a slot OFFLINE or FAIL_SAFE is not *)
(* timed out again. *)
LEMMA LateAreWatched == Late \subseteq {s \in Slot : Watched(s)}
BY DEF Late, Overdue

(* The engine starts from the configured group, and every call it makes is *)
(* a call of the abstract specification or leaves the group alone. *)
THEOREM EngineImplementsGroup == EngineSpec => ImplementsGroup
<1>1. EngineInit => Init
  BY DEF EngineInit, Init
<1>2. [EngineNext]_vars => [Next]_grp
  <2> SUFFICES ASSUME [EngineNext]_vars PROVE [Next]_grp
    OBVIOUS
  <2>1. CASE UNCHANGED vars
    BY <2>1 DEF vars
  <2>2. CASE Tick
    BY <2>2 DEF Tick
  <2>3. ASSUME NEW s \in Slot, Stop(s) \/ Restart(s)
        PROVE  [Next]_grp
    BY <2>3 DEF Stop, Restart
  <2>4. ASSUME NEW s \in Slot, NEW d \in 0 .. MaxDelay,
               NEW h \in HeartbeatHealth, HeartbeatArrives(s, d, h)
        PROVE  [Next]_grp
    BY <2>4 DEF HeartbeatArrives, Next, ProcessHeartbeat
  <2>5. CASE PollTimeouts
    <3>1. CheckTimeouts(Late)
      BY <2>5 DEF PollTimeouts, CheckTimeouts
    <3> QED BY <3>1, LateAreWatched DEF Next
  <2>6. ASSUME NEW s \in Slot, NEW h \in ReportedHealth, ReportHealth(s, h)
        PROVE  [Next]_grp
    BY <2>6 DEF ReportHealth, Next, SetHealth
  <2>7. ASSUME NEW s \in Replaceable, AddModule(s)
        PROVE  [Next]_grp
    BY <2>7 DEF AddModule, Next, ReplaceModule
  <2>8. CASE CommandFailover
    BY <2>8 DEF CommandFailover, Next, Execute
  <2>9. ASSUME NEW s \in Slot, CommandFailback(s)
        PROVE  [Next]_grp
    BY <2>9 DEF CommandFailback, Next, Failback
  <2>10. CASE CheckSplitBrain
    BY <2>10 DEF CheckSplitBrain, Next, DetectSplitBrain
  <2> QED
    BY <2>1, <2>2, <2>3, <2>4, <2>5, <2>6, <2>7, <2>8, <2>9, <2>10
       DEF EngineNext
<1> QED BY <1>1, <1>2, PTL DEF EngineSpec, ImplementsGroup, Spec

(* So the engine, whatever its timeouts and the network's delays, never *)
(* has two modules in the PRIMARY role in a fail-stop setting. *)
THEOREM EngineOnePrimary == ASSUME FailStop PROVE EngineSpec => []OnePrimary
BY EngineImplementsGroup, OnePrimaryHolds, PTL DEF ImplementsGroup

(* The engine's own fields. *)
Clocks ==
  /\ now \in 0 .. Cap
  /\ heard \in [Slot -> BOOLEAN]
  /\ age \in [Slot -> 0 .. Cap]
  /\ missed \in [Slot -> 0 .. max_missed_heartbeats]
  /\ silent \in [Slot -> 0 .. MaxDelay + 2]
  /\ unchecked \in 0 .. CheckPeriod

LEMMA LimitsAreNaturals ==
  /\ Cap \in Nat /\ MaxDelay \in 0 .. Cap /\ CheckPeriod \in Nat
  /\ max_missed_heartbeats \in Nat \ {0} /\ MaxDelay + 2 \in Nat
BY EngineAssumption DEF Cap, max_missed_heartbeats

LEMMA SaturatedStays ==
  ASSUME NEW limit \in Nat, NEW n \in 0 .. limit
  PROVE  Saturated(n + 1, limit) \in 0 .. limit
BY DEF Saturated

(* Late or repeated heartbeats and clock wraps never leave an age, a *)
(* missed counter or a role out of range. *)
THEOREM EngineTypeCorrect == EngineSpec => []EngineTypeOK
<1>1. EngineInit => Clocks
  BY LimitsAreNaturals DEF EngineInit, Clocks
<1>2. Clocks /\ [EngineNext]_vars => Clocks'
  <2> SUFFICES ASSUME Clocks, [EngineNext]_vars PROVE Clocks'
    OBVIOUS
  <2> USE DEF Clocks
  <2>1. CASE UNCHANGED vars
    BY <2>1 DEF vars
  <2>2. CASE Tick
    <3>1. now' \in 0 .. Cap
      BY <2>2, LimitsAreNaturals, SaturatedStays DEF Tick
    <3>2. age' \in [Slot -> 0 .. Cap]
      BY <2>2, LimitsAreNaturals, SaturatedStays DEF Tick
    <3>3. silent' \in [Slot -> 0 .. MaxDelay + 2]
      BY <2>2, LimitsAreNaturals, SaturatedStays DEF Tick
    <3>4. unchecked' \in 0 .. CheckPeriod
      BY <2>2, LimitsAreNaturals DEF Tick
    <3> QED BY <2>2, <3>1, <3>2, <3>3, <3>4 DEF Tick
  <2>3. ASSUME NEW s \in Slot, Stop(s) \/ Restart(s)
        PROVE  Clocks'
    BY <2>3, LimitsAreNaturals, EngineAssumption
       DEF Stop, Restart, engineVars
  <2>4. ASSUME NEW s \in Slot, NEW d \in 0 .. MaxDelay,
               NEW h \in HeartbeatHealth, HeartbeatArrives(s, d, h)
        PROVE  Clocks'
    <3>1. d \in 0 .. Cap /\ (d < now) \in BOOLEAN
      BY LimitsAreNaturals
    <3> QED BY <2>4, <3>1, LimitsAreNaturals DEF HeartbeatArrives, envVars
  <2>5. CASE PollTimeouts
    <3>1. age' \in [Slot -> 0 .. Cap]
      BY <2>5, LimitsAreNaturals DEF PollTimeouts
    <3>2. heard' \in [Slot -> BOOLEAN]
      BY <2>5 DEF PollTimeouts
    <3>3. missed' \in [Slot -> 0 .. max_missed_heartbeats]
      BY <2>5, LimitsAreNaturals, SaturatedStays DEF PollTimeouts
    <3> QED
      BY <2>5, <3>1, <3>2, <3>3, LimitsAreNaturals DEF PollTimeouts
  <2>6. ASSUME NEW s \in Slot, NEW h \in ReportedHealth, ReportHealth(s, h)
        PROVE  Clocks'
    BY <2>6 DEF ReportHealth, engineVars, envVars
  <2>7. ASSUME NEW s \in Replaceable, AddModule(s)
        PROVE  Clocks'
    BY <2>7 DEF AddModule, engineVars, envVars
  <2>8. CASE CommandFailover
    BY <2>8 DEF CommandFailover, engineVars, envVars
  <2>9. ASSUME NEW s \in Slot, CommandFailback(s)
        PROVE  Clocks'
    BY <2>9 DEF CommandFailback, engineVars, envVars
  <2>10. CASE CheckSplitBrain
    BY <2>10 DEF CheckSplitBrain, engineVars, envVars
  <2> QED
    BY <2>1, <2>2, <2>3, <2>4, <2>5, <2>6, <2>7, <2>8, <2>9, <2>10
       DEF EngineNext
<1>3. Clocks /\ TypeOK => EngineTypeOK
  BY DEF Clocks, TypeOK, EngineTypeOK
<1> QED
  BY <1>1, <1>2, <1>3, EngineImplementsGroup, TypeCorrect, PTL
     DEF EngineSpec, ImplementsGroup
-----------------------------------------------------------------------------
(* Version vectors. *)

(* The merged vector goes with the union of the updates of the two. *)
LEMMA MergeHoldsUnion ==
  ASSUME NEW v \in Vector, NEW w \in Vector,
         NEW K, NEW L, Holds(v, K), Holds(w, L)
  PROVE  /\ version_vector_merge(v, w) \in Vector
         /\ Holds(version_vector_merge(v, w), K \cup L)
<1>1. \A i \in Node : v[i] \in 0 .. MaxUpdates /\ w[i] \in 0 .. MaxUpdates
  BY DEF Vector
<1>2. MaxUpdates \in Nat
  BY VectorAssumption
<1>3. version_vector_merge(v, w) \in Vector
  BY <1>1 DEF version_vector_merge, Vector
<1>4. ASSUME NEW u \in Update
      PROVE  (u[2] <= version_vector_merge(v, w)[u[1]])
               <=> (u[2] <= v[u[1]] \/ u[2] <= w[u[1]])
  <2>1. u[1] \in Node /\ u[2] \in Int
    BY <1>2, <1>4 DEF Update
  <2>2. v[u[1]] \in Int /\ w[u[1]] \in Int
    BY <1>1, <1>2, <2>1
  <2>3. version_vector_merge(v, w)[u[1]]
          = IF w[u[1]] > v[u[1]] THEN w[u[1]] ELSE v[u[1]]
    BY <2>1 DEF version_vector_merge
  <2> QED
    BY <2>1, <2>2, <2>3
<1>5. Holds(version_vector_merge(v, w), K \cup L)
  BY <1>4 DEF Holds
<1> QED
  BY <1>3, <1>5

(* A vector is at most another in every component exactly when the updates *)
(* it goes with are among those of the other. *)
LEMMA PointwiseIsInclusion ==
  ASSUME NEW v \in Vector, NEW w \in Vector,
         NEW K, NEW L, Holds(v, K), Holds(w, L)
  PROVE  (\A i \in Node : v[i] <= w[i]) <=> K \subseteq L
<1>1. \A i \in Node : v[i] \in 0 .. MaxUpdates /\ w[i] \in 0 .. MaxUpdates
  BY DEF Vector
<1>2. MaxUpdates \in Nat
  BY VectorAssumption
<1>3. ASSUME \A i \in Node : v[i] <= w[i], NEW u \in K
      PROVE  u \in L
  <2>1. u \in Update /\ u[2] <= v[u[1]]
    BY <1>3 DEF Holds
  <2>2. u[1] \in Node /\ u[2] \in Int
    BY <1>2, <2>1 DEF Update
  <2>3. u[2] <= w[u[1]]
    BY <1>1, <1>2, <1>3, <2>1, <2>2
  <2> QED
    BY <2>1, <2>3 DEF Holds
<1>4. ASSUME K \subseteq L, NEW i \in Node
      PROVE  v[i] <= w[i]
  <2>1. CASE v[i] = 0
    BY <1>1, <1>2, <2>1
  <2>2. CASE v[i] # 0
    <3>1. v[i] \in 1 .. MaxUpdates
      BY <1>1, <1>2, <2>2
    <3> DEFINE u == <<i, v[i]>>
    <3>2. u \in Update /\ u[1] = i /\ u[2] = v[i]
      BY <3>1, <1>4 DEF Update
    <3>3. u[2] <= v[u[1]]
      BY <3>1, <3>2, <1>2
    <3>4. u \in K
      BY <3>2, <3>3 DEF Holds
    <3>5. u[2] <= w[u[1]]
      BY <3>4, <1>4 DEF Holds
    <3> QED
      BY <3>2, <3>5
  <2> QED
    BY <2>1, <2>2
<1> QED
  BY <1>3, <1>4

(* Vectors and the sets of updates keep their types. *)
LEMMA VectorTypeStep == VectorTypeOK /\ VectorsCountUpdates /\ [VectorNext]_vectorVars => VectorTypeOK'
<1> SUFFICES ASSUME VectorTypeOK, VectorsCountUpdates, [VectorNext]_vectorVars
             PROVE  VectorTypeOK'
  OBVIOUS
<1> USE VectorAssumption
<1>1. ASSUME NEW n \in Node, LocalUpdate(n)
      PROVE  VectorTypeOK'
  <2>1. version[n] \in Vector /\ version[n][n] \in 0 .. MaxUpdates - 1
    BY <1>1 DEF VectorTypeOK, LocalUpdate, Vector
  <2>2. version_vector_increment(version[n], n) \in Vector
    BY <2>1 DEF version_vector_increment, Vector
  <2>3. version' \in [Node -> Vector]
    BY <1>1, <2>2 DEF VectorTypeOK, LocalUpdate
  <2>4. <<n, version[n][n] + 1>> \in Update
    BY <2>1 DEF Update
  <2>5. known' \in [Node -> SUBSET Update]
    BY <1>1, <2>4 DEF VectorTypeOK, LocalUpdate
  <2> QED
    BY <1>1, <2>3, <2>5 DEF VectorTypeOK, LocalUpdate
<1>2. ASSUME NEW n \in Node, Send(n)
      PROVE  VectorTypeOK'
  BY <1>2 DEF VectorTypeOK, Send
<1>3. ASSUME NEW n \in Node, NEW m \in wire, Receive(n, m)
      PROVE  VectorTypeOK'
  <2>1. version[n] \in Vector /\ m.version \in Vector /\ m.known \subseteq Update
    BY DEF VectorTypeOK
  <2>2. Holds(version[n], known[n]) /\ Holds(m.version, m.known)
    BY DEF VectorsCountUpdates
  <2>3. version_vector_merge(version[n], m.version) \in Vector
    BY <2>1, <2>2, MergeHoldsUnion
  <2> QED
    BY <1>3, <2>1, <2>3 DEF VectorTypeOK, Receive
<1>4. ASSUME NEW m \in wire, Lose(m)
      PROVE  VectorTypeOK'
  BY <1>4 DEF VectorTypeOK, Lose
<1>5. CASE UNCHANGED vectorVars
  BY <1>5 DEF VectorTypeOK, vectorVars
<1> QED
  BY <1>1, <1>2, <1>3, <1>4, <1>5 DEF VectorNext

(* Every vector keeps saying which updates go with it. *)
LEMMA CountStep == VectorTypeOK /\ VectorsCountUpdates /\ [VectorNext]_vectorVars => VectorsCountUpdates'
<1> SUFFICES ASSUME VectorTypeOK, VectorsCountUpdates, [VectorNext]_vectorVars
             PROVE  VectorsCountUpdates'
  OBVIOUS
<1> USE VectorAssumption
<1>1. ASSUME NEW n \in Node, LocalUpdate(n)
      PROVE  VectorsCountUpdates'
  <2> DEFINE v == version[n]
             w == version_vector_increment(v, n)
             new == <<n, v[n] + 1>>
  <2>1. v \in Vector /\ v[n] \in 0 .. MaxUpdates - 1
    BY <1>1 DEF VectorTypeOK, LocalUpdate, Vector
  <2>2. new \in Update /\ new[1] = n /\ new[2] = v[n] + 1
    BY <2>1 DEF Update
  <2>3. ASSUME NEW u \in Update
        PROVE  (u[2] <= w[u[1]]) <=> (u[2] <= v[u[1]] \/ u = new)
    <3>1. u[1] \in Node /\ u[2] \in Int /\ u = <<u[1], u[2]>>
      BY <2>3 DEF Update
    <3>2. v[u[1]] \in Int
      BY <2>1, <3>1 DEF Vector
    <3>3. w[u[1]] = IF u[1] = n THEN v[n] + 1 ELSE v[u[1]]
      BY <2>1, <3>1 DEF version_vector_increment, Vector
    <3>4. (u = new) <=> (u[1] = n /\ u[2] = v[n] + 1)
      BY <2>2, <3>1
    <3> HIDE DEF v, w, new
    <3> QED
      BY <2>1, <3>1, <3>2, <3>3, <3>4
  <2>4. Holds(v, known[n])
    BY DEF VectorsCountUpdates
  <2>5. Holds(w, known[n] \cup {new})
    BY <2>2, <2>3, <2>4 DEF Holds
  <2>6. /\ version' = [version EXCEPT ![n] = w]
        /\ known' = [known EXCEPT ![n] = @ \cup {new}]
        /\ wire' = wire
    BY <1>1 DEF LocalUpdate
  <2> HIDE DEF v, w, new
  <2>7. \A k \in Node : Holds(version'[k], known'[k])
    BY <2>5, <2>6 DEF VectorsCountUpdates, VectorTypeOK
  <2> QED
    BY <2>6, <2>7 DEF VectorsCountUpdates
<1>2. ASSUME NEW n \in Node, Send(n)
      PROVE  VectorsCountUpdates'
  BY <1>2 DEF VectorsCountUpdates, Send
<1>3. ASSUME NEW n \in Node, NEW m \in wire, Receive(n, m)
      PROVE  VectorsCountUpdates'
  <2>1. version[n] \in Vector /\ m.version \in Vector
    BY DEF VectorTypeOK
  <2>2. Holds(version[n], known[n]) /\ Holds(m.version, m.known)
    BY DEF VectorsCountUpdates
  <2>3. Holds(version_vector_merge(version[n], m.version), known[n] \cup m.known)
    BY <2>1, <2>2, MergeHoldsUnion
  <2>4. \A k \in Node : Holds(version'[k], known'[k])
    BY <1>3, <2>3 DEF Receive, VectorsCountUpdates, VectorTypeOK
  <2> QED
    BY <1>3, <2>4 DEF Receive, VectorsCountUpdates
<1>4. ASSUME NEW m \in wire, Lose(m)
      PROVE  VectorsCountUpdates'
  BY <1>4 DEF VectorsCountUpdates, Lose
<1>5. CASE UNCHANGED vectorVars
  BY <1>5 DEF VectorsCountUpdates, vectorVars
<1> QED
  BY <1>1, <1>2, <1>3, <1>4, <1>5 DEF VectorNext

(* At the start nobody has an update and every vector is zero. *)
LEMMA CountInit == VectorInit => VectorTypeOK /\ VectorsCountUpdates
<1> SUFFICES ASSUME VectorInit PROVE VectorTypeOK /\ VectorsCountUpdates
  OBVIOUS
<1>1. VectorTypeOK
  BY VectorAssumption DEF VectorInit, VectorTypeOK, Vector
<1>2. ASSUME NEW n \in Node PROVE Holds(version[n], known[n])
  BY VectorAssumption DEF VectorInit, Holds, Update
<1>3. VectorsCountUpdates
  BY <1>2 DEF VectorInit, VectorsCountUpdates
<1> QED
  BY <1>1, <1>3

(* Vectors stand for the updates of the state they are sent with, for any *)
(* number of controllers and whatever the network loses, repeats or *)
(* reorders. *)
THEOREM VectorsCount == VectorSpec => [](VectorTypeOK /\ VectorsCountUpdates)
  BY CountInit, VectorTypeStep, CountStep, PTL DEF VectorSpec

(* state_sync_version_vector_compare tells which of two controllers is *)
(* behind. *)
THEOREM CompareCorrect == VectorSpec => []CompareIsInclusion
<1>1. VectorTypeOK /\ VectorsCountUpdates => CompareIsInclusion
  <2> SUFFICES ASSUME VectorTypeOK, VectorsCountUpdates, NEW m \in Node, NEW n \in Node
               PROVE  LET order == version_vector_compare(version[m], version[n]) IN
                      /\ (order = -1) <=> (known[m] \subseteq known[n] /\ known[m] # known[n])
                      /\ (order = 1) <=> (known[n] \subseteq known[m] /\ known[m] # known[n])
    BY DEF CompareIsInclusion
  <2> DEFINE a == version[m]
             b == version[n]
             leq == \A i \in Node : a[i] <= b[i]
             geq == \A i \in Node : b[i] <= a[i]
  <2>1. a \in Vector /\ b \in Vector /\ Holds(a, known[m]) /\ Holds(b, known[n])
    BY DEF VectorTypeOK, VectorsCountUpdates
  <2>2. leq <=> known[m] \subseteq known[n]
    BY <2>1, PointwiseIsInclusion
  <2>3. geq <=> known[n] \subseteq known[m]
    BY <2>1, PointwiseIsInclusion
  <2>4. \A i \in Node : a[i] \in Int /\ b[i] \in Int
    BY <2>1, VectorAssumption DEF Vector
  <2>5. /\ (\E i \in Node : a[i] < b[i]) <=> ~geq
        /\ (\E i \in Node : b[i] < a[i]) <=> ~leq
    BY <2>4
  <2>6. version_vector_compare(a, b)
          = IF leq /\ ~geq THEN -1 ELSE IF geq /\ ~leq THEN 1 ELSE 0
    BY <2>5 DEF version_vector_compare
  <2> HIDE DEF a, b, leq, geq
  <2>7. /\ (version_vector_compare(a, b) = -1) <=> (leq /\ ~geq)
        /\ (version_vector_compare(a, b) = 1) <=> (geq /\ ~leq)
    BY <2>6
  <2> QED
    BY <2>2, <2>3, <2>7 DEF a, b
<1> QED
  BY <1>1, VectorsCount, PTL

-----------------------------------------------------------------------------
(* Transfers. *)

(* No two contents of a region that occurs have the same checksum. *)
NoCollisions ==
  \A r \in Candidates, m \in Memory, n \in Memory :
    Crc(Content(m, r)) = Crc(Content(n, r)) => Content(m, r) = Content(n, r)

(* Two memories agree on the cells of a region when its contents do. *)
LEMMA ContentIsCells ==
  ASSUME NEW r \in Candidates, NEW m \in Memory, NEW n \in Memory
  PROVE  /\ Cells(r) \subseteq Address
         /\ Content(m, r) = Content(n, r) <=> \A a \in Cells(r) : m[a] = n[a]
<1>1. /\ r.base \in Int /\ r.size \in Int /\ MemSize \in Int
      /\ 0 <= r.base /\ 1 <= r.size /\ r.base + r.size <= MemSize
  BY SyncAssumption DEF Address
<1>2. Cells(r) \subseteq Address
  BY <1>1 DEF Cells, Address
<1>3. ASSUME \A a \in Cells(r) : m[a] = n[a]
      PROVE  Content(m, r) = Content(n, r)
  <2>1. \A k \in 1 .. r.size : r.base + k - 1 \in Cells(r)
    BY <1>1 DEF Cells
  <2> QED BY <1>3, <2>1 DEF Content
<1>4. ASSUME Content(m, r) = Content(n, r), NEW a \in Cells(r)
      PROVE  m[a] = n[a]
  <2> DEFINE k == a - r.base + 1
  <2>1. k \in 1 .. r.size /\ r.base + k - 1 = a
    BY <1>1 DEF Cells
  <2>2. Content(m, r)[k] = m[a] /\ Content(n, r)[k] = n[a]
    <3> HIDE DEF k
    <3> QED BY <2>1 DEF Content
  <2> QED BY <1>4, <2>2
<1> QED BY <1>2, <1>3, <1>4

(* What a transfer leaves in the secondary's memory: the regions it went *)
(* through are as in the primary, the rest is as before, although regions *)
(* that overlap change each other between two turns of the loop. *)
LEMMA CopyOfRegions ==
  ASSUME src \in Memory, dst \in Memory, regions \in Seq(Candidates),
         NEW done, done \subseteq DOMAIN regions, NEW compare \in BOOLEAN,
         compare => NoCollisions
  PROVE  CopyOf(done, compare) =
           [a \in Address |-> IF \E i \in done : a \in Cells(regions[i])
                             THEN src[a] ELSE dst[a]]
<1> DEFINE n == Len(regions)
           Turn(i, m) == IF i \in done /\ (compare => Differs(m, regions[i]))
                         THEN Copied(m, regions[i]) ELSE m
           after == CHOOSE f : f = [i \in 0 .. n |->
                      IF i = 0 THEN dst ELSE Turn(i, f[i - 1])]
           Upto(i) == {j \in done : j <= i}
           Memo(i) == [a \in Address |-> IF \E j \in Upto(i) : a \in Cells(regions[j])
                                        THEN src[a] ELSE dst[a]]
<1>1. n \in Nat /\ DOMAIN regions = 1 .. n /\ \A i \in 1 .. n : regions[i] \in Candidates
  OBVIOUS
<1>2. CopyOf(done, compare) = after[n]
  BY DEF CopyOf
<1>3. ASSUME NEW i \in 1 .. n, NEW m \in Memory
      PROVE  Turn(i, m) \in Memory
  BY <1>1 DEF Copied, Memory
<1>4. PICK g \in [0 .. n -> Memory] :
        g[0] = dst /\ \A i \in 1 .. n : g[i] = Turn(i, g[i - 1])
  <2> DEFINE F == [i \in 1 .. n |-> [m \in Memory |-> Turn(i, m)]]
  <2>1. F \in [1 .. n -> [Memory -> Memory]]
    <3> HIDE DEF Turn, n
    <3> QED BY <1>3
  <2> HIDE DEF F, n, Turn
  <2>2. PICK g \in Courses(n, Memory, dst, F) : TRUE
    BY <1>1, <2>1, Iteration
  <2>3. \A i \in 1 .. n : g[i] = Turn(i, g[i - 1])
    <3> TAKE i \in 1 .. n
    <3>1. i - 1 \in 0 .. n
      BY <1>1
    <3>2. g[i] = F[i][g[i - 1]] /\ g[i - 1] \in Memory
      BY <2>2, <3>1 DEF Courses
    <3> QED BY <3>2 DEF F
  <2>4. g \in [0 .. n -> Memory] /\ g[0] = dst
    BY <2>2 DEF Courses
  <2> QED BY <2>3, <2>4
<1>5. after = [i \in 0 .. n |-> IF i = 0 THEN dst ELSE Turn(i, after[i - 1])]
  <2> HIDE DEF Turn, n
  <2>1. g = [i \in 0 .. n |-> IF i = 0 THEN dst ELSE Turn(i, g[i - 1])]
    BY <1>1, <1>4
  <2> QED BY <2>1, Zenon
<1> HIDE DEF after
<1>6. ASSUME NEW i \in 0 .. n - 1, after[i] = Memo(i)
      PROVE  after[i + 1] = Memo(i + 1)
  <2> DEFINE m == Memo(i)
             r == regions[i + 1]
  <2>1. i + 1 \in 1 .. n /\ i + 1 \in 0 .. n /\ (i + 1) - 1 = i /\ i + 1 # 0 /\ r \in Candidates
    BY <1>1
  <2>2. after[i + 1] = Turn(i + 1, m)
    <3> HIDE DEF Turn, Memo, n
    <3> QED BY <1>5, <1>6, <2>1
  <2>3. m \in Memory
    BY DEF Memory
  <2>4. CASE i + 1 \notin done
    <3>1. Upto(i + 1) = Upto(i)
      BY <1>1, <2>4
    <3>2. Turn(i + 1, m) = m
      BY <2>4
    <3> HIDE DEF Upto, Turn
    <3> QED BY <2>2, <3>1, <3>2
  <2>5. CASE i + 1 \in done
    <3>1. Upto(i + 1) = Upto(i) \cup {i + 1}
      BY <1>1, <2>5
    <3>2. Memo(i + 1) = Copied(m, r)
      <4> HIDE DEF n, Upto
      <4> QED BY <3>1 DEF Copied
    <3>3. CASE compare => Differs(m, r)
      BY <2>2, <2>5, <3>2, <3>3
    <3>4. CASE compare /\ ~ Differs(m, r)
      <4>1. Content(src, r) = Content(m, r)
        <5> HIDE DEF m, r
        <5> QED BY <2>1, <2>3, <3>4 DEF NoCollisions, Differs
      <4>2. \A a \in Cells(r) : src[a] = m[a]
        <5> HIDE DEF m, r
        <5> QED BY <2>1, <2>3, <4>1, ContentIsCells
      <4>3. Copied(m, r) = m
        <5> HIDE DEF r
        <5>1. Copied(m, r) \in Memory
          <6> HIDE DEF m
          <6> QED BY <2>3 DEF Copied, Memory
        <5>2. \A a \in Address : Copied(m, r)[a] = m[a]
          <6> HIDE DEF m
          <6> QED BY <4>2 DEF Copied
        <5> HIDE DEF m
        <5> QED BY <2>3, <5>1, <5>2 DEF Memory
      <4>4. Turn(i + 1, m) = m
        BY <3>4
      <4> HIDE DEF Turn, m, r, Memo
      <4> QED BY <2>2, <3>2, <4>3, <4>4 DEF m
    <3> QED BY <3>3, <3>4
  <2> QED BY <2>4, <2>5
<1>7. after[0] = Memo(0)
  <2>1. after[0] = dst
    <3> HIDE DEF Turn, n
    <3> QED BY <1>1, <1>5
  <2>2. Upto(0) = {}
    BY <1>1
  <2>3. Memo(0) = dst
    <3> HIDE DEF Upto
    <3> QED BY <2>2 DEF Memory
  <2> QED BY <2>1, <2>3
<1>8. after[n] = Memo(n)
  <2> DEFINE T == {i \in 0 .. n : after[i] = Memo(i)}
  <2>1. 0 \in T
    <3> HIDE DEF Memo, n
    <3> QED BY <1>1, <1>7
  <2>2. \A k \in 0 .. n - 1 : k \in T => k + 1 \in T
    <3> HIDE DEF Memo, n
    <3> QED BY <1>1, <1>6
  <2>3. 0 .. n \subseteq T
    <3> HIDE DEF T, n
    <3> QED BY <1>1, <2>1, <2>2, SetInduction
  <2> HIDE DEF Memo, n
  <2> QED BY <1>1, <2>3
<1>9. Upto(n) = done
  BY <1>1
<1> QED BY <1>2, <1>8, <1>9

(* What a transfer that looks at some regions does when it goes through *)
(* those of done. *)
WentThrough(done, looked, size) ==
  /\ \A a \in Address : dst'[a] = IF \E i \in done : a \in Cells(regions[i])
                                THEN src[a] ELSE dst[a]
  /\ dst' \in Memory
  /\ dirty' = [i \in DOMAIN regions |-> dirty[i] /\ i \notin done]
  /\ copied' = copied \cup done
  /\ sync' \in SyncState /\ (sync' = "COMPLETE" => done = looked)
  /\ \A i \in done : Fits(regions[i], size)
  /\ UNCHANGED <<src, regions, unmarked>>

(* Every transfer does so. *)
LEMMA TransferEffect ==
  ASSUME SyncTypeOK, NEW looked, looked \subseteq DOMAIN regions,
         NEW compare \in BOOLEAN, NEW size, Transfer(looked, compare, size),
         compare => NoCollisions
  PROVE  \E done \in SUBSET looked : WentThrough(done, looked, size)
<1> DEFINE done == Handled(looked, size)
<1>1. done \subseteq looked /\ \A i \in done : i \in looked /\ Fits(regions[i], size)
  <2>1. \A i \in DOMAIN regions : i <= i
    BY DEF SyncTypeOK
  <2> QED BY <2>1 DEF Handled
<1>2. dst' = CopyOf(done, compare)
  BY DEF Transfer
<1>3. CopyOf(done, compare)
        = [a \in Address |-> IF \E i \in done : a \in Cells(regions[i]) THEN src[a] ELSE dst[a]]
  <2>1. src \in Memory /\ dst \in Memory /\ regions \in Seq(Candidates) /\ done \subseteq DOMAIN regions
    BY <1>1 DEF SyncTypeOK
  <2> HIDE DEF done
  <2> QED BY <2>1, CopyOfRegions
<1>4. /\ dirty' = [i \in DOMAIN regions |-> dirty[i] /\ i \notin done]
      /\ copied' = copied \cup done
      /\ sync' = IF done = looked THEN "COMPLETE" ELSE "FAILED"
      /\ UNCHANGED <<src, regions, unmarked>>
  BY DEF Transfer
<1> HIDE DEF done
<1>5. dst' \in Memory
  BY <1>2, <1>3 DEF Memory, SyncTypeOK
<1> QED BY <1>1, <1>2, <1>3, <1>4, <1>5 DEF SyncState, WentThrough

(* The regions a transfer looks at are registered ones. *)
LEMMA TransfersAre ==
  ASSUME NEW size,
         FullTransfer(size) \/ IncrementalTransfer(size)
           \/ ChecksumTransfer(size) \/ DeltaTransfer(size)
  PROVE  \E looked \in SUBSET DOMAIN regions, compare \in BOOLEAN :
           Transfer(looked, compare, size)
BY DEF FullTransfer, IncrementalTransfer, ChecksumTransfer, DeltaTransfer

(* Memories, flags and positions keep their types. *)
LEMMA SyncTypeStep == ASSUME NoCollisions, SyncTypeOK, [SyncNext]_syncVars PROVE SyncTypeOK'
<1>1. ASSUME NEW r \in Candidates, Register(r) PROVE SyncTypeOK'
  <2>1. /\ regions' \in Seq(Candidates) /\ Len(regions') = Len(regions) + 1
        /\ DOMAIN regions' = DOMAIN regions \cup {Len(regions) + 1}
    BY <1>1 DEF Register, SyncTypeOK
  <2>2. dirty' \in [DOMAIN regions' -> BOOLEAN]
    <3>1. dirty \in Seq(BOOLEAN) /\ Len(dirty) = Len(regions)
      BY DEF SyncTypeOK
    <3>2. dirty' \in Seq(BOOLEAN) /\ Len(dirty') = Len(regions')
      BY <1>1, <2>1, <3>1 DEF Register
    <3> QED BY <2>1, <3>2, LenProperties
  <2>3. /\ Len(regions') <= MaxRegions /\ copied' \subseteq DOMAIN regions'
        /\ UNCHANGED <<src, dst, sync, unmarked>>
    BY <1>1, <2>1, SyncAssumption DEF Register, SyncTypeOK
  <2> QED BY <2>1, <2>2, <2>3 DEF SyncTypeOK
<1>2. ASSUME NEW a \in Address, NEW b \in Byte, Write(a, b) PROVE SyncTypeOK'
  BY <1>2 DEF Write, SyncTypeOK, Memory
<1>3. ASSUME NEW i \in DOMAIN regions, MarkDirty(i) PROVE SyncTypeOK'
  BY <1>3 DEF MarkDirty, SyncTypeOK
<1>4. ASSUME NEW looked \in SUBSET DOMAIN regions, NEW compare \in BOOLEAN, NEW size \in Sizes,
             Transfer(looked, compare, size)
      PROVE  SyncTypeOK'
  <2>1. PICK done \in SUBSET looked : WentThrough(done, looked, size)
    BY <1>4, NoCollisions, TransferEffect
  <2> QED BY <2>1 DEF SyncTypeOK, WentThrough
<1>5. CASE UNCHANGED syncVars
  BY <1>5 DEF syncVars, SyncTypeOK
<1> QED BY <1>1, <1>2, <1>3, <1>4, <1>5, TransfersAre DEF SyncNext

(* Nobody but a transfer lowers a flag, and it lowers only the flags of *)
(* regions that it has made equal. *)
LEMMA CleanStep ==
  ASSUME NoCollisions, SyncTypeOK, CleanMeansCopied, [SyncNext]_syncVars
  PROVE  CleanMeansCopied'
<1> USE DEF CleanMeansCopied
<1>0. \A i \in DOMAIN regions : regions[i] \in Candidates /\ Cells(regions[i]) \subseteq Address
  BY ContentIsCells DEF SyncTypeOK
<1>1. ASSUME NEW r \in Candidates, Register(r) PROVE CleanMeansCopied'
  <2>1. /\ DOMAIN regions \subseteq DOMAIN regions'
        /\ \A i \in DOMAIN regions : regions'[i] = regions[i] /\ dirty'[i] = dirty[i]
    <3>1. dirty \in Seq(BOOLEAN) /\ Len(dirty) = Len(regions)
      BY DEF SyncTypeOK
    <3> QED BY <1>1, <3>1 DEF Register, SyncTypeOK
  <2>2. copied' = copied /\ copied \subseteq DOMAIN regions /\ src' = src /\ dst' = dst /\ unmarked' = unmarked
    BY <1>1 DEF Register, SyncTypeOK
  <2>3. ASSUME NEW i \in copied', NEW a \in Cells(regions'[i]), src'[a] # dst'[a], a \notin unmarked'
        PROVE  \E j \in DOMAIN regions' : dirty'[j] /\ a \in Cells(regions'[j])
    <3>1. i \in copied /\ a \in Cells(regions[i]) /\ src[a] # dst[a] /\ a \notin unmarked
      BY <2>1, <2>2, <2>3
    <3>2. PICK j \in DOMAIN regions : dirty[j] /\ a \in Cells(regions[j])
      BY <3>1
    <3> QED BY <2>1, <3>2
  <2> QED BY <2>3
<1>2. ASSUME NEW a \in Address, NEW b \in Byte, Write(a, b) PROVE CleanMeansCopied'
  <2>1. ASSUME NEW i \in copied, NEW c \in Cells(regions[i]), src'[c] # dst[c], c \notin unmarked'
        PROVE  \E j \in DOMAIN regions : dirty[j] /\ c \in Cells(regions[j])
    <3>1. c \in Address /\ c # a /\ c \notin unmarked
      BY <1>0, <1>2, <2>1 DEF Write, SyncTypeOK
    <3>2. src'[c] = src[c]
      BY <1>2, <3>1 DEF Write, SyncTypeOK, Memory
    <3> QED BY <2>1, <3>1, <3>2
  <2> QED BY <1>2, <2>1 DEF Write
<1>3. ASSUME NEW i \in DOMAIN regions, MarkDirty(i) PROVE CleanMeansCopied'
  BY <1>3 DEF MarkDirty, SyncTypeOK
<1>4. ASSUME NEW looked \in SUBSET DOMAIN regions, NEW compare \in BOOLEAN, NEW size \in Sizes,
             Transfer(looked, compare, size)
      PROVE  CleanMeansCopied'
  <2>1. PICK done \in SUBSET looked : WentThrough(done, looked, size)
    BY <1>4, NoCollisions, TransferEffect
  <2>2. ASSUME NEW i \in copied \cup done, NEW a \in Cells(regions[i]), src[a] # dst'[a], a \notin unmarked
        PROVE  \E j \in DOMAIN regions : dirty'[j] /\ a \in Cells(regions[j])
    <3>1. i \in DOMAIN regions /\ a \in Address
      BY <1>0, <2>2 DEF SyncTypeOK
    <3>2. dst'[a] = dst[a] /\ \A j \in done : a \notin Cells(regions[j])
      BY <2>1, <2>2, <3>1 DEF WentThrough
    <3>3. i \in copied
      BY <2>2, <3>2
    <3>4. PICK j \in DOMAIN regions : dirty[j] /\ a \in Cells(regions[j])
      BY <2>2, <3>2, <3>3
    <3>5. dirty'[j]
      BY <2>1, <3>2, <3>4 DEF WentThrough
    <3> QED BY <3>4, <3>5
  <2> QED BY <2>1, <2>2 DEF WentThrough
<1>5. CASE UNCHANGED syncVars
  BY <1>5 DEF syncVars
<1> QED BY <1>1, <1>2, <1>3, <1>4, <1>5, TransfersAre DEF SyncNext

(* No written byte is forgotten: for every memory, every registered *)
(* regions, overlapping or not, whatever buffers transfers are given and *)
(* wherever they fail, with a checksum that tells contents apart. *)
THEOREM NothingForgotten ==
  ASSUME NoCollisions
  PROVE  SyncSpec => [](SyncTypeOK /\ CleanMeansCopied)
<1>1. SyncInit => SyncTypeOK /\ CleanMeansCopied
  BY SyncAssumption DEF SyncInit, SyncTypeOK, SyncState, CleanMeansCopied
<1>2. SyncTypeOK /\ CleanMeansCopied /\ [SyncNext]_syncVars => (SyncTypeOK /\ CleanMeansCopied)'
  BY NoCollisions, SyncTypeStep, CleanStep
<1> QED BY <1>1, <1>2, PTL DEF SyncSpec

(* A transfer of all regions that reports COMPLETE leaves two controllers *)
(* that state_sync_verify_consistency accepts, under the same assumption *)
(* on the checksum. *)
THEOREM CompleteVerifies == ASSUME NoCollisions PROVE SyncSpec => CompleteTransferVerifies
<1>1. ASSUME SyncTypeOK, NEW size \in Sizes, sync' = "COMPLETE",
             FullTransfer(size) \/ ChecksumTransfer(size) \/ DeltaTransfer(size)
      PROVE  verify_consistency(size)'
  <2>1. PICK compare \in BOOLEAN : Transfer(DOMAIN regions, compare, size)
    BY <1>1 DEF FullTransfer, ChecksumTransfer, DeltaTransfer
  <2>2. /\ \A a \in Address : (\E i \in DOMAIN regions : a \in Cells(regions[i])) => dst'[a] = src[a]
        /\ dst' \in Memory
        /\ \A i \in DOMAIN regions : Fits(regions[i], size)
        /\ src' = src /\ regions' = regions
    <3>1. PICK done \in SUBSET DOMAIN regions : WentThrough(done, DOMAIN regions, size)
      BY <1>1, <2>1, NoCollisions, TransferEffect
    <3> QED BY <1>1, <3>1 DEF WentThrough
  <2>3. ASSUME NEW i \in DOMAIN regions
        PROVE  Content(src, regions[i]) = Content(dst', regions[i])
    <3>1. regions[i] \in Candidates /\ src \in Memory
      BY <1>1 DEF SyncTypeOK
    <3>2. \A a \in Cells(regions[i]) : src[a] = dst'[a]
      BY <2>2, <3>1, ContentIsCells
    <3> QED BY <2>2, <3>1, <3>2, ContentIsCells
  <2>4. \A i \in DOMAIN regions : ~ (Crc(Content(src, regions[i])) # Crc(Content(dst', regions[i])))
    BY <2>3
  <2> QED BY <2>2, <2>4 DEF verify_consistency, Fits, Differs
<1>2. SyncTypeOK /\ [SyncNext]_syncVars =>
        [\A size \in Sizes :
           sync' = "COMPLETE" /\ ~ verify_consistency(size)' =>
             ~ (FullTransfer(size) \/ ChecksumTransfer(size) \/ DeltaTransfer(size))]_syncVars
  BY <1>1
<1> QED BY <1>2, NoCollisions, NothingForgotten, PTL DEF SyncSpec, CompleteTransferVerifies

-----------------------------------------------------------------------------
(* Extremes and numbers of finite sets. *)

(* A finite set of integers has a greatest and a least element. *)
LEMMA ExtremesExist ==
  ASSUME NEW S, S \subseteq Int, S # {}, IsFiniteSet(S)
  PROVE  (\E x \in S : \A y \in S : y <= x) /\ (\E x \in S : \A y \in S : x <= y)
<1> DEFINE Above(s) == \E x \in s : \A y \in s : y <= x
           Below(s) == \E x \in s : \A y \in s : x <= y
           T == {s \in SUBSET S : s = {} \/ (Above(s) /\ Below(s))}
<1>1. {} \in T
  OBVIOUS
<1>2. ASSUME NEW s \in SUBSET S, s # {}, \A x \in s : s \ {x} \in T
      PROVE  s \in T
  <2>1. PICK x \in s : TRUE
    BY <1>2
  <2>2. s \ {x} \in T /\ x \in Int
    BY <1>2, <2>1
  <2>3. CASE s \ {x} = {}
    <3>1. s = {x}
      BY <2>1, <2>3
    <3>2. Above(s) /\ Below(s)
      BY <3>1, <2>2
    <3> QED BY <3>2
  <2>4. CASE s \ {x} # {}
    <3>1. Above(s \ {x}) /\ Below(s \ {x})
      BY <2>2, <2>4
    <3>2. PICK a \in s \ {x} : \A y \in s \ {x} : y <= a
      BY <3>1
    <3>3. PICK b \in s \ {x} : \A y \in s \ {x} : b <= y
      BY <3>1
    <3>4. a \in Int /\ b \in Int /\ a \in s /\ b \in s
      OBVIOUS
    <3>5. Above(s)
      <4>1. CASE x <= a
        <5>1. \A y \in s : y <= a
          BY <3>2, <4>1
        <5> QED BY <5>1, <3>4
      <4>2. CASE ~ x <= a
        <5>1. \A y \in s : y \in Int
          OBVIOUS
        <5>2. \A y \in s : y <= x
          BY <3>2, <3>4, <2>2, <4>2, <5>1
        <5> QED BY <5>2, <2>1
      <4> QED BY <4>1, <4>2
    <3>6. Below(s)
      <4>1. CASE b <= x
        <5>1. \A y \in s : b <= y
          BY <3>3, <4>1
        <5> QED BY <5>1, <3>4
      <4>2. CASE ~ b <= x
        <5>1. \A y \in s : y \in Int
          OBVIOUS
        <5>2. \A y \in s : x <= y
          BY <3>3, <3>4, <2>2, <4>2, <5>1
        <5> QED BY <5>2, <2>1
      <4> QED BY <4>1, <4>2
    <3> QED BY <3>5, <3>6
  <2> QED BY <2>3, <2>4
<1> HIDE DEF T
<1>3. SUBSET S \subseteq T
  BY <1>1, <1>2, SubsetInduction
<1>4. S \in T
  BY <1>3
<1> QED BY <1>4 DEF T

(* What Max and Min choose. *)
LEMMA MaxOfInts ==
  ASSUME NEW S, S \subseteq Int, S # {}, IsFiniteSet(S)
  PROVE  Max(S) \in S /\ Max(S) \in Int /\ \A y \in S : y <= Max(S)
<1>1. \E x \in S : \A y \in S : x >= y
  <2>1. PICK x \in S : \A y \in S : y <= x
    BY ExtremesExist
  <2> QED BY <2>1
<1>2. Max(S) \in S /\ \A y \in S : Max(S) >= y
  BY <1>1 DEF Max
<1> QED BY <1>2

(* The same of the least. *)
LEMMA MinOfInts ==
  ASSUME NEW S, S \subseteq Int, S # {}, IsFiniteSet(S)
  PROVE  Min(S) \in S /\ Min(S) \in Int /\ \A y \in S : Min(S) <= y
<1>1. \E x \in S : \A y \in S : x <= y
  BY ExtremesExist
<1>2. Min(S) \in S /\ \A y \in S : Min(S) <= y
  BY <1>1 DEF Min
<1> QED BY <1>2

(* A part has no more elements, and a smaller part fewer. *)
LEMMA PartCounts ==
  ASSUME NEW S, IsFiniteSet(S), NEW T \in SUBSET S
  PROVE  /\ IsFiniteSet(T) /\ Cardinality(T) \in Nat /\ Cardinality(S) \in Nat
         /\ Cardinality(T) <= Cardinality(S)
         /\ Cardinality(T) = 0 <=> T = {}
         /\ Cardinality(T) = Cardinality(S) => T = S
<1>1. IsFiniteSet(T) /\ Cardinality(T) <= Cardinality(S)
      /\ (Cardinality(T) = Cardinality(S) => T = S)
  BY FS_Subset
<1>2. Cardinality(T) \in Nat /\ Cardinality(S) \in Nat
  BY <1>1, FS_CardinalityType
<1>3. Cardinality(T) = 0 <=> T = {}
  BY <1>1, FS_EmptySet
<1> QED BY <1>1, <1>2, <1>3

(* Taking one element out, or the elements of a part. *)
LEMMA WithoutOne ==
  ASSUME NEW S, IsFiniteSet(S), NEW x \in S
  PROVE  IsFiniteSet(S \ {x}) /\ Cardinality(S \ {x}) = Cardinality(S) - 1
         /\ Cardinality(S) \in Nat
BY FS_RemoveElement, FS_CardinalityType

(* A part with two elements or more has one besides any other. *)
LEMMA OneBesides ==
  ASSUME NEW S, IsFiniteSet(S), NEW A \in SUBSET S, Cardinality(A) >= 2, NEW o
  PROVE  \E x \in A : x # o
<1> SUFFICES ASSUME A \subseteq {o} PROVE FALSE
  OBVIOUS
<1>1. IsFiniteSet({o}) /\ Cardinality({o}) = 1
  BY FS_Singleton
<1>2. Cardinality(A) <= Cardinality({o}) /\ Cardinality(A) \in Nat
  BY <1>1, PartCounts
<1> QED BY <1>1, <1>2

-----------------------------------------------------------------------------
(* Values in ascending order. *)

LowerThan(read, x) == {i \in DOMAIN read : read[i] < x}
UpTo(read, x)      == {i \in DOMAIN read : read[i] <= x}

(* x has rank k among the values read. *)
HasRank(read, k, x) ==
  /\ x \in Range(read)
  /\ Cardinality(LowerThan(read, x)) < k
  /\ k <= Cardinality(UpTo(read, x))

(* There is a value of every rank: the least with enough up to it. *)
LEMMA RankExists ==
  ASSUME NEW S, IsFiniteSet(S), NEW f \in [S -> Int], NEW k \in 1 .. Cardinality(S)
  PROVE  \E x : HasRank(f, k, x)
<1> DEFINE V == Range(f)
           E == {x \in V : k <= Cardinality(UpTo(f, x))}
<1>1. /\ DOMAIN f = S /\ V = {f[i] : i \in S} /\ V \subseteq Int /\ \A i \in S : f[i] \in V
      /\ k \in Nat /\ k > 0 /\ Cardinality(S) \in Nat
  BY FS_CardinalityType DEF Range
<1>2. IsFiniteSet(V)
  <2>1. f = [x \in S |-> f[x]]
    OBVIOUS
  <2>2. IsFiniteSet({f[x] : x \in S})
    BY <2>1, FiniteImage
  <2> QED BY <2>2, <1>1
<1>3. S # {}
  BY <1>1, FS_EmptySet
<1>4. V # {}
  BY <1>1, <1>3
<1> HIDE DEF V
<1>5. \A x : UpTo(f, x) \in SUBSET S /\ LowerThan(f, x) \in SUBSET S
  BY <1>1 DEF UpTo, LowerThan
<1>6. Max(V) \in V /\ Max(V) \in Int /\ \A y \in V : y <= Max(V)
  BY <1>1, <1>2, <1>4, MaxOfInts
<1>7. UpTo(f, Max(V)) = S
  BY <1>1, <1>6 DEF UpTo
<1>8. Max(V) \in E
  BY <1>6, <1>7
<1>9. E \subseteq Int /\ E # {} /\ E \in SUBSET V
  BY <1>1, <1>8
<1>10. IsFiniteSet(E)
  BY <1>9, <1>2, PartCounts
<1> DEFINE x == Min(E)
<1>11. x \in E /\ x \in Int /\ \A y \in E : x <= y
  <2> HIDE DEF E
  <2> QED BY <1>9, <1>10, MinOfInts
<1> HIDE DEF x
<1>12. x \in V /\ k <= Cardinality(UpTo(f, x))
  BY <1>11
<1>13. Cardinality(LowerThan(f, x)) < k
  <2> DEFINE L == LowerThan(f, x)
             W == {f[i] : i \in L}
  <2>1. L \in SUBSET S /\ IsFiniteSet(L) /\ Cardinality(L) \in Nat
    BY <1>5, PartCounts
  <2>2. CASE L = {}
    <3>1. Cardinality(L) = 0
      BY <2>2, FS_EmptySet
    <3> QED BY <3>1, <1>1
  <2>3. CASE L # {}
    <3>1. W \in SUBSET V /\ W \subseteq Int /\ W # {}
      BY <2>1, <2>3, <1>1
    <3>2. IsFiniteSet(W)
      BY <3>1, <1>2, PartCounts
    <3> DEFINE y == Max(W)
    <3>3. y \in W /\ y \in Int /\ \A z \in W : z <= y
      <4> HIDE DEF W
      <4> QED BY <3>1, <3>2, MaxOfInts
    <3> HIDE DEF y
    <3>4. y \in V /\ y < x
      <4>1. PICK i \in L : y = f[i]
        BY <3>3
      <4>2. f[i] < x
        BY <4>1 DEF LowerThan
      <4> QED BY <4>1, <4>2, <3>1, <3>3
    <3>5. UpTo(f, y) = L
      <4>1. ASSUME NEW i \in S PROVE i \in UpTo(f, y) <=> i \in L
        <5>1. f[i] \in Int
          BY <1>1
        <5>2. i \in UpTo(f, y) <=> f[i] <= y
          BY <1>1 DEF UpTo
        <5>3. i \in L <=> f[i] < x
          BY <1>1 DEF LowerThan
        <5>4. i \in L => f[i] <= y
          BY <3>3
        <5> QED BY <5>1, <5>2, <5>3, <5>4, <3>3, <3>4, <1>11
      <4>2. UpTo(f, y) \in SUBSET S /\ L \in SUBSET S
        BY <1>5
      <4> HIDE DEF L
      <4> QED BY <4>1, <4>2
    <3>6. ~ k <= Cardinality(UpTo(f, y))
      <4>1. SUFFICES ASSUME k <= Cardinality(UpTo(f, y)) PROVE FALSE
        OBVIOUS
      <4>2. y \in E
        BY <4>1, <3>4
      <4>3. x <= y
        BY <4>2, <1>11
      <4> QED BY <4>3, <3>4, <3>3, <1>11
    <3> HIDE DEF L
    <3>7. ~ k <= Cardinality(L)
      BY <3>5, <3>6
    <3> QED BY <3>7, <2>1, <1>1 DEF L
  <2> QED BY <2>2, <2>3
<1> QED BY <1>12, <1>13 DEF HasRank, V

(* What the sorted array holds at k. *)
LEMMA RankIs ==
  ASSUME NEW S, IsFiniteSet(S), NEW f \in [S -> Int], NEW k \in 1 .. Cardinality(S)
  PROVE  HasRank(f, k, Ranked(f)[k]) /\ Ranked(f)[k] \in Int
<1> DEFINE r == CHOOSE x \in Range(f) : /\ Cardinality(LowerThan(f, x)) < k
                                        /\ k <= Cardinality(UpTo(f, x))
<1>1. DOMAIN f = S
  OBVIOUS
<1>2. Ranked(f)[k] = r
  BY <1>1 DEF Ranked, LowerThan, UpTo
<1>3. \E x \in Range(f) : Cardinality(LowerThan(f, x)) < k /\ k <= Cardinality(UpTo(f, x))
  BY RankExists DEF HasRank
<1>4. /\ r \in Range(f) /\ Cardinality(LowerThan(f, r)) < k
      /\ k <= Cardinality(UpTo(f, r))
  BY <1>3
<1> HIDE DEF r
<1>5. HasRank(f, k, r)
  BY <1>4 DEF HasRank
<1>6. r \in Int
  BY <1>4, <1>1 DEF Range
<1> QED BY <1>2, <1>5, <1>6

(* k values are not above the k-th, and the rest and it are not below it. *)
LEMMA RankSplits ==
  ASSUME NEW S, IsFiniteSet(S), NEW f \in [S -> Int], NEW k \in 1 .. Cardinality(S),
         NEW x \in Int, HasRank(f, k, x)
  PROVE  /\ {i \in S : f[i] <= x} \in SUBSET S /\ {i \in S : f[i] >= x} \in SUBSET S
         /\ Cardinality({i \in S : f[i] <= x}) >= k
         /\ Cardinality({i \in S : f[i] >= x}) >= Cardinality(S) - k + 1
<1> DEFINE L == {i \in S : f[i] < x}
           A == {i \in S : f[i] >= x}
           B == {i \in S : f[i] <= x}
<1>1. L = LowerThan(f, x) /\ B = UpTo(f, x)
  BY DEF LowerThan, UpTo
<1>2. Cardinality(L) < k /\ k <= Cardinality(B)
  BY <1>1 DEF HasRank
<1>3. \A i \in S : f[i] \in Int
  OBVIOUS
<1>4. L \cup A = S /\ L \cap A = {} /\ L \in SUBSET S /\ A \in SUBSET S
  BY <1>3
<1> HIDE DEF L, A
<1>5. /\ IsFiniteSet(L) /\ IsFiniteSet(A) /\ Cardinality(L) \in Nat /\ Cardinality(A) \in Nat
      /\ Cardinality(S) \in Nat
  BY <1>4, PartCounts
<1>6. Cardinality(L \cup A) = Cardinality(L) + Cardinality(A) - Cardinality(L \cap A)
  BY <1>5, FS_Union
<1>7. Cardinality(L \cap A) = 0
  BY <1>4, FS_EmptySet
<1>8. Cardinality(S) = Cardinality(L) + Cardinality(A)
  BY <1>4, <1>5, <1>6, <1>7
<1>9. Cardinality(A) >= Cardinality(S) - k + 1
  BY <1>2, <1>5, <1>8
<1>10. k \in Int /\ Cardinality(B) >= k
  <2>1. IsFiniteSet(B) /\ Cardinality(B) \in Nat
    BY PartCounts
  <2> QED BY <1>2, <2>1
<1> QED BY <1>4, <1>9, <1>10 DEF A

(* A value that is neither the first nor the last lies between others. *)
LEMMA RankIsBetween ==
  ASSUME NEW S, IsFiniteSet(S), NEW f \in [S -> Int], NEW k \in 2 .. Cardinality(S) - 1,
         NEW x \in Int, HasRank(f, k, x), NEW odd
  PROVE  /\ \E i \in S \ {odd} : f[i] <= x
         /\ \E j \in S \ {odd} : x <= f[j]
<1> DEFINE A == {i \in S : f[i] >= x}
           B == {i \in S : f[i] <= x}
           c == Cardinality(S)
<1>1. c \in Nat
  BY FS_CardinalityType
<1>2. k \in 1 .. c /\ k >= 2 /\ c - k + 1 >= 2
  BY <1>1
<1>3. A \in SUBSET S /\ B \in SUBSET S /\ Cardinality(B) >= k /\ Cardinality(A) >= c - k + 1
  BY <1>2, RankSplits
<1>4. Cardinality(A) \in Nat /\ Cardinality(B) \in Nat
  BY <1>3, PartCounts
<1>5. Cardinality(A) >= 2 /\ Cardinality(B) >= 2
  BY <1>1, <1>2, <1>3, <1>4
<1> HIDE DEF A, B
<1>6. PICK i \in B : i # odd
  BY <1>3, <1>5, OneBesides
<1>7. PICK j \in A : j # odd
  BY <1>3, <1>5, OneBesides
<1> QED BY <1>6, <1>7 DEF A, B

(* The sorted array goes up. *)
LEMMA RanksGoUp ==
  ASSUME NEW S, IsFiniteSet(S), NEW f \in [S -> Int],
         NEW k \in 1 .. Cardinality(S), NEW l \in 1 .. Cardinality(S), k <= l,
         NEW x \in Int, HasRank(f, k, x), NEW y \in Int, HasRank(f, l, y)
  PROVE  x <= y
<1> SUFFICES ASSUME y < x PROVE FALSE
  OBVIOUS
<1>1. DOMAIN f = S /\ \A i \in S : f[i] \in Int
  OBVIOUS
<1>2. UpTo(f, y) \in SUBSET LowerThan(f, x) /\ LowerThan(f, x) \in SUBSET S
  BY <1>1 DEF UpTo, LowerThan
<1>3. IsFiniteSet(LowerThan(f, x)) /\ Cardinality(LowerThan(f, x)) \in Nat
  BY <1>2, PartCounts
<1>4. Cardinality(UpTo(f, y)) <= Cardinality(LowerThan(f, x)) /\ Cardinality(UpTo(f, y)) \in Nat
  BY <1>2, <1>3, PartCounts
<1>5. Cardinality(LowerThan(f, x)) < k /\ l <= Cardinality(UpTo(f, y))
  BY DEF HasRank
<1>6. Cardinality(S) \in Nat /\ k \in Nat /\ l \in Nat
  BY FS_CardinalityType
<1> QED BY <1>3, <1>4, <1>5, <1>6

-----------------------------------------------------------------------------
(* Sums of functions. *)

(* The fold of the library is one of the sums. *)
LEMMA SumFunctionIs ==
  ASSUME NEW S, IsFiniteSet(S), NEW f \in [S -> Int]
  PROVE  \E g : g \in Sums(S, f) /\ SumFunction(f) = g[S]
<1> DEFINE Eq(g) == g = [s \in SUBSET S |->
                           IF s = {} THEN 0
                           ELSE LET x == CHOOSE y \in s : TRUE IN f[x] + g[s \ {x}]]
           iter == CHOOSE g : Eq(g)
<1>1. PICK g : g \in Sums(S, f)
  BY SumsExist
<1>2. Eq(g)
  <2>1. /\ g \in [SUBSET S -> Int]
        /\ \A s \in SUBSET S : g[s] = IF s = {} THEN 0 ELSE f[Picked(s)] + g[s \ {Picked(s)}]
    BY <1>1 DEF Sums
  <2>2. g = [s \in SUBSET S |-> IF s = {} THEN 0 ELSE f[Picked(s)] + g[s \ {Picked(s)}]]
    BY <2>1
  <2> QED BY <2>2, Zenon DEF Picked
<1>3. Eq(iter)
  BY <1>2, Zenon
<1>4. SumFunction(f) = iter[S]
  <2>1. DOMAIN f = S
    OBVIOUS
  <2> QED BY <2>1, Zenon DEF SumFunction, SumFunctionOnSet, FoldFunctionOnSet, MapThenFoldSet
<1>5. iter[S] = g[S]
  <2> DEFINE T == {s \in SUBSET S : iter[s] = g[s]}
  <2>1. ASSUME NEW h, Eq(h), NEW s \in SUBSET S
        PROVE  h[s] = IF s = {} THEN 0 ELSE f[Picked(s)] + h[s \ {Picked(s)}]
    BY <2>1 DEF Picked
  <2>2. {} \in T
    BY <1>2, <1>3, <2>1
  <2>3. ASSUME NEW s \in SUBSET S, s # {}, \A x \in s : s \ {x} \in T
        PROVE  s \in T
    <3>1. Picked(s) \in s
      BY <2>3 DEF Picked
    <3>2. iter[s \ {Picked(s)}] = g[s \ {Picked(s)}]
      BY <2>3, <3>1
    <3>3. /\ iter[s] = f[Picked(s)] + iter[s \ {Picked(s)}]
          /\ g[s] = f[Picked(s)] + g[s \ {Picked(s)}]
      <4> HIDE DEF Eq, iter
      <4> QED BY <1>2, <1>3, <2>1, <2>3
    <3> QED BY <3>2, <3>3
  <2>4. SUBSET S \subseteq T
    <3> HIDE DEF T
    <3> QED BY <2>2, <2>3, SubsetInduction
  <2> QED BY <2>4
<1> QED BY <1>1, <1>4, <1>5

(* A common factor can be taken out. *)
Times(c, f, S) == [x \in S |-> c * f[x]]

(* A sum is scaled by scaling its summands. *)
LEMMA SumsScale ==
  ASSUME NEW S, NEW f, NEW g, IsFiniteSet(S), f \in [S -> Int], g \in Sums(S, f), NEW c \in Int
  PROVE  Times(c, g, SUBSET S) \in Sums(S, Times(c, f, S))
<1> DEFINE h == [s \in SUBSET S |-> c * g[s]]
           e == [x \in S |-> c * f[x]]
<1>1. /\ g \in [SUBSET S -> Int]
      /\ \A s \in SUBSET S : g[s] = IF s = {} THEN 0 ELSE f[Picked(s)] + g[s \ {Picked(s)}]
  BY DEF Sums
<1>2. h \in [SUBSET S -> Int]
  BY <1>1
<1>3. ASSUME NEW s \in SUBSET S
      PROVE  h[s] = IF s = {} THEN 0 ELSE e[Picked(s)] + h[s \ {Picked(s)}]
  <2>1. CASE s = {}
    <3>1. g[s] = 0
      BY <1>1, <2>1
    <3>2. h[s] = c * g[s]
      OBVIOUS
    <3>3. h[s] = 0
      BY <3>1, <3>2
    <3> QED BY <2>1, <3>3
  <2>2. CASE s # {}
    <3>1. Picked(s) \in s
      BY <2>2 DEF Picked
    <3>2. f[Picked(s)] \in Int /\ g[s \ {Picked(s)}] \in Int
      BY <1>1, <3>1
    <3>3. g[s] = f[Picked(s)] + g[s \ {Picked(s)}]
      BY <1>1, <2>2
    <3>4. c * (f[Picked(s)] + g[s \ {Picked(s)}]) = c * f[Picked(s)] + c * g[s \ {Picked(s)}]
      BY <3>2
    <3>5. /\ h[s] = c * g[s] /\ e[Picked(s)] = c * f[Picked(s)]
          /\ h[s \ {Picked(s)}] = c * g[s \ {Picked(s)}]
      BY <3>1
    <3> QED BY <2>2, <3>3, <3>4, <3>5
  <2> QED BY <2>1, <2>2
<1> QED BY <1>2, <1>3 DEF Sums, Times

(* A weighted sum lies between the extremes times the weight. *)
LEMMA WeightedIsBetween ==
  ASSUME NEW S, IsFiniteSet(S), NEW w \in [S -> Nat], NEW x \in [S -> Int],
         NEW lo \in Int, NEW hi \in Int, \A i \in S : lo <= x[i] /\ x[i] <= hi
  PROVE  /\ lo * SumFunction(w) <= SumFunction([i \in S |-> w[i] * x[i]])
         /\ SumFunction([i \in S |-> w[i] * x[i]]) <= hi * SumFunction(w)
         /\ SumFunction(w) \in Int /\ SumFunction([i \in S |-> w[i] * x[i]]) \in Int
<1> DEFINE p == [i \in S |-> w[i] * x[i]]
           a == [i \in S |-> lo * w[i]]
           b == [i \in S |-> hi * w[i]]
<1>1. w \in [S -> Int] /\ p \in [S -> Int] /\ a \in [S -> Int] /\ b \in [S -> Int]
  <2>1. \A i \in S : w[i] \in Int /\ x[i] \in Int
    OBVIOUS
  <2>2. \A i \in S : w[i] * x[i] \in Int /\ lo * w[i] \in Int /\ hi * w[i] \in Int
    BY <2>1
  <2> QED BY <2>1, <2>2
<1>2. \A i \in S : a[i] <= p[i] /\ p[i] <= b[i]
  <2> SUFFICES ASSUME NEW i \in S PROVE a[i] <= p[i] /\ p[i] <= b[i]
    OBVIOUS
  <2>1. w[i] \in Nat /\ x[i] \in Int /\ lo <= x[i] /\ x[i] <= hi
    OBVIOUS
  <2>2. lo * w[i] <= w[i] * x[i] /\ w[i] * x[i] <= hi * w[i]
    BY <2>1
  <2> QED BY <2>2
<1>3. PICK g : g \in Sums(S, w) /\ SumFunction(w) = g[S]
  BY <1>1, SumFunctionIs
<1>4. PICK h : h \in Sums(S, p) /\ SumFunction(p) = h[S]
  <2> HIDE DEF p
  <2> QED BY <1>1, SumFunctionIs
<1>5. /\ [s \in SUBSET S |-> lo * g[s]] \in Sums(S, a)
      /\ [s \in SUBSET S |-> hi * g[s]] \in Sums(S, b)
  <2>1. ASSUME NEW c \in Int
        PROVE  Times(c, g, SUBSET S) \in Sums(S, Times(c, w, S))
    BY <1>1, <1>3, SumsScale
  <2> QED BY <2>1 DEF Times
<1> DEFINE ga == [s \in SUBSET S |-> lo * g[s]]
           gb == [s \in SUBSET S |-> hi * g[s]]
<1>6. ga[S] = lo * g[S] /\ gb[S] = hi * g[S]
  OBVIOUS
<1>7. ga \in Sums(S, a) /\ gb \in Sums(S, b)
  BY <1>5
<1> HIDE DEF p, a, b, ga, gb
<1>8. ga[S] <= h[S]
  BY <1>1, <1>2, <1>4, <1>7, SumsCompare
<1>9. h[S] <= gb[S]
  BY <1>1, <1>2, <1>4, <1>7, SumsCompare
<1>10. g[S] \in Int /\ h[S] \in Int
  BY <1>3, <1>4 DEF Sums
<1>11. /\ lo * SumFunction(w) <= SumFunction(p) /\ SumFunction(p) <= hi * SumFunction(w)
       /\ SumFunction(w) \in Int /\ SumFunction(p) \in Int
  BY <1>3, <1>4, <1>6, <1>8, <1>9, <1>10
<1> QED BY <1>11 DEF p

-----------------------------------------------------------------------------
(* Voters. *)

(* A voter as the calls leave it, whatever it has selected. *)
IsVoter(v) ==
  /\ v = [algorithm |-> v.algorithm, n_inputs |-> v.n_inputs, inputs |-> v.inputs,
          result |-> v.result, selected |-> v.selected, majority_count |-> v.majority_count]
  /\ v.algorithm \in VotingAlgorithms
  /\ v.n_inputs \in 0 .. MaxVoterInputs
  /\ v.inputs \in [VoterSlot -> [value : Signals \cup {0}, valid : BOOLEAN]]
  /\ v.result \in Verdict /\ v.majority_count \in 0 .. MaxVoterInputs

(* What a voter looks at. *)
LEMMA VoterShape ==
  ASSUME NEW v, IsVoter(v)
  PROVE  /\ v.n_inputs \in Nat /\ IsFiniteSet(VoterSlot)
         /\ Looked(v) \in SUBSET VoterSlot /\ Valid(v) \in SUBSET VoterSlot
         /\ Valid(v) \in SUBSET Looked(v)
         /\ IsFiniteSet(Looked(v)) /\ IsFiniteSet(Valid(v))
         /\ Cardinality(Looked(v)) = v.n_inputs
         /\ \A i \in VoterSlot : ValueAt(v, i) \in Int
<1>1. v.n_inputs \in Nat /\ MaxVoterInputs \in Nat /\ v.n_inputs <= MaxVoterInputs
  BY VotingAssumption DEF IsVoter
<1>2. IsFiniteSet(VoterSlot)
  <2>1. 0 \in Int /\ MaxVoterInputs - 1 \in Int
    BY <1>1
  <2> QED BY <2>1, FS_Interval DEF VoterSlot
<1>3. Looked(v) \in SUBSET VoterSlot
  BY <1>1 DEF Looked, VoterSlot
<1>4. Valid(v) \in SUBSET Looked(v)
  BY DEF Valid
<1>5. Cardinality(Looked(v)) = v.n_inputs
  <2>1. 0 \in Int /\ v.n_inputs - 1 \in Int
    BY <1>1
  <2>2. Cardinality(0 .. v.n_inputs - 1)
          = IF 0 > v.n_inputs - 1 THEN 0 ELSE v.n_inputs - 1 - 0 + 1
    BY <2>1, FS_Interval
  <2> QED BY <2>2, <1>1 DEF Looked
<1>6. \A i \in VoterSlot : ValueAt(v, i) \in Int
  BY VotingAssumption DEF IsVoter, ValueAt
<1>7. IsFiniteSet(Looked(v)) /\ IsFiniteSet(Valid(v))
  BY <1>2, <1>3, <1>4, PartCounts
<1> QED BY <1>1, <1>2, <1>3, <1>4, <1>5, <1>6, <1>7

(* The sorted array of what was read. *)
LEMMA RankedRead ==
  ASSUME NEW v, IsVoter(v), NEW S \in SUBSET VoterSlot
  PROVE  /\ IsFiniteSet(S) /\ Cardinality(S) \in Nat
         /\ Read(v, S) \in [S -> Int]
         /\ Len(Ranked(Read(v, S))) = Cardinality(S)
         /\ \A k \in 1 .. Cardinality(S) :
              /\ Ranked(Read(v, S))[k] \in Int
              /\ HasRank(Read(v, S), k, Ranked(Read(v, S))[k])
<1> DEFINE f == Read(v, S)
<1>1. IsFiniteSet(S) /\ Cardinality(S) \in Nat
  BY VoterShape, PartCounts
<1>2. f \in [S -> Int]
  BY VoterShape DEF Read
<1> HIDE DEF f
<1>3. \A k \in 1 .. Cardinality(S) : Ranked(f)[k] \in Int /\ HasRank(f, k, Ranked(f)[k])
  BY <1>1, <1>2, RankIs
<1>4. Ranked(f) = [k \in 1 .. Cardinality(S) |-> Ranked(f)[k]]
  <2>1. DOMAIN f = S
    BY <1>2
  <2> DEFINE e(k) == CHOOSE x \in Range(f) :
                       /\ Cardinality({i \in DOMAIN f : f[i] < x}) < k
                       /\ k <= Cardinality({i \in DOMAIN f : f[i] <= x})
  <2>2. Ranked(f) = [k \in 1 .. Cardinality(S) |-> e(k)]
    BY <2>1 DEF Ranked
  <2> HIDE DEF e
  <2> QED BY <2>2
<1>5. Ranked(f) \in Seq(Int) /\ Len(Ranked(f)) = Cardinality(S)
  BY <1>1, <1>3, <1>4
<1> QED BY <1>1, <1>2, <1>3, <1>5 DEF f

(* A value between those of the inputs in R. *)
Spans(v, R, x) ==
  /\ \E i \in R : ValueAt(v, i) <= x
  /\ \E j \in R : x <= ValueAt(v, j)

(* Neither the first nor the last of the sorted values can be taken out of *)
(* the range of the others by one input. *)
LEMMA RankSpans ==
  ASSUME NEW v, IsVoter(v), NEW S \in SUBSET VoterSlot, NEW odd,
         NEW k \in 2 .. Cardinality(S) - 1, NEW R, S \ {odd} \subseteq R
  PROVE  Ranked(Read(v, S))[k] \in Int /\ Spans(v, R, Ranked(Read(v, S))[k])
<1> DEFINE f == Read(v, S)
           x == Ranked(f)[k]
<1>1. /\ IsFiniteSet(S) /\ Cardinality(S) \in Nat /\ f \in [S -> Int]
      /\ \A l \in 1 .. Cardinality(S) : Ranked(f)[l] \in Int /\ HasRank(f, l, Ranked(f)[l])
  BY RankedRead
<1>2. k \in 1 .. Cardinality(S)
  BY <1>1
<1>3. x \in Int /\ HasRank(f, k, x)
  BY <1>1, <1>2
<1>4. \A i \in S : f[i] = ValueAt(v, i)
  BY DEF Read
<1> HIDE DEF x, f
<1>5. (\E i \in S \ {odd} : f[i] <= x) /\ (\E j \in S \ {odd} : x <= f[j])
  BY <1>1, <1>3, RankIsBetween
<1>6. Spans(v, R, x)
  BY <1>4, <1>5 DEF Spans
<1> QED BY <1>3, <1>6 DEF x, f

(* What such a value, or the mean of two of them, lies within. *)
LEMMA SpansWithin ==
  ASSUME NEW v, IsVoter(v), NEW R \in SUBSET VoterSlot, NEW x \in Int, Spans(v, R, x)
  PROVE  /\ Within(Plain(x), {ValueAt(v, i) : i \in R})
         /\ \A y \in Int : Spans(v, R, y) => Within(Mean(x, y), {ValueAt(v, i) : i \in R})
<1> DEFINE W == {ValueAt(v, i) : i \in R}
<1>1. IsFiniteSet(R) /\ \A i \in R : ValueAt(v, i) \in Int
  BY VoterShape, PartCounts
<1>2. W \subseteq Int /\ W # {} /\ \A i \in R : ValueAt(v, i) \in W
  BY <1>1 DEF Spans
<1>3. IsFiniteSet(W)
  <2> DEFINE f == [i \in R |-> ValueAt(v, i)]
  <2>1. f = [i \in R |-> f[i]] /\ W = {f[i] : i \in R}
    OBVIOUS
  <2> HIDE DEF f, W
  <2> QED BY <1>1, <2>1, FiniteImage
<1> HIDE DEF W
<1>4. /\ Max(W) \in Int /\ (\A y \in W : y <= Max(W))
      /\ Min(W) \in Int /\ (\A y \in W : Min(W) <= y)
  BY <1>2, <1>3, MaxOfInts, MinOfInts
<1>5. ASSUME NEW y \in Int, Spans(v, R, y) PROVE Min(W) <= y /\ y <= Max(W)
  <2>1. PICK i \in R : ValueAt(v, i) <= y
    BY <1>5 DEF Spans
  <2>2. PICK j \in R : y <= ValueAt(v, j)
    BY <1>5 DEF Spans
  <2>3. ValueAt(v, i) \in W /\ ValueAt(v, j) \in W /\ ValueAt(v, i) \in Int
        /\ ValueAt(v, j) \in Int
    BY <1>1, <1>2
  <2>4. Min(W) <= ValueAt(v, i) /\ ValueAt(v, j) <= Max(W)
    BY <1>4, <2>3
  <2> QED BY <1>4, <2>1, <2>2, <2>3, <2>4
<1>6. Min(W) <= x /\ x <= Max(W)
  BY <1>5
<1>7. Within(Plain(x), W)
  BY <1>4, <1>6 DEF Within, Plain
<1>8. ASSUME NEW y \in Int, Spans(v, R, y) PROVE Within(Mean(x, y), W)
  <2>1. Min(W) <= y /\ y <= Max(W)
    BY <1>5, <1>8
  <2> QED BY <1>4, <1>6, <2>1 DEF Within, Mean
<1> QED BY <1>7, <1>8 DEF W

(* The scale of a value is at least one, and that of a vote on several *)
(* values no smaller than that of any of them. *)
LEMMA ScaleIsPositive ==
  ASSUME NEW x \in Int
  PROVE  Magnitude(x) \in Nat /\ ScaleOf(x) \in Nat /\ ScaleOf(x) >= 1
         /\ ScaleOf(x) = IF Magnitude(x) >= 1 THEN Magnitude(x) ELSE 1
<1>1. Magnitude(x) \in Nat /\ Magnitude(x) \in Int /\ 1 \in Int
  BY DEF Magnitude
<1>2. Max({Magnitude(x), 1}) = IF Magnitude(x) >= 1 THEN Magnitude(x) ELSE 1
  BY <1>1, MaxOfTwo
<1> QED BY <1>1, <1>2 DEF ScaleOf

(* What is near on a scale is near on a larger one. *)
LEMMA NearGrows ==
  ASSUME NEW x \in Int, NEW y \in Int, NEW s \in Nat, NEW t \in Nat, s <= t, Near(x, y, s)
  PROVE  Near(x, y, t) /\ Near(y, x, t)
<1>1. Threshold \in Nat
  BY VotingAssumption
<1>2. s * Threshold <= t * Threshold
  BY <1>1, ProductGrows
<1>3. Threshold * s = s * Threshold /\ Threshold * t = t * Threshold
      /\ s * Threshold \in Int /\ t * Threshold \in Int
  BY <1>1
<1>4. Magnitude(x - y) = Magnitude(y - x) /\ Magnitude(x - y) \in Int
  BY DEF Magnitude
<1> QED BY <1>2, <1>3, <1>4 DEF Near

-----------------------------------------------------------------------------
(* 2oo3. *)

(* Two of three that are right outvote the third. *)
LEMMA TwoOfThreeMasks ==
  ASSUME NEW v, IsVoter(v), v.n_inputs >= 3, NEW odd,
         AllAgree(v, Looked(v) \ {odd})
  PROVE  Within(voting_2oo3(v).selected, {ValueAt(v, i) : i \in Looked(v) \ {odd}})
<1> DEFINE R == Looked(v) \ {odd}
           S == 0 .. 2
           f == Read(v, S)
           r == Ranked(f)
           top == Max({Magnitude(r[k]) : k \in 1 .. 3})
           scale == IF top = 0 THEN 1 ELSE top
           W == {ValueAt(v, i) : i \in R}
<1>1. S \in SUBSET VoterSlot /\ S \ {odd} \subseteq R /\ R \in SUBSET VoterSlot
      /\ S \subseteq Looked(v)
  <2>1. v.n_inputs \in Nat /\ Looked(v) \in SUBSET VoterSlot
    BY VoterShape
  <2>2. S \subseteq Looked(v)
    BY <2>1 DEF Looked
  <2> QED BY <2>1, <2>2
<1>2. Cardinality(S) = 3
  <2>1. 0 \in Int /\ 2 \in Int
    OBVIOUS
  <2>2. Cardinality(S) = IF 0 > 2 THEN 0 ELSE 2 - 0 + 1
    BY <2>1, FS_Interval
  <2> QED BY <2>2
<1>3. /\ IsFiniteSet(S) /\ f \in [S -> Int]
      /\ \A k \in 1 .. 3 : r[k] \in Int /\ HasRank(f, k, r[k])
  <2> HIDE DEF S
  <2> QED BY <1>1, <1>2, RankedRead
<1>4. \A i \in VoterSlot : ValueAt(v, i) \in Int
  BY VoterShape
<1>5. \A i \in S : f[i] = ValueAt(v, i)
  BY DEF Read
<1>6. Spans(v, R, r[2])
  <2>1. 2 \in 2 .. Cardinality(S) - 1
    BY <1>2
  <2> HIDE DEF S
  <2> QED BY <1>1, <2>1, RankSpans
<1>7. r[1] <= r[2] /\ r[2] <= r[3]
  <2>1. \A k \in 1 .. 3, l \in 1 .. 3 : k <= l => r[k] <= r[l]
    <3> HIDE DEF S, f, r
    <3> QED BY <1>2, <1>3, RanksGoUp
  <2> QED BY <2>1
<1>8. /\ top \in Nat /\ scale \in Nat /\ scale >= 1
      /\ \A k \in 1 .. 3 : Magnitude(r[k]) <= top
  <2> DEFINE M == {Magnitude(r[k]) : k \in 1 .. 3}
             m == [k \in 1 .. 3 |-> Magnitude(r[k])]
  <2>1. IsFiniteSet(1 .. 3)
    <3>1. 1 \in Int /\ 3 \in Int
      OBVIOUS
    <3> QED BY <3>1, FS_Interval
  <2>2. m = [k \in 1 .. 3 |-> m[k]] /\ M = {m[k] : k \in 1 .. 3}
    OBVIOUS
  <2>3. IsFiniteSet(M)
    <3> HIDE DEF m, M
    <3> QED BY <2>1, <2>2, FiniteImage
  <2>4. \A k \in 1 .. 3 : Magnitude(r[k]) \in Nat /\ Magnitude(r[k]) \in M
    <3> HIDE DEF r
    <3> QED BY <1>3, ScaleIsPositive
  <2>5. M \subseteq Int /\ M \subseteq Nat /\ M # {}
    BY <2>4
  <2>6. Max(M) \in M /\ \A y \in M : y <= Max(M)
    <3> HIDE DEF M
    <3> QED BY <2>3, <2>5, MaxOfInts
  <2>7. top = Max(M)
    OBVIOUS
  <2> HIDE DEF M, top
  <2>8. top \in Nat
    BY <2>5, <2>6, <2>7
  <2>9. \A k \in 1 .. 3 : Magnitude(r[k]) <= top
    BY <2>4, <2>6, <2>7
  <2>10. scale \in Nat /\ scale >= 1
    <3> HIDE DEF r
    <3> QED BY <2>8
  <2> HIDE DEF scale
  <2> QED BY <2>8, <2>9, <2>10
<1> HIDE DEF top
<1>9. ASSUME NEW p \in R, NEW q \in R, NEW k \in 1 .. 3, r[k] = ValueAt(v, p)
      PROVE  Near(ValueAt(v, p), ValueAt(v, q), scale) /\ Near(ValueAt(v, q), ValueAt(v, p), scale)
  <2>1. Near(ValueAt(v, p), ValueAt(v, q), ScaleOf(ValueAt(v, p)))
    BY DEF AllAgree
  <2>2. ValueAt(v, p) \in Int /\ ValueAt(v, q) \in Int
    BY <1>1, <1>4
  <2>3. ScaleOf(ValueAt(v, p)) \in Nat /\ ScaleOf(ValueAt(v, p)) <= scale
    <3>1. Magnitude(ValueAt(v, p)) <= top
      BY <1>8, <1>9
    <3>2. /\ ScaleOf(ValueAt(v, p)) \in Nat /\ Magnitude(ValueAt(v, p)) \in Nat
          /\ ScaleOf(ValueAt(v, p)) = IF Magnitude(ValueAt(v, p)) >= 1
                                      THEN Magnitude(ValueAt(v, p)) ELSE 1
      BY <2>2, ScaleIsPositive
    <3> HIDE DEF R, r
    <3> QED BY <3>1, <3>2, <1>8
  <2> HIDE DEF scale
  <2> QED BY <1>8, <2>1, <2>2, <2>3, NearGrows
<1>10. ASSUME NEW k \in 1 .. 3 PROVE \E i \in S : r[k] = ValueAt(v, i)
  <2>1. HasRank(f, k, r[k])
    BY <1>3
  <2>2. DOMAIN f = S
    BY <1>3
  <2> HIDE DEF f, r, S
  <2> QED BY <1>5, <2>1, <2>2 DEF HasRank, Range
<1> DEFINE near(k) == Near(r[k], r[k + 1], scale)
<1>11. ASSUME ~ Spans(v, R, r[1]) PROVE near(2)
  <2>1. \A i \in R : ValueAt(v, i) > r[1]
    <3>1. PICK j \in R : r[2] <= ValueAt(v, j)
      BY <1>6 DEF Spans
    <3>2. r[1] \in Int /\ r[2] \in Int /\ \A i \in R : ValueAt(v, i) \in Int
      BY <1>1, <1>3, <1>4
    <3> HIDE DEF R, r
    <3>3. r[1] <= ValueAt(v, j)
      BY <1>7, <3>1, <3>2
    <3> QED BY <1>11, <3>2, <3>3 DEF Spans
  <2>2. ASSUME NEW k \in 2 .. 3 PROVE \E i \in R : r[k] = ValueAt(v, i)
    <3>1. PICK i \in S : r[k] = ValueAt(v, i)
      BY <1>10
    <3>2. SUFFICES ASSUME i \notin R PROVE FALSE
      BY <3>1
    <3>3. i = odd
      BY <1>1, <3>2
    <3>4. PICK a \in S : r[1] = ValueAt(v, a)
      BY <1>10
    <3>5. a = odd
      <4>1. ~ ValueAt(v, a) > r[1]
        BY <1>3, <3>4
      <4>2. a \notin R
        BY <2>1, <4>1
      <4> QED BY <1>1, <4>2
    <3>6. r[k] = r[1]
      BY <3>1, <3>3, <3>4, <3>5
    <3>7. UpTo(f, r[k]) \subseteq {odd}
      <4>1. ASSUME NEW j \in S, f[j] <= r[k] PROVE j = odd
        <5>1. f[j] = ValueAt(v, j) /\ f[j] \in Int
          BY <1>3, <1>5
        <5>2. ~ ValueAt(v, j) > r[1]
          <6>1. r[1] \in Int
            BY <1>3
          <6> HIDE DEF r, f
          <6> QED BY <3>6, <4>1, <5>1, <6>1
        <5> QED BY <1>1, <2>1, <5>2
      <4>2. DOMAIN f = S
        BY <1>3
      <4> HIDE DEF f, r, S
      <4> QED BY <4>1, <4>2 DEF UpTo
    <3>8. IsFiniteSet({odd}) /\ Cardinality({odd}) = 1
      BY FS_Singleton
    <3>9. Cardinality(UpTo(f, r[k])) <= 1 /\ Cardinality(UpTo(f, r[k])) \in Nat
      BY <3>7, <3>8, PartCounts
    <3>10. k <= Cardinality(UpTo(f, r[k]))
      <4>1. k \in 1 .. 3
        OBVIOUS
      <4> QED BY <1>3, <4>1 DEF HasRank
    <3> QED BY <3>9, <3>10
  <2>3. PICK p \in R : r[2] = ValueAt(v, p)
    BY <2>2
  <2>4. PICK q \in R : r[3] = ValueAt(v, q)
    BY <2>2
  <2>5. Near(r[2], r[3], scale)
    BY <1>9, <2>3, <2>4
  <2>6. 2 + 1 = 3
    OBVIOUS
  <2> HIDE DEF r, scale
  <2> QED BY <2>5, <2>6
<1>12. ASSUME ~ Spans(v, R, r[3]) PROVE near(1)
  <2>1. \A i \in R : ValueAt(v, i) < r[3]
    <3>1. PICK j \in R : ValueAt(v, j) <= r[2]
      BY <1>6 DEF Spans
    <3>2. r[3] \in Int /\ r[2] \in Int /\ \A i \in R : ValueAt(v, i) \in Int
      BY <1>1, <1>3, <1>4
    <3> HIDE DEF R, r
    <3>3. ValueAt(v, j) <= r[3]
      BY <1>7, <3>1, <3>2
    <3> QED BY <1>12, <3>2, <3>3 DEF Spans
  <2>2. ASSUME NEW k \in 1 .. 2 PROVE \E i \in R : r[k] = ValueAt(v, i)
    <3>1. PICK i \in S : r[k] = ValueAt(v, i)
      BY <1>10
    <3>2. SUFFICES ASSUME i \notin R PROVE FALSE
      BY <3>1
    <3>3. i = odd
      BY <1>1, <3>2
    <3>4. PICK a \in S : r[3] = ValueAt(v, a)
      BY <1>10
    <3>5. a = odd
      <4>1. ~ ValueAt(v, a) < r[3]
        BY <1>3, <3>4
      <4>2. a \notin R
        BY <2>1, <4>1
      <4> QED BY <1>1, <4>2
    <3>6. r[k] = r[3]
      BY <3>1, <3>3, <3>4, <3>5
    <3>7. S \ {odd} \subseteq LowerThan(f, r[k])
      <4>1. ASSUME NEW j \in S, j # odd PROVE f[j] < r[k]
        <5>1. f[j] = ValueAt(v, j) /\ j \in R
          BY <1>1, <1>5, <4>1
        <5> HIDE DEF r, f, R
        <5> QED BY <2>1, <3>6, <5>1
      <4>2. DOMAIN f = S
        BY <1>3
      <4> HIDE DEF f, r, S
      <4> QED BY <4>1, <4>2 DEF LowerThan
    <3>8. Cardinality(S \ {odd}) = 2
      <4>1. odd \in S
        BY <3>3
      <4> HIDE DEF S
      <4>2. Cardinality(S \ {odd}) = Cardinality(S) - 1
        BY <1>3, <4>1, WithoutOne
      <4> QED BY <1>2, <4>2
    <3>9. Cardinality(S \ {odd}) <= Cardinality(LowerThan(f, r[k]))
      <4>1. LowerThan(f, r[k]) \in SUBSET S
        <5>1. DOMAIN f = S
          BY <1>3
        <5> HIDE DEF f, r, S
        <5> QED BY <5>1 DEF LowerThan
      <4> HIDE DEF f, r, S
      <4>2. IsFiniteSet(LowerThan(f, r[k]))
        BY <1>3, <4>1, PartCounts
      <4> QED BY <3>7, <4>2, PartCounts
    <3>10. Cardinality(LowerThan(f, r[k])) < k
      <4>1. k \in 1 .. 3
        OBVIOUS
      <4> QED BY <1>3, <4>1 DEF HasRank
    <3>11. Cardinality(LowerThan(f, r[k])) \in Nat
      <4>1. LowerThan(f, r[k]) \in SUBSET S
        <5>1. DOMAIN f = S
          BY <1>3
        <5> HIDE DEF f, r, S
        <5> QED BY <5>1 DEF LowerThan
      <4> HIDE DEF f, r, S
      <4> QED BY <1>3, <4>1, PartCounts
    <3> QED BY <3>8, <3>9, <3>10, <3>11
  <2>3. PICK p \in R : r[1] = ValueAt(v, p)
    BY <2>2
  <2>4. PICK q \in R : r[2] = ValueAt(v, q)
    BY <2>2
  <2>5. Near(r[1], r[2], scale)
    BY <1>9, <2>3, <2>4
  <2>6. 1 + 1 = 2
    OBVIOUS
  <2> HIDE DEF r, scale
  <2> QED BY <2>5, <2>6
<1>13. Within(Plain(r[2]), W)
  <2>1. r[2] \in Int
    BY <1>3
  <2> HIDE DEF r
  <2> QED BY <1>1, <1>6, <2>1, SpansWithin
<1>14. ASSUME near(1), ~ near(2) PROVE Within(Mean(r[1], r[2]), W)
  <2>1. r[1] \in Int /\ r[2] \in Int /\ Spans(v, R, r[1])
    BY <1>3, <1>11, <1>14
  <2> HIDE DEF r
  <2> QED BY <1>1, <1>6, <2>1, SpansWithin
<1>15. ASSUME ~ near(1), near(2) PROVE Within(Mean(r[2], r[3]), W)
  <2>1. r[2] \in Int /\ r[3] \in Int /\ Spans(v, R, r[3])
    BY <1>3, <1>12, <1>15
  <2> HIDE DEF r
  <2> QED BY <1>1, <1>6, <2>1, SpansWithin
<1>16. voting_2oo3(v) =
         CASE near(1) /\ near(2)   -> Vote("OK", Plain(r[2]))
           [] near(1) /\ ~ near(2) -> Vote("OK", Mean(r[1], r[2]))
           [] ~ near(1) /\ near(2) -> Vote("OK", Mean(r[2], r[3]))
           [] OTHER                -> Vote("DISCREPANCY", Plain(r[2]))
  BY Zenon DEF voting_2oo3, top
<1>17. near(1) \in BOOLEAN /\ near(2) \in BOOLEAN
  BY DEF Near
<1> HIDE DEF near, r, W
<1>18. \A a, b : Vote(a, b).selected = b
  BY DEF Vote
<1>19. Within(voting_2oo3(v).selected, W)
  <2>1. CASE near(1) /\ near(2)
    <3>1. voting_2oo3(v) = Vote("OK", Plain(r[2]))
      BY <1>16, <2>1
    <3> QED BY <3>1, <1>13, <1>18
  <2>2. CASE near(1) /\ ~ near(2)
    <3>1. voting_2oo3(v) = Vote("OK", Mean(r[1], r[2]))
      BY <1>16, <2>2
    <3> QED BY <3>1, <1>14, <1>18, <2>2
  <2>3. CASE ~ near(1) /\ near(2)
    <3>1. voting_2oo3(v) = Vote("OK", Mean(r[2], r[3]))
      BY <1>16, <2>3
    <3> QED BY <3>1, <1>15, <1>18, <2>3
  <2>4. CASE ~ near(1) /\ ~ near(2)
    <3>1. voting_2oo3(v) = Vote("DISCREPANCY", Plain(r[2]))
      BY <1>16, <2>4
    <3> QED BY <3>1, <1>13, <1>18
  <2> QED BY <2>1, <2>2, <2>3, <2>4
<1> QED BY <1>19 DEF W

-----------------------------------------------------------------------------
(* The other algorithms with one odd input. *)

(* Three of four that are right outvote the fourth. *)
LEMMA TwoOfFourMasks ==
  ASSUME NEW v, IsVoter(v), v.n_inputs >= 4, NEW odd
  PROVE  Within(voting_2oo4(v).selected, {ValueAt(v, i) : i \in Looked(v) \ {odd}})
<1> DEFINE R == Looked(v) \ {odd}
           S == 0 .. 3
           r == Ranked(Read(v, S))
<1>1. S \in SUBSET VoterSlot /\ S \ {odd} \subseteq R /\ R \in SUBSET VoterSlot
  <2>1. v.n_inputs \in Nat /\ Looked(v) \in SUBSET VoterSlot
    BY VoterShape
  <2>2. S \subseteq Looked(v)
    BY <2>1 DEF Looked
  <2> QED BY <2>1, <2>2
<1>2. Cardinality(S) = 4
  <2>1. 0 \in Int /\ 3 \in Int
    OBVIOUS
  <2>2. Cardinality(S) = IF 0 > 3 THEN 0 ELSE 3 - 0 + 1
    BY <2>1, FS_Interval
  <2> QED BY <2>2
<1>3. \A k \in 2 .. 3 : r[k] \in Int /\ Spans(v, R, r[k])
  <2>1. \A k \in 2 .. 3 : k \in 2 .. Cardinality(S) - 1
    BY <1>2
  <2> HIDE DEF S, R
  <2> QED BY <1>1, <2>1, RankSpans
<1>4. r[2] \in Int /\ r[3] \in Int /\ Spans(v, R, r[2]) /\ Spans(v, R, r[3])
  BY <1>3
<1>5. voting_2oo4(v).selected = Mean(r[2], r[3])
  BY DEF voting_2oo4, Vote
<1> HIDE DEF r, R
<1>6. Within(Mean(r[2], r[3]), {ValueAt(v, i) : i \in R})
  BY <1>1, <1>4, SpansWithin
<1> QED BY <1>5, <1>6 DEF R

(* The median and the middle values, when all inputs are valid. *)
LEMMA MiddleMasks ==
  ASSUME NEW v, IsVoter(v), v.n_inputs >= 3, NEW odd, Looked(v) = Valid(v)
  PROVE  /\ Within(voting_median(v).selected, {ValueAt(v, i) : i \in Looked(v) \ {odd}})
         /\ Within(voting_midvalue(v).selected, {ValueAt(v, i) : i \in Looked(v) \ {odd}})
<1> DEFINE S == Valid(v)
           R == Looked(v) \ {odd}
           r == Ranked(Read(v, S))
           n == v.n_inputs
           h == n \div 2
           W == {ValueAt(v, i) : i \in R}
<1>1. /\ n \in Nat /\ S \in SUBSET VoterSlot /\ R \in SUBSET VoterSlot
      /\ Cardinality(S) = n /\ IsFiniteSet(S) /\ S \ {odd} \subseteq R
  BY VoterShape
<1>2. S # {}
  <2>1. Cardinality({}) = 0
    BY FS_EmptySet
  <2> HIDE DEF S
  <2> QED BY <1>1, <2>1
<1>3. Len(r) = n
  <2> HIDE DEF S
  <2> QED BY <1>1, RankedRead
<1>4. h + 1 \in 2 .. n - 1 /\ h \in Nat
  <2> HIDE DEF S, R, r
  <2> QED BY <1>1
<1>5. n % 2 # 1 => h \in 2 .. n - 1
  <2> HIDE DEF S, R, r
  <2> QED BY <1>1
<1>6. ASSUME NEW k \in 2 .. n - 1 PROVE r[k] \in Int /\ Spans(v, R, r[k])
  <2>1. k \in 2 .. Cardinality(S) - 1
    BY <1>1
  <2> HIDE DEF S, R
  <2> QED BY <1>1, <2>1, RankSpans
<1>7. r[h + 1] \in Int /\ Spans(v, R, r[h + 1])
  <2> HIDE DEF r, h, R
  <2> QED BY <1>4, <1>6
<1>8. Within(Plain(r[h + 1]), W)
  <2> HIDE DEF r, h, R
  <2> QED BY <1>1, <1>7, SpansWithin
<1>9. n % 2 # 1 => Within(Mean(r[h], r[h + 1]), W)
  <2> SUFFICES ASSUME n % 2 # 1 PROVE Within(Mean(r[h], r[h + 1]), W)
    OBVIOUS
  <2>1. r[h] \in Int /\ Spans(v, R, r[h])
    <3> HIDE DEF r, h, R
    <3> QED BY <1>5, <1>6
  <2> HIDE DEF r, h, R
  <2> QED BY <1>1, <1>7, <2>1, SpansWithin
<1>10. voting_median(v) = Vote("OK", Plain(r[h + 1]))
  <2>1. MedianOf(v) = r[h + 1]
    BY <1>3 DEF MedianOf
  <2> QED BY <1>2, <2>1 DEF voting_median
<1>11. voting_midvalue(v) = IF n % 2 = 1 THEN Vote("OK", Plain(r[h + 1]))
                            ELSE Vote("OK", Mean(r[h], r[h + 1]))
  <2> DEFINE m == Len(r)
             H == m \div 2
  <2>1. voting_midvalue(v) =
          CASE S = {} -> Insufficient(v)
            [] m % 2 = 1 -> Vote("OK", Plain(r[H + 1]))
            [] OTHER -> Vote("OK", Mean(r[H], r[H + 1]))
    BY Zenon DEF voting_midvalue
  <2>2. m = n /\ H = h
    BY <1>3
  <2> HIDE DEF r, m, H, h, S
  <2> QED BY <1>2, <2>1, <2>2
<1>12. \A a, b : Vote(a, b).selected = b
  BY DEF Vote
<1> HIDE DEF r, h, W
<1>13. Within(voting_median(v).selected, W)
  BY <1>8, <1>10, <1>12
<1>14. Within(voting_midvalue(v).selected, W)
  <2>1. CASE n % 2 = 1
    BY <2>1, <1>8, <1>11, <1>12
  <2>2. CASE n % 2 # 1
    <3>1. voting_midvalue(v) = Vote("OK", Mean(r[h], r[h + 1]))
      BY <1>11, <2>2
    <3> QED BY <3>1, <1>9, <1>12, <2>2
  <2> QED BY <2>1, <2>2
<1> QED BY <1>13, <1>14 DEF W

-----------------------------------------------------------------------------
(* Agreement. *)

(* The input the Byzantine voter believes has the most support. *)
BestOf(v) ==
  LET most == Max({Support(v, i) : i \in Valid(v)})
  IN  Min({i \in Valid(v) : Support(v, i) = most})

(* The input the majority settles on has the most support. *)
LEMMA MostSupported ==
  ASSUME NEW v, IsVoter(v), Valid(v) # {}
  PROVE  /\ BestOf(v) \in Valid(v)
         /\ Support(v, BestOf(v)) = Max({Support(v, i) : i \in Valid(v)})
         /\ Support(v, BestOf(v)) \in Nat
         /\ \A i \in Valid(v) : Support(v, i) <= Support(v, BestOf(v))
<1> DEFINE S == Valid(v)
           W == {Support(v, i) : i \in S}
           T == {i \in S : Support(v, i) = Max(W)}
<1>1. IsFiniteSet(S) /\ S \subseteq Int
  BY VoterShape DEF VoterSlot
<1>2. \A i \in S : Support(v, i) \in Nat
  <2>1. \A i \in S : Agreeing(v, ValueAt(v, i)) \in SUBSET S
    BY DEF Agreeing
  <2> HIDE DEF S
  <2> QED BY <1>1, <2>1, PartCounts DEF Support
<1>3. W \subseteq Nat /\ W \subseteq Int /\ W # {}
  BY <1>2
<1>4. IsFiniteSet(W)
  <2> DEFINE f == [i \in S |-> Support(v, i)]
  <2>1. f = [i \in S |-> f[i]] /\ W = {f[i] : i \in S}
    OBVIOUS
  <2> HIDE DEF f, W, S
  <2> QED BY <1>1, <2>1, FiniteImage
<1>5. Max(W) \in W /\ \A y \in W : y <= Max(W)
  <2> HIDE DEF W
  <2> QED BY <1>3, <1>4, MaxOfInts
<1>6. T \in SUBSET S /\ T # {} /\ T \subseteq Int
  BY <1>1, <1>5
<1>7. IsFiniteSet(T)
  <2> HIDE DEF T, S
  <2> QED BY <1>1, <1>6, PartCounts
<1>8. Min(T) \in T
  <2> HIDE DEF T
  <2> QED BY <1>6, <1>7, MinOfInts
<1>9. BestOf(v) = Min(T)
  BY DEF BestOf
<1>10. Min(T) \in S /\ Support(v, Min(T)) = Max(W)
  BY <1>8
<1> QED BY <1>2, <1>5, <1>9, <1>10

(* What the Byzantine voter returns. *)
LEMMA ByzantineIs ==
  ASSUME NEW v, IsVoter(v), v.n_inputs >= 3, Valid(v) # {}
  PROVE  voting_byzantine_resilient(v) =
           Vote(IF Support(v, BestOf(v)) < v.n_inputs - Tolerated(v.n_inputs)
                THEN "BYZANTINE_FAULT" ELSE "OK",
                Plain(ValueAt(v, BestOf(v))))
<1>1. v.n_inputs \in Nat
  BY VoterShape
<1> DEFINE most == Max({Support(v, i) : i \in Valid(v)})
<1>2. Support(v, BestOf(v)) = most
  BY MostSupported
<1>3. voting_byzantine_resilient(v) =
        IF v.n_inputs < 3 \/ Valid(v) = {} THEN Insufficient(v)
        ELSE Vote(IF most < v.n_inputs - Tolerated(v.n_inputs) THEN "BYZANTINE_FAULT" ELSE "OK",
                  Plain(ValueAt(v, BestOf(v))))
  BY Zenon DEF voting_byzantine_resilient, BestOf
<1> HIDE DEF most
<1> QED BY <1>1, <1>2, <1>3

(* With four inputs or more, one of them odd: the vote is accepted, and *)
(* two others are near the value. *)
LEMMA ByzantineMasks ==
  ASSUME NEW v, IsVoter(v), v.n_inputs >= 4, NEW odd \in Looked(v), Looked(v) = Valid(v),
         AllAgree(v, Looked(v) \ {odd})
  PROVE  LET vote == voting_byzantine_resilient(v)
             rest == Looked(v) \ {odd} IN
         /\ vote.verdict = "OK"
         /\ Cardinality({i \in rest : Near(ValueAt(v, i), vote.selected[1],
                                           ScaleOf(vote.selected[1]))}) >= 2
<1> DEFINE S == Looked(v)
           R == S \ {odd}
           n == v.n_inputs
           b == BestOf(v)
           A == Agreeing(v, ValueAt(v, b))
           B == {i \in R : Near(ValueAt(v, i), ValueAt(v, b), ScaleOf(ValueAt(v, b)))}
<1>1. n \in Nat /\ IsFiniteSet(S) /\ Cardinality(S) = n /\ S \subseteq VoterSlot
  BY VoterShape
<1>2. Cardinality(R) = n - 1 /\ IsFiniteSet(R)
  <2>1. odd \in S
    OBVIOUS
  <2> HIDE DEF S
  <2> QED BY <1>1, <2>1, WithoutOne
<1>3. PICK i \in R : TRUE
  <2>1. Cardinality({}) = 0
    BY FS_EmptySet
  <2> HIDE DEF R
  <2> QED BY <1>1, <1>2, <2>1
<1>4. R \subseteq Agreeing(v, ValueAt(v, i)) /\ Agreeing(v, ValueAt(v, i)) \subseteq S
  <2>1. ASSUME NEW j \in R PROVE Near(ValueAt(v, j), ValueAt(v, i), ScaleOf(ValueAt(v, i)))
    <3>1. Near(ValueAt(v, i), ValueAt(v, j), ScaleOf(ValueAt(v, i)))
      BY DEF AllAgree
    <3>2. ValueAt(v, i) \in Int /\ ValueAt(v, j) \in Int
      BY <1>1, VoterShape
    <3>3. ScaleOf(ValueAt(v, i)) \in Nat /\ ScaleOf(ValueAt(v, i)) <= ScaleOf(ValueAt(v, i))
      BY <3>2, ScaleIsPositive
    <3> QED BY <3>1, <3>2, <3>3, NearGrows
  <2> QED BY <2>1 DEF Agreeing
<1>5. Support(v, i) >= n - 1
  <2>1. IsFiniteSet(Agreeing(v, ValueAt(v, i))) /\ Cardinality(Agreeing(v, ValueAt(v, i))) \in Nat
    <3> HIDE DEF S
    <3> QED BY <1>1, <1>4, PartCounts
  <2>2. Cardinality(R) <= Cardinality(Agreeing(v, ValueAt(v, i)))
    <3> HIDE DEF R
    <3> QED BY <1>4, <2>1, PartCounts
  <2> HIDE DEF R
  <2> QED BY <1>1, <1>2, <2>1, <2>2 DEF Support
<1>6. /\ b \in S /\ Support(v, b) \in Nat /\ Support(v, i) <= Support(v, b)
      /\ Valid(v) # {}
  <2>1. Valid(v) # {}
    BY <1>3
  <2> QED BY <1>3, <2>1, MostSupported
<1> HIDE DEF b
<1>7. Support(v, b) >= n - 1
  <2>1. Support(v, i) \in Nat
    <3>1. IsFiniteSet(Agreeing(v, ValueAt(v, i)))
      <4> HIDE DEF S
      <4> QED BY <1>1, <1>4, PartCounts
    <3> QED BY <3>1, FS_CardinalityType DEF Support
  <2> QED BY <1>1, <1>5, <1>6, <2>1
<1>8. ~ Support(v, b) < n - Tolerated(n)
  <2>1. Tolerated(n) >= 1 /\ Tolerated(n) \in Nat
    BY <1>1 DEF Tolerated
  <2> QED BY <1>1, <1>6, <1>7, <2>1
<1>9. voting_byzantine_resilient(v) = Vote("OK", Plain(ValueAt(v, b)))
  <2>1. n >= 3
    BY <1>1
  <2> QED BY <1>6, <1>8, <2>1, ByzantineIs DEF b
<1>10. A \in SUBSET S /\ A \ {odd} \subseteq B /\ B \in SUBSET S
  BY DEF Agreeing
<1>11. Cardinality(A) = Support(v, b)
  BY DEF Support
<1> HIDE DEF A, B
<1>12. IsFiniteSet(A) /\ IsFiniteSet(B) /\ Cardinality(B) \in Nat
  <2> HIDE DEF S
  <2> QED BY <1>1, <1>10, PartCounts
<1>13. Cardinality(B) >= 2
  <2>1. Cardinality(A \ {odd}) \in Nat /\ Cardinality(A \ {odd}) >= Cardinality(A) - 1
    <3>1. CASE odd \in A
      <4>1. Cardinality(A \ {odd}) = Cardinality(A) - 1 /\ IsFiniteSet(A \ {odd})
        BY <1>12, <3>1, WithoutOne
      <4>2. Cardinality(A \ {odd}) \in Nat
        BY <4>1, FS_CardinalityType
      <4> QED BY <4>1, <4>2
    <3>2. CASE odd \notin A
      <4>1. A \ {odd} = A
        BY <3>2
      <4>2. Cardinality(A) \in Nat
        BY <1>12, FS_CardinalityType
      <4> QED BY <4>1, <4>2
    <3> QED BY <3>1, <3>2
  <2>2. Cardinality(A \ {odd}) <= Cardinality(B)
    BY <1>10, <1>12, PartCounts
  <2>3. Cardinality(A) \in Nat
    BY <1>12, FS_CardinalityType
  <2> QED BY <1>1, <1>7, <1>11, <1>12, <2>1, <2>2, <2>3
<1>14. /\ Vote("OK", Plain(ValueAt(v, b))).verdict = "OK"
       /\ Vote("OK", Plain(ValueAt(v, b))).selected[1] = ValueAt(v, b)
  BY DEF Vote, Plain
<1>15. /\ voting_byzantine_resilient(v).verdict = "OK"
       /\ voting_byzantine_resilient(v).selected[1] = ValueAt(v, b)
  BY <1>9, <1>14
<1> QED BY <1>13, <1>15 DEF B

-----------------------------------------------------------------------------
(* The properties of the votes. *)

(* One input that strays does not move the vote. *)
LEMMA OneFaultFollows ==
  ASSUME IsVoter(voter)
  PROVE  OneFaultIsMasked
<1> DEFINE v == voter
           vote == VoteOf(v)
<1>1. SUFFICES ASSUME NEW odd \in Looked(v), Looked(v) = Valid(v),
                      AllAgree(v, Looked(v) \ {odd})
               PROVE  /\ \/ v.algorithm \in {"2OO3", "2OO4"}
                            /\ vote.verdict # "INSUFFICIENT_INPUTS"
                         \/ v.algorithm \in {"MEDIAN", "MIDVALUE"} /\ v.n_inputs >= 3
                         => Within(vote.selected, {ValueAt(v, i) : i \in Looked(v) \ {odd}})
                      /\ v.algorithm = "BYZANTINE" /\ v.n_inputs >= 4 =>
                           /\ vote.verdict = "OK"
                           /\ Cardinality({i \in Looked(v) \ {odd} :
                                             Near(ValueAt(v, i), vote.selected[1],
                                                  ScaleOf(vote.selected[1]))}) >= 2
  BY Zenon DEF OneFaultIsMasked
<1>2. v.n_inputs \in Nat
  BY VoterShape
<1>3. Insufficient(v).verdict = "INSUFFICIENT_INPUTS"
  BY DEF Insufficient, Vote
<1>4. CASE v.algorithm = "2OO3"
  <2>1. vote = IF v.n_inputs >= 3 THEN voting_2oo3(v) ELSE Insufficient(v)
    BY <1>4 DEF VoteOf
  <2>2. ASSUME vote.verdict # "INSUFFICIENT_INPUTS" PROVE v.n_inputs >= 3
    BY <1>3, <2>1, <2>2
  <2>3. v.n_inputs >= 3 => Within(voting_2oo3(v).selected, {ValueAt(v, i) : i \in Looked(v) \ {odd}})
    BY <1>1, TwoOfThreeMasks
  <2> HIDE DEF vote
  <2> QED BY <1>4, <2>1, <2>2, <2>3
<1>5. CASE v.algorithm = "2OO4"
  <2>1. vote = IF v.n_inputs >= 4 THEN voting_2oo4(v) ELSE Insufficient(v)
    BY <1>5 DEF VoteOf
  <2>2. ASSUME vote.verdict # "INSUFFICIENT_INPUTS" PROVE v.n_inputs >= 4
    BY <1>3, <2>1, <2>2
  <2>3. v.n_inputs >= 4 => Within(voting_2oo4(v).selected, {ValueAt(v, i) : i \in Looked(v) \ {odd}})
    BY TwoOfFourMasks
  <2> HIDE DEF vote
  <2> QED BY <1>5, <2>1, <2>2, <2>3
<1>6. CASE v.algorithm = "MEDIAN"
  <2>1. vote = voting_median(v)
    BY <1>6 DEF VoteOf
  <2>2. v.n_inputs >= 3 => Within(voting_median(v).selected, {ValueAt(v, i) : i \in Looked(v) \ {odd}})
    BY <1>1, MiddleMasks
  <2> HIDE DEF vote
  <2> QED BY <1>6, <2>1, <2>2
<1>7. CASE v.algorithm = "MIDVALUE"
  <2>1. vote = voting_midvalue(v)
    BY <1>7 DEF VoteOf
  <2>2. v.n_inputs >= 3 => Within(voting_midvalue(v).selected, {ValueAt(v, i) : i \in Looked(v) \ {odd}})
    BY <1>1, MiddleMasks
  <2> HIDE DEF vote
  <2> QED BY <1>7, <2>1, <2>2
<1>8. CASE v.algorithm = "BYZANTINE"
  <2>1. vote = voting_byzantine_resilient(v)
    BY <1>8 DEF VoteOf
  <2>2. v.n_inputs >= 4 =>
          /\ voting_byzantine_resilient(v).verdict = "OK"
          /\ Cardinality({i \in Looked(v) \ {odd} :
                Near(ValueAt(v, i), voting_byzantine_resilient(v).selected[1],
                     ScaleOf(voting_byzantine_resilient(v).selected[1]))}) >= 2
    BY <1>1, ByzantineMasks
  <2> HIDE DEF vote
  <2> QED BY <1>8, <2>1, <2>2
<1> HIDE DEF vote
<1> QED BY <1>4, <1>5, <1>6, <1>7, <1>8

(* A vote accepted has a majority behind it. *)
LEMMA AcceptedFollows ==
  ASSUME IsVoter(voter)
  PROVE  AcceptedIsMajority
<1> DEFINE v == voter
           n == v.n_inputs
           b == BestOf(v)
<1>1. SUFFICES ASSUME v.algorithm = "BYZANTINE", VoteOf(v).verdict = "OK"
               PROVE  voting_has_majority(v)
  BY DEF AcceptedIsMajority
<1>2. voting_byzantine_resilient(v).verdict = "OK"
  BY <1>1 DEF VoteOf
<1>3. n \in Nat
  BY VoterShape
<1>4. n >= 3 /\ Valid(v) # {}
  <2>1. Insufficient(v).verdict # "OK"
    BY DEF Insufficient, Vote
  <2>2. n < 3 \/ Valid(v) = {} => voting_byzantine_resilient(v) = Insufficient(v)
    BY DEF voting_byzantine_resilient
  <2> QED BY <1>2, <1>3, <2>1, <2>2
<1>5. b \in Valid(v) /\ Support(v, b) \in Nat
  BY <1>4, MostSupported
<1>6. ~ Support(v, b) < n - Tolerated(n)
  <2>1. voting_byzantine_resilient(v).verdict =
          IF Support(v, b) < n - Tolerated(n) THEN "BYZANTINE_FAULT" ELSE "OK"
    <3>1. voting_byzantine_resilient(v) =
            Vote(IF Support(v, b) < n - Tolerated(n) THEN "BYZANTINE_FAULT" ELSE "OK",
                 Plain(ValueAt(v, b)))
      BY <1>4, ByzantineIs
    <3> HIDE DEF b
    <3> QED BY <3>1 DEF Vote
  <2> HIDE DEF b
  <2> QED BY <1>2, <2>1
<1> HIDE DEF b
<1>7. Support(v, b) > n \div 2
  BY <1>3, <1>4, <1>5, <1>6 DEF Tolerated
<1> QED BY <1>3, <1>4, <1>5, <1>7 DEF voting_has_majority

-----------------------------------------------------------------------------
(* Invalid inputs. *)

(* Two voters that differ in an invalid input alone. *)
SameVoters(v, w) ==
  /\ w.algorithm = v.algorithm /\ w.n_inputs = v.n_inputs /\ w.selected = v.selected
  /\ Valid(w) = Valid(v)
  /\ \A j \in Valid(v) : ValueAt(w, j) = ValueAt(v, j)

(* Voters that differ in invalid inputs alone give the same vote. *)
LEMMA SameVote ==
  ASSUME NEW v, IsVoter(v), NEW w, SameVoters(v, w), v.algorithm \notin {"2OO3", "2OO4"}
  PROVE  VoteOf(w) = VoteOf(v)
<1> DEFINE S == Valid(v)
<1>1. /\ Valid(w) = S /\ w.n_inputs = v.n_inputs /\ w.algorithm = v.algorithm
      /\ \A j \in S : ValueAt(w, j) = ValueAt(v, j)
  BY DEF SameVoters
<1>2. Insufficient(w) = Insufficient(v)
  BY DEF SameVoters, Insufficient
<1>3. Read(w, S) = Read(v, S)
  BY <1>1 DEF Read
<1>4. MedianOf(w) = MedianOf(v)
  BY <1>1, <1>3 DEF MedianOf
<1>5. voting_median(w) = voting_median(v)
  BY <1>1, <1>2, <1>4 DEF voting_median
<1>6. voting_midvalue(w) = voting_midvalue(v)
  BY <1>1, <1>2, <1>3 DEF voting_midvalue
<1>7. ASSUME NEW ref PROVE Agreeing(w, ref) = Agreeing(v, ref)
  BY <1>1 DEF Agreeing
<1>8. ASSUME NEW weight PROVE Weighted(w, weight) = Weighted(v, weight)
  <2> DEFINE T == Agreeing(v, MedianOf(v))
  <2>1. Agreeing(w, MedianOf(w)) = T /\ T \subseteq S
    BY <1>4, <1>7 DEF Agreeing
  <2>2. [i \in T |-> weight[i] * ValueAt(w, i)] = [i \in T |-> weight[i] * ValueAt(v, i)]
    BY <1>1, <2>1
  <2> HIDE DEF T
  <2>3. Weighted(w, weight) =
          CASE S = {} -> Insufficient(v)
            [] S # {} /\ T = {} -> Vote("DISCREPANCY", Plain(MedianOf(v)))
            [] OTHER  -> Vote("OK", <<SumFunction([i \in T |-> weight[i] * ValueAt(w, i)]),
                                      SumFunction([i \in T |-> weight[i]])>>)
    BY <1>1, <1>2, <1>4, <2>1, Zenon DEF Weighted
  <2>4. Weighted(v, weight) =
          CASE S = {} -> Insufficient(v)
            [] S # {} /\ T = {} -> Vote("DISCREPANCY", Plain(MedianOf(v)))
            [] OTHER  -> Vote("OK", <<SumFunction([i \in T |-> weight[i] * ValueAt(v, i)]),
                                      SumFunction([i \in T |-> weight[i]])>>)
    BY Zenon DEF Weighted, T
  <2> QED BY <2>2, <2>3, <2>4
<1>9. voting_weighted(w) = voting_weighted(v)
      /\ voting_average_with_check(w) = voting_average_with_check(v)
  BY <1>8 DEF voting_weighted, voting_average_with_check
<1>10. {ValueAt(w, i) : i \in S} = {ValueAt(v, i) : i \in S}
  BY <1>1
<1>11. voting_high_select(w) = voting_high_select(v)
       /\ voting_low_select(w) = voting_low_select(v)
  BY <1>1, <1>2, <1>10 DEF voting_high_select, voting_low_select
<1>12. voting_byzantine_resilient(w) = voting_byzantine_resilient(v)
  <2>1. \A i \in S : Support(w, i) = Support(v, i)
    BY <1>1, <1>7 DEF Support
  <2> DEFINE m == Max({Support(v, i) : i \in S})
             b == Min({i \in S : Support(v, i) = m})
  <2>2. {Support(w, i) : i \in S} = {Support(v, i) : i \in S}
    BY <2>1
  <2>3. {i \in S : Support(w, i) = m} = {i \in S : Support(v, i) = m}
    BY <2>1
  <2>4. voting_byzantine_resilient(w) =
          IF v.n_inputs < 3 \/ S = {} THEN Insufficient(v)
          ELSE Vote(IF m < v.n_inputs - Tolerated(v.n_inputs) THEN "BYZANTINE_FAULT" ELSE "OK",
                    Plain(ValueAt(w, b)))
    BY <1>1, <1>2, <2>2, <2>3, Zenon DEF voting_byzantine_resilient
  <2>5. voting_byzantine_resilient(v) =
          IF v.n_inputs < 3 \/ S = {} THEN Insufficient(v)
          ELSE Vote(IF m < v.n_inputs - Tolerated(v.n_inputs) THEN "BYZANTINE_FAULT" ELSE "OK",
                    Plain(ValueAt(v, b)))
    BY Zenon DEF voting_byzantine_resilient
  <2>6. SUFFICES ASSUME S # {} PROVE ValueAt(w, b) = ValueAt(v, b)
    <3> HIDE DEF m, b, S
    <3> QED BY <2>4, <2>5, <2>6
  <2>7. b = BestOf(v)
    BY Zenon DEF BestOf
  <2>8. BestOf(v) \in S
    BY <2>6, MostSupported
  <2> HIDE DEF b
  <2> QED BY <1>1, <2>7, <2>8
<1> QED BY <1>1, <1>2, <1>5, <1>6, <1>9, <1>11, <1>12 DEF VoteOf

(* What is selected from valid inputs lies between them. *)
LEMMA VoteIsWithin ==
  ASSUME NEW v, IsVoter(v), v.algorithm \notin {"2OO3", "2OO4"},
         VoteOf(v).verdict # "INSUFFICIENT_INPUTS"
  PROVE  Within(VoteOf(v).selected, {ValueAt(v, i) : i \in Valid(v)})
<1> DEFINE S == Valid(v)
           W == {ValueAt(v, i) : i \in S}
           r == Ranked(Read(v, S))
           n == Cardinality(S)
           Right(vote) == vote.verdict # "INSUFFICIENT_INPUTS" => Within(vote.selected, W)
<1>1. /\ S \in SUBSET VoterSlot /\ n \in Nat /\ IsFiniteSet(S) /\ Len(r) = n
      /\ \A k \in 1 .. n : r[k] \in Int /\ HasRank(Read(v, S), k, r[k])
      /\ \A i \in S : ValueAt(v, i) \in Int
  <2>1. S \in SUBSET VoterSlot
    BY VoterShape
  <2> HIDE DEF S
  <2> QED BY <2>1, RankedRead, VoterShape
<1>2. S # {} => n > 0
  <2> HIDE DEF S
  <2> QED BY <1>1, PartCounts
<1>3. ASSUME NEW k \in 1 .. n PROVE r[k] \in Int /\ Spans(v, S, r[k])
  <2>1. r[k] \in Range(Read(v, S)) /\ r[k] \in Int
    BY <1>1 DEF HasRank
  <2>2. PICK i \in S : r[k] = ValueAt(v, i)
    BY <2>1 DEF Range, Read
  <2> HIDE DEF r, S
  <2> QED BY <2>1, <2>2 DEF Spans
<1>4. Right(Insufficient(v))
  BY DEF Insufficient, Vote
<1>5. \A a, x : Vote(a, x).selected = x /\ Vote(a, x).verdict = a
  BY DEF Vote
<1>6. ASSUME NEW i \in S PROVE Within(Plain(ValueAt(v, i)), W)
  <2>1. ValueAt(v, i) \in Int /\ Spans(v, S, ValueAt(v, i))
    BY <1>1 DEF Spans
  <2> QED BY <1>1, <2>1, SpansWithin
<1>7. ASSUME S # {} PROVE MedianOf(v) = r[(n \div 2) + 1] /\ Within(Plain(MedianOf(v)), W)
  <2>1. MedianOf(v) = r[(n \div 2) + 1]
    BY <1>1 DEF MedianOf
  <2>2. (n \div 2) + 1 \in 1 .. n
    BY <1>1, <1>2, <1>7
  <2>3. r[(n \div 2) + 1] \in Int /\ Spans(v, S, r[(n \div 2) + 1])
    <3> HIDE DEF r, n, S
    <3> QED BY <1>3, <2>2
  <2>4. MedianOf(v) \in Int /\ Spans(v, S, MedianOf(v))
    BY <2>1, <2>3
  <2> HIDE DEF r, n, S
  <2> QED BY <1>1, <2>1, <2>4, SpansWithin DEF S
<1>8. Right(voting_median(v))
  <2>1. CASE S = {}
    BY <1>4, <2>1 DEF voting_median
  <2>2. CASE S # {}
    <3>1. voting_median(v) = Vote("OK", Plain(MedianOf(v)))
      BY <2>2 DEF voting_median
    <3> HIDE DEF W
    <3> QED BY <1>5, <1>7, <2>2, <3>1
  <2> QED BY <2>1, <2>2
<1>9. Right(voting_midvalue(v))
  <2> DEFINE h == n \div 2
             m == Len(r)
             H == m \div 2
  <2>1. voting_midvalue(v) =
          CASE S = {} -> Insufficient(v)
            [] m % 2 = 1 -> Vote("OK", Plain(r[H + 1]))
            [] OTHER -> Vote("OK", Mean(r[H], r[H + 1]))
    BY Zenon DEF voting_midvalue
  <2>2. m = n /\ H = h
    BY <1>1
  <2>3. voting_midvalue(v) =
          IF S = {} THEN Insufficient(v)
          ELSE IF n % 2 = 1 THEN Vote("OK", Plain(r[h + 1]))
          ELSE Vote("OK", Mean(r[h], r[h + 1]))
    <3>1. S = {} => n % 2 # 1
      <4>1. S = {} => n = 0
        BY FS_EmptySet
      <4> HIDE DEF n
      <4> QED BY <4>1
    <3> HIDE DEF m, H, h, S, r, n
    <3> QED BY <2>1, <2>2, <3>1
  <2>4. CASE S = {}
    BY <1>4, <2>3, <2>4
  <2>5. CASE S # {} /\ n % 2 = 1
    <3>1. voting_midvalue(v) = Vote("OK", Plain(MedianOf(v)))
      BY <1>7, <2>3, <2>5
    <3> HIDE DEF W
    <3> QED BY <1>5, <1>7, <2>5, <3>1
  <2>6. CASE S # {} /\ n % 2 # 1
    <3>1. h \in 1 .. n /\ h + 1 \in 1 .. n
      <4> HIDE DEF n
      <4>1. n \in Nat /\ n > 0 /\ n % 2 # 1
        BY <1>1, <1>2, <2>6
      <4> QED BY <4>1
    <3>2. r[h] \in Int /\ Spans(v, S, r[h]) /\ r[h + 1] \in Int /\ Spans(v, S, r[h + 1])
      <4> HIDE DEF r, h, n, S
      <4> QED BY <1>3, <3>1
    <3>3. Within(Mean(r[h], r[h + 1]), W)
      <4> HIDE DEF r, h, n
      <4> QED BY <1>1, <3>2, SpansWithin
    <3>4. voting_midvalue(v) = Vote("OK", Mean(r[h], r[h + 1]))
      <4> HIDE DEF r, h, n, S
      <4> QED BY <2>3, <2>6
    <3> HIDE DEF W, r, h
    <3> QED BY <1>5, <3>3, <3>4
  <2> QED BY <2>4, <2>5, <2>6
<1>10. ASSUME S # {}
       PROVE  /\ Max(W) \in W /\ Max(W) \in Int /\ (\A y \in W : y <= Max(W))
              /\ Min(W) \in W /\ Min(W) \in Int /\ (\A y \in W : Min(W) <= y)
  <2>1. W \subseteq Int /\ W # {}
    BY <1>1, <1>10
  <2>2. IsFiniteSet(W)
    <3> DEFINE f == [i \in S |-> ValueAt(v, i)]
    <3>1. f = [i \in S |-> f[i]] /\ W = {f[i] : i \in S}
      OBVIOUS
    <3> HIDE DEF f, W, S
    <3> QED BY <1>1, <3>1, FiniteImage
  <2> HIDE DEF W
  <2> QED BY <2>1, <2>2, MaxOfInts, MinOfInts
<1>11. ASSUME NEW weight, \A i \in VoterSlot : weight[i] \in Nat
       PROVE  Right(Weighted(v, weight))
  <2> DEFINE T == Agreeing(v, MedianOf(v))
             w == [i \in T |-> weight[i]]
             x == [i \in T |-> ValueAt(v, i)]
             p == [i \in T |-> w[i] * x[i]]
  <2>1. Weighted(v, weight) =
          CASE S = {} -> Insufficient(v)
            [] S # {} /\ T = {} -> Vote("DISCREPANCY", Plain(MedianOf(v)))
            [] OTHER  -> Vote("OK", <<SumFunction([i \in T |-> weight[i] * ValueAt(v, i)]),
                                      SumFunction([i \in T |-> weight[i]])>>)
    BY Zenon DEF Weighted
  <2>2. T \subseteq S /\ T \subseteq VoterSlot
    BY <1>1 DEF Agreeing
  <2>3. w \in [T -> Nat] /\ x \in [T -> Int]
    BY <1>1, <1>11, <2>2
  <2>4. p = [i \in T |-> weight[i] * ValueAt(v, i)]
    OBVIOUS
  <2>5. CASE S = {}
    BY <1>4, <2>1, <2>5
  <2>6. CASE S # {} /\ T = {}
    <3>1. Weighted(v, weight) = Vote("DISCREPANCY", Plain(MedianOf(v)))
      <4> HIDE DEF T
      <4> QED BY <2>1, <2>6
    <3> HIDE DEF W
    <3> QED BY <1>5, <1>7, <2>6, <3>1
  <2>7. CASE S # {} /\ T # {}
    <3>1. Weighted(v, weight) = Vote("OK", <<SumFunction(p), SumFunction(w)>>)
      <4> HIDE DEF T
      <4> QED BY <2>1, <2>4, <2>7
    <3>2. IsFiniteSet(T)
      <4> HIDE DEF T, S
      <4> QED BY <1>1, <2>2, PartCounts
    <3>3. Max(W) \in Int /\ Min(W) \in Int /\ \A i \in T : Min(W) <= x[i] /\ x[i] <= Max(W)
      <4>1. \A i \in T : x[i] \in W
        BY <2>2
      <4> HIDE DEF x, T, W
      <4> QED BY <1>10, <2>7, <4>1
    <3> HIDE DEF w, x, T, W
    <3>4. /\ Min(W) * SumFunction(w) <= SumFunction(p)
          /\ SumFunction(p) <= Max(W) * SumFunction(w)
      BY <2>3, <3>2, <3>3, WeightedIsBetween
    <3> HIDE DEF p
    <3>5. Within(<<SumFunction(p), SumFunction(w)>>, W)
      BY <3>4 DEF Within
    <3> QED BY <1>5, <3>1, <3>5
  <2> QED BY <2>5, <2>6, <2>7
<1>12. Right(voting_weighted(v)) /\ Right(voting_average_with_check(v))
  <2>1. \A i \in VoterSlot : WeightOf[i] \in Nat
    BY VotingAssumption
  <2>2. \A i \in VoterSlot : [j \in VoterSlot |-> 1][i] \in Nat
    OBVIOUS
  <2> HIDE DEF Right
  <2>3. Right(Weighted(v, WeightOf))
    BY <1>11, <2>1
  <2>4. Right(Weighted(v, [j \in VoterSlot |-> 1]))
    BY <1>11, <2>2
  <2> QED BY <2>3, <2>4 DEF voting_weighted, voting_average_with_check
<1>13. Right(voting_high_select(v)) /\ Right(voting_low_select(v))
  <2>1. CASE S = {}
    <3>1. voting_high_select(v) = Insufficient(v) /\ voting_low_select(v) = Insufficient(v)
      BY <2>1 DEF voting_high_select, voting_low_select
    <3> HIDE DEF Right
    <3> QED BY <1>4, <3>1
  <2>2. CASE S # {}
    <3>1. /\ voting_high_select(v) = Vote("OK", Plain(Max(W)))
          /\ voting_low_select(v) = Vote("OK", Plain(Min(W)))
      BY <2>2 DEF voting_high_select, voting_low_select
    <3>2. PICK i \in S : Max(W) = ValueAt(v, i)
      BY <1>10, <2>2
    <3>3. PICK j \in S : Min(W) = ValueAt(v, j)
      BY <1>10, <2>2
    <3>4. Within(Plain(Max(W)), W) /\ Within(Plain(Min(W)), W)
      BY <1>6, <3>2, <3>3
    <3> HIDE DEF W
    <3> QED BY <1>5, <3>1, <3>4
  <2> QED BY <2>1, <2>2
<1>14. Right(voting_byzantine_resilient(v))
  <2>1. CASE v.n_inputs < 3 \/ S = {}
    <3>1. voting_byzantine_resilient(v) = Insufficient(v)
      BY <2>1 DEF voting_byzantine_resilient
    <3> HIDE DEF Right
    <3> QED BY <1>4, <3>1
  <2>2. CASE ~ (v.n_inputs < 3) /\ S # {}
    <3> DEFINE b == BestOf(v)
               verdict == IF Support(v, b) < v.n_inputs - Tolerated(v.n_inputs)
                          THEN "BYZANTINE_FAULT" ELSE "OK"
    <3>1. v.n_inputs >= 3
      BY <2>2, VoterShape
    <3>2. voting_byzantine_resilient(v) = Vote(verdict, Plain(ValueAt(v, b)))
      BY <2>2, <3>1, ByzantineIs
    <3>3. b \in S
      BY <2>2, MostSupported
    <3> HIDE DEF b, verdict, W
    <3>4. Within(Plain(ValueAt(v, b)), W)
      BY <1>6, <3>3
    <3> QED BY <1>5, <3>2, <3>4
  <2> QED BY <2>1, <2>2
<1> HIDE DEF Right
<1>15. Right(VoteOf(v))
  BY <1>4, <1>8, <1>9, <1>12, <1>13, <1>14 DEF VoteOf
<1> QED BY <1>15 DEF Right

(* An invalid input does not move the vote. *)
LEMMA InvalidFollows ==
  ASSUME IsVoter(voter)
  PROVE  InvalidHasNoVote
<1> DEFINE v == voter
<1>1. SUFFICES ASSUME v.algorithm \notin {"2OO3", "2OO4"}
               PROVE  /\ \A i \in Looked(v) \ Valid(v), x \in Signals :
                           VoteOf([v EXCEPT !.inputs[i].value = x]) = VoteOf(v)
                      /\ VoteOf(v).verdict # "INSUFFICIENT_INPUTS" =>
                           Within(VoteOf(v).selected, {ValueAt(v, i) : i \in Valid(v)})
  BY Zenon DEF InvalidHasNoVote
<1>2. ASSUME NEW i \in Looked(v) \ Valid(v), NEW x \in Signals
      PROVE  VoteOf([v EXCEPT !.inputs[i].value = x]) = VoteOf(v)
  <2> DEFINE w == [v EXCEPT !.inputs[i].value = x]
  <2>1. i \in VoterSlot /\ Looked(v) \subseteq VoterSlot
    BY VoterShape
  <2>2. /\ w.algorithm = v.algorithm /\ w.n_inputs = v.n_inputs /\ w.selected = v.selected
        /\ w.inputs = [v.inputs EXCEPT ![i].value = x]
    BY DEF IsVoter
  <2>3. \A j \in VoterSlot : /\ w.inputs[j].valid = v.inputs[j].valid
                             /\ j # i => w.inputs[j].value = v.inputs[j].value
    <3> HIDE DEF w
    <3> QED BY <2>1, <2>2 DEF IsVoter
  <2> HIDE DEF w
  <2>4. Looked(w) = Looked(v)
    BY <2>2 DEF Looked
  <2>5. Valid(w) = Valid(v)
    BY <2>1, <2>3, <2>4 DEF Valid
  <2>6. \A j \in Valid(v) : ValueAt(w, j) = ValueAt(v, j)
    BY <2>1, <2>3 DEF Valid, ValueAt
  <2>7. SameVoters(v, w)
    BY <2>2, <2>5, <2>6 DEF SameVoters
  <2>8. VoteOf(w) = VoteOf(v)
    BY <1>1, <2>7, SameVote
  <2> QED BY <2>8 DEF w
<1> QED BY <1>1, <1>2, VoteIsWithin

-----------------------------------------------------------------------------
(* The calls. *)

(* The voter starts without inputs. *)
LEMMA VoterStarts ==
  ASSUME voting_init
  PROVE  IsVoter(voter)
<1>1. PICK a \in VotingAlgorithms :
        voter = [algorithm |-> a, n_inputs |-> 0, inputs |-> [i \in VoterSlot |-> Unset],
                 result |-> "OK", selected |-> <<0, 1>>, majority_count |-> 0]
  BY DEF voting_init
<1>2. 0 \in 0 .. MaxVoterInputs
  BY VotingAssumption
<1>3. voter.inputs \in [VoterSlot -> [value : Signals \cup {0}, valid : BOOLEAN]]
  BY <1>1 DEF Unset
<1> QED BY <1>1, <1>2, <1>3 DEF IsVoter, Verdict

(* Every call keeps the shape of the voter. *)
LEMMA VoterStays ==
  ASSUME IsVoter(voter), VoterNext
  PROVE  IsVoter(voter')
<1>1. ASSUME NEW i \in 0 .. WiredInputs[voter.algorithm] - 1, NEW x \in Signals,
             voting_set_input(i, x)
      PROVE  IsVoter(voter')
  <2>1. WiredInputs[voter.algorithm] \in 1 .. MaxVoterInputs /\ MaxVoterInputs \in Nat
    BY VotingAssumption DEF IsVoter
  <2>2. i \in VoterSlot /\ i + 1 \in 0 .. MaxVoterInputs /\ i + 1 \in Int
    BY <2>1 DEF VoterSlot
  <2>3. voter.n_inputs \in 0 .. MaxVoterInputs /\ voter.n_inputs \in Int
    BY DEF IsVoter
  <2>4. Max({voter.n_inputs, i + 1}) \in 0 .. MaxVoterInputs
    BY <2>2, <2>3, MaxOfTwo
  <2>5. voter' = [voter EXCEPT !.inputs = [voter.inputs EXCEPT ![i] = [value |-> x, valid |-> TRUE]],
                               !.n_inputs = Max({voter.n_inputs, i + 1})]
    BY <1>1 DEF voting_set_input, IsVoter
  <2>6. [voter.inputs EXCEPT ![i] = [value |-> x, valid |-> TRUE]]
          \in [VoterSlot -> [value : Signals \cup {0}, valid : BOOLEAN]]
    BY <2>2 DEF IsVoter
  <2> QED BY <2>4, <2>5, <2>6 DEF IsVoter
<1>2. ASSUME NEW i \in 0 .. WiredInputs[voter.algorithm] - 1, voting_invalidate_input(i)
      PROVE  IsVoter(voter')
  <2>1. voter' = [voter EXCEPT !.inputs = [voter.inputs EXCEPT ![i].valid = FALSE]]
    BY <1>2 DEF voting_invalidate_input, IsVoter
  <2>2. [voter.inputs EXCEPT ![i].valid = FALSE]
          \in [VoterSlot -> [value : Signals \cup {0}, valid : BOOLEAN]]
    BY DEF IsVoter
  <2> QED BY <2>1, <2>2 DEF IsVoter
<1>3. ASSUME voting_execute PROVE IsVoter(voter')
  <2> DEFINE vote == VoteOf(voter)
             with == Cardinality(Agreeing(voter, MedianOf(voter)))
             r == IF voter.algorithm = "WEIGHTED" /\ Valid(voter) = {} THEN voter.result
                  ELSE vote.verdict
             c == IF voter.algorithm = "WEIGHTED" /\ vote.verdict = "OK" THEN with
                  ELSE voter.majority_count
  <2>1. voter' = [voter EXCEPT !.result = r, !.selected = vote.selected, !.majority_count = c]
    BY <1>3 DEF voting_execute, IsVoter
  <2>2. vote.verdict \in Verdict
    <3>1. \A s : /\ Vote("OK", s).verdict \in Verdict
                 /\ Vote("DISCREPANCY", s).verdict \in Verdict
                 /\ Vote("BYZANTINE_FAULT", s).verdict \in Verdict
                 /\ Insufficient(voter).verdict \in Verdict
      BY DEF Vote, Insufficient, Verdict
    <3>2. voting_2oo3(voter).verdict \in Verdict
      BY <3>1 DEF voting_2oo3
    <3>3. voting_2oo4(voter).verdict \in Verdict
      BY DEF voting_2oo4, Vote, Verdict
    <3>4. voting_median(voter).verdict \in Verdict
      BY <3>1 DEF voting_median
    <3>5. voting_midvalue(voter).verdict \in Verdict
      BY <3>1 DEF voting_midvalue
    <3>6. \A w : Weighted(voter, w).verdict \in Verdict
      BY <3>1 DEF Weighted
    <3>7. voting_high_select(voter).verdict \in Verdict /\ voting_low_select(voter).verdict \in Verdict
      BY <3>1 DEF voting_high_select, voting_low_select
    <3>8. voting_byzantine_resilient(voter).verdict \in Verdict
      BY <3>1 DEF voting_byzantine_resilient
    <3>9. voting_weighted(voter).verdict \in Verdict
          /\ voting_average_with_check(voter).verdict \in Verdict
      BY <3>6 DEF voting_weighted, voting_average_with_check
    <3> QED BY <3>1, <3>2, <3>3, <3>4, <3>5, <3>7, <3>8, <3>9 DEF VoteOf
  <2>3. with \in 0 .. MaxVoterInputs
    <3> DEFINE A == Agreeing(voter, MedianOf(voter))
    <3>1. A \in SUBSET Looked(voter)
      BY VoterShape DEF Agreeing
    <3>2. IsFiniteSet(Looked(voter)) /\ Cardinality(Looked(voter)) = voter.n_inputs
      BY VoterShape
    <3> HIDE DEF A
    <3>3. Cardinality(A) \in Nat /\ Cardinality(A) <= voter.n_inputs
      BY <3>1, <3>2, PartCounts
    <3>4. voter.n_inputs \in 0 .. MaxVoterInputs /\ MaxVoterInputs \in Nat
      BY VotingAssumption DEF IsVoter
    <3> QED BY <3>3, <3>4 DEF A
  <2>4. r \in Verdict
    <3> HIDE DEF vote
    <3> QED BY <2>2 DEF IsVoter
  <2>5. c \in 0 .. MaxVoterInputs
    <3> HIDE DEF vote, with
    <3> QED BY <2>3 DEF IsVoter
  <2> HIDE DEF r, c, vote
  <2> QED BY <2>1, <2>4, <2>5 DEF IsVoter
<1> QED BY <1>1, <1>2, <1>3 DEF VoterNext

(* What the calls make of a voter is what its type says. *)
LEMMA VoterTypeFollows ==
  ASSUME IsVoter(voter)
  PROVE  VoterTypeOK
BY VotingAssumption DEF IsVoter, VoterTypeOK

-----------------------------------------------------------------------------
(* The diagnostic monitor: the fault log. *)

At(s, t) == {k \in DOMAIN s : s[k] = t}

(* An entry appended counts among those of its type. *)
LEMMA AppendCounts ==
  ASSUME NEW T, NEW s \in Seq(T), NEW e \in T, NEW t
  PROVE  /\ Append(s, e) \in Seq(T) /\ Len(Append(s, e)) = Len(s) + 1
         /\ Cardinality(At(s, t)) \in Nat
         /\ Cardinality(At(Append(s, e), t)) =
              IF t = e THEN Cardinality(At(s, t)) + 1 ELSE Cardinality(At(s, t))
<1> DEFINE n == Len(s)
           A == At(s, t)
           B == At(Append(s, e), t)
<1>1. /\ n \in Nat /\ DOMAIN s = 1 .. n /\ Append(s, e) \in Seq(T)
      /\ Len(Append(s, e)) = n + 1 /\ DOMAIN Append(s, e) = 1 .. n + 1
      /\ \A k \in 1 .. n : Append(s, e)[k] = s[k]
      /\ Append(s, e)[n + 1] = e
  BY AppendProperties
<1>2. A \in SUBSET (1 .. n) /\ n + 1 \notin A
  BY <1>1 DEF At
<1>3. B = IF t = e THEN A \cup {n + 1} ELSE A
  BY <1>1 DEF At
<1>4. IsFiniteSet(1 .. n)
  <2>1. 1 \in Int /\ n \in Int
    BY <1>1
  <2> QED BY <2>1, FS_Interval
<1> HIDE DEF n, A, B
<1>5. IsFiniteSet(A) /\ Cardinality(A) \in Nat
  BY <1>2, <1>4, PartCounts
<1>6. Cardinality(A \cup {n + 1}) = Cardinality(A) + 1
  BY <1>2, <1>5, FS_AddElement
<1> QED BY <1>1, <1>3, <1>5, <1>6 DEF A, B, n

(* The counters are bounded by the reports, which are bounded, and the *)
(* extremes are those of the cycles measured since the first overrun. *)
Log == [fault_log : Seq(FaultType), counts : [FaultType -> Nat], memory_test_pass : BOOLEAN,
        min : Int, max : Int, overruns : Nat]

FaultsOK ==
  /\ diag \in Log /\ reported \in [FaultType -> 0 .. MaxReports]
  /\ \A t \in FaultType : /\ diag.counts[t] <= reported[t]
                          /\ diag.counts[t] = Cardinality(At(diag.fault_log, t))
  /\ Len(diag.fault_log) < MaxFaultLog => diag.counts = reported
  /\ diag.overruns <= reported["TIMING_OVERRUN"]

MeasuredOK ==
  /\ timed \subseteq Nat /\ IsFiniteSet(timed)
  /\ diag.overruns = 0 => timed = {}
  /\ diag.overruns > 0 => /\ timed # {} /\ diag.min = Min(timed) /\ diag.max = Max(timed)
                          /\ \E x \in timed : x > WatchdogPeriod

(* The log starts empty, and no time is measured. *)
LEMMA FaultsStart ==
  ASSUME diag_init
  PROVE  FaultsOK /\ MeasuredOK
<1>1. MaxReports \in Nat
  BY DiagAssumption
<1>2. << >> \in Seq(FaultType) /\ Len(<< >>) = 0
  BY EmptySeq
<1>3. \A t : Cardinality(At(<< >>, t)) = 0
  <2>1. \A t : At(<< >>, t) = {}
    BY DEF At
  <2> QED BY <2>1, FS_EmptySet
<1>4. "TIMING_OVERRUN" \in FaultType
  BY DEF FaultType
<1>5. IsFiniteSet({})
  BY FS_EmptySet
<1>6. /\ diag = [fault_log |-> << >>, counts |-> [t \in FaultType |-> 0],
                 memory_test_pass |-> TRUE, min |-> 0, max |-> 0, overruns |-> 0]
      /\ reported = [t \in FaultType |-> 0] /\ timed = {}
  BY DEF diag_init
<1>7. diag \in Log
  BY <1>2, <1>6 DEF Log
<1>8. reported \in [FaultType -> 0 .. MaxReports]
  BY <1>1, <1>6
<1>9. FaultsOK
  BY <1>1, <1>3, <1>4, <1>6, <1>7, <1>8 DEF FaultsOK
<1>10. MeasuredOK
  BY <1>5, <1>6 DEF MeasuredOK
<1> QED BY <1>9, <1>10

(* A report of a fault, whatever else has been done to the monitor before. *)
LEMMA ReportStays ==
  ASSUME FaultsOK, NEW d \in Log, NEW type \in FaultType, Report(type),
         d.fault_log = diag.fault_log, d.counts = diag.counts,
         d.overruns <= reported'["TIMING_OVERRUN"],
         diag' = diag_log_fault(d, type)
  PROVE  /\ FaultsOK'
         /\ diag'.min = d.min /\ diag'.max = d.max /\ diag'.overruns = d.overruns
<1>1. /\ reported[type] < MaxReports /\ reported \in [FaultType -> 0 .. MaxReports]
      /\ reported' = [reported EXCEPT ![type] = reported[type] + 1] /\ MaxReports \in Nat
  BY DiagAssumption DEF Report, FaultsOK
<1>2. reported' \in [FaultType -> 0 .. MaxReports]
  BY <1>1
<1>3. \A t \in FaultType : reported'[t] = IF t = type THEN reported[t] + 1 ELSE reported[t]
  BY <1>1
<1>4. /\ d.counts \in [FaultType -> Nat] /\ d.fault_log \in Seq(FaultType)
      /\ Len(d.fault_log) \in Nat /\ MaxFaultLog \in Nat
  BY DiagAssumption, LenProperties DEF Log
<1>5. /\ \A t \in FaultType : /\ d.counts[t] <= reported[t]
                              /\ d.counts[t] = Cardinality(At(d.fault_log, t))
      /\ Len(d.fault_log) < MaxFaultLog => d.counts = reported
  BY DEF FaultsOK
<1>6. \A t \in FaultType : reported[t] \in Nat /\ d.counts[t] \in Nat
  BY <1>1, <1>4
<1>7. CASE Len(d.fault_log) >= MaxFaultLog
  <2>1. diag' = d
    BY <1>7 DEF diag_log_fault
  <2>2. \A t \in FaultType : d.counts[t] <= reported'[t]
    BY <1>3, <1>5, <1>6
  <2>3. ~ Len(d.fault_log) < MaxFaultLog
    BY <1>4, <1>7
  <2>4. FaultsOK'
    BY <1>2, <1>5, <2>1, <2>2, <2>3 DEF FaultsOK
  <2> QED BY <2>1, <2>4
<1>8. CASE ~ Len(d.fault_log) >= MaxFaultLog
  <2> DEFINE l == Append(d.fault_log, type)
             c == [d.counts EXCEPT ![type] = d.counts[type] + 1]
  <2>1. diag' = [d EXCEPT !.fault_log = l, !.counts = c]
    BY <1>8 DEF diag_log_fault, Log
  <2>2. /\ l \in Seq(FaultType)
        /\ \A t : Cardinality(At(l, t)) = IF t = type THEN Cardinality(At(d.fault_log, t)) + 1
                                          ELSE Cardinality(At(d.fault_log, t))
    BY <1>4, AppendCounts
  <2>3. c \in [FaultType -> Nat]
        /\ \A t \in FaultType : c[t] = IF t = type THEN d.counts[t] + 1 ELSE d.counts[t]
    BY <1>4
  <2>4. c = reported'
    <3>1. d.counts = reported
      BY <1>4, <1>5, <1>8
    <3> QED BY <3>1, <1>1
  <2> HIDE DEF l, c
  <2>5. diag' \in Log /\ diag'.fault_log = l /\ diag'.counts = c /\ diag'.overruns = d.overruns
        /\ diag'.min = d.min /\ diag'.max = d.max
    BY <2>1, <2>2, <2>3 DEF Log
  <2>6. \A t \in FaultType : /\ c[t] <= reported'[t] /\ c[t] = Cardinality(At(l, t))
    <3>1. \A t \in FaultType : c[t] = Cardinality(At(l, t))
      BY <1>5, <2>2, <2>3
    <3>2. \A t \in FaultType : c[t] <= reported'[t]
      BY <2>3, <2>4
    <3> QED BY <3>1, <3>2
  <2>7. FaultsOK'
    BY <1>2, <2>4, <2>5, <2>6 DEF FaultsOK
  <2> QED BY <2>5, <2>7
<1> QED BY <1>7, <1>8

(* Every diagnostic call keeps the census and the extremes. *)
LEMMA FaultsStay ==
  ASSUME FaultsOK, MeasuredOK, DiagNext
  PROVE  FaultsOK' /\ MeasuredOK'
<1> DEFINE over == "TIMING_OVERRUN"
<1>0. over \in FaultType /\ "ROM_CHECKSUM" \in FaultType /\ FaultTypes \subseteq FaultType
  BY DEF FaultType
<1>1. /\ diag \in Log /\ reported \in [FaultType -> 0 .. MaxReports] /\ MaxReports \in Nat
      /\ diag.overruns <= reported[over] /\ diag.overruns \in Nat /\ reported[over] \in Nat
      /\ CycleTimes \subseteq Nat /\ WatchdogPeriod \in Nat
  BY <1>0, DiagAssumption DEF FaultsOK, Log
<1>2. ASSUME NEW t \in FaultType, Report(t) PROVE reported[over] <= reported'[over]
  BY <1>0, <1>1, <1>2 DEF Report
<1>3. ASSUME NEW t \in FaultTypes, ReportFault(t) PROVE FaultsOK' /\ MeasuredOK'
  <2>1. Report(t) /\ diag' = diag_log_fault(diag, t) /\ timed' = timed /\ t \in FaultType
    BY <1>0, <1>3 DEF ReportFault
  <2>2. diag.overruns <= reported'[over]
    <3>1. reported'[over] \in Nat
      BY <1>0, <1>1, <2>1 DEF Report
    <3> QED BY <1>1, <1>2, <2>1, <3>1
  <2>3. /\ FaultsOK'
        /\ diag'.min = diag.min /\ diag'.max = diag.max /\ diag'.overruns = diag.overruns
    BY <1>1, <2>1, <2>2, ReportStays
  <2>4. MeasuredOK'
    BY <2>1, <2>3 DEF MeasuredOK
  <2> QED BY <2>3, <2>4
<1>4. ASSUME NEW matches \in BOOLEAN, diag_rom_verify(matches) PROVE FaultsOK' /\ MeasuredOK'
  <2> DEFINE d == [diag EXCEPT !.memory_test_pass = matches]
  <2>1. /\ d \in Log /\ d.fault_log = diag.fault_log /\ d.counts = diag.counts
        /\ d.overruns = diag.overruns /\ d.min = diag.min /\ d.max = diag.max
    BY <1>1 DEF Log
  <2>2. timed' = timed
    BY <1>4 DEF diag_rom_verify
  <2>3. CASE matches
    <3>1. diag' = d /\ reported' = reported
      BY <1>4, <2>3 DEF diag_rom_verify
    <3> HIDE DEF d
    <3>2. FaultsOK'
      BY <2>1, <3>1 DEF FaultsOK
    <3>3. MeasuredOK'
      BY <2>1, <2>2, <3>1 DEF MeasuredOK
    <3> QED BY <3>2, <3>3
  <2>4. CASE ~ matches
    <3>1. diag' = diag_log_fault(d, "ROM_CHECKSUM") /\ Report("ROM_CHECKSUM")
      BY <1>4, <2>4 DEF diag_rom_verify
    <3> HIDE DEF d
    <3>2. d.overruns <= reported'[over]
      <4>1. reported'[over] \in Nat
        BY <1>0, <1>1, <3>1 DEF Report
      <4> QED BY <1>0, <1>1, <1>2, <2>1, <3>1, <4>1
    <3>3. /\ FaultsOK'
          /\ diag'.min = diag.min /\ diag'.max = diag.max /\ diag'.overruns = diag.overruns
      BY <1>0, <2>1, <3>1, <3>2, ReportStays
    <3>4. MeasuredOK'
      BY <2>2, <3>3 DEF MeasuredOK
    <3> QED BY <3>3, <3>4
  <2> QED BY <2>3, <2>4
<1>5. ASSUME diag_run_bist PROVE FaultsOK' /\ MeasuredOK'
  <2>1. /\ diag' \in Log /\ diag'.fault_log = diag.fault_log /\ diag'.counts = diag.counts
        /\ diag'.overruns = diag.overruns /\ diag'.min = diag.min /\ diag'.max = diag.max
    BY <1>1, <1>5 DEF diag_run_bist, Log
  <2>2. reported' = reported /\ timed' = timed
    BY <1>5 DEF diag_run_bist
  <2> QED BY <2>1, <2>2 DEF FaultsOK, MeasuredOK
<1>6. ASSUME NEW time \in CycleTimes, diag_update_cycle_time(time) PROVE FaultsOK' /\ MeasuredOK'
  <2> DEFINE seen == Extremes(diag, time)
             d == [seen EXCEPT !.overruns = seen.overruns + 1]
             new == timed \cup {time}
  <2>0. time \in Nat /\ time \in Int
    BY <1>1
  <2>1. /\ seen \in Log /\ seen.fault_log = diag.fault_log /\ seen.counts = diag.counts
        /\ seen.overruns = diag.overruns
        /\ diag.overruns = 0 => seen.min = time /\ seen.max = time
        /\ diag.overruns # 0 => seen.min = Min({diag.min, time}) /\ seen.max = Max({diag.max, time})
    <3>1. diag.min \in Int /\ diag.max \in Int
      BY <1>1 DEF Log
    <3>2. Min({diag.min, time}) \in Int /\ Max({diag.max, time}) \in Int
      BY <2>0, <3>1, MinOfTwo, MaxOfTwo
    <3> QED BY <1>1, <2>0, <3>2 DEF Extremes, Log
  <2>2. ASSUME diag.overruns > 0 \/ timed = {}
        PROVE  /\ new \subseteq Nat /\ IsFiniteSet(new) /\ new # {} /\ time \in new
               /\ seen.min = Min(new) /\ seen.max = Max(new)
    <3>1. new \subseteq Nat /\ new # {} /\ time \in new /\ new \subseteq Int
      BY <2>0 DEF MeasuredOK
    <3>2. IsFiniteSet(new)
      BY FS_AddElement DEF MeasuredOK
    <3>3. /\ Min(new) \in new /\ (\A y \in new : Min(new) <= y)
          /\ Max(new) \in new /\ (\A y \in new : y <= Max(new))
      <4> HIDE DEF new
      <4> QED BY <3>1, <3>2, MinOfInts, MaxOfInts
    <3>4. CASE diag.overruns = 0
      <4>1. new = {time}
        BY <2>2, <3>4
      <4> HIDE DEF new, seen
      <4> QED BY <2>1, <3>1, <3>2, <3>3, <3>4, <4>1
    <3>5. CASE diag.overruns # 0
      <4>1. timed # {} /\ diag.min = Min(timed) /\ diag.max = Max(timed)
            /\ timed \subseteq Int /\ IsFiniteSet(timed)
        BY <1>1, <3>5 DEF MeasuredOK
      <4>2. /\ diag.min \in timed /\ diag.min \in Int /\ (\A y \in timed : diag.min <= y)
            /\ diag.max \in timed /\ diag.max \in Int /\ (\A y \in timed : y <= diag.max)
        BY <4>1, MinOfInts, MaxOfInts
      <4>3. seen.min = IF diag.min <= time THEN diag.min ELSE time
        BY <2>0, <2>1, <3>5, <4>2, MinOfTwo
      <4>4. seen.max = IF diag.max >= time THEN diag.max ELSE time
        BY <2>0, <2>1, <3>5, <4>2, MaxOfTwo
      <4> DEFINE lo == seen.min
                 hi == seen.max
      <4>5. lo \in new /\ lo \in Int /\ \A y \in new : lo <= y
        <5> HIDE DEF seen
        <5>1. \A y \in timed : y \in Int
          BY <4>1
        <5> QED BY <2>0, <4>2, <4>3, <5>1
      <4>6. hi \in new /\ hi \in Int /\ \A y \in new : y <= hi
        <5> HIDE DEF seen
        <5>1. \A y \in timed : y \in Int
          BY <4>1
        <5> QED BY <2>0, <4>2, <4>4, <5>1
      <4> HIDE DEF lo, hi, new
      <4>7. lo = Min(new)
        <5>1. Min(new) <= lo /\ lo <= Min(new) /\ Min(new) \in Int
          BY <3>1, <3>3, <4>5
        <5> QED BY <4>5, <5>1
      <4>8. hi = Max(new)
        <5>1. Max(new) <= hi /\ hi <= Max(new) /\ Max(new) \in Int
          BY <3>1, <3>3, <4>6
        <5> QED BY <4>6, <5>1
      <4> QED BY <3>1, <3>2, <4>7, <4>8 DEF lo, hi
    <3> HIDE DEF new, seen
    <3> QED BY <3>4, <3>5
  <2>3. CASE time > WatchdogPeriod
    <3>1. Report(over) /\ diag' = diag_log_fault(d, over) /\ timed' = new
      BY <1>6, <2>1, <2>3 DEF diag_update_cycle_time
    <3>2. /\ d \in Log /\ d.fault_log = diag.fault_log /\ d.counts = diag.counts
          /\ d.overruns = diag.overruns + 1 /\ d.min = seen.min /\ d.max = seen.max
      <4> HIDE DEF seen
      <4>1. seen \in Log /\ seen.overruns \in Nat /\ seen.overruns = diag.overruns
        BY <1>1, <2>1
      <4>2. d \in Log
        BY <4>1 DEF Log
      <4>3. /\ d.fault_log = seen.fault_log /\ d.counts = seen.counts
            /\ d.overruns = seen.overruns + 1 /\ d.min = seen.min /\ d.max = seen.max
        BY <4>1 DEF Log
      <4> HIDE DEF d
      <4> QED BY <2>1, <4>1, <4>2, <4>3
    <3> HIDE DEF d
    <3>3. d.overruns <= reported'[over]
      BY <1>0, <1>1, <3>1, <3>2 DEF Report
    <3>4. /\ FaultsOK'
          /\ diag'.min = d.min /\ diag'.max = d.max /\ diag'.overruns = d.overruns
      BY <1>0, <3>1, <3>2, <3>3, ReportStays
    <3>5. diag.overruns > 0 \/ timed = {}
      BY <1>1 DEF MeasuredOK
    <3>6. /\ new \subseteq Nat /\ IsFiniteSet(new) /\ new # {} /\ time \in new
          /\ seen.min = Min(new) /\ seen.max = Max(new)
      BY <2>2, <3>5
    <3>7. diag'.overruns > 0
      BY <1>1, <3>2, <3>4
    <3> HIDE DEF new, seen
    <3>8. MeasuredOK'
      BY <1>1, <2>3, <3>1, <3>2, <3>4, <3>6, <3>7 DEF MeasuredOK
    <3> QED BY <3>4, <3>8
  <2>4. CASE ~ time > WatchdogPeriod
    <3>1. reported' = reported /\ diag' = seen
          /\ timed' = IF diag.overruns > 0 THEN new ELSE {}
      BY <1>6, <2>4 DEF diag_update_cycle_time
    <3> HIDE DEF new, seen
    <3>2. FaultsOK'
      BY <2>1, <3>1 DEF FaultsOK
    <3>3. MeasuredOK'
      <4>1. CASE diag.overruns > 0
        <5>1. \E x \in timed : x > WatchdogPeriod
          BY <4>1 DEF MeasuredOK
        <5>2. \E x \in new : x > WatchdogPeriod
          BY <5>1 DEF new
        <5> QED BY <1>1, <2>1, <2>2, <3>1, <4>1, <5>2 DEF MeasuredOK
      <4>2. CASE ~ diag.overruns > 0
        <5>1. timed' = {} /\ diag'.overruns = 0
          BY <1>1, <2>1, <3>1, <4>2
        <5>2. IsFiniteSet({})
          BY FS_EmptySet
        <5> QED BY <5>1, <5>2 DEF MeasuredOK
      <4> QED BY <4>1, <4>2
    <3> QED BY <3>2, <3>3
  <2> QED BY <2>3, <2>4
<1> QED BY <1>3, <1>4, <1>5, <1>6 DEF DiagNext

(* The census and the extremes. *)
LEMMA FaultsFollow ==
  ASSUME FaultsOK, MeasuredOK
  PROVE  /\ LogIsCensus /\ ExtremesAreReached
         /\ diag.fault_log \in Seq(FaultType) /\ diag.counts \in [FaultType -> 0 .. MaxReports]
         /\ diag.memory_test_pass \in BOOLEAN /\ diag.overruns \in 0 .. MaxReports
<1>1. /\ diag \in Log /\ reported \in [FaultType -> 0 .. MaxReports] /\ MaxReports \in Nat
      /\ WatchdogPeriod \in Nat
  BY DiagAssumption DEF FaultsOK
<1>2. LogIsCensus
  BY DEF FaultsOK, LogIsCensus, At
<1>3. ExtremesAreReached
  <2> SUFFICES ASSUME diag.overruns > 0
               PROVE  diag.min = Min(timed) /\ diag.max = Max(timed) /\ diag.max > WatchdogPeriod
    BY DEF ExtremesAreReached
  <2>1. timed \subseteq Int /\ IsFiniteSet(timed) /\ timed # {}
    BY DEF MeasuredOK
  <2>2. Max(timed) \in Int /\ \A y \in timed : y <= Max(timed)
    BY <2>1, MaxOfInts
  <2>3. PICK x \in timed : x > WatchdogPeriod
    BY DEF MeasuredOK
  <2>4. Max(timed) > WatchdogPeriod
    <3>1. x <= Max(timed) /\ x \in Int
      BY <2>1, <2>2
    <3> QED BY <1>1, <2>2, <2>3, <3>1
  <2> QED BY <2>4 DEF MeasuredOK
<1>4. diag.counts \in [FaultType -> 0 .. MaxReports]
  <2>1. diag.counts \in [FaultType -> Nat]
    BY <1>1 DEF Log
  <2>2. \A t \in FaultType : diag.counts[t] \in 0 .. MaxReports
    BY <1>1, <2>1 DEF FaultsOK
  <2> QED BY <2>1, <2>2
<1>5. diag.overruns \in 0 .. MaxReports
  <2>1. diag.overruns \in Nat /\ reported["TIMING_OVERRUN"] \in 0 .. MaxReports
    BY <1>1 DEF Log, FaultType
  <2> QED BY <1>1, <2>1 DEF FaultsOK
<1> QED BY <1>1, <1>2, <1>3, <1>4, <1>5 DEF Log

-----------------------------------------------------------------------------
(* The ring of the trend. *)

RingOK ==
  /\ trend \in [data : [0 .. TrendPoints - 1 -> Int], index : 0 .. TrendPoints - 1,
                count : 0 .. TrendPoints]
  /\ recorded \in Seq(Int) /\ Len(recorded) = trend.count
  /\ \A k \in 1 .. trend.count :
       trend.data[(trend.index + TrendPoints - k) % TrendPoints] = recorded[k]

(* The position k steps behind the index. *)
LEMMA BehindIs ==
  ASSUME NEW n \in Nat, n > 0, NEW i \in 0 .. n - 1, NEW k \in 1 .. n
  PROVE  (i + n - k) % n = IF k <= i THEN i - k ELSE i + n - k
<1>1. CASE k <= i
  <2>1. i - k \in 0 .. n - 1 /\ i + n - k \in Int /\ i + n - k = (i - k) + n
    BY <1>1
  <2>2. (i + n - k) % n = i - k
    BY <2>1, RingIs
  <2> QED BY <1>1, <2>2
<1>2. CASE ~ k <= i
  <2>1. i + n - k \in 0 .. n - 1 /\ i + n - k \in Int
    BY <1>2
  <2>2. (i + n - k) % n = i + n - k
    BY <2>1, RingIs
  <2> QED BY <1>2, <2>2
<1> QED BY <1>1, <1>2

(* The ring starts empty. *)
LEMMA RingStarts ==
  ASSUME diag_init
  PROVE  RingOK
<1>1. TrendPoints \in Nat /\ TrendPoints > 0
  BY DiagAssumption
<1>2. trend = NoTrend /\ recorded = << >>
  BY DEF diag_init
<1> QED BY <1>1, <1>2 DEF RingOK, NoTrend

(* A sample recorded takes the place of the oldest one kept. *)
LEMMA RingStays ==
  ASSUME RingOK, TrendNext
  PROVE  RingOK'
<1> DEFINE P == TrendPoints
           i == trend.index
           n == trend.count
           m == Min({n + 1, P})
<1>1. PICK x \in TrendValues : diag_record_trend(x)
  BY DEF TrendNext
<1>2. /\ P \in Nat /\ P > 0 /\ x \in Int
      /\ i \in 0 .. P - 1 /\ n \in 0 .. P /\ trend.data \in [0 .. P - 1 -> Int]
      /\ recorded \in Seq(Int) /\ Len(recorded) = n
  BY DiagAssumption DEF RingOK
<1>3. m = (IF n + 1 <= P THEN n + 1 ELSE P) /\ m \in 1 .. P /\ m <= n + 1
  <2>1. n + 1 \in Int /\ P \in Int
    BY <1>2
  <2>2. m = IF n + 1 <= P THEN n + 1 ELSE P
    BY <2>1, MinOfTwo
  <2> HIDE DEF m
  <2> QED BY <1>2, <2>2
<1>4. /\ trend' = [data |-> [trend.data EXCEPT ![i] = x], index |-> (i + 1) % P, count |-> m]
      /\ recorded' = SubSeq(<<x>> \o recorded, 1, m)
  <2>1. Len(recorded) + 1 = n + 1
    BY <1>2
  <2> QED BY <1>1, <2>1 DEF diag_record_trend
<1> HIDE DEF m
<1>5. /\ recorded' \in Seq(Int) /\ Len(recorded') = m
      /\ \A k \in 1 .. m : recorded'[k] = IF k = 1 THEN x ELSE recorded[k - 1]
  <2> DEFINE s == <<x>> \o recorded
  <2>1. s \in Seq(Int) /\ Len(s) = n + 1
        /\ \A k \in 1 .. n + 1 : s[k] = IF k = 1 THEN x ELSE recorded[k - 1]
    <3>1. <<x>> \in Seq(Int) /\ Len(<<x>>) = 1 /\ <<x>>[1] = x
      BY <1>2
    <3> QED BY <1>2, <3>1, ConcatProperties
  <2> HIDE DEF s
  <2>2. SubSeq(s, 1, m) \in Seq(Int) /\ Len(SubSeq(s, 1, m)) = m
        /\ \A k \in 1 .. m : SubSeq(s, 1, m)[k] = s[k]
    BY <1>2, <1>3, <2>1, SubSeqProperties
  <2>3. \A k \in 1 .. m : k \in 1 .. n + 1
    BY <1>2, <1>3
  <2> QED BY <1>4, <2>1, <2>2, <2>3 DEF s
<1>6. (i + 1) % P \in 0 .. P - 1 /\ (i + 1) % P = IF i + 1 = P THEN 0 ELSE i + 1
  <2> HIDE DEF i, P
  <2> QED BY <1>2, RingOrder
<1>7. trend' \in [data : [0 .. P - 1 -> Int], index : 0 .. P - 1, count : 0 .. P]
  <2> DEFINE data == [trend.data EXCEPT ![i] = x]
             index == (i + 1) % P
  <2>1. data \in [0 .. P - 1 -> Int]
    <3> HIDE DEF P
    <3> QED BY <1>2
  <2>2. m \in 0 .. P /\ index \in 0 .. P - 1
    BY <1>2, <1>3, <1>6
  <2>3. trend' = [data |-> data, index |-> index, count |-> m]
    BY <1>4
  <2> HIDE DEF data, index
  <2> QED BY <2>1, <2>2, <2>3
<1>8. /\ trend'.count = m /\ trend'.index = (i + 1) % P
      /\ trend'.data = [trend.data EXCEPT ![i] = x]
  BY <1>4
<1>9. ASSUME NEW k \in 1 .. m
      PROVE  trend'.data[(trend'.index + P - k) % P] = recorded'[k]
  <2> DEFINE j == (i + 1) % P
             p == (j + P - k) % P
  <2>1. k \in 1 .. P
    BY <1>2, <1>3
  <2>2. p = IF k <= j THEN j - k ELSE j + P - k
    <3> HIDE DEF j, P
    <3> QED BY <1>2, <1>6, <2>1, BehindIs DEF j
  <2> HIDE DEF p
  <2>3. CASE k = 1
    <3>1. p = i
      <4>1. j = IF i + 1 = P THEN 0 ELSE i + 1
        BY <1>6
      <4> HIDE DEF j
      <4>2. i \in 0 .. P - 1 /\ P \in Nat
        BY <1>2
      <4> QED BY <2>2, <2>3, <4>1, <4>2
    <3>2. trend'.data[i] = x
      BY <1>2, <1>8
    <3> QED BY <1>5, <1>8, <2>3, <3>1, <3>2 DEF p
  <2>4. CASE k # 1
    <3> DEFINE l == k - 1
               q == (i + P - l) % P
    <3>1. l \in 1 .. P /\ l \in 1 .. n /\ l <= P - 1
      BY <1>2, <1>3, <2>1, <2>4
    <3>2. q = IF l <= i THEN i - l ELSE i + P - l
      <4> HIDE DEF i, P, l
      <4> QED BY <1>2, <3>1, BehindIs
    <3> HIDE DEF q
    <3>3. p = q /\ q # i /\ q \in 0 .. P - 1
      <4>1. j = IF i + 1 = P THEN 0 ELSE i + 1
        BY <1>6
      <4> HIDE DEF j
      <4>2. i \in 0 .. P - 1 /\ P \in Nat /\ k \in 1 .. P /\ k # 1
        BY <1>2, <2>1, <2>4
      <4> QED BY <2>2, <3>2, <4>1, <4>2
    <3>4. trend.data[q] = recorded[l]
      BY <3>1 DEF RingOK, q
    <3>5. trend'.data[q] = trend.data[q]
      BY <1>2, <1>8, <3>3
    <3>6. recorded'[k] = recorded[l]
      BY <1>5, <2>4
    <3> QED BY <1>8, <3>3, <3>4, <3>5, <3>6 DEF p
  <2> QED BY <2>3, <2>4
<1> QED BY <1>5, <1>7, <1>8, <1>9 DEF RingOK

(* The window is the newest samples. *)
LEMMA WindowIs ==
  ASSUME RingOK, NEW n \in Nat
  PROVE  LET m == Min({n, Len(recorded)}) IN
         /\ m \in Nat /\ m <= trend.count /\ m <= n /\ m = (IF n <= trend.count THEN n ELSE trend.count)
         /\ Window(n) \in Seq(Int) /\ Len(Window(n)) = m
         /\ Window(n) = SubSeq(recorded, 1, m)
<1> DEFINE c == trend.count
           m == Min({n, c})
<1>1. c \in 0 .. TrendPoints /\ c \in Nat /\ recorded \in Seq(Int) /\ Len(recorded) = c
  BY DiagAssumption DEF RingOK
<1>2. m = (IF n <= c THEN n ELSE c) /\ m \in Nat /\ m <= c /\ m <= n
  <2>1. n \in Int /\ c \in Int
    BY <1>1
  <2>2. m = IF n <= c THEN n ELSE c
    BY <2>1, MinOfTwo
  <2> HIDE DEF m, c
  <2> QED BY <1>1, <2>2
<1> HIDE DEF m
<1>3. SubSeq(recorded, 1, m) \in Seq(Int) /\ Len(SubSeq(recorded, 1, m)) = m
      /\ \A k \in 1 .. m : SubSeq(recorded, 1, m)[k] = recorded[k]
  BY <1>1, <1>2, SubSeqProperties
<1>4. Window(n) = [k \in 1 .. m |-> trend.data[(trend.index + TrendPoints - k) % TrendPoints]]
  BY DEF Window, m
<1>5. \A k \in 1 .. m : Window(n)[k] = recorded[k] /\ recorded[k] \in Int
  <2>1. \A k \in 1 .. m : k \in 1 .. c
    BY <1>1, <1>2
  <2>2. \A k \in 1 .. m : trend.data[(trend.index + TrendPoints - k) % TrendPoints] = recorded[k]
    BY <2>1 DEF RingOK
  <2>3. \A k \in 1 .. m : recorded[k] \in Int
    BY <1>1, <2>1
  <2> QED BY <1>4, <2>2, <2>3
<1>6. Window(n) = [k \in 1 .. m |-> recorded[k]]
  BY <1>4, <1>5
<1>7. SubSeq(recorded, 1, m) = [k \in 1 .. m |-> recorded[k]]
  <2> DEFINE s == SubSeq(recorded, 1, m)
  <2>1. s = [k \in 1 .. Len(s) |-> s[k]]
    BY <1>3
  <2> HIDE DEF s
  <2> QED BY <1>3, <2>1 DEF s
<1>8. Window(n) = SubSeq(recorded, 1, m)
  BY <1>6, <1>7
<1> QED BY <1>1, <1>2, <1>3, <1>8 DEF m

-----------------------------------------------------------------------------
(* Sums of samples. *)

PrefixSums(s, n, g) ==
  g \in [0 .. n -> Int] /\ g[0] = 0 /\ \A k \in 1 .. n : g[k] = g[k - 1] + s[k]

(* The sum of a sequence is the last of its partial sums. *)
LEMMA TotalIs ==
  ASSUME NEW s \in Seq(Int)
  PROVE  \E g : PrefixSums(s, Len(s), g) /\ Total(s) = g[Len(s)]
<1> DEFINE n == Len(s)
           at == CHOOSE g : g = [k \in 0 .. n |-> IF k = 0 THEN 0 ELSE g[k - 1] + s[k]]
<1>1. n \in Nat /\ \A k \in 1 .. n : s[k] \in Int
  BY LenProperties
<1>2. Total(s) = at[n]
  BY Zenon DEF Total
<1> HIDE DEF n
<1>3. PICK g : g \in [0 .. n -> Int] /\ g[0] = 0 /\ \A k \in 1 .. n : g[k] = g[k - 1] + s[k]
  <2> DEFINE F == [k \in 1 .. n |-> [c \in Int |-> c + s[k]]]
  <2>1. F \in [1 .. n -> [Int -> Int]]
    BY <1>1
  <2>2. 0 \in Int
    OBVIOUS
  <2> HIDE DEF F
  <2>3. PICK g \in Courses(n, Int, 0, F) : TRUE
    BY <1>1, <2>1, <2>2, Iteration
  <2>4. \A k \in 1 .. n : g[k] = g[k - 1] + s[k]
    <3> TAKE k \in 1 .. n
    <3>1. k - 1 \in 0 .. n
      BY <1>1
    <3>2. g[k] = F[k][g[k - 1]] /\ g[k - 1] \in Int
      BY <2>3, <3>1 DEF Courses
    <3> QED BY <3>2 DEF F
  <2>5. g \in [0 .. n -> Int] /\ g[0] = 0
    BY <2>3 DEF Courses
  <2> QED BY <2>4, <2>5
<1>4. at = [k \in 0 .. n |-> IF k = 0 THEN 0 ELSE at[k - 1] + s[k]]
  <2>1. g = [k \in 0 .. n |-> g[k]]
    BY <1>3
  <2>2. \A k \in 0 .. n : g[k] = IF k = 0 THEN 0 ELSE g[k - 1] + s[k]
    BY <1>1, <1>3
  <2>3. g = [k \in 0 .. n |-> IF k = 0 THEN 0 ELSE g[k - 1] + s[k]]
    BY <2>1, <2>2
  <2> QED BY <2>3, Zenon
<1> HIDE DEF at
<1>5. at[0] = 0 /\ \A k \in 1 .. n : at[k] = at[k - 1] + s[k]
  <2>1. at[0] = 0
    BY <1>1, <1>4
  <2>2. ASSUME NEW k \in 1 .. n PROVE at[k] = at[k - 1] + s[k]
    <3>1. k \in 0 .. n /\ k # 0
      BY <1>1
    <3> QED BY <1>4, <3>1
  <2> QED BY <2>1, <2>2
<1>6. at[n] = g[n]
  <2> DEFINE T == {k \in 0 .. n : at[k] = g[k]}
  <2>1. 0 \in T
    BY <1>1, <1>3, <1>5
  <2>2. ASSUME NEW k \in 0 .. n - 1, k \in T PROVE k + 1 \in T
    <3>1. k + 1 \in 1 .. n /\ (k + 1) - 1 = k
      BY <1>1
    <3>2. at[k + 1] = at[k] + s[k + 1] /\ g[k + 1] = g[k] + s[k + 1]
      BY <1>3, <1>5, <3>1
    <3> QED BY <2>2, <3>1, <3>2
  <2>3. 0 .. n \subseteq T
    <3> HIDE DEF T
    <3> QED BY <1>1, <2>1, <2>2, SetInduction
  <2> QED BY <1>1, <2>3
<1> QED BY <1>2, <1>3, <1>6 DEF PrefixSums, n

(* A sum lies between its length times the bounds of what is summed. *)
LEMMA TotalBetween ==
  ASSUME NEW s \in Seq(Int), NEW lo \in Int, NEW hi \in Int,
         \A k \in 1 .. Len(s) : lo <= s[k] /\ s[k] <= hi
  PROVE  Total(s) \in Int /\ lo * Len(s) <= Total(s) /\ Total(s) <= hi * Len(s)
<1> DEFINE n == Len(s)
<1>1. n \in Nat /\ \A k \in 1 .. n : s[k] \in Int
  BY LenProperties
<1>2. PICK g : PrefixSums(s, n, g) /\ Total(s) = g[n]
  BY TotalIs
<1>3. g \in [0 .. n -> Int] /\ g[0] = 0 /\ \A k \in 1 .. n : g[k] = g[k - 1] + s[k]
  BY <1>2 DEF PrefixSums
<1> HIDE DEF n
<1> DEFINE T == {k \in 0 .. n : lo * k <= g[k] /\ g[k] <= hi * k}
<1>4. 0 \in T
  BY <1>1, <1>3
<1>5. ASSUME NEW k \in 0 .. n - 1, k \in T PROVE k + 1 \in T
  <2>1. k + 1 \in 1 .. n /\ k + 1 \in 0 .. n /\ (k + 1) - 1 = k /\ k \in Int
    BY <1>1
  <2>2. g[k + 1] = g[k] + s[k + 1] /\ g[k] \in Int /\ g[k + 1] \in Int
    BY <1>3, <2>1, <1>1
  <2>3. lo <= s[k + 1] /\ s[k + 1] <= hi /\ s[k + 1] \in Int
    BY <1>1, <2>1 DEF n
  <2>4. lo * (k + 1) = lo * k + lo /\ hi * (k + 1) = hi * k + hi
        /\ lo * k \in Int /\ hi * k \in Int
    BY <2>1
  <2>5. lo * k <= g[k] /\ g[k] <= hi * k
    BY <1>5
  <2>6. lo * (k + 1) <= g[k + 1] /\ g[k + 1] <= hi * (k + 1)
    BY <2>2, <2>3, <2>4, <2>5
  <2> QED BY <2>1, <2>6
<1>6. 0 .. n \subseteq T
  <2> HIDE DEF T
  <2> QED BY <1>1, <1>4, <1>5, SetInduction
<1>7. n \in T /\ g[n] \in Int
  BY <1>1, <1>3, <1>6
<1> QED BY <1>2, <1>7 DEF n

-----------------------------------------------------------------------------
(* The slope. *)

(* The sums of the first k positions, of position times sample and of the *)
(* samples f, the position of the k-th being k - 1. *)
Moments(n, f, X, A, B) ==
  /\ f \in [1 .. n -> Int]
  /\ X \in [0 .. n -> Int] /\ A \in [0 .. n -> Int] /\ B \in [0 .. n -> Int]
  /\ X[0] = 0 /\ A[0] = 0 /\ B[0] = 0
  /\ \A k \in 1 .. n : /\ X[k] = X[k - 1] + (k - 1)
                       /\ A[k] = A[k - 1] + (k - 1) * f[k]
                       /\ B[k] = B[k - 1] + f[k]

Falls(n, f) == \A k \in 1 .. n - 1 : f[k] > f[k + 1]

(* What falls from each place to the next falls over any distance. *)
LEMMA FallsFar ==
  ASSUME NEW n \in Nat, NEW f \in [1 .. n -> Int], Falls(n, f), NEW j \in 1 .. n
  PROVE  \A i \in 1 .. j - 1 : f[i] > f[j]
<1> DEFINE m == n - 1
           T == {k \in 0 .. m : \A i \in 1 .. k : f[i] > f[k + 1]}
<1>1. m \in Nat
  OBVIOUS
<1>2. 0 \in T
  OBVIOUS
<1>3. ASSUME NEW k \in 0 .. m - 1, k \in T PROVE k + 1 \in T
  <2>1. k + 1 \in 1 .. n - 1 /\ k + 1 \in 0 .. m /\ k + 1 \in 1 .. n /\ (k + 1) + 1 \in 1 .. n
    OBVIOUS
  <2>2. f[k + 1] > f[(k + 1) + 1] /\ f[k + 1] \in Int /\ f[(k + 1) + 1] \in Int
    BY <2>1 DEF Falls
  <2>3. ASSUME NEW i \in 1 .. k + 1 PROVE f[i] > f[(k + 1) + 1]
    <3>1. CASE i = k + 1
      BY <2>2, <3>1
    <3>2. CASE i # k + 1
      <4>1. i \in 1 .. k /\ i \in 1 .. n
        BY <2>1, <3>2
      <4>2. f[i] > f[k + 1] /\ f[i] \in Int
        BY <1>3, <4>1
      <4> QED BY <2>2, <4>2
    <3> QED BY <3>1, <3>2
  <2> QED BY <2>1, <2>3
<1>4. 0 .. m \subseteq T
  <2> HIDE DEF T, m
  <2> QED BY <1>1, <1>2, <1>3, SetInduction
<1>5. j - 1 \in 0 .. m /\ (j - 1) + 1 = j
  OBVIOUS
<1> HIDE DEF m
<1>6. j - 1 \in T
  <2> HIDE DEF T
  <2> QED BY <1>4, <1>5
<1> QED BY <1>5, <1>6

(* Two identities of polynomials. *)
LEMMA SlopeIdentity ==
  ASSUME NEW m \in Int, NEW x \in Int, NEW a \in Int, NEW b \in Int, NEW c \in Int
  PROVE  (m + 1) * (a + m * c) - (x + m) * (b + c)
           = (m * a - x * b) - (m * b - a - c * (m * m - x))
OBVIOUS

(* One step of the slope: the sums that a further sample adds. *)
LEMMA SpreadIdentity ==
  ASSUME NEW m \in Int, NEW j \in Int, NEW x \in Int, NEW a \in Int, NEW b \in Int, NEW c \in Int,
         NEW f \in Int
  PROVE  m * (b + f) - (a + (j - 1) * f) - c * (m * j - (x + (j - 1)))
           = (m * b - a - c * (m * (j - 1) - x)) + (m - (j - 1)) * (f - c)
OBVIOUS

(* Samples that fall with their position have a negative slope. *)
LEMMA SlopeOfFalling ==
  ASSUME NEW n \in Nat, n >= 2, NEW f, NEW X, NEW A, NEW B, Moments(n, f, X, A, B), Falls(n, f)
  PROVE  n * A[n] - X[n] * B[n] < 0
<1>1. /\ f \in [1 .. n -> Int]
      /\ X \in [0 .. n -> Int] /\ A \in [0 .. n -> Int] /\ B \in [0 .. n -> Int]
      /\ X[0] = 0 /\ A[0] = 0 /\ B[0] = 0
      /\ \A k \in 1 .. n : X[k] = X[k - 1] + (k - 1)
      /\ \A k \in 1 .. n : A[k] = A[k - 1] + (k - 1) * f[k]
      /\ \A k \in 1 .. n : B[k] = B[k - 1] + f[k]
  BY DEF Moments
<1>2. ASSUME NEW m \in 1 .. n - 1
      PROVE  m * B[m] - A[m] - f[m + 1] * (m * m - X[m]) > 0
  <2> DEFINE c == f[m + 1]
             Q(j) == m * B[j] - A[j] - c * (m * j - X[j])
             T == {j \in 0 .. m : Q(j) >= 0 /\ (j > 0 => Q(j) > 0)}
  <2>1. m \in Nat /\ m + 1 \in 1 .. n /\ c \in Int /\ m \in Int
    BY <1>1
  <2>2. \A j \in 0 .. m : j \in 0 .. n /\ X[j] \in Int /\ A[j] \in Int /\ B[j] \in Int
    <3>1. \A j \in 0 .. m : j \in 0 .. n
      OBVIOUS
    <3>2. \A j \in 0 .. n : X[j] \in Int /\ A[j] \in Int /\ B[j] \in Int
      BY <1>1
    <3> QED BY <3>1, <3>2
  <2>3. 0 \in T
    <3>1. Q(0) = 0
      <4>1. m * 0 = 0 /\ c * (m * 0 - 0) = 0
        BY <2>1
      <4> QED BY <1>1, <2>1, <4>1
    <3> HIDE DEF Q
    <3> QED BY <2>1, <3>1
  <2>4. ASSUME NEW j \in 0 .. m - 1, j \in T PROVE j + 1 \in T
    <3> DEFINE i == j + 1
    <3>1. i \in 1 .. m /\ i \in 0 .. m /\ i \in 1 .. n /\ i \in Int /\ i - 1 = j /\ j \in 0 .. m
      BY <2>1
    <3>2. X[i] = X[j] + (i - 1) /\ A[i] = A[j] + (i - 1) * f[i] /\ B[i] = B[j] + f[i]
          /\ f[i] \in Int
      <4> HIDE DEF i
      <4> QED BY <1>1, <3>1
    <3>3. X[j] \in Int /\ A[j] \in Int /\ B[j] \in Int
      BY <2>2, <3>1
    <3>4. f[i] > c
      <4>1. i \in 1 .. (m + 1) - 1
        BY <2>1, <3>1
      <4> HIDE DEF i
      <4> QED BY <1>1, <2>1, <4>1, FallsFar
    <3> HIDE DEF i, c
    <3>5. Q(i) = Q(j) + (m - (i - 1)) * (f[i] - c)
      <4>1. m * (B[j] + f[i]) - (A[j] + (i - 1) * f[i]) - c * (m * i - (X[j] + (i - 1)))
              = (m * B[j] - A[j] - c * (m * (i - 1) - X[j])) + (m - (i - 1)) * (f[i] - c)
        BY <2>1, <3>1, <3>2, <3>3, SpreadIdentity
      <4> QED BY <3>1, <3>2, <4>1
    <3>6. (m - (i - 1)) * (f[i] - c) > 0 /\ (m - (i - 1)) * (f[i] - c) \in Int
      <4> DEFINE u == m - (i - 1)
                 v == f[i] - c
      <4>1. u \in Int /\ v \in Int /\ u > 0 /\ v > 0
        BY <2>1, <3>1, <3>2, <3>4
      <4> HIDE DEF u, v
      <4>2. u * v > 0 /\ u * v \in Int
        BY <4>1
      <4> QED BY <4>2 DEF u, v
    <3>7. Q(j) \in Int
      <4>1. m * B[j] \in Int /\ c * (m * j - X[j]) \in Int
        BY <2>1, <3>1, <3>3
      <4> QED BY <3>3, <4>1
    <3>8. Q(j) >= 0
      BY <2>4
    <3> HIDE DEF Q
    <3>9. Q(i) > 0 /\ Q(i) >= 0
      <4> DEFINE d == (m - (i - 1)) * (f[i] - c)
      <4> HIDE DEF d
      <4> QED BY <3>5, <3>6, <3>7, <3>8 DEF d
    <3>10. i \in T
      BY <3>1, <3>9
    <3> QED BY <3>10 DEF i
  <2>5. 0 .. m \subseteq T
    <3> HIDE DEF T
    <3> QED BY <2>1, <2>3, <2>4, SetInduction
  <2>6. m \in T
    BY <2>1, <2>5
  <2> HIDE DEF Q
  <2>7. Q(m) > 0
    BY <2>1, <2>6
  <2> QED BY <2>7 DEF Q
<1> DEFINE num(m) == m * A[m] - X[m] * B[m]
           l == n - 2
           U == {k \in 0 .. l : num(k + 2) < 0}
<1>3. ASSUME NEW m \in 1 .. n - 1 PROVE num(m + 1) < num(m) /\ num(m) \in Int /\ num(m + 1) \in Int
  <2> DEFINE c == f[m + 1]
  <2>1. m \in Int /\ m + 1 \in 1 .. n /\ c \in Int /\ (m + 1) - 1 = m
        /\ m \in 0 .. n
    BY <1>1
  <2>2. X[m] \in Int /\ A[m] \in Int /\ B[m] \in Int
    BY <1>1, <2>1
  <2>3. X[m + 1] = X[m] + m /\ A[m + 1] = A[m] + m * c /\ B[m + 1] = B[m] + c
    BY <1>1, <2>1
  <2> HIDE DEF c
  <2>4. num(m + 1) = num(m) - (m * B[m] - A[m] - c * (m * m - X[m]))
    <3>1. (m + 1) * (A[m] + m * c) - (X[m] + m) * (B[m] + c)
            = (m * A[m] - X[m] * B[m]) - (m * B[m] - A[m] - c * (m * m - X[m]))
      <4> DEFINE x == X[m]
                 a == A[m]
                 b == B[m]
      <4>1. x \in Int /\ a \in Int /\ b \in Int /\ m \in Int /\ c \in Int
        BY <2>1, <2>2
      <4> HIDE DEF x, a, b
      <4>2. (m + 1) * (a + m * c) - (x + m) * (b + c)
              = (m * a - x * b) - (m * b - a - c * (m * m - x))
        BY <4>1, SlopeIdentity
      <4> QED BY <4>2 DEF x, a, b
    <3> QED BY <2>3, <3>1
  <2>5. m * B[m] - A[m] - c * (m * m - X[m]) > 0
    BY <1>2 DEF c
  <2> DEFINE q == m * B[m] - A[m] - c * (m * m - X[m])
  <2>6. q \in Int /\ num(m) \in Int
    <3>1. m * B[m] \in Int /\ c * (m * m - X[m]) \in Int /\ m * A[m] \in Int /\ X[m] * B[m] \in Int
      BY <2>1, <2>2
    <3> QED BY <2>2, <3>1
  <2>7. q > 0 /\ num(m + 1) = num(m) - q
    BY <2>4, <2>5
  <2> HIDE DEF q, num
  <2> QED BY <2>6, <2>7
<1>4. num(1) = 0
  <2>1. 1 \in 1 .. n /\ 1 - 1 = 0
    OBVIOUS
  <2>2. X[1] = X[0] + 0 /\ A[1] = A[0] + 0 * f[1] /\ B[1] = B[0] + f[1] /\ f[1] \in Int
    BY <1>1, <2>1
  <2>3. X[1] = 0 /\ A[1] = 0 /\ B[1] \in Int
    BY <1>1, <2>2
  <2> QED BY <2>3
<1> HIDE DEF num
<1>5. 0 \in U
  <2>1. num(1 + 1) < num(1) /\ num(1 + 1) \in Int
    BY <1>3
  <2> QED BY <1>4, <2>1
<1>6. ASSUME NEW k \in 0 .. l - 1, k \in U PROVE k + 1 \in U
  <2>1. k + 2 \in 1 .. n - 1 /\ (k + 2) + 1 = (k + 1) + 2 /\ k + 1 \in 0 .. l
    OBVIOUS
  <2>2. num((k + 2) + 1) < num(k + 2) /\ num(k + 2) \in Int /\ num((k + 2) + 1) \in Int
    BY <1>3, <2>1
  <2>3. num(k + 2) < 0
    BY <1>6
  <2> QED BY <2>1, <2>2, <2>3
<1>7. 0 .. l \subseteq U
  <2>1. l \in Nat
    OBVIOUS
  <2> HIDE DEF U, l
  <2> QED BY <1>5, <1>6, <2>1, SetInduction
<1>8. l \in U /\ l + 2 = n
  BY <1>7
<1>9. num(n) < 0
  BY <1>8
<1> QED BY <1>9 DEF num

(* The numerator and denominator of the slope of the samples w. *)
SlopeOf(w) ==
  LET size  == Len(w)
      xs    == [k \in 1 .. size |-> k - 1]
      xys   == [k \in 1 .. size |-> (k - 1) * w[k]]
      x2s   == [k \in 1 .. size |-> (k - 1) * (k - 1)] IN
  <<-(size * Total(xys) - Total(xs) * Total(w)), size * Total(x2s) - Total(xs) * Total(xs)>>

(* The sign of a product. *)
LEMMA NegatedProduct ==
  ASSUME NEW a \in Int, NEW b \in Int
  PROVE  a * (-b) = -(a * b) /\ a * b \in Int
OBVIOUS

(* Samples that rise have a slope above nothing, and the other way round. *)
LEMMA SlopeOfSamples ==
  ASSUME NEW w \in Seq(Int), Len(w) >= 2
  PROVE  /\ SlopeOf(w)[2] > 0
         /\ (\A k \in 1 .. Len(w) - 1 : w[k] > w[k + 1]) => SlopeOf(w)[1] > 0
         /\ (\A k \in 1 .. Len(w) - 1 : w[k] < w[k + 1]) => SlopeOf(w)[1] < 0
<1> DEFINE n == Len(w)
           xs == [k \in 1 .. n |-> k - 1]
           xys == [k \in 1 .. n |-> (k - 1) * w[k]]
           x2s == [k \in 1 .. n |-> (k - 1) * (k - 1)]
<1>1. n \in Nat /\ n >= 2 /\ \A k \in 1 .. n : w[k] \in Int
  BY LenProperties
<1>2. /\ SlopeOf(w)[1] = -(n * Total(xys) - Total(xs) * Total(w))
      /\ SlopeOf(w)[2] = n * Total(x2s) - Total(xs) * Total(xs)
  BY DEF SlopeOf
<1>3. xs \in Seq(Int) /\ Len(xs) = n /\ \A k \in 1 .. n : xs[k] = k - 1
  <2> HIDE DEF n
  <2> QED BY <1>1
<1>4. xys \in Seq(Int) /\ Len(xys) = n /\ \A k \in 1 .. n : xys[k] = (k - 1) * w[k]
  <2>1. \A k \in 1 .. n : (k - 1) * w[k] \in Int
    BY <1>1
  <2> HIDE DEF n
  <2> QED BY <1>1, <2>1
<1>5. x2s \in Seq(Int) /\ Len(x2s) = n /\ \A k \in 1 .. n : x2s[k] = (k - 1) * (k - 1)
  <2>1. \A k \in 1 .. n : (k - 1) * (k - 1) \in Int
    BY <1>1
  <2> HIDE DEF n
  <2> QED BY <1>1, <2>1
<1> HIDE DEF xs, xys, x2s
<1>6. PICK X : PrefixSums(xs, n, X) /\ Total(xs) = X[n]
  BY <1>3, TotalIs
<1>7. PICK A : PrefixSums(xys, n, A) /\ Total(xys) = A[n]
  BY <1>4, TotalIs
<1>8. PICK Y : PrefixSums(x2s, n, Y) /\ Total(x2s) = Y[n]
  BY <1>5, TotalIs
<1>9. PICK B : PrefixSums(w, n, B) /\ Total(w) = B[n]
  BY TotalIs
<1>10. /\ X \in [0 .. n -> Int] /\ X[0] = 0 /\ \A k \in 1 .. n : X[k] = X[k - 1] + (k - 1)
       /\ A \in [0 .. n -> Int] /\ A[0] = 0 /\ \A k \in 1 .. n : A[k] = A[k - 1] + (k - 1) * w[k]
       /\ Y \in [0 .. n -> Int] /\ Y[0] = 0 /\ \A k \in 1 .. n : Y[k] = Y[k - 1] + (k - 1) * (k - 1)
       /\ B \in [0 .. n -> Int] /\ B[0] = 0 /\ \A k \in 1 .. n : B[k] = B[k - 1] + w[k]
  <2> HIDE DEF n
  <2> QED BY <1>3, <1>4, <1>5, <1>6, <1>7, <1>8, <1>9 DEF PrefixSums
<1> HIDE DEF n
<1>11. X[n] \in Int /\ A[n] \in Int /\ Y[n] \in Int /\ B[n] \in Int
  BY <1>1, <1>10
<1> DEFINE f == [k \in 1 .. n |-> w[k]]
           nf == [k \in 1 .. n |-> -w[k]]
           nx == [k \in 1 .. n |-> -(k - 1)]
           nA == [k \in 0 .. n |-> -A[k]]
           nB == [k \in 0 .. n |-> -B[k]]
           nX == [k \in 0 .. n |-> -X[k]]
           nY == [k \in 0 .. n |-> -Y[k]]
<1>12. \A k \in 1 .. n : k - 1 \in 0 .. n /\ k \in 0 .. n
  BY <1>1
<1>13. Moments(n, f, X, A, B)
  BY <1>1, <1>10 DEF Moments
<1>14. Moments(n, nf, X, nA, nB)
  <2>1. nf \in [1 .. n -> Int] /\ nA \in [0 .. n -> Int] /\ nB \in [0 .. n -> Int]
    <3>1. nf \in [1 .. n -> Int]
      BY <1>1
    <3>2. A \in [0 .. n -> Int] /\ B \in [0 .. n -> Int]
      BY <1>10
    <3>3. nA \in [0 .. n -> Int] /\ nB \in [0 .. n -> Int]
      BY <3>2
    <3> QED BY <3>1, <3>3
  <2>2. nA[0] = 0 /\ nB[0] = 0
    BY <1>1, <1>10
  <2>3. ASSUME NEW k \in 1 .. n
        PROVE  nA[k] = nA[k - 1] + (k - 1) * nf[k] /\ nB[k] = nB[k - 1] + nf[k]
    <3>1. nA[k] = -A[k] /\ nA[k - 1] = -A[k - 1] /\ nB[k] = -B[k] /\ nB[k - 1] = -B[k - 1]
          /\ nf[k] = -w[k]
      BY <1>12
    <3>2. A[k] = A[k - 1] + (k - 1) * w[k] /\ B[k] = B[k - 1] + w[k]
      BY <1>10
    <3>3. A[k - 1] \in Int /\ B[k - 1] \in Int /\ w[k] \in Int
      BY <1>1, <1>10, <1>12
    <3>4. (k - 1) * (-w[k]) = -((k - 1) * w[k]) /\ (k - 1) * w[k] \in Int
      <4>1. k - 1 \in Int
        OBVIOUS
      <4> QED BY <3>3, <4>1, NegatedProduct
    <3> DEFINE p == (k - 1) * w[k]
    <3>5. nA[k] = -A[k] /\ -A[k] = -A[k - 1] + -p /\ nA[k - 1] = -A[k - 1]
          /\ (k - 1) * nf[k] = -p
      <4>1. A[k] = A[k - 1] + p /\ p \in Int
        BY <3>2, <3>4
      <4>2. (k - 1) * nf[k] = -p
        BY <3>1, <3>4
      <4> HIDE DEF p, nf, nA
      <4> QED BY <3>1, <3>3, <4>1, <4>2
    <3>6. nA[k] = nA[k - 1] + (k - 1) * nf[k]
      <4> HIDE DEF p, nf, nA
      <4> QED BY <3>5
    <3>7. nB[k] = nB[k - 1] + nf[k]
      <4> HIDE DEF nf, nB
      <4> QED BY <3>1, <3>2, <3>3
    <3> QED BY <3>6, <3>7
  <2> HIDE DEF nf, nA, nB
  <2> QED BY <1>10, <2>1, <2>2, <2>3 DEF Moments
<1>15. Moments(n, nx, X, nY, nX)
  <2>1. nx \in [1 .. n -> Int] /\ nY \in [0 .. n -> Int] /\ nX \in [0 .. n -> Int]
    <3>1. nx \in [1 .. n -> Int]
      BY <1>1
    <3>2. Y \in [0 .. n -> Int] /\ X \in [0 .. n -> Int]
      BY <1>10
    <3>3. nY \in [0 .. n -> Int] /\ nX \in [0 .. n -> Int]
      BY <3>2
    <3> QED BY <3>1, <3>3
  <2>2. nY[0] = 0 /\ nX[0] = 0
    BY <1>1, <1>10
  <2>3. ASSUME NEW k \in 1 .. n
        PROVE  nY[k] = nY[k - 1] + (k - 1) * nx[k] /\ nX[k] = nX[k - 1] + nx[k]
    <3>1. nY[k] = -Y[k] /\ nY[k - 1] = -Y[k - 1] /\ nX[k] = -X[k] /\ nX[k - 1] = -X[k - 1]
          /\ nx[k] = -(k - 1)
      BY <1>12
    <3>2. Y[k] = Y[k - 1] + (k - 1) * (k - 1) /\ X[k] = X[k - 1] + (k - 1)
      BY <1>10
    <3>3. Y[k - 1] \in Int /\ X[k - 1] \in Int
      BY <1>1, <1>10, <1>12
    <3>4. (k - 1) * (-(k - 1)) = -((k - 1) * (k - 1)) /\ (k - 1) * (k - 1) \in Int
      OBVIOUS
    <3> QED BY <3>1, <3>2, <3>3, <3>4
  <2> HIDE DEF nx, nY, nX
  <2> QED BY <1>10, <2>1, <2>2, <2>3 DEF Moments
<1>16. nA[n] = -A[n] /\ nB[n] = -B[n] /\ nX[n] = -X[n] /\ nY[n] = -Y[n]
  BY <1>1
<1>17. SlopeOf(w)[2] > 0
  <2>1. Falls(n, nx)
    BY <1>1 DEF Falls
  <2> HIDE DEF nx, nX, nY
  <2>2. n * nY[n] - X[n] * nX[n] < 0
    BY <1>1, <1>15, <2>1, SlopeOfFalling
  <2>3. n * (-Y[n]) - X[n] * (-X[n]) < 0
    BY <1>16, <2>2
  <2>4. n * Y[n] - X[n] * X[n] > 0
    BY <1>1, <1>11, <2>3, SMTT(30)
  <2> QED BY <1>2, <1>6, <1>8, <2>4
<1>18. ASSUME \A k \in 1 .. n - 1 : w[k] > w[k + 1] PROVE SlopeOf(w)[1] > 0
  <2>1. Falls(n, f)
    BY <1>1, <1>18 DEF Falls
  <2> HIDE DEF f
  <2>2. n * A[n] - X[n] * B[n] < 0
    BY <1>1, <1>13, <2>1, SlopeOfFalling
  <2>3. n * A[n] - X[n] * B[n] \in Int
    BY <1>1, <1>11
  <2>4. -(n * A[n] - X[n] * B[n]) > 0
    BY <2>2, <2>3
  <2> QED BY <1>2, <1>6, <1>7, <1>9, <2>4
<1>19. ASSUME \A k \in 1 .. n - 1 : w[k] < w[k + 1] PROVE SlopeOf(w)[1] < 0
  <2>1. Falls(n, nf)
    <3> SUFFICES ASSUME NEW k \in 1 .. n - 1 PROVE nf[k] > nf[k + 1]
      BY DEF Falls
    <3>1. w[k] < w[k + 1] /\ k \in 1 .. n /\ k + 1 \in 1 .. n
      BY <1>1, <1>19
    <3>2. w[k] \in Int /\ w[k + 1] \in Int
      BY <1>1, <3>1
    <3> QED BY <3>1, <3>2
  <2> HIDE DEF nf, nA, nB
  <2>2. n * nA[n] - X[n] * nB[n] < 0
    BY <1>1, <1>14, <2>1, SlopeOfFalling
  <2>3. n * (-A[n]) - X[n] * (-B[n]) < 0
    BY <1>16, <2>2
  <2>4. -(n * A[n] - X[n] * B[n]) < 0
    BY <1>1, <1>11, <2>3, SMTT(30)
  <2> QED BY <1>2, <1>6, <1>7, <1>9, <2>4
<1> QED BY <1>17, <1>18, <1>19 DEF n

(* Samples far from the mean: their number times the squared limit stays *)
(* below the number of samples. *)
OffMean(w, k) == Len(w) * w[k] - Total(w)
SpreadOf(w)   == Total([k \in 1 .. Len(w) |-> OffMean(w, k) * OffMean(w, k)])
FarOff(w, z)  ==
  {k \in 1 .. Len(w) : (Len(w) - 1) * OffMean(w, k) * OffMean(w, k) > z * z * SpreadOf(w)}

(* Few samples are far from their mean, by Chebyshev. *)
LEMMA FewAreFar ==
  ASSUME NEW w \in Seq(Int), Len(w) >= 1, SpreadOf(w) # 0, NEW z \in 1 .. 2
  PROVE  Cardinality(FarOff(w, z)) * z * z < Len(w)
<1> DEFINE n == Len(w)
           off(k) == OffMean(w, k)
           sq == [k \in 1 .. n |-> off(k) * off(k)]
           K == FarOff(w, z)
           V == SpreadOf(w)
<1>1. n \in Nat /\ n >= 1 /\ Total(w) \in Int /\ \A k \in 1 .. n : w[k] \in Int
  <2>1. PICK g : PrefixSums(w, n, g) /\ Total(w) = g[n]
    BY TotalIs
  <2>2. n \in Nat /\ \A k \in 1 .. n : w[k] \in Int
    BY LenProperties
  <2> HIDE DEF n
  <2> QED BY <2>1, <2>2 DEF PrefixSums, n
<1>2. \A k \in 1 .. n : off(k) \in Int
  BY <1>1 DEF OffMean
<1> HIDE DEF off, n, K, V
<1>3. \A k \in 1 .. n : off(k) * off(k) \in Nat
  <2> SUFFICES ASSUME NEW k \in 1 .. n PROVE off(k) * off(k) \in Nat
    OBVIOUS
  <2> DEFINE o == off(k)
  <2>1. o \in Int
    BY <1>2
  <2> HIDE DEF o
  <2>2. o * o \in Nat
    BY <2>1
  <2> QED BY <2>2 DEF o
<1>4. sq \in Seq(Int) /\ Len(sq) = n /\ \A k \in 1 .. n : sq[k] = off(k) * off(k) /\ sq[k] \in Nat
  BY <1>1, <1>3
<1>5. V = Total(sq)
  BY DEF V, SpreadOf, off, n
<1> HIDE DEF sq
<1>6. PICK g : PrefixSums(sq, n, g) /\ Total(sq) = g[n]
  BY <1>4, TotalIs
<1>7. g \in [0 .. n -> Int] /\ g[0] = 0 /\ \A k \in 1 .. n : g[k] = g[k - 1] + sq[k]
  BY <1>6 DEF PrefixSums
<1>8. V = g[n] /\ V \in Int
  BY <1>1, <1>5, <1>6, <1>7
<1> DEFINE q == z * z * V
           P(j) == K \cap (1 .. j)
           c(j) == Cardinality(P(j))
           U == {j \in 0 .. n : g[j] >= 0}
           T == {j \in 0 .. n : c(j) * q <= (n - 1) * g[j]}
<1>9. K = {k \in 1 .. n : (n - 1) * off(k) * off(k) > q}
  BY Zenon DEF K, FarOff, off, n, V
<1>10. \A j \in 0 .. n : IsFiniteSet(P(j)) /\ c(j) \in Nat
  <2> SUFFICES ASSUME NEW j \in 0 .. n PROVE IsFiniteSet(P(j)) /\ c(j) \in Nat
    OBVIOUS
  <2>1. 1 \in Int /\ j \in Int
    OBVIOUS
  <2>2. IsFiniteSet(1 .. j)
    BY <2>1, FS_Interval
  <2>3. P(j) \in SUBSET (1 .. j)
    OBVIOUS
  <2> HIDE DEF P
  <2> QED BY <2>2, <2>3, PartCounts
<1>11. 0 .. n \subseteq U
  <2>1. 0 \in U
    BY <1>1, <1>7
  <2>2. ASSUME NEW j \in 0 .. n - 1, j \in U PROVE j + 1 \in U
    <3>1. j + 1 \in 1 .. n /\ j + 1 \in 0 .. n /\ (j + 1) - 1 = j /\ j \in 0 .. n
      BY <1>1
    <3>2. g[j + 1] = g[j] + sq[j + 1] /\ g[j] \in Int /\ g[j] >= 0 /\ sq[j + 1] \in Nat
      BY <1>4, <1>7, <2>2, <3>1
    <3> QED BY <3>1, <3>2
  <2> HIDE DEF U
  <2> QED BY <1>1, <2>1, <2>2, SetInduction
<1>12. V > 0 /\ V \in Nat
  <2>1. n \in U
    BY <1>1, <1>11
  <2> QED BY <1>8, <2>1 DEF V
<1>13. q \in Nat
  <2>1. z = 1 \/ z = 2
    OBVIOUS
  <2> QED BY <1>12, <2>1
<1> HIDE DEF q
<1>14. 0 .. n \subseteq T
  <2>1. 0 \in T
    <3>1. P(0) = {}
      OBVIOUS
    <3>2. c(0) = 0
      BY <3>1, FS_EmptySet
    <3> HIDE DEF c
    <3>3. c(0) * q = 0 /\ (n - 1) * g[0] = 0
      BY <1>1, <1>7, <1>13, <3>2
    <3> QED BY <1>1, <3>3
  <2>2. ASSUME NEW j \in 0 .. n - 1, j \in T PROVE j + 1 \in T
    <3> DEFINE i == j + 1
               d == n - 1
               s == sq[i]
    <3>1. i \in 1 .. n /\ i \in 0 .. n /\ i - 1 = j /\ j \in 0 .. n /\ i \notin P(j) /\ d \in Nat
      BY <1>1
    <3>2. g[i] = g[j] + s /\ g[j] \in Int /\ s \in Nat /\ off(i) \in Int /\ s = off(i) * off(i)
      <4> HIDE DEF i
      <4> QED BY <1>2, <1>4, <1>7, <3>1
    <3>3. c(j) * q <= d * g[j] /\ c(j) \in Nat
      BY <1>10, <2>2, <3>1
    <3>4. d * s \in Nat /\ d * (g[j] + s) = d * g[j] + d * s /\ d * g[j] \in Int
      <4> HIDE DEF d, s
      <4> QED BY <3>1, <3>2, SMTT(30)
    <3>5. CASE i \in K
      <4>1. P(i) = P(j) \cup {i}
        BY <3>5
      <4> HIDE DEF i, P
      <4>2. c(i) = c(j) + 1
        BY <1>10, <3>1, <4>1, FS_AddElement
      <4>3. d * off(i) * off(i) > q
        BY <1>9, <3>1, <3>5
      <4> DEFINE o == off(i)
      <4>4. d * o * o = d * s
        <5>1. o \in Int /\ d \in Int /\ s = o * o
          BY <3>1, <3>2
        <5> HIDE DEF o, d, s
        <5>2. d * o * o = d * (o * o)
          BY <5>1
        <5> QED BY <5>1, <5>2
      <4>5. d * s > q
        BY <4>3, <4>4
      <4> HIDE DEF c, d, s
      <4>6. (c(j) + 1) * q = c(j) * q + q /\ c(j) * q \in Nat
        BY <1>13, <3>3
      <4>7. c(i) * q <= d * g[i]
        BY <1>13, <3>2, <3>3, <3>4, <4>2, <4>5, <4>6, SMTT(30)
      <4>8. i \in T
        BY <3>1, <4>7 DEF d
      <4> QED BY <4>8 DEF i
    <3>6. CASE i \notin K
      <4>1. P(i) = P(j)
        BY <3>6
      <4>2. c(i) = c(j)
        BY <4>1
      <4> HIDE DEF i, P, c, d, s
      <4>3. c(j) * q \in Nat
        BY <1>13, <3>3
      <4>4. c(i) * q <= d * g[i]
        BY <3>2, <3>3, <3>4, <4>2, <4>3
      <4>5. i \in T
        BY <3>1, <4>4 DEF d
      <4> QED BY <4>5 DEF i
    <3> QED BY <3>5, <3>6
  <2> HIDE DEF T
  <2> QED BY <1>1, <2>1, <2>2, SetInduction
<1>15. P(n) = K
  BY <1>9
<1>16. Cardinality(K) * q <= (n - 1) * V /\ Cardinality(K) \in Nat
  <2>1. n \in T /\ n \in 0 .. n
    BY <1>1, <1>14
  <2> QED BY <1>8, <1>10, <1>15, <2>1
<1> DEFINE C == Cardinality(K)
<1> HIDE DEF C
<1>17. C * z * z < n
  <2>1. C \in Nat /\ C * q <= (n - 1) * V
    BY <1>16 DEF C
  <2> DEFINE a == C * z * z
  <2>2. a \in Nat /\ C * q = a * V
    <3>1. z = 1 \/ z = 2
      OBVIOUS
    <3> QED BY <1>12, <2>1, <3>1 DEF q
  <2> HIDE DEF a
  <2>3. SUFFICES ASSUME n <= a PROVE FALSE
    BY <1>1, <2>2 DEF a
  <2>4. n * V <= a * V /\ n * V \in Nat /\ a * V \in Nat
    BY <1>1, <1>12, <2>2, <2>3, ProductGrows
  <2>5. (n - 1) * V = n * V - V
    BY <1>1, <1>12
  <2> QED BY <1>1, <1>12, <2>1, <2>2, <2>4, <2>5
<1> QED BY <1>17 DEF C, K, n

(* What the run checks of the trend. *)
LEMMA TrendFollows ==
  ASSUME RingOK
  PROVE  /\ TrendIsOfTheNewest
         /\ trend.index \in 0 .. TrendPoints - 1 /\ trend.count \in 0 .. TrendPoints
<1>1. /\ TrendPoints \in Nat /\ trend.count \in 0 .. TrendPoints
      /\ trend.index \in 0 .. TrendPoints - 1 /\ trend.count \in Nat
  BY DiagAssumption DEF RingOK
<1>2. ASSUME NEW n \in 2 .. TrendPoints + 1
      PROVE  LET w   == Window(n)
                 avg == diag_trend_moving_average(n)
                 up(s) == \A k \in 1 .. Len(s) - 1 : s[k] > s[k + 1]
                 dn(s) == \A k \in 1 .. Len(s) - 1 : s[k] < s[k + 1] IN
             /\ w = SubSeq(recorded, 1, Min({n, Len(recorded)}))
             /\ w # << >> => Min(ToSet(w)) * avg[2] <= avg[1] /\ avg[1] <= Max(ToSet(w)) * avg[2]
             /\ Len(w) >= 2 => /\ diag_trend_slope(n)[2] > 0
                               /\ up(w) => diag_trend_slope(n)[1] > 0
                               /\ dn(w) => diag_trend_slope(n)[1] < 0
             /\ \A z \in 1 .. 2 : diag_detect_anomalies(n, z) * z * z < Max({Len(w), 1})
  <2> DEFINE w == Window(n)
             m == Len(w)
             avg == diag_trend_moving_average(n)
             W == ToSet(w)
  <2>1. n \in Nat /\ n >= 2
    BY <1>1
  <2>2. /\ w \in Seq(Int) /\ m = (IF n <= trend.count THEN n ELSE trend.count)
        /\ w = SubSeq(recorded, 1, Min({n, Len(recorded)}))
    <3> HIDE DEF w
    <3> QED BY <2>1, WindowIs DEF w
  <2> HIDE DEF w
  <2>3. m \in Nat /\ \A k \in 1 .. m : w[k] \in Int
    BY <2>2, LenProperties
  <2>4. ASSUME w # << >> PROVE Min(W) * avg[2] <= avg[1] /\ avg[1] <= Max(W) * avg[2]
    <3>1. m > 0
      <4>1. w \in Seq(Int)
        BY <2>2
      <4>2. m # 0
        BY <2>4, <4>1, EmptySeq
      <4> HIDE DEF m
      <4> QED BY <2>3, <4>2
    <3>2. avg = <<Total(w), m>>
      <4>1. trend.count # 0 /\ n # 0
        BY <1>1, <2>1, <2>2, <3>1
      <4> QED BY <4>1 DEF diag_trend_moving_average, w
    <3>3. W = {w[k] : k \in 1 .. m}
      <4>1. DOMAIN w = 1 .. m
        BY <2>2, LenProperties
      <4> QED BY <4>1 DEF ToSet
    <3>4. W \subseteq Int /\ W # {} /\ \A k \in 1 .. m : w[k] \in W
      <4> HIDE DEF m, W
      <4>1. 1 \in 1 .. m
        BY <2>3, <3>1
      <4> QED BY <2>3, <3>3, <4>1
    <3>5. IsFiniteSet(W)
      <4>1. 1 \in Int /\ m \in Int
        BY <2>3
      <4>2. IsFiniteSet(1 .. m)
        BY <4>1, FS_Interval
      <4> DEFINE f == [k \in 1 .. m |-> w[k]]
      <4>3. f = [k \in 1 .. m |-> f[k]] /\ W = {f[k] : k \in 1 .. m}
        BY <3>3
      <4> HIDE DEF f, W, m
      <4> QED BY <4>2, <4>3, FiniteImage
    <3> HIDE DEF W
    <3>6. /\ Min(W) \in Int /\ (\A y \in W : Min(W) <= y)
          /\ Max(W) \in Int /\ (\A y \in W : y <= Max(W))
      BY <3>4, <3>5, MinOfInts, MaxOfInts
    <3>7. \A k \in 1 .. Len(w) : Min(W) <= w[k] /\ w[k] <= Max(W)
      BY <3>4, <3>6
    <3>8. Min(W) * Len(w) <= Total(w) /\ Total(w) <= Max(W) * Len(w)
      BY <2>2, <3>6, <3>7, TotalBetween
    <3> HIDE DEF avg
    <3> QED BY <3>2, <3>8
  <2>5. ASSUME m >= 2
        PROVE  /\ diag_trend_slope(n)[2] > 0
               /\ (\A k \in 1 .. m - 1 : w[k] > w[k + 1]) => diag_trend_slope(n)[1] > 0
               /\ (\A k \in 1 .. m - 1 : w[k] < w[k + 1]) => diag_trend_slope(n)[1] < 0
    <3>1. diag_trend_slope(n) = SlopeOf(w)
      <4>1. ~ trend.count < 2 /\ ~ n < 2
        BY <1>1, <2>1, <2>2, <2>5
      <4> QED BY <4>1, Zenon DEF diag_trend_slope, SlopeOf, w
    <3> QED BY <2>2, <2>5, <3>1, SlopeOfSamples
  <2>6. ASSUME NEW z \in 1 .. 2 PROVE diag_detect_anomalies(n, z) * z * z < Max({m, 1})
    <3>1. Max({m, 1}) = IF m >= 1 THEN m ELSE 1
      <4>1. m \in Int /\ 1 \in Int
        BY <2>3
      <4> HIDE DEF m
      <4> QED BY <4>1, MaxOfTwo
    <3>2. diag_detect_anomalies(n, z) =
            IF trend.count < 3 \/ n < 3 \/ SpreadOf(w) = 0 THEN 0 ELSE Cardinality(FarOff(w, z))
      BY Zenon DEF diag_detect_anomalies, SpreadOf, FarOff, OffMean, w
    <3>3. CASE trend.count < 3 \/ n < 3 \/ SpreadOf(w) = 0
      <4>1. diag_detect_anomalies(n, z) = 0
        BY <3>2, <3>3
      <4>2. 0 * z * z = 0
        OBVIOUS
      <4> HIDE DEF m
      <4> QED BY <2>3, <3>1, <4>1, <4>2
    <3>4. CASE ~ (trend.count < 3 \/ n < 3 \/ SpreadOf(w) = 0)
      <4>1. diag_detect_anomalies(n, z) = Cardinality(FarOff(w, z))
        BY <3>2, <3>4
      <4>2. Len(w) >= 1
        BY <1>1, <2>1, <2>2, <3>4
      <4>3. Cardinality(FarOff(w, z)) * z * z < Len(w)
        BY <2>2, <3>4, <4>2, FewAreFar
      <4> QED BY <3>1, <4>1, <4>2, <4>3
    <3> QED BY <3>3, <3>4
  <2> HIDE DEF avg
  <2> QED BY <2>2, <2>4, <2>5, <2>6 DEF w, avg
<1>3. TrendIsOfTheNewest
  BY <1>2, Zenon DEF TrendIsOfTheNewest
<1> QED BY <1>1, <1>3

(* The type of the diagnostics. *)
LEMMA DiagTypeFollows ==
  ASSUME FaultsOK, MeasuredOK, RingOK
  PROVE  DiagTypeOK
BY FaultsFollow, TrendFollows DEF DiagTypeOK

-----------------------------------------------------------------------------
(* Recursion and induction along the numbers of the nodes of a tree. *)

(* What is given for every node from what is given for the nodes below it. *)
FromBelow(G, V) ==
  /\ G \in [TreeNode -> [[TreeNode -> V] -> V]]
  /\ \A n \in TreeNode : \A f, h \in [TreeNode -> V] :
       (\A m \in TreeNode : m < n => f[m] = h[m]) => G[n][f] = G[n][h]

(* The nodes are natural numbers, and there is a number above them all. *)
LEMMA NodesAreBounded ==
  /\ TreeNode \subseteq Nat /\ IsFiniteSet(TreeNode)
  /\ \E b \in Nat : \A n \in TreeNode : n < b
<1>1. TreeNode \subseteq Nat /\ IsFiniteSet(TreeNode)
  BY AvailabilityAssumption DEF TreeNode
<1>2. CASE TreeNode = {}
  <2>1. \A n \in TreeNode : n < 0
    BY <1>2
  <2> QED BY <1>1, <2>1
<1>3. CASE TreeNode # {}
  <2>1. TreeNode \subseteq Int
    BY <1>1
  <2>2. Max(TreeNode) \in TreeNode /\ \A n \in TreeNode : n <= Max(TreeNode)
    BY <1>1, <1>3, <2>1, MaxOfInts
  <2> DEFINE top == Max(TreeNode)
  <2> HIDE DEF top
  <2>3. top \in Nat /\ \A n \in TreeNode : n \in Nat /\ n <= top
    BY <1>1, <2>2 DEF top
  <2>4. top + 1 \in Nat /\ \A n \in TreeNode : n < top + 1
    BY <2>3
  <2> QED BY <1>1, <2>4
<1> QED BY <1>2, <1>3

(* What holds of a node when it holds of the nodes below it holds of all. *)
LEMMA NodeInduction ==
  ASSUME NEW T, \A n \in TreeNode : (\A m \in TreeNode : m < n => m \in T) => n \in T
  PROVE  TreeNode \subseteq T
<1> DEFINE M == TreeNode \ T
<1>1. SUFFICES ASSUME M # {} PROVE FALSE
  OBVIOUS
<1>2. M \subseteq Nat
  BY NodesAreBounded
<1>3. PICK n \in M : \A m \in M : n <= m
  <2> HIDE DEF M
  <2> QED BY <1>1, <1>2, LeastNat
<1>4. \A m \in TreeNode : m < n => m \in T
  BY <1>3, NodesAreBounded
<1> QED BY <1>3, <1>4

(* A recursive definition along the tree has a solution. *)
LEMMA TreeRecursion ==
  ASSUME NEW V, NEW v \in V, NEW G, FromBelow(G, V)
  PROVE  \E f \in [TreeNode -> V] : \A n \in TreeNode : f[n] = G[n][f]
<1>1. PICK b \in Nat : \A n \in TreeNode : n < b
  BY NodesAreBounded
<1> DEFINE Upto(f, k) == \A n \in TreeNode : n < k => f[n] = G[n][f]
           T == {k \in 0 .. b : \E f \in [TreeNode -> V] : Upto(f, k)}
<1>2. TreeNode \subseteq Nat
  BY NodesAreBounded
<1>3. 0 \in T
  <2>1. [n \in TreeNode |-> v] \in [TreeNode -> V]
    OBVIOUS
  <2>2. Upto([n \in TreeNode |-> v], 0)
    BY <1>2
  <2> HIDE DEF Upto
  <2> QED BY <2>1, <2>2
<1>4. ASSUME NEW k \in 0 .. b - 1, k \in T PROVE k + 1 \in T
  <2>1. PICK f \in [TreeNode -> V] : Upto(f, k)
    BY <1>4
  <2> DEFINE h == [n \in TreeNode |-> G[n][f]]
  <2>2. h \in [TreeNode -> V]
    BY DEF FromBelow
  <2>3. ASSUME NEW n \in TreeNode, n < k + 1 PROVE h[n] = G[n][h]
    <3>1. \A m \in TreeNode : m < n => f[m] = h[m]
      BY <1>2, <2>1, <2>3
    <3>2. G[n][f] = G[n][h]
      <4> HIDE DEF h
      <4> QED BY <2>2, <3>1 DEF FromBelow
    <3> QED BY <3>2
  <2>4. Upto(h, k + 1)
    BY <2>3
  <2>5. k + 1 \in 0 .. b
    OBVIOUS
  <2> HIDE DEF Upto, h
  <2> QED BY <2>2, <2>4, <2>5
<1>5. 0 .. b \subseteq T
  <2> HIDE DEF T
  <2> QED BY <1>3, <1>4, SetInduction
<1>6. PICK f \in [TreeNode -> V] : Upto(f, b)
  BY <1>5
<1> QED BY <1>1, <1>6

-----------------------------------------------------------------------------
(* Block diagrams of fractions. *)

Pair == Int \X Int

PairProducts(ps, n, g) ==
  /\ g \in [0 .. n -> Pair] /\ g[0] = <<1, 1>>
  /\ \A k \in 1 .. n : g[k] = <<g[k - 1][1] * ps[k][1], g[k - 1][2] * ps[k][2]>>

(* The loop over the blocks in series. *)
LEMMA SeriesIs ==
  ASSUME NEW ps, NEW n \in Nat, Len(ps) = n, \A k \in 1 .. n : ps[k] \in Pair
  PROVE  \E g : PairProducts(ps, n, g) /\ rbd_series_availability(ps) = g[n]
<1> DEFINE at == CHOOSE g : g = [k \in 0 .. n |->
                   IF k = 0 THEN <<1, 1>>
                   ELSE <<g[k - 1][1] * ps[k][1], g[k - 1][2] * ps[k][2]>>]
<1>2. rbd_series_availability(ps) = at[n]
  BY Zenon DEF rbd_series_availability
<1>3. PICK g : PairProducts(ps, n, g)
  <2> DEFINE F == [k \in 1 .. n |-> [c \in Pair |-> <<c[1] * ps[k][1], c[2] * ps[k][2]>>]]
  <2>1. F \in [1 .. n -> [Pair -> Pair]]
    <3>1. ASSUME NEW k \in 1 .. n, NEW c \in Pair
          PROVE  <<c[1] * ps[k][1], c[2] * ps[k][2]>> \in Pair
      <4>1. c[1] \in Int /\ c[2] \in Int /\ ps[k][1] \in Int /\ ps[k][2] \in Int
        BY DEF Pair
      <4> QED BY <4>1 DEF Pair
    <3> HIDE DEF Pair
    <3> QED BY <3>1
  <2>2. <<1, 1>> \in Pair
    BY DEF Pair
  <2> HIDE DEF F
  <2>3. PICK g \in Courses(n, Pair, <<1, 1>>, F) : TRUE
    BY <2>1, <2>2, Iteration
  <2>4. \A k \in 1 .. n : g[k] = <<g[k - 1][1] * ps[k][1], g[k - 1][2] * ps[k][2]>>
    <3> TAKE k \in 1 .. n
    <3>1. k - 1 \in 0 .. n
      OBVIOUS
    <3>2. g[k] = F[k][g[k - 1]] /\ g[k - 1] \in Pair
      BY <2>3, <3>1 DEF Courses
    <3> QED BY <3>2 DEF F
  <2>5. g \in [0 .. n -> Pair] /\ g[0] = <<1, 1>>
    BY <2>3 DEF Courses
  <2> QED BY <2>4, <2>5 DEF PairProducts
<1>4. at = [k \in 0 .. n |-> IF k = 0 THEN <<1, 1>>
                             ELSE <<at[k - 1][1] * ps[k][1], at[k - 1][2] * ps[k][2]>>]
  <2> DEFINE e(k) == IF k = 0 THEN <<1, 1>>
                     ELSE <<g[k - 1][1] * ps[k][1], g[k - 1][2] * ps[k][2]>>
  <2>1. g = [k \in 0 .. n |-> g[k]]
    BY <1>3 DEF PairProducts
  <2>2. ASSUME NEW k \in 0 .. n PROVE g[k] = e(k)
    <3>1. CASE k = 0
      <4>1. g[0] = <<1, 1>>
        BY <1>3 DEF PairProducts
      <4> QED BY <3>1, <4>1
    <3>2. CASE k # 0
      <4>1. k \in 1 .. n
        BY <3>2
      <4>2. g[k] = <<g[k - 1][1] * ps[k][1], g[k - 1][2] * ps[k][2]>>
        BY <1>3, <4>1 DEF PairProducts
      <4> QED BY <3>2, <4>2, Zenon
    <3> QED BY <3>1, <3>2
  <2>3. g = [k \in 0 .. n |-> e(k)]
    <3> HIDE DEF e
    <3> QED BY <2>1, <2>2
  <2> QED BY <2>3, Zenon
<1> HIDE DEF at
<1>5. at[0] = <<1, 1>>
      /\ \A k \in 1 .. n : at[k] = <<at[k - 1][1] * ps[k][1], at[k - 1][2] * ps[k][2]>>
  <2>1. at[0] = <<1, 1>>
    BY <1>4
  <2>2. ASSUME NEW k \in 1 .. n
        PROVE  at[k] = <<at[k - 1][1] * ps[k][1], at[k - 1][2] * ps[k][2]>>
    <3>1. k \in 0 .. n /\ k # 0
      OBVIOUS
    <3> QED BY <1>4, <3>1
  <2> QED BY <2>1, <2>2
<1>6. at[n] = g[n]
  <2> DEFINE T == {k \in 0 .. n : at[k] = g[k]}
  <2>1. 0 \in T
    <3>1. g[0] = <<1, 1>> /\ at[0] = <<1, 1>>
      BY <1>3, <1>5 DEF PairProducts
    <3> QED BY <3>1
  <2>2. ASSUME NEW k \in 0 .. n - 1, k \in T PROVE k + 1 \in T
    <3>1. k + 1 \in 1 .. n /\ (k + 1) - 1 = k
      OBVIOUS
    <3>2. /\ at[k + 1] = <<at[k][1] * ps[k + 1][1], at[k][2] * ps[k + 1][2]>>
          /\ g[k + 1] = <<g[k][1] * ps[k + 1][1], g[k][2] * ps[k + 1][2]>>
      BY <1>3, <1>5, <3>1 DEF PairProducts
    <3> QED BY <2>2, <3>1, <3>2
  <2>3. 0 .. n \subseteq T
    <3> HIDE DEF T
    <3> QED BY <2>1, <2>2, SetInduction
  <2> QED BY <2>3
<1> QED BY <1>2, <1>3, <1>6

(* The product of two fractions is one. *)
LEMMA FractionTimes ==
  ASSUME NEW a \in Nat, NEW b \in Nat, a <= b, b > 0,
         NEW c \in Nat, NEW d \in Nat, c <= d, d > 0
  PROVE  a * c \in Nat /\ b * d \in Nat /\ a * c <= b * d /\ b * d > 0
<1>1. a * c <= b * c /\ b * c <= b * d /\ b * d > 0
  BY ProductGrows
<1>2. a * c \in Nat /\ b * c \in Nat /\ b * d \in Nat
  OBVIOUS
<1> QED BY <1>1, <1>2

(* The availability of a series system is one, if those of its blocks are. *)
LEMMA SeriesIsFraction ==
  ASSUME NEW ps, NEW n \in Nat, Len(ps) = n, \A k \in 1 .. n : ps[k] \in Pair
  PROVE  /\ rbd_series_availability(ps) \in Pair
         /\ (\A k \in 1 .. n : ps[k] \in Fraction) => rbd_series_availability(ps) \in Fraction
<1>1. PICK g : PairProducts(ps, n, g) /\ rbd_series_availability(ps) = g[n]
  BY SeriesIs
<1>2. g[n] \in Pair
  BY <1>1 DEF PairProducts
<1>3. ASSUME \A k \in 1 .. n : ps[k] \in Fraction PROVE g[n] \in Fraction
  <2> DEFINE T == {k \in 0 .. n : g[k] \in Fraction}
  <2>1. 0 \in T
    <3>1. g[0] = <<1, 1>>
      BY <1>1 DEF PairProducts
    <3>2. <<1, 1>> \in Fraction
      BY DEF Fraction
    <3> QED BY <3>1, <3>2
  <2>2. ASSUME NEW k \in 0 .. n - 1, k \in T PROVE k + 1 \in T
    <3>1. k + 1 \in 1 .. n /\ (k + 1) - 1 = k /\ k + 1 \in 0 .. n
      OBVIOUS
    <3> DEFINE a == g[k][1]
               b == g[k][2]
               c == ps[k + 1][1]
               d == ps[k + 1][2]
    <3>2. g[k + 1] = <<a * c, b * d>>
      BY <1>1, <3>1 DEF PairProducts
    <3>3. a \in Nat /\ b \in Nat /\ a <= b /\ b > 0
      BY <2>2 DEF Fraction
    <3>4. c \in Nat /\ d \in Nat /\ c <= d /\ d > 0
      BY <1>3, <3>1 DEF Fraction
    <3> HIDE DEF a, b, c, d
    <3>5. a * c \in Nat /\ b * d \in Nat /\ a * c <= b * d /\ b * d > 0
      BY <3>3, <3>4, FractionTimes
    <3> DEFINE x == a * c
               y == b * d
    <3> HIDE DEF x, y
    <3>6. <<x, y>> \in Fraction
      <4>1. x \in Nat /\ y \in Nat /\ x <= y /\ y > 0
        BY <3>5 DEF x, y
      <4> QED BY <4>1 DEF Fraction
    <3>7. g[k + 1] \in Fraction
      BY <3>2, <3>6 DEF x, y
    <3> QED BY <3>1, <3>7
  <2>3. 0 .. n \subseteq T
    <3> HIDE DEF T
    <3> QED BY <2>1, <2>2, SetInduction
  <2> QED BY <2>3
<1> QED BY <1>1, <1>2, <1>3

(* One minus an availability is one. *)
LEMMA ComplementIs ==
  ASSUME NEW p \in Pair
  PROVE  Complement(p) \in Pair /\ (p \in Fraction => Complement(p) \in Fraction)
<1>1. p[1] \in Int /\ p[2] \in Int
  BY DEF Pair
<1>2. Complement(p) \in Pair
  BY <1>1 DEF Pair, Complement
<1>3. ASSUME p \in Fraction PROVE Complement(p) \in Fraction
  <2>1. p[1] \in Nat /\ p[2] \in Nat /\ p[1] <= p[2] /\ p[2] > 0
    BY <1>3 DEF Fraction
  <2> DEFINE q == p[2] - p[1]
  <2>2. q \in Nat /\ q <= p[2]
    BY <2>1
  <2> HIDE DEF q
  <2>3. <<q, p[2]>> \in Fraction
    BY <2>1, <2>2 DEF Fraction
  <2> QED BY <2>3 DEF Complement, q
<1> QED BY <1>2, <1>3

(* The availability of a parallel system is one, likewise. *)
LEMMA ParallelIsFraction ==
  ASSUME NEW ps, NEW n \in Nat, Len(ps) = n, DOMAIN ps = 1 .. n, \A k \in 1 .. n : ps[k] \in Pair
  PROVE  /\ rbd_parallel_availability(ps) \in Pair
         /\ (\A k \in 1 .. n : ps[k] \in Fraction) => rbd_parallel_availability(ps) \in Fraction
<1> DEFINE qs == [k \in DOMAIN ps |-> Complement(ps[k])]
<1>1. \A k \in 1 .. n : qs[k] \in Pair /\ (ps[k] \in Fraction => qs[k] \in Fraction)
  BY ComplementIs
<1>2. Len(qs) = n
  <2>1. qs \in Seq(Pair)
    <3>1. qs \in [1 .. n -> Pair]
      BY <1>1
    <3> HIDE DEF qs, Pair
    <3> QED BY <3>1, Zenon, SeqDef
  <2> QED BY <2>1, LenProperties
<1> HIDE DEF qs
<1>3. /\ rbd_series_availability(qs) \in Pair
      /\ (\A k \in 1 .. n : qs[k] \in Fraction) => rbd_series_availability(qs) \in Fraction
  BY <1>1, <1>2, SeriesIsFraction
<1>4. rbd_parallel_availability(ps) = Complement(rbd_series_availability(qs))
  BY Zenon DEF rbd_parallel_availability, qs
<1> QED BY <1>1, <1>3, <1>4, ComplementIs

PairSums(ps, n, g) ==
  /\ g \in [0 .. n -> Pair] /\ g[0] = <<0, 1>>
  /\ \A k \in 1 .. n : g[k] = <<g[k - 1][1] * ps[k][2] + ps[k][1] * g[k - 1][2],
                                g[k - 1][2] * ps[k][2]>>

(* The loop that adds up fractions. *)
LEMMA MeanIs ==
  ASSUME NEW ps, NEW n \in Nat, Len(ps) = n, \A k \in 1 .. n : ps[k] \in Pair
  PROVE  \E g : PairSums(ps, n, g) /\ MeanOf(ps) = <<g[n][1], g[n][2] * n>>
<1> DEFINE at == CHOOSE g : g = [k \in 0 .. n |->
                   IF k = 0 THEN <<0, 1>>
                   ELSE <<g[k - 1][1] * ps[k][2] + ps[k][1] * g[k - 1][2],
                          g[k - 1][2] * ps[k][2]>>]
<1>2. MeanOf(ps) = <<at[n][1], at[n][2] * n>>
  BY Zenon DEF MeanOf
<1>3. PICK g : PairSums(ps, n, g)
  <2> DEFINE F == [k \in 1 .. n |-> [c \in Pair |-> <<c[1] * ps[k][2] + ps[k][1] * c[2],
                                                      c[2] * ps[k][2]>>]]
  <2>1. F \in [1 .. n -> [Pair -> Pair]]
    <3>1. ASSUME NEW k \in 1 .. n, NEW c \in Pair
          PROVE  <<c[1] * ps[k][2] + ps[k][1] * c[2], c[2] * ps[k][2]>> \in Pair
      <4>1. c[1] \in Int /\ c[2] \in Int /\ ps[k][1] \in Int /\ ps[k][2] \in Int
        BY DEF Pair
      <4> QED BY <4>1 DEF Pair
    <3> HIDE DEF Pair
    <3> QED BY <3>1
  <2>2. <<0, 1>> \in Pair
    BY DEF Pair
  <2> HIDE DEF F
  <2>3. PICK g \in Courses(n, Pair, <<0, 1>>, F) : TRUE
    BY <2>1, <2>2, Iteration
  <2>4. \A k \in 1 .. n : g[k] = <<g[k - 1][1] * ps[k][2] + ps[k][1] * g[k - 1][2],
                                   g[k - 1][2] * ps[k][2]>>
    <3> TAKE k \in 1 .. n
    <3>1. k - 1 \in 0 .. n
      OBVIOUS
    <3>2. g[k] = F[k][g[k - 1]] /\ g[k - 1] \in Pair
      BY <2>3, <3>1 DEF Courses
    <3> QED BY <3>2 DEF F
  <2>5. g \in [0 .. n -> Pair] /\ g[0] = <<0, 1>>
    BY <2>3 DEF Courses
  <2> QED BY <2>4, <2>5 DEF PairSums
<1>4. at = [k \in 0 .. n |-> IF k = 0 THEN <<0, 1>>
                             ELSE <<at[k - 1][1] * ps[k][2] + ps[k][1] * at[k - 1][2],
                                    at[k - 1][2] * ps[k][2]>>]
  <2> DEFINE e(k) == IF k = 0 THEN <<0, 1>>
                     ELSE <<g[k - 1][1] * ps[k][2] + ps[k][1] * g[k - 1][2],
                            g[k - 1][2] * ps[k][2]>>
  <2>1. g = [k \in 0 .. n |-> g[k]]
    BY <1>3 DEF PairSums
  <2>2. ASSUME NEW k \in 0 .. n PROVE g[k] = e(k)
    <3>1. CASE k = 0
      <4>1. g[0] = <<0, 1>>
        BY <1>3 DEF PairSums
      <4> QED BY <3>1, <4>1
    <3>2. CASE k # 0
      <4>1. k \in 1 .. n
        BY <3>2
      <4>2. g[k] = <<g[k - 1][1] * ps[k][2] + ps[k][1] * g[k - 1][2], g[k - 1][2] * ps[k][2]>>
        BY <1>3, <4>1 DEF PairSums
      <4> QED BY <3>2, <4>2, Zenon
    <3> QED BY <3>1, <3>2
  <2>3. g = [k \in 0 .. n |-> e(k)]
    <3> HIDE DEF e
    <3> QED BY <2>1, <2>2
  <2> QED BY <2>3, Zenon
<1> HIDE DEF at
<1>5. at[0] = <<0, 1>>
      /\ \A k \in 1 .. n : at[k] = <<at[k - 1][1] * ps[k][2] + ps[k][1] * at[k - 1][2],
                                     at[k - 1][2] * ps[k][2]>>
  <2>1. at[0] = <<0, 1>>
    BY <1>4
  <2>2. ASSUME NEW k \in 1 .. n
        PROVE  at[k] = <<at[k - 1][1] * ps[k][2] + ps[k][1] * at[k - 1][2],
                         at[k - 1][2] * ps[k][2]>>
    <3>1. k \in 0 .. n /\ k # 0
      OBVIOUS
    <3> QED BY <1>4, <3>1
  <2> QED BY <2>1, <2>2
<1>6. at[n] = g[n]
  <2> DEFINE T == {k \in 0 .. n : at[k] = g[k]}
  <2>1. 0 \in T
    <3>1. g[0] = <<0, 1>> /\ at[0] = <<0, 1>>
      BY <1>3, <1>5 DEF PairSums
    <3> QED BY <3>1
  <2>2. ASSUME NEW k \in 0 .. n - 1, k \in T PROVE k + 1 \in T
    <3>1. k + 1 \in 1 .. n /\ (k + 1) - 1 = k
      OBVIOUS
    <3>2. /\ at[k + 1] = <<at[k][1] * ps[k + 1][2] + ps[k + 1][1] * at[k][2],
                           at[k][2] * ps[k + 1][2]>>
          /\ g[k + 1] = <<g[k][1] * ps[k + 1][2] + ps[k + 1][1] * g[k][2],
                          g[k][2] * ps[k + 1][2]>>
      BY <1>3, <1>5, <3>1 DEF PairSums
    <3> QED BY <2>2, <3>1, <3>2
  <2>3. 0 .. n \subseteq T
    <3> HIDE DEF T
    <3> QED BY <2>1, <2>2, SetInduction
  <2> QED BY <2>3
<1> QED BY <1>2, <1>3, <1>6

(* What one more fraction does to a sum of k of them. *)
LEMMA FractionPlus ==
  ASSUME NEW k \in Nat, NEW a \in Nat, NEW b \in Nat, a <= k * b, b > 0,
         NEW c \in Nat, NEW d \in Nat, c <= d, d > 0
  PROVE  /\ a * d + c * b \in Nat /\ b * d \in Nat /\ b * d > 0
         /\ a * d + c * b <= (k + 1) * (b * d)
<1>1. a * d <= (k * b) * d /\ c * b <= d * b /\ b * d > 0
  <2>1. k * b \in Nat
    OBVIOUS
  <2> DEFINE kb == k * b
  <2>2. kb \in Nat /\ a <= kb
    BY <2>1
  <2> HIDE DEF kb
  <2>3. a * d <= kb * d
    BY <2>2, ProductGrows
  <2>4. c * b <= d * b
    BY ProductGrows
  <2>5. b * d > 0
    OBVIOUS
  <2> QED BY <2>3, <2>4, <2>5 DEF kb
<1>2. (k * b) * d = k * (b * d) /\ d * b = b * d
  OBVIOUS
<1>3. a * d \in Nat /\ c * b \in Nat /\ b * d \in Nat /\ k * (b * d) \in Nat
  OBVIOUS
<1>4. (k + 1) * (b * d) = k * (b * d) + b * d
  OBVIOUS
<1> DEFINE ad == a * d
           cb == c * b
           bd == b * d
           kbd == k * bd
<1>5. ad <= kbd /\ cb <= bd /\ bd > 0 /\ (k + 1) * bd = kbd + bd /\ ad \in Nat /\ cb \in Nat
      /\ bd \in Nat /\ kbd \in Nat
  BY <1>1, <1>2, <1>3, <1>4
<1> HIDE DEF ad, cb, bd, kbd
<1>6. ad + cb <= (k + 1) * bd /\ ad + cb \in Nat
  BY <1>5
<1> QED BY <1>5, <1>6 DEF ad, cb, bd

(* The mean of availabilities is one. *)
LEMMA MeanIsFraction ==
  ASSUME NEW ps, NEW n \in Nat, Len(ps) = n, \A k \in 1 .. n : ps[k] \in Pair
  PROVE  /\ MeanOf(ps) \in Pair
         /\ n > 0 /\ (\A k \in 1 .. n : ps[k] \in Fraction) => MeanOf(ps) \in Fraction
<1>1. PICK g : PairSums(ps, n, g) /\ MeanOf(ps) = <<g[n][1], g[n][2] * n>>
  BY MeanIs
<1>2. g[n][1] \in Int /\ g[n][2] \in Int
  <2>1. g[n] \in Pair
    BY <1>1 DEF PairSums
  <2> QED BY <2>1 DEF Pair
<1>3. MeanOf(ps) \in Pair
  <2>1. g[n][2] * n \in Int
    BY <1>2
  <2> QED BY <1>1, <1>2, <2>1 DEF Pair
<1>4. ASSUME n > 0, \A k \in 1 .. n : ps[k] \in Fraction PROVE MeanOf(ps) \in Fraction
  <2> DEFINE T == {k \in 0 .. n : g[k][1] \in Nat /\ g[k][2] \in Nat
                                  /\ g[k][1] <= k * g[k][2] /\ g[k][2] > 0}
  <2>1. 0 \in T
    <3>1. g[0] = <<0, 1>>
      BY <1>1 DEF PairSums
    <3> QED BY <3>1
  <2>2. ASSUME NEW k \in 0 .. n - 1, k \in T PROVE k + 1 \in T
    <3>1. k + 1 \in 1 .. n /\ (k + 1) - 1 = k /\ k + 1 \in 0 .. n /\ k \in Nat
      OBVIOUS
    <3> DEFINE a == g[k][1]
               b == g[k][2]
               c == ps[k + 1][1]
               d == ps[k + 1][2]
               x == g[k + 1][1]
               y == g[k + 1][2]
    <3>2. x = a * d + c * b /\ y = b * d
      <4>1. g[k + 1] = <<a * d + c * b, b * d>>
        BY <1>1, <3>1 DEF PairSums
      <4> QED BY <4>1
    <3>3. a \in Nat /\ b \in Nat /\ a <= k * b /\ b > 0
      BY <2>2
    <3>4. c \in Nat /\ d \in Nat /\ c <= d /\ d > 0
      BY <1>4, <3>1 DEF Fraction
    <3> HIDE DEF a, b, c, d, x, y
    <3>5. /\ a * d + c * b \in Nat /\ b * d \in Nat /\ b * d > 0
          /\ a * d + c * b <= (k + 1) * (b * d)
      BY <3>1, <3>3, <3>4, FractionPlus
    <3>6. x \in Nat /\ y \in Nat /\ x <= (k + 1) * y /\ y > 0
      BY <3>2, <3>5
    <3> QED BY <3>1, <3>6 DEF x, y
  <2>3. 0 .. n \subseteq T
    <3> HIDE DEF T
    <3> QED BY <2>1, <2>2, SetInduction
  <2> DEFINE a == g[n][1]
             b == g[n][2]
  <2>4. a \in Nat /\ b \in Nat /\ a <= n * b /\ b > 0 /\ MeanOf(ps) = <<a, b * n>>
    BY <1>1, <2>3
  <2> HIDE DEF a, b
  <2>5. b * n \in Nat /\ n * b = b * n /\ b * n > 0
    BY <1>4, <2>4
  <2> DEFINE y == b * n
  <2>6. a \in Nat /\ y \in Nat /\ a <= y /\ y > 0 /\ MeanOf(ps) = <<a, y>>
    BY <2>4, <2>5
  <2> HIDE DEF y
  <2> QED BY <2>6 DEF Fraction
<1> QED BY <1>3, <1>4

Powers(x, n, g) ==
  g \in [0 .. n -> Int] /\ g[0] = 1 /\ \A k \in 1 .. n : g[k] = x * g[k - 1]

(* The loop that multiplies. *)
LEMMA PowersExist ==
  ASSUME NEW x \in Int, NEW n \in Nat
  PROVE  \E g : Powers(x, n, g)
<1> DEFINE F == [k \in 1 .. n |-> [c \in Int |-> x * c]]
<1>1. F \in [1 .. n -> [Int -> Int]]
  OBVIOUS
<1>2. 1 \in Int
  OBVIOUS
<1> HIDE DEF F
<1>3. PICK g \in Courses(n, Int, 1, F) : TRUE
  BY <1>1, <1>2, Iteration
<1>4. \A k \in 1 .. n : g[k] = x * g[k - 1]
  <2> TAKE k \in 1 .. n
  <2>1. k - 1 \in 0 .. n
    OBVIOUS
  <2>2. g[k] = F[k][g[k - 1]] /\ g[k - 1] \in Int
    BY <1>3, <2>1 DEF Courses
  <2> QED BY <2>2 DEF F
<1>5. g \in [0 .. n -> Int] /\ g[0] = 1
  BY <1>3 DEF Courses
<1> QED BY <1>4, <1>5 DEF Powers

(* The powers are determined by their recursion. *)
LEMMA PowersAgree ==
  ASSUME NEW x \in Int, NEW n \in Nat, NEW m \in 0 .. n, NEW g, Powers(x, n, g),
         NEW h, h[0] = 1, \A k \in 1 .. m : h[k] = x * h[k - 1]
  PROVE  h[m] = g[m]
<1> DEFINE T == {k \in 0 .. m : h[k] = g[k]}
<1>1. 0 \in T
  BY DEF Powers
<1>2. ASSUME NEW k \in 0 .. m - 1, k \in T PROVE k + 1 \in T
  <2>1. k + 1 \in 1 .. m /\ (k + 1) - 1 = k /\ k + 1 \in 1 .. n
    OBVIOUS
  <2>2. h[k + 1] = x * h[k] /\ g[k + 1] = x * g[k]
    BY <2>1 DEF Powers
  <2> QED BY <1>2, <2>1, <2>2
<1>3. 0 .. m \subseteq T
  <2> HIDE DEF T
  <2> QED BY <1>1, <1>2, SetInduction
<1> QED BY <1>3

(* A power is an element of any course of powers that reaches it. *)
LEMMA PowerIs ==
  ASSUME NEW x \in Int, NEW n \in Nat, NEW m \in 0 .. n, NEW g, Powers(x, n, g)
  PROVE  Power(x, m) = g[m]
<1> DEFINE at == CHOOSE h : h = [k \in 0 .. m |-> IF k = 0 THEN 1 ELSE x * h[k - 1]]
<1>1. Power(x, m) = at[m]
  BY Zenon DEF Power
<1>2. PICK h : Powers(x, m, h)
  <2>1. m \in Nat
    OBVIOUS
  <2> QED BY <2>1, PowersExist
<1>3. at = [k \in 0 .. m |-> IF k = 0 THEN 1 ELSE x * at[k - 1]]
  <2>1. h = [k \in 0 .. m |-> h[k]]
    BY <1>2 DEF Powers
  <2>2. \A k \in 0 .. m : h[k] = IF k = 0 THEN 1 ELSE x * h[k - 1]
    BY <1>2 DEF Powers
  <2>3. h = [k \in 0 .. m |-> IF k = 0 THEN 1 ELSE x * h[k - 1]]
    BY <2>1, <2>2
  <2> QED BY <2>3, Zenon
<1> HIDE DEF at
<1>4. at[0] = 1 /\ \A k \in 1 .. m : at[k] = x * at[k - 1]
  <2>1. at[0] = 1
    BY <1>3
  <2>2. ASSUME NEW k \in 1 .. m PROVE at[k] = x * at[k - 1]
    <3>1. k \in 0 .. m /\ k # 0
      OBVIOUS
    <3> QED BY <1>3, <3>1
  <2> QED BY <2>1, <2>2
<1>5. at[m] = g[m]
  BY <1>4, PowersAgree
<1> QED BY <1>1, <1>5

(* The recursion of the powers, and their sign. *)
LEMMA PowerLaws ==
  ASSUME NEW x \in Int, NEW n \in Nat
  PROVE  /\ Power(x, 0) = 1 /\ Power(x, n) \in Int /\ Power(x, n + 1) = x * Power(x, n)
         /\ x \in Nat => Power(x, n) \in Nat
         /\ x \in Nat /\ x > 0 => Power(x, n) > 0
<1>1. PICK g : Powers(x, n + 1, g)
  BY PowersExist
<1>2. \A m \in 0 .. n + 1 : Power(x, m) = g[m]
  BY <1>1, PowerIs
<1>3. g \in [0 .. n + 1 -> Int] /\ g[0] = 1 /\ \A k \in 1 .. n + 1 : g[k] = x * g[k - 1]
  BY <1>1 DEF Powers
<1>4. g[n + 1] = x * g[n]
  <2>1. n + 1 \in 1 .. n + 1 /\ (n + 1) - 1 = n
    OBVIOUS
  <2> QED BY <1>3, <2>1
<1>5. ASSUME x \in Nat
      PROVE  g[n] \in Nat /\ (x > 0 => g[n] > 0)
  <2> DEFINE T == {k \in 0 .. n : g[k] \in Nat /\ (x > 0 => g[k] > 0)}
  <2>1. 0 \in T
    BY <1>3
  <2>2. ASSUME NEW k \in 0 .. n - 1, k \in T PROVE k + 1 \in T
    <3>1. k + 1 \in 1 .. n + 1 /\ (k + 1) - 1 = k /\ k + 1 \in 0 .. n
      OBVIOUS
    <3>2. g[k + 1] = x * g[k]
      BY <1>3, <3>1
    <3> DEFINE y == g[k]
    <3>3. y \in Nat /\ (x > 0 => y > 0)
      BY <2>2
    <3> HIDE DEF y
    <3>4. x * y \in Nat /\ (x > 0 => x * y > 0)
      BY <1>5, <3>3
    <3> QED BY <3>1, <3>2, <3>4 DEF y
  <2>3. 0 .. n \subseteq T
    <3> HIDE DEF T
    <3> QED BY <2>1, <2>2, SetInduction
  <2> QED BY <2>3
<1>6. Power(x, 0) = g[0] /\ Power(x, n) = g[n] /\ Power(x, n + 1) = g[n + 1] /\ g[n] \in Int
  BY <1>2, <1>3
<1> QED BY <1>3, <1>4, <1>5, <1>6

(* Binomial coefficients count the choices with and without the last. *)
LEMMA BinomType ==
  ASSUME NEW n \in Nat, NEW k
  PROVE  IsFiniteSet(kSubset(k, 1 .. n)) /\ binom(n, k) \in Nat
<1>1. IsFiniteSet(1 .. n)
  BY 1 \in Int /\ n \in Int, FS_Interval
<1>2. IsFiniteSet(SUBSET (1 .. n))
  BY <1>1, FS_SUBSET
<1>3. kSubset(k, 1 .. n) \in SUBSET (SUBSET (1 .. n))
  BY DEF kSubset
<1>4. IsFiniteSet(kSubset(k, 1 .. n))
  BY <1>2, <1>3, FS_Subset
<1> QED BY <1>4, FS_CardinalityType DEF binom

(* The ends of a row of binomial coefficients. *)
LEMMA BinomEnds ==
  ASSUME NEW n \in Nat
  PROVE  binom(n, 0) = 1 /\ binom(n, n) = 1
<1>1. IsFiniteSet(1 .. n) /\ Cardinality(1 .. n) = n
  <2>1. 1 \in Int /\ n \in Int
    OBVIOUS
  <2> QED BY <2>1, FS_Interval
<1>2. kSubset(0, 1 .. n) = {{}}
  <2>1. \A s \in SUBSET (1 .. n) : Cardinality(s) = 0 <=> s = {}
    BY <1>1, FS_Subset, FS_EmptySet
  <2> QED BY <2>1 DEF kSubset
<1>3. kSubset(n, 1 .. n) = {1 .. n}
  <2>1. \A s \in SUBSET (1 .. n) : Cardinality(s) = n <=> s = 1 .. n
    <3> TAKE s \in SUBSET (1 .. n)
    <3>1. Cardinality(1 .. n) = Cardinality(s) => 1 .. n = s
      BY <1>1, FS_Subset
    <3> QED BY <1>1, <3>1
  <2> QED BY <2>1 DEF kSubset
<1> QED BY <1>2, <1>3, FS_Singleton DEF binom

(* A coefficient is at most the sum of the two above it, as div rounds down. *)
LEMMA BinomGrows ==
  ASSUME NEW n \in Nat, NEW k \in 1 .. n
  PROVE  binom(n + 1, k) <= binom(n, k) + binom(n, k - 1)
<1> DEFINE A == kSubset(k, 1 .. n)
           B == kSubset(k - 1, 1 .. n)
           C == kSubset(k, 1 .. n + 1)
           f == [s \in B |-> s \cup {n + 1}]
           D == {f[s] : s \in B}
<1>1. IsFiniteSet(A) /\ IsFiniteSet(B)
  BY BinomType
<1>2. IsFiniteSet(D) /\ Cardinality(D) <= Cardinality(B)
  <2>1. f \in Surjection(B, D)
    BY DEF Surjection
  <2> HIDE DEF f, B, D
  <2> QED BY <1>1, <2>1, FS_Surjection
<1>3. C \subseteq A \cup D
  <2> SUFFICES ASSUME NEW s \in C, s \notin A PROVE s \in D
    OBVIOUS
  <2>1. s \in SUBSET (1 .. n + 1) /\ Cardinality(s) = k
    BY DEF kSubset
  <2>2. n + 1 \in s
    <3>1. ASSUME n + 1 \notin s PROVE s \in SUBSET (1 .. n)
      <4>1. \A i \in s : i \in 1 .. n + 1 /\ i # n + 1
        BY <2>1, <3>1
      <4>2. \A i \in 1 .. n + 1 : i # n + 1 => i \in 1 .. n
        OBVIOUS
      <4> QED BY <4>1, <4>2
    <3> QED BY <2>1, <3>1 DEF kSubset
  <2>3. IsFiniteSet(s)
    <3>1. IsFiniteSet(1 .. n + 1)
      <4>1. 1 \in Int /\ n + 1 \in Int
        OBVIOUS
      <4> QED BY <4>1, FS_Interval
    <3> QED BY <2>1, <3>1, FS_Subset
  <2> DEFINE t == s \ {n + 1}
  <2>4. Cardinality(t) = k - 1
    BY <2>1, <2>2, <2>3, FS_RemoveElement
  <2>5. t \in SUBSET (1 .. n)
    <3>1. \A i \in t : i \in 1 .. n + 1 /\ i # n + 1
      BY <2>1
    <3>2. \A i \in 1 .. n + 1 : i # n + 1 => i \in 1 .. n
      OBVIOUS
    <3> HIDE DEF t
    <3> QED BY <3>1, <3>2
  <2>6. t \in B /\ t \cup {n + 1} = s
    BY <2>2, <2>4, <2>5 DEF kSubset
  <2> QED BY <2>6
<1>4. Cardinality(C) <= Cardinality(A) + Cardinality(D)
  <2> HIDE DEF A, B, C, D, f
  <2>1. /\ IsFiniteSet(A \cup D)
        /\ Cardinality(A \cup D) = Cardinality(A) + Cardinality(D) - Cardinality(A \cap D)
    BY <1>1, <1>2, FS_Union
  <2>2. Cardinality(C) <= Cardinality(A \cup D) /\ IsFiniteSet(C)
    <3>1. C \in SUBSET (A \cup D)
      BY <1>3
    <3> QED BY <2>1, <3>1, FS_Subset
  <2>3. IsFiniteSet(A \cap D)
    <3>1. A \cap D \in SUBSET A
      OBVIOUS
    <3> QED BY <1>1, <3>1, FS_Subset
  <2>4. /\ Cardinality(A) \in Nat /\ Cardinality(D) \in Nat /\ Cardinality(A \cap D) \in Nat
        /\ Cardinality(C) \in Nat /\ Cardinality(A \cup D) \in Nat
    BY <1>1, <1>2, <2>1, <2>2, <2>3, FS_CardinalityType
  <2> QED BY <2>1, <2>2, <2>4
<1>5. Cardinality(A) \in Nat /\ Cardinality(B) \in Nat /\ Cardinality(C) \in Nat /\ Cardinality(D) \in Nat
  <2>1. Cardinality(A) \in Nat /\ Cardinality(B) \in Nat /\ Cardinality(C) \in Nat
    BY BinomType DEF binom
  <2> HIDE DEF D, A, B, C, f
  <2> QED BY <1>2, <2>1, FS_CardinalityType
<1>6. binom(n + 1, k) = Cardinality(C) /\ binom(n, k) = Cardinality(A)
      /\ binom(n, k - 1) = Cardinality(B)
  BY DEF binom
<1> HIDE DEF A, B, C, D
<1> QED BY <1>2, <1>4, <1>5, <1>6

(* The probability that exactly i of n work, without the denominator. *)
Chance(p, r, n, i) == binom(n, i) * Power(p, i) * Power(r, n - i)

(* A chance, over the common denominator, is a number. *)
LEMMA ChanceType ==
  ASSUME NEW p \in Nat, NEW r \in Nat, NEW n \in Nat, NEW i \in 0 .. n
  PROVE  Chance(p, r, n, i) \in Nat
<1>1. binom(n, i) \in Nat
  BY BinomType
<1>2. Power(p, i) \in Nat /\ Power(r, n - i) \in Nat
  <2>1. i \in Nat /\ n - i \in Nat /\ p \in Int /\ r \in Int
    OBVIOUS
  <2> QED BY <2>1, PowerLaws
<1> DEFINE a == binom(n, i)
           b == Power(p, i)
           c == Power(r, n - i)
<1>3. a \in Nat /\ b \in Nat /\ c \in Nat
  BY <1>1, <1>2
<1> HIDE DEF a, b, c
<1>4. a * b * c \in Nat
  BY <1>3
<1> QED BY <1>4 DEF Chance, a, b, c

(* The first and the last chance of a row. *)
LEMMA ChanceEnds ==
  ASSUME NEW p \in Nat, NEW r \in Nat, NEW n \in Nat
  PROVE  /\ Chance(p, r, n + 1, 0) = r * Chance(p, r, n, 0)
         /\ Chance(p, r, n + 1, n + 1) = p * Chance(p, r, n, n)
         /\ Chance(p, r, 0, 0) = 1
<1>0. n + 1 \in Nat /\ p \in Int /\ r \in Int /\ 0 \in Nat
  OBVIOUS
<1>1. binom(n, 0) = 1 /\ binom(n, n) = 1 /\ binom(n + 1, 0) = 1 /\ binom(n + 1, n + 1) = 1
      /\ binom(0, 0) = 1
  BY <1>0, BinomEnds
<1>2. Power(p, 0) = 1 /\ Power(r, 0) = 1 /\ Power(p, n) \in Int /\ Power(r, n) \in Int
      /\ Power(p, n + 1) = p * Power(p, n) /\ Power(r, n + 1) = r * Power(r, n)
  BY <1>0, PowerLaws
<1>3. (n + 1) - 0 = n + 1 /\ (n + 1) - (n + 1) = 0 /\ n - 0 = n /\ n - n = 0 /\ 0 - 0 = 0
  OBVIOUS
<1> DEFINE a == Power(p, n)
           b == Power(r, n)
<1>4. /\ Chance(p, r, n + 1, 0) = 1 * 1 * (r * b) /\ Chance(p, r, n, 0) = 1 * 1 * b
      /\ Chance(p, r, n + 1, n + 1) = 1 * (p * a) * 1 /\ Chance(p, r, n, n) = 1 * a * 1
      /\ Chance(p, r, 0, 0) = 1 * 1 * 1
  BY <1>1, <1>2, <1>3 DEF Chance
<1>5. a \in Int /\ b \in Int
  BY <1>2
<1> HIDE DEF a, b
<1> QED BY <1>4, <1>5

(* A chance of the next row is at most what its neighbours give. *)
LEMMA ChanceGrows ==
  ASSUME NEW p \in Nat, NEW r \in Nat, NEW n \in Nat, NEW i \in 1 .. n
  PROVE  Chance(p, r, n + 1, i) <= r * Chance(p, r, n, i) + p * Chance(p, r, n, i - 1)
<1> DEFINE x == binom(n + 1, i)
           y == binom(n, i)
           z == binom(n, i - 1)
           a == Power(p, i - 1)
           b == Power(r, n - i)
<1>0. /\ i \in Nat /\ i - 1 \in Nat /\ n - i \in Nat /\ (i - 1) + 1 = i /\ n + 1 \in Nat
      /\ (n - i) + 1 = (n + 1) - i /\ n - (i - 1) = (n + 1) - i /\ p \in Int /\ r \in Int
  OBVIOUS
<1>1. x <= y + z /\ x \in Nat /\ y \in Nat /\ z \in Nat
  BY <1>0, BinomGrows, BinomType
<1>2. a \in Nat /\ b \in Nat /\ Power(p, i) = p * a /\ Power(r, (n + 1) - i) = r * b
  BY <1>0, PowerLaws
<1>3. /\ Chance(p, r, n + 1, i) = x * (p * a) * (r * b)
      /\ Chance(p, r, n, i) = y * (p * a) * b
      /\ Chance(p, r, n, i - 1) = z * a * (r * b)
  BY <1>0, <1>2 DEF Chance
<1> HIDE DEF x, y, z, a, b
<1> DEFINE q == (p * a) * (r * b)
<1>4. q \in Nat
  BY <1>2
<1>5. x * q <= (y + z) * q
  <2>1. y + z \in Nat
    BY <1>1
  <2> HIDE DEF q
  <2> QED BY <1>1, <1>4, <2>1, ProductGrows
<1>6. /\ x * (p * a) * (r * b) = x * q
      /\ (y + z) * q = y * q + z * q
  BY <1>1, <1>2
<1>7. r * (y * (p * a) * b) = y * q
  BY <1>1, <1>2
<1>8. p * (z * a * (r * b)) = z * q
  BY <1>1, <1>2
<1> HIDE DEF q
<1> QED BY <1>3, <1>5, <1>6, <1>7, <1>8

Partials(p, r, n, q) ==
  /\ q \in [0 .. n + 1 -> Int] /\ q[0] = 0
  /\ \A k \in 1 .. n + 1 : q[k] = q[k - 1] + Chance(p, r, n, k - 1)

(* The partial sums of a row exist. *)
LEMMA PartialsExist ==
  ASSUME NEW p \in Nat, NEW r \in Nat, NEW n \in Nat
  PROVE  \E q : Partials(p, r, n, q)
<1> DEFINE F == [k \in 1 .. n + 1 |-> [c \in Int |-> c + Chance(p, r, n, k - 1)]]
<1>1. F \in [1 .. n + 1 -> [Int -> Int]]
  <2>1. ASSUME NEW k \in 1 .. n + 1, NEW c \in Int PROVE c + Chance(p, r, n, k - 1) \in Int
    <3>1. k - 1 \in 0 .. n
      OBVIOUS
    <3>2. Chance(p, r, n, k - 1) \in Nat
      BY <3>1, ChanceType
    <3> QED BY <3>2
  <2> QED BY <2>1
<1>2. 0 \in Int /\ n + 1 \in Nat
  OBVIOUS
<1> HIDE DEF F
<1>3. PICK g \in Courses(n + 1, Int, 0, F) : TRUE
  BY <1>1, <1>2, Iteration
<1>4. \A k \in 1 .. n + 1 : g[k] = g[k - 1] + Chance(p, r, n, k - 1)
  <2> TAKE k \in 1 .. n + 1
  <2>1. k - 1 \in 0 .. n + 1
    OBVIOUS
  <2>2. g[k] = F[k][g[k - 1]] /\ g[k - 1] \in Int
    BY <1>3, <2>1 DEF Courses
  <2> QED BY <2>2 DEF F
<1>5. g \in [0 .. n + 1 -> Int] /\ g[0] = 0
  BY <1>3 DEF Courses
<1> QED BY <1>4, <1>5 DEF Partials

(* All the chances together are no more than one. *)
LEMMA ChancesStep ==
  ASSUME NEW p \in Nat, NEW r \in Nat, NEW n \in Nat,
         NEW u, Partials(p, r, n, u), NEW v, Partials(p, r, n + 1, v)
  PROVE  v[n + 2] <= (p + r) * u[n + 1]
<1>1. u \in [0 .. n + 1 -> Int] /\ u[0] = 0
      /\ \A k \in 1 .. n + 1 : u[k] = u[k - 1] + Chance(p, r, n, k - 1)
  BY DEF Partials
<1>2. v \in [0 .. n + 2 -> Int] /\ v[0] = 0
      /\ \A k \in 1 .. n + 2 : v[k] = v[k - 1] + Chance(p, r, n + 1, k - 1)
  <2>1. (n + 1) + 1 = n + 2
    OBVIOUS
  <2> QED BY <2>1 DEF Partials
<1> DEFINE T == {k \in 0 .. n : v[k + 1] <= r * u[k + 1] + p * u[k]}
<1>3. 0 \in T
  <2>1. v[1] = Chance(p, r, n + 1, 0) /\ u[1] = Chance(p, r, n, 0)
    <3>1. v[1] = v[0] + Chance(p, r, n + 1, 0) /\ u[1] = u[0] + Chance(p, r, n, 0)
      <4>1. 1 \in 1 .. n + 2 /\ 1 \in 1 .. n + 1 /\ 1 - 1 = 0
        OBVIOUS
      <4> QED BY <1>1, <1>2, <4>1
    <3>2. Chance(p, r, n + 1, 0) \in Nat /\ Chance(p, r, n, 0) \in Nat
      <4>1. 0 \in 0 .. n + 1 /\ 0 \in 0 .. n /\ n + 1 \in Nat
        OBVIOUS
      <4> QED BY <4>1, ChanceType
    <3> QED BY <1>1, <1>2, <3>1, <3>2
  <2>2. v[1] = r * u[1]
    BY <2>1, ChanceEnds
  <2>3. u[1] \in Int /\ u[0] = 0 /\ r * u[1] \in Int /\ p * 0 = 0
    <3>1. 1 \in 0 .. n + 1
      OBVIOUS
    <3>2. u[1] \in Int
      BY <1>1, <3>1
    <3> QED BY <1>1, <3>2
  <2>4. v[1] <= r * u[1] + p * u[0]
    <3> DEFINE w == r * u[1]
    <3>1. v[1] = w /\ w \in Int /\ p * u[0] = 0
      BY <2>2, <2>3
    <3> HIDE DEF w
    <3>2. v[1] <= w + p * u[0]
      BY <3>1
    <3> QED BY <3>2 DEF w
  <2> QED BY <2>4
<1>4. ASSUME NEW k \in 0 .. n - 1, k \in T PROVE k + 1 \in T
  <2>1. /\ k + 1 \in 1 .. n /\ (k + 1) + 1 = k + 2 /\ (k + 1) - 1 = k /\ (k + 2) - 1 = k + 1
        /\ k + 2 \in 1 .. n + 2 /\ k + 2 \in 1 .. n + 1 /\ k + 1 \in 1 .. n + 1 /\ k + 1 \in 0 .. n
        /\ k \in 0 .. n /\ k + 2 \in 0 .. n + 1 /\ k + 1 \in 0 .. n + 1 /\ k \in 0 .. n + 1
        /\ k + 2 \in 0 .. n + 2 /\ k + 1 \in 0 .. n + 2 /\ k + 1 \in 0 .. n + 1
    OBVIOUS
  <2> DEFINE v1 == v[k + 1]
             v2 == v[k + 2]
             u0 == u[k]
             u1 == u[k + 1]
             u2 == u[k + 2]
             c  == Chance(p, r, n + 1, k + 1)
             d1 == Chance(p, r, n, k + 1)
             d0 == Chance(p, r, n, k)
  <2>2. v2 = v1 + c
    BY <1>2, <2>1
  <2>3. u2 = u1 + d1 /\ u1 = u0 + d0
    BY <1>1, <2>1
  <2>4. c <= r * d1 + p * d0
    BY <2>1, ChanceGrows
  <2>5. c \in Nat /\ d1 \in Nat /\ d0 \in Nat
    <3>1. n + 1 \in Nat
      OBVIOUS
    <3> QED BY <2>1, <3>1, ChanceType
  <2>6. v1 \in Int /\ v2 \in Int /\ u0 \in Int /\ u1 \in Int /\ u2 \in Int
    BY <1>1, <1>2, <2>1
  <2>7. v1 <= r * u1 + p * u0
    BY <1>4
  <2> HIDE DEF v1, v2, u0, u1, u2, c, d1, d0
  <2>8. r * u2 = r * u1 + r * d1 /\ p * u1 = p * u0 + p * d0
    BY <2>3, <2>5, <2>6
  <2>9. r * u1 \in Int /\ r * d1 \in Int /\ p * u0 \in Int /\ p * d0 \in Int
    BY <2>5, <2>6
  <2>10. v2 <= r * u2 + p * u1
    BY <2>2, <2>4, <2>5, <2>6, <2>7, <2>8, <2>9
  <2>11. v[(k + 1) + 1] <= r * u[(k + 1) + 1] + p * u[k + 1]
    BY <2>1, <2>10 DEF v2, u2, u1
  <2> QED BY <2>1, <2>11
<1>5. 0 .. n \subseteq T
  <2> HIDE DEF T
  <2> QED BY <1>3, <1>4, SetInduction
<1>6. v[n + 1] <= r * u[n + 1] + p * u[n]
  BY <1>5
<1>7. /\ n + 2 \in 1 .. n + 2 /\ (n + 2) - 1 = n + 1 /\ n + 1 \in 1 .. n + 1 /\ (n + 1) - 1 = n
      /\ n + 1 \in 0 .. n + 2 /\ n + 2 \in 0 .. n + 2 /\ n + 1 \in 0 .. n + 1 /\ n \in 0 .. n + 1
      /\ n \in 0 .. n
  OBVIOUS
<1> DEFINE v1 == v[n + 1]
           v2 == v[n + 2]
           u0 == u[n]
           u1 == u[n + 1]
           c  == Chance(p, r, n + 1, n + 1)
           d  == Chance(p, r, n, n)
<1>8. v2 = v1 + c
  BY <1>2, <1>7
<1>9. u1 = u0 + d
  BY <1>1, <1>7
<1>10. c = p * d /\ d \in Nat
  BY <1>7, ChanceEnds, ChanceType
<1>11. v1 \in Int /\ v2 \in Int /\ u0 \in Int /\ u1 \in Int /\ v1 <= r * u1 + p * u0
  BY <1>1, <1>2, <1>6, <1>7
<1> HIDE DEF v1, v2, u0, u1, c, d
<1>12. (p + r) * u1 = p * u1 + r * u1 /\ p * u1 = p * u0 + p * d
  BY <1>9, <1>10, <1>11
<1>13. r * u1 \in Int /\ p * u0 \in Int /\ p * d \in Int
  BY <1>10, <1>11
<1>14. v2 <= (p + r) * u1
  BY <1>8, <1>10, <1>11, <1>12, <1>13
<1> QED BY <1>14 DEF v2, u1

(* The chances of a row add up to no more than one. *)
LEMMA ChancesAddUp ==
  ASSUME NEW p \in Nat, NEW r \in Nat, NEW n \in Nat
  PROVE  \A q : Partials(p, r, n, q) => q[n + 1] <= Power(p + r, n)
<1> DEFINE T == {k \in 0 .. n : \A q : Partials(p, r, k, q) => q[k + 1] <= Power(p + r, k)}
<1>1. 0 \in T
  <2> SUFFICES ASSUME NEW q, Partials(p, r, 0, q) PROVE q[0 + 1] <= Power(p + r, 0)
    OBVIOUS
  <2>1. q[1] = q[0] + Chance(p, r, 0, 0) /\ q[0] = 0
    <3>1. 1 \in 1 .. 0 + 1 /\ 1 - 1 = 0
      OBVIOUS
    <3> QED BY <3>1 DEF Partials
  <2>2. Chance(p, r, 0, 0) = 1
    <3>1. 0 \in Nat
      OBVIOUS
    <3> QED BY <3>1, ChanceEnds
  <2>3. Power(p + r, 0) = 1
    <3>1. p + r \in Int /\ 0 \in Nat
      OBVIOUS
    <3> QED BY <3>1, PowerLaws
  <2> QED BY <2>1, <2>2, <2>3
<1>2. ASSUME NEW k \in 0 .. n - 1, k \in T PROVE k + 1 \in T
  <2>0. k \in Nat /\ k + 1 \in Nat /\ k + 1 \in 0 .. n /\ (k + 1) + 1 = k + 2 /\ p + r \in Int
        /\ p + r \in Nat
    OBVIOUS
  <2> SUFFICES ASSUME NEW v, Partials(p, r, k + 1, v)
               PROVE  v[(k + 1) + 1] <= Power(p + r, k + 1)
    BY <2>0
  <2>1. PICK u : Partials(p, r, k, u)
    BY <2>0, PartialsExist
  <2>2. u[k + 1] <= Power(p + r, k)
    BY <1>2, <2>1
  <2>3. v[k + 2] <= (p + r) * u[k + 1]
    BY <2>0, <2>1, ChancesStep
  <2>4. Power(p + r, k + 1) = (p + r) * Power(p + r, k) /\ Power(p + r, k) \in Int
    BY <2>0, PowerLaws
  <2> DEFINE a == u[k + 1]
             b == Power(p + r, k)
             c == p + r
             d == v[k + 2]
  <2>5. a \in Int /\ d \in Int
    <3>1. u \in [0 .. k + 1 -> Int] /\ v \in [0 .. k + 2 -> Int]
      BY <2>0, <2>1 DEF Partials
    <3>2. k + 1 \in 0 .. k + 1 /\ k + 2 \in 0 .. k + 2
      OBVIOUS
    <3> QED BY <3>1, <3>2
  <2>6. a <= b /\ b \in Int /\ c \in Nat /\ d <= c * a
    BY <2>0, <2>2, <2>3, <2>4
  <2> HIDE DEF a, b, c, d
  <2>7. c * a <= c * b
    BY <2>5, <2>6
  <2>8. c * a \in Int /\ c * b \in Int
    BY <2>5, <2>6
  <2>9. d <= c * b
    BY <2>5, <2>6, <2>7, <2>8
  <2> QED BY <2>0, <2>4, <2>9 DEF d, c, b
<1>3. 0 .. n \subseteq T
  <2> HIDE DEF T
  <2> QED BY <1>1, <1>2, SetInduction
<1> QED BY <1>3

(* What is summed for a vote are some of the chances. *)
LEMMA VoteSum ==
  ASSUME NEW k \in Nat, NEW n \in Nat, NEW p \in Nat, NEW r \in Nat
  PROVE  /\ SumFunction([i \in k .. n |-> Chance(p, r, n, i)]) \in Nat
         /\ SumFunction([i \in k .. n |-> Chance(p, r, n, i)]) <= Power(p + r, n)
<1> DEFINE S == k .. n
           f == [i \in S |-> Chance(p, r, n, i)]
           L(j) == {i \in S : i < j}
<1>1. IsFiniteSet(S)
  <2>1. k \in Int /\ n \in Int
    OBVIOUS
  <2> QED BY <2>1, FS_Interval
<1>2. f \in [S -> Nat] /\ f \in [S -> Int]
  <2>1. \A i \in S : Chance(p, r, n, i) \in Nat
    <3> TAKE i \in S
    <3>1. i \in 0 .. n
      OBVIOUS
    <3> QED BY <3>1, ChanceType
  <2> HIDE DEF S
  <2> QED BY <2>1
<1>3. PICK g : g \in Sums(S, f) /\ SumFunction(f) = g[S]
  <2> HIDE DEF S, f
  <2> QED BY <1>1, <1>2, SumFunctionIs
<1>4. g \in [SUBSET S -> Int] /\ g[{}] = 0 /\ AnyOrder(S, f, g)
  <2> HIDE DEF S, f
  <2> QED BY <1>1, <1>2, <1>3, SumsAnyOrder DEF Sums
<1>5. g[S] \in Nat
  <2> HIDE DEF S, f
  <2>1. \A s \in SUBSET S : g[s] \in Nat
    BY <1>1, <1>2, <1>3, SumsAreNat
  <2> QED BY <2>1
<1>6. PICK q : Partials(p, r, n, q)
  BY PartialsExist
<1>7. q \in [0 .. n + 1 -> Int] /\ q[0] = 0
      /\ \A j \in 1 .. n + 1 : q[j] = q[j - 1] + Chance(p, r, n, j - 1)
  BY <1>6 DEF Partials
<1> DEFINE T == {j \in 0 .. n + 1 : g[L(j)] <= q[j]}
<1>8. 0 \in T
  <2>1. L(0) = {}
    OBVIOUS
  <2>2. g[L(0)] = 0
    BY <1>4, <2>1
  <2> HIDE DEF L
  <2> QED BY <1>7, <2>2
<1>9. ASSUME NEW j \in 0 .. (n + 1) - 1, j \in T PROVE j + 1 \in T
  <2>1. j \in 0 .. n /\ j + 1 \in 1 .. n + 1 /\ (j + 1) - 1 = j /\ j + 1 \in 0 .. n + 1
        /\ j \in 0 .. n + 1
    OBVIOUS
  <2>2. q[j + 1] = q[j] + Chance(p, r, n, j) /\ Chance(p, r, n, j) \in Nat
        /\ q[j] \in Int /\ q[j + 1] \in Int
    BY <1>7, <2>1, ChanceType
  <2>3. L(j) \in SUBSET S /\ L(j + 1) \in SUBSET S
    OBVIOUS
  <2>4. g[L(j)] <= q[j]
    BY <1>9
  <2>5. CASE j \in S
    <3>1. j \in L(j + 1) /\ L(j + 1) \ {j} = L(j)
      BY <2>5
    <3>2. g[L(j + 1)] = f[j] + g[L(j)]
      <4> HIDE DEF L, f, S
      <4> QED BY <1>4, <2>3, <3>1 DEF AnyOrder
    <3>3. f[j] = Chance(p, r, n, j)
      BY <2>5
    <3>4. g[L(j)] \in Int
      <4> HIDE DEF L, S, f
      <4> QED BY <1>4, <2>3
    <3> DEFINE a == g[L(j)]
               b == g[L(j + 1)]
               c == Chance(p, r, n, j)
               x == q[j]
               y == q[j + 1]
    <3>5. b = c + a /\ y = x + c /\ a <= x /\ a \in Int /\ c \in Nat /\ x \in Int
      BY <2>2, <2>4, <3>2, <3>3, <3>4
    <3>6. b <= y
      <4> HIDE DEF a, b, c, x, y
      <4> QED BY <3>5
    <3> HIDE DEF L
    <3> QED BY <2>1, <3>6
  <2>6. CASE j \notin S
    <3>1. L(j + 1) = L(j)
      BY <2>6
    <3>2. g[L(j)] \in Int
      <4> HIDE DEF L, S, f
      <4> QED BY <1>4, <2>3
    <3> DEFINE a == g[L(j)]
               c == Chance(p, r, n, j)
               x == q[j]
               y == q[j + 1]
    <3>3. a <= y
      <4>1. a \in Int /\ a <= x /\ x \in Int /\ c \in Nat /\ y = x + c
        BY <2>2, <2>4, <3>2
      <4> HIDE DEF a, c, x, y
      <4> QED BY <4>1
    <3>4. g[L(j + 1)] <= q[j + 1]
      BY <3>1, <3>3
    <3> HIDE DEF L
    <3> QED BY <2>1, <3>4
  <2> QED BY <2>5, <2>6
<1>10. 0 .. n + 1 \subseteq T
  <2>1. n + 1 \in Nat
    OBVIOUS
  <2> HIDE DEF T
  <2> QED BY <1>8, <1>9, <2>1, SetInduction
<1>11. L(n + 1) = S
  OBVIOUS
<1>12. g[S] <= q[n + 1]
  <2>1. n + 1 \in 0 .. n + 1
    OBVIOUS
  <2>2. g[L(n + 1)] <= q[n + 1]
    <3> HIDE DEF L
    <3> QED BY <1>10, <2>1
  <2> QED BY <1>11, <2>2
<1>13. q[n + 1] <= Power(p + r, n)
  BY <1>6, ChancesAddUp
<1>14. Power(p + r, n) \in Int /\ q[n + 1] \in Int
  <2>1. p + r \in Int /\ n + 1 \in 0 .. n + 1
    OBVIOUS
  <2> QED BY <1>7, <2>1, PowerLaws
<1> DEFINE a == g[S]
           b == q[n + 1]
           c == Power(p + r, n)
<1>15. a \in Nat /\ a <= c /\ SumFunction(f) = a
  <2>1. a \in Nat /\ a <= b /\ b <= c /\ b \in Int /\ c \in Int /\ SumFunction(f) = a
    BY <1>3, <1>5, <1>12, <1>13, <1>14
  <2> HIDE DEF a, b, c, f
  <2> QED BY <2>1
<1> QED BY <1>15

(* The availability of a vote is one, if that of a channel is. *)
LEMMA VoteIsFraction ==
  ASSUME NEW k \in Nat, NEW n \in Nat, NEW p \in Pair
  PROVE  /\ rbd_k_of_n_availability(k, n, p) \in Pair
         /\ p \in Fraction /\ k <= n /\ n # 0 => rbd_k_of_n_availability(k, n, p) \in Fraction
<1> DEFINE r == p[2] - p[1]
           f == [i \in k .. n |-> binom(n, i) * Power(p[1], i) * Power(r, n - i)]
<1>0. p[1] \in Int /\ p[2] \in Int /\ r \in Int
  BY DEF Pair
<1>1. rbd_k_of_n_availability(k, n, p) =
        IF k > n \/ n = 0 THEN <<-1, 1>> ELSE <<SumFunction(f), Power(p[2], n)>>
  BY DEF rbd_k_of_n_availability
<1>2. SumFunction(f) \in Int /\ Power(p[2], n) \in Int
  <2>1. f \in [k .. n -> Int]
    <3>1. ASSUME NEW i \in k .. n
          PROVE  binom(n, i) * Power(p[1], i) * Power(r, n - i) \in Int
      <4>1. i \in Nat /\ n - i \in Nat
        OBVIOUS
      <4>2. binom(n, i) \in Nat /\ Power(p[1], i) \in Int /\ Power(r, n - i) \in Int
        BY <1>0, <4>1, BinomType, PowerLaws
      <4> DEFINE a == binom(n, i)
                 b == Power(p[1], i)
                 c == Power(r, n - i)
      <4>3. a \in Int /\ b \in Int /\ c \in Int
        BY <4>2
      <4> HIDE DEF a, b, c
      <4>4. a * b * c \in Int
        BY <4>3
      <4> QED BY <4>4 DEF a, b, c
    <3> QED BY <3>1
  <2>2. IsFiniteSet(k .. n)
    <3>1. k \in Int /\ n \in Int
      OBVIOUS
    <3> QED BY <3>1, FS_Interval
  <2> DEFINE S == k .. n
  <2> HIDE DEF S, f
  <2>3. IsFiniteSet(S) /\ f \in [S -> Int]
    BY <2>1, <2>2 DEF S
  <2>4. PICK g : g \in Sums(S, f) /\ SumFunction(f) = g[S]
    BY <2>3, SumFunctionIs
  <2>5. g[S] \in Int
    BY <2>4 DEF Sums
  <2> QED BY <1>0, <2>4, <2>5, PowerLaws
<1>3. ASSUME p \in Fraction, k <= n, n # 0
      PROVE  SumFunction(f) \in Nat /\ SumFunction(f) <= Power(p[2], n)
             /\ Power(p[2], n) \in Nat /\ Power(p[2], n) > 0
  <2>1. p[1] \in Nat /\ p[2] \in Nat /\ p[1] <= p[2] /\ p[2] > 0
    BY <1>3 DEF Fraction
  <2>2. r \in Nat /\ p[1] + r = p[2]
    BY <2>1
  <2>3. f = [i \in k .. n |-> Chance(p[1], r, n, i)]
    BY DEF Chance
  <2>4. Power(p[2], n) \in Nat /\ Power(p[2], n) > 0
    BY <1>0, <2>1, PowerLaws
  <2> HIDE DEF r, f
  <2>5. /\ SumFunction([i \in k .. n |-> Chance(p[1], r, n, i)]) \in Nat
        /\ SumFunction([i \in k .. n |-> Chance(p[1], r, n, i)]) <= Power(p[1] + r, n)
    BY <2>1, <2>2, VoteSum
  <2> QED BY <2>2, <2>3, <2>4, <2>5
<1> DEFINE a == SumFunction(f)
           b == Power(p[2], n)
<1>4. a \in Int /\ b \in Int
      /\ rbd_k_of_n_availability(k, n, p) = IF k > n \/ n = 0 THEN <<-1, 1>> ELSE <<a, b>>
  BY <1>1, <1>2
<1>5. p \in Fraction /\ k <= n /\ n # 0 => a \in Nat /\ b \in Nat /\ a <= b /\ b > 0
  BY <1>3
<1> HIDE DEF a, b
<1>6. rbd_k_of_n_availability(k, n, p) \in Pair
  BY <1>4 DEF Pair
<1>7. ASSUME p \in Fraction, k <= n, n # 0 PROVE rbd_k_of_n_availability(k, n, p) \in Fraction
  <2>1. <<a, b>> \in Fraction
    BY <1>5, <1>7 DEF Fraction
  <2> QED BY <1>4, <1>7, <2>1
<1> QED BY <1>6, <1>7

(* What a gate computes is a pair of numbers, and from fractions a *)
(* fraction. *)
LEMMA GateIsFraction ==
  ASSUME NEW type, NEW k \in Nat, NEW ps \in Seq(Pair)
  PROVE  /\ GateOf(type, k, ps) \in Pair
         /\ /\ \A i \in 1 .. Len(ps) : ps[i] \in Fraction
            /\ type = "VOTING" => k <= Len(ps) /\ Len(ps) # 0
            => GateOf(type, k, ps) \in Fraction
<1> DEFINE n == Len(ps)
<1>1. n \in Nat /\ DOMAIN ps = 1 .. n /\ \A i \in 1 .. n : ps[i] \in Pair
  BY LenProperties
<1> HIDE DEF n
<1>2. CASE type = "OR"
  <2>1. GateOf(type, k, ps) = rbd_parallel_availability(ps)
    BY <1>2 DEF GateOf
  <2> QED BY <1>1, <2>1, ParallelIsFraction DEF n
<1>3. CASE type = "AND"
  <2>1. GateOf(type, k, ps) = rbd_series_availability(ps)
    BY <1>3 DEF GateOf
  <2> QED BY <1>1, <2>1, SeriesIsFraction DEF n
<1>4. CASE type = "VOTING"
  <2>1. GateOf(type, k, ps) = rbd_k_of_n_availability(k, n, MeanOf(ps))
    BY <1>4 DEF GateOf, n
  <2>2. /\ MeanOf(ps) \in Pair
        /\ n > 0 /\ (\A i \in 1 .. n : ps[i] \in Fraction) => MeanOf(ps) \in Fraction
    BY <1>1, MeanIsFraction DEF n
  <2>3. rbd_k_of_n_availability(k, n, MeanOf(ps)) \in Pair
    BY <1>1, <2>2, VoteIsFraction
  <2>4. ASSUME \A i \in 1 .. n : ps[i] \in Fraction, k <= n, n # 0
        PROVE  rbd_k_of_n_availability(k, n, MeanOf(ps)) \in Fraction
    <3>1. n > 0
      BY <1>1, <2>4
    <3>2. MeanOf(ps) \in Fraction
      BY <2>2, <2>4, <3>1
    <3> QED BY <1>1, <2>2, <2>4, <3>2, VoteIsFraction
  <2> QED BY <1>4, <2>1, <2>3, <2>4 DEF n
<1>5. CASE type = "INHIBIT" /\ n >= 2
  <2>1. GateOf(type, k, ps) = rbd_series_availability(SubSeq(ps, 1, 2))
    BY <1>5 DEF GateOf, n
  <2>2. Len(SubSeq(ps, 1, 2)) = 2 /\ \A i \in 1 .. 2 : SubSeq(ps, 1, 2)[i] = ps[i]
    BY <1>1, <1>5, SubSeqProperties DEF n
  <2>3. \A i \in 1 .. 2 : i \in 1 .. n
    BY <1>1, <1>5
  <2> DEFINE qs == SubSeq(ps, 1, 2)
  <2>4. 2 \in Nat /\ Len(qs) = 2 /\ \A i \in 1 .. 2 : qs[i] = ps[i] /\ qs[i] \in Pair
    BY <1>1, <2>2, <2>3
  <2> HIDE DEF qs
  <2>5. /\ rbd_series_availability(qs) \in Pair
        /\ (\A i \in 1 .. 2 : qs[i] \in Fraction) => rbd_series_availability(qs) \in Fraction
    BY <2>4, SeriesIsFraction
  <2> QED BY <2>1, <2>3, <2>4, <2>5 DEF qs, n
<1>6. CASE type # "OR" /\ type # "AND" /\ type # "VOTING" /\ ~ (type = "INHIBIT" /\ n >= 2)
  <2>1. GateOf(type, k, ps) = NoResult
    BY <1>6, Zenon DEF GateOf, n
  <2>2. NoResult \in Pair /\ NoResult \in Fraction
    BY DEF NoResult, Pair, Fraction
  <2> QED BY <2>1, <2>2
<1> QED BY <1>2, <1>3, <1>4, <1>5, <1>6

-----------------------------------------------------------------------------
(* The tree and what is computed along it. *)

Kids(g) == Range(ft.children[g])

TreeOK ==
  /\ ft \in [children : [Gates -> Seq(TreeNode)], evaluated : [Gates -> BOOLEAN],
             result : [Gates -> Pair]]
  /\ \A g \in Gates : Len(ft.children[g]) <= MaxChildren /\ \A c \in Kids(g) : c < g
  /\ outdated \subseteq Gates

(* The children of a gate are nodes below it, in a finite list. *)
LEMMA KidsAre ==
  ASSUME TreeOK, NEW g \in Gates
  PROVE  /\ Kids(g) \subseteq TreeNode /\ \A c \in Kids(g) : c < g
         /\ \A i \in DOMAIN ft.children[g] : ft.children[g][i] \in Kids(g)
         /\ DOMAIN ft.children[g] = 1 .. Len(ft.children[g]) /\ Len(ft.children[g]) \in Nat
         /\ IsFiniteSet(Kids(g)) /\ ft.children[g] \in Seq(TreeNode)
<1> DEFINE s == ft.children[g]
<1>1. s \in Seq(TreeNode)
  BY DEF TreeOK
<1>2. DOMAIN s = 1 .. Len(s) /\ Len(s) \in Nat /\ \A i \in 1 .. Len(s) : s[i] \in TreeNode
  <2> HIDE DEF s
  <2> QED BY <1>1, LenProperties
<1>3. Kids(g) = {s[i] : i \in DOMAIN s}
  BY DEF Kids, Range
<1> HIDE DEF s
<1>4. Kids(g) \subseteq TreeNode
  BY <1>2, <1>3
<1>5. IsFiniteSet(Kids(g))
  <2>1. Kids(g) \in SUBSET TreeNode
    BY <1>4
  <2> QED BY <2>1, NodesAreBounded, FS_Subset
<1>6. \A c \in Kids(g) : c < g
  BY DEF TreeOK
<1>7. \A i \in DOMAIN s : s[i] \in Kids(g)
  BY <1>3
<1> QED BY <1>1, <1>2, <1>4, <1>5, <1>6, <1>7 DEF s

NodeValue(n, cached, f) ==
  IF n \in BasicEvent THEN Probability[n]
  ELSE IF n \in cached THEN ft.result[n]
  ELSE GateOf(GateTypes[n], GateK[n], [i \in DOMAIN ft.children[n] |-> f[ft.children[n][i]]])

(* The value of a node depends on the nodes below it. *)
LEMMA NodeValueIs ==
  ASSUME TreeOK, NEW n \in TreeNode, NEW cached
  PROVE  /\ \A f \in [TreeNode -> Pair] : NodeValue(n, cached, f) \in Pair
         /\ \A f, h : (\A m \in TreeNode : m < n => f[m] = h[m])
                        => NodeValue(n, cached, f) = NodeValue(n, cached, h)
<1>1. CASE n \in BasicEvent
  <2>1. Probability[n] \in Pair
    BY <1>1, AvailabilityAssumption DEF Fraction, Pair
  <2> QED BY <1>1, <2>1 DEF NodeValue
<1>2. CASE n \notin BasicEvent /\ n \in cached
  <2>1. n \in Gates
    BY <1>2 DEF TreeNode
  <2>2. ft.result[n] \in Pair
    BY <2>1 DEF TreeOK
  <2> QED BY <1>2, <2>2 DEF NodeValue
<1>3. CASE n \notin BasicEvent /\ n \notin cached
  <2>0. n \in Gates
    BY <1>3 DEF TreeNode
  <2> DEFINE s == ft.children[n]
             at(f) == [i \in DOMAIN s |-> f[s[i]]]
  <2>1. /\ \A i \in DOMAIN s : s[i] \in TreeNode /\ s[i] < n
        /\ DOMAIN s = 1 .. Len(s) /\ Len(s) \in Nat
    BY <2>0, KidsAre
  <2>2. \A f : NodeValue(n, cached, f) = GateOf(GateTypes[n], GateK[n], at(f))
    BY <1>3 DEF NodeValue
  <2>3. GateK[n] \in Nat
    BY <2>0, AvailabilityAssumption
  <2> HIDE DEF s
  <2>4. ASSUME NEW f \in [TreeNode -> Pair] PROVE NodeValue(n, cached, f) \in Pair
    <3>1. at(f) \in [1 .. Len(s) -> Pair]
      BY <2>1
    <3>2. at(f) \in Seq(Pair)
      <4> HIDE DEF at
      <4> QED BY <2>1, <3>1, SeqDef, Zenon
    <3> HIDE DEF at
    <3> QED BY <2>2, <2>3, <3>2, GateIsFraction
  <2>5. ASSUME NEW f, NEW h, \A m \in TreeNode : m < n => f[m] = h[m]
        PROVE  NodeValue(n, cached, f) = NodeValue(n, cached, h)
    <3>1. at(f) = at(h)
      BY <2>1, <2>5
    <3> HIDE DEF at
    <3> QED BY <2>2, <3>1
  <2> QED BY <2>4, <2>5
<1> QED BY <1>1, <1>2, <1>3

(* The value of a node is what its gate makes of the values below it. *)
LEMMA ValueIs ==
  ASSUME TreeOK, NEW cached
  PROVE  /\ ValueOf(cached) \in [TreeNode -> Pair]
         /\ \A n \in TreeNode : ValueOf(cached)[n] = NodeValue(n, cached, ValueOf(cached))
<1> DEFINE G == [n \in TreeNode |-> [f \in [TreeNode -> Pair] |-> NodeValue(n, cached, f)]]
           Eq(h) == h = [n \in TreeNode |-> NodeValue(n, cached, h)]
           at == CHOOSE h : Eq(h)
<1>1. FromBelow(G, Pair)
  BY NodeValueIs DEF FromBelow
<1>2. PICK f \in [TreeNode -> Pair] : \A n \in TreeNode : f[n] = G[n][f]
  <2>1. <<1, 1>> \in Pair
    BY DEF Pair
  <2> HIDE DEF G
  <2> QED BY <1>1, <2>1, TreeRecursion
<1>3. \A n \in TreeNode : f[n] = NodeValue(n, cached, f)
  BY <1>2
<1>4. Eq(f)
  <2>1. f = [n \in TreeNode |-> f[n]]
    OBVIOUS
  <2> QED BY <1>3, <2>1
<1>5. Eq(at)
  <2> HIDE DEF Eq
  <2> QED BY <1>4
<1>6. ValueOf(cached) = at
  BY Zenon DEF ValueOf, NodeValue
<1> HIDE DEF at, G
<1>7. \A n \in TreeNode : at[n] = NodeValue(n, cached, at)
  BY <1>5
<1> HIDE DEF Eq
<1>8. TreeNode \subseteq {n \in TreeNode : at[n] = f[n]}
  <2> DEFINE T == {n \in TreeNode : at[n] = f[n]}
  <2>1. ASSUME NEW n \in TreeNode, \A m \in TreeNode : m < n => m \in T PROVE n \in T
    <3>1. \A m \in TreeNode : m < n => at[m] = f[m]
      BY <2>1
    <3>2. NodeValue(n, cached, at) = NodeValue(n, cached, f)
      BY <3>1, NodeValueIs
    <3> QED BY <1>3, <1>7, <3>2
  <2> HIDE DEF T
  <2>2. TreeNode \subseteq T
    BY <2>1, NodeInduction
  <2> QED BY <2>2 DEF T
<1>9. at = [n \in TreeNode |-> at[n]]
  BY <1>5 DEF Eq
<1>10. at \in [TreeNode -> Pair]
  <2>1. \A n \in TreeNode : at[n] \in Pair
    BY <1>8
  <2> QED BY <1>9, <2>1
<1> QED BY <1>6, <1>7, <1>10

UnderAt(n, f) ==
  IF n \in BasicEvent THEN {} ELSE UNION {{c} \cup f[c] : c \in Kids(n)}

(* What is under a node are its children and what is under them. *)
LEMMA UnderIs ==
  ASSUME TreeOK
  PROVE  /\ \A n \in TreeNode : Under(n) \in SUBSET TreeNode
         /\ \A n \in BasicEvent : Under(n) = {}
         /\ \A n \in Gates : Under(n) = UNION {{c} \cup Under(c) : c \in Kids(n)}
<1> DEFINE V == SUBSET TreeNode
           G == [n \in TreeNode |-> [f \in [TreeNode -> V] |-> UnderAt(n, f)]]
           Eq(h) == h = [n \in TreeNode |-> UnderAt(n, h)]
           at == CHOOSE h : Eq(h)
<1>0. BasicEvent \subseteq TreeNode /\ Gates \subseteq TreeNode /\ BasicEvent \cap Gates = {}
      /\ \A n \in TreeNode : n \notin BasicEvent => n \in Gates
  BY AvailabilityAssumption DEF TreeNode
<1>1. ASSUME NEW n \in TreeNode
      PROVE  /\ \A f \in [TreeNode -> V] : UnderAt(n, f) \in V
             /\ \A f, h : (\A m \in TreeNode : m < n => f[m] = h[m]) => UnderAt(n, f) = UnderAt(n, h)
  <2>1. CASE n \in BasicEvent
    BY <2>1 DEF UnderAt
  <2>2. CASE n \notin BasicEvent
    <3>1. Kids(n) \subseteq TreeNode /\ \A c \in Kids(n) : c < n
      BY <1>0, <2>2, KidsAre
    <3> QED BY <2>2, <3>1 DEF UnderAt
  <2> QED BY <2>1, <2>2
<1>2. FromBelow(G, V)
  BY <1>1 DEF FromBelow
<1>3. PICK f \in [TreeNode -> V] : \A n \in TreeNode : f[n] = G[n][f]
  <2>1. {} \in V
    OBVIOUS
  <2> HIDE DEF G, V
  <2> QED BY <1>2, <2>1, TreeRecursion
<1>4. \A n \in TreeNode : f[n] = UnderAt(n, f)
  BY <1>3
<1>5. Eq(f)
  <2>1. f = [n \in TreeNode |-> f[n]]
    OBVIOUS
  <2> QED BY <1>4, <2>1
<1>6. Eq(at)
  <2> HIDE DEF Eq
  <2> QED BY <1>5
<1>7. \A n : Under(n) = at[n]
  BY Zenon DEF Under, UnderAt, Kids
<1> HIDE DEF at, G
<1>8. \A n \in TreeNode : at[n] = UnderAt(n, at)
  BY <1>6
<1> HIDE DEF Eq
<1>9. \A n \in TreeNode : at[n] = f[n]
  <2> DEFINE T == {n \in TreeNode : at[n] = f[n]}
  <2>1. ASSUME NEW n \in TreeNode, \A m \in TreeNode : m < n => m \in T PROVE n \in T
    <3>1. \A m \in TreeNode : m < n => at[m] = f[m]
      BY <2>1
    <3>2. UnderAt(n, at) = UnderAt(n, f)
      BY <1>1, <3>1
    <3> QED BY <1>4, <1>8, <3>2
  <2>2. TreeNode \subseteq T
    <3> HIDE DEF T
    <3> QED BY <2>1, NodeInduction
  <2> QED BY <2>2
<1>10. \A n \in TreeNode : Under(n) \in V
  BY <1>7, <1>9
<1>11. \A n \in BasicEvent : Under(n) = {}
  BY <1>0, <1>7, <1>8 DEF UnderAt
<1>12. \A n \in Gates : Under(n) = UNION {{c} \cup Under(c) : c \in Kids(n)}
  BY <1>0, <1>7, <1>8 DEF UnderAt
<1> QED BY <1>10, <1>11, <1>12

(* What is under a child is under its gate. *)
LEMMA UnderGrows ==
  ASSUME TreeOK, NEW g \in Gates, NEW c \in Kids(g)
  PROVE  c \in Under(g) /\ Under(c) \subseteq Under(g) /\ c \in TreeNode /\ c < g
<1>1. Under(g) = UNION {{d} \cup Under(d) : d \in Kids(g)}
  BY UnderIs
<1>2. c \in TreeNode /\ c < g
  BY KidsAre
<1> QED BY <1>1, <1>2

VisitedAt(n, f) ==
  IF n \in BasicEvent \cup Evaluated THEN {} ELSE {n} \cup UNION {f[c] : c \in Kids(n)}

(* Evaluating a node goes through it and what its children go through. *)
LEMMA VisitedIs ==
  ASSUME TreeOK
  PROVE  /\ \A n \in TreeNode : Visited(n) \in SUBSET TreeNode
         /\ \A n \in BasicEvent \cup Evaluated : Visited(n) = {}
         /\ \A n \in Gates \ Evaluated : Visited(n) = {n} \cup UNION {Visited(c) : c \in Kids(n)}
<1> DEFINE V == SUBSET TreeNode
           G == [n \in TreeNode |-> [f \in [TreeNode -> V] |-> VisitedAt(n, f)]]
           Eq(h) == h = [n \in TreeNode |-> VisitedAt(n, h)]
           at == CHOOSE h : Eq(h)
<1>0. BasicEvent \subseteq TreeNode /\ Gates \subseteq TreeNode /\ BasicEvent \cap Gates = {}
      /\ (\A n \in TreeNode : n \notin BasicEvent => n \in Gates) /\ Evaluated \subseteq Gates
  BY AvailabilityAssumption DEF TreeNode, Evaluated
<1>1. ASSUME NEW n \in TreeNode
      PROVE  /\ \A f \in [TreeNode -> V] : VisitedAt(n, f) \in V
             /\ \A f, h : (\A m \in TreeNode : m < n => f[m] = h[m])
                            => VisitedAt(n, f) = VisitedAt(n, h)
  <2>1. CASE n \in BasicEvent \cup Evaluated
    BY <2>1 DEF VisitedAt
  <2>2. CASE n \notin BasicEvent \cup Evaluated
    <3>1. Kids(n) \subseteq TreeNode /\ \A c \in Kids(n) : c < n
      BY <1>0, <2>2, KidsAre
    <3>2. \A f, h : (\A m \in TreeNode : m < n => f[m] = h[m])
                      => \A c \in Kids(n) : f[c] = h[c]
      BY <3>1
    <3>3. \A f : VisitedAt(n, f) = {n} \cup UNION {f[c] : c \in Kids(n)}
      BY <2>2 DEF VisitedAt
    <3>4. ASSUME NEW f \in [TreeNode -> V] PROVE VisitedAt(n, f) \in V
      <4>1. \A c \in Kids(n) : f[c] \in SUBSET TreeNode
        BY <3>1
      <4>2. {n} \cup UNION {f[c] : c \in Kids(n)} \in SUBSET TreeNode
        BY <4>1
      <4> QED BY <3>3, <4>2
    <3>5. ASSUME NEW f, NEW h, \A m \in TreeNode : m < n => f[m] = h[m]
          PROVE  VisitedAt(n, f) = VisitedAt(n, h)
      <4>1. {f[c] : c \in Kids(n)} = {h[c] : c \in Kids(n)}
        BY <3>2, <3>5
      <4> QED BY <3>3, <4>1
    <3> HIDE DEF V
    <3> QED BY <3>4, <3>5
  <2> QED BY <2>1, <2>2
<1>2. FromBelow(G, V)
  BY <1>1 DEF FromBelow
<1>3. PICK f \in [TreeNode -> V] : \A n \in TreeNode : f[n] = G[n][f]
  <2>1. {} \in V
    OBVIOUS
  <2> HIDE DEF G, V
  <2> QED BY <1>2, <2>1, TreeRecursion
<1>4. \A n \in TreeNode : f[n] = VisitedAt(n, f)
  BY <1>3
<1>5. Eq(f)
  <2>1. f = [n \in TreeNode |-> f[n]]
    OBVIOUS
  <2> QED BY <1>4, <2>1
<1>6. Eq(at)
  <2> HIDE DEF Eq
  <2> QED BY <1>5
<1>7. \A n : Visited(n) = at[n]
  BY Zenon DEF Visited, VisitedAt, Kids
<1> HIDE DEF at, G
<1>8. \A n \in TreeNode : at[n] = VisitedAt(n, at)
  BY <1>6
<1> HIDE DEF Eq
<1>9. \A n \in TreeNode : at[n] = f[n]
  <2> DEFINE T == {n \in TreeNode : at[n] = f[n]}
  <2>1. ASSUME NEW n \in TreeNode, \A m \in TreeNode : m < n => m \in T PROVE n \in T
    <3>1. \A m \in TreeNode : m < n => at[m] = f[m]
      BY <2>1
    <3>2. VisitedAt(n, at) = VisitedAt(n, f)
      BY <1>1, <3>1
    <3> QED BY <1>4, <1>8, <3>2
  <2>2. TreeNode \subseteq T
    <3> HIDE DEF T
    <3> QED BY <2>1, NodeInduction
  <2> QED BY <2>2
<1>10. \A n \in TreeNode : Visited(n) \in V
  BY <1>7, <1>9
<1>11. \A n \in BasicEvent \cup Evaluated : Visited(n) = {}
  <2> SUFFICES ASSUME NEW n \in BasicEvent \cup Evaluated PROVE Visited(n) = {}
    OBVIOUS
  <2>1. n \in TreeNode
    BY <1>0
  <2>2. Visited(n) = VisitedAt(n, at)
    BY <1>7, <1>8, <2>1
  <2> QED BY <2>2 DEF VisitedAt
<1>12. ASSUME NEW n \in Gates \ Evaluated
       PROVE  Visited(n) = {n} \cup UNION {Visited(c) : c \in Kids(n)}
  <2>1. n \in TreeNode /\ n \notin BasicEvent \cup Evaluated
    BY <1>0
  <2>2. Visited(n) = VisitedAt(n, at)
    BY <1>7, <1>8, <2>1
  <2>3. VisitedAt(n, at) = {n} \cup UNION {at[c] : c \in Kids(n)}
    BY <2>1 DEF VisitedAt
  <2> QED BY <1>7, <2>2, <2>3
<1> QED BY <1>10, <1>11, <1>12

(* Only gates that were not evaluated are gone through, and with a gate *)
(* all such gates among its children. *)
LEMMA VisitedCloses ==
  ASSUME TreeOK
  PROVE  \A root \in TreeNode :
           /\ Visited(root) \subseteq Gates \ Evaluated
           /\ \A g \in Visited(root) : \A c \in Kids(g) :
                c \in BasicEvent \cup Evaluated \/ c \in Visited(root)
<1> DEFINE Ok(root) == /\ Visited(root) \subseteq Gates \ Evaluated
                       /\ \A g \in Visited(root) : \A c \in Kids(g) :
                            c \in BasicEvent \cup Evaluated \/ c \in Visited(root)
           T == {root \in TreeNode : Ok(root)}
<1>1. ASSUME NEW n \in TreeNode, \A m \in TreeNode : m < n => m \in T PROVE n \in T
  <2>1. CASE n \in BasicEvent \cup Evaluated
    <3>1. Visited(n) = {}
      BY <2>1, VisitedIs
    <3> QED BY <3>1
  <2>2. CASE n \notin BasicEvent \cup Evaluated
    <3>1. n \in Gates \ Evaluated
      BY <2>2 DEF TreeNode
    <3>2. Visited(n) = {n} \cup UNION {Visited(c) : c \in Kids(n)}
      BY <3>1, VisitedIs
    <3>3. \A c \in Kids(n) : c \in TreeNode /\ Ok(c)
      <4> TAKE c \in Kids(n)
      <4>1. c \in TreeNode /\ c < n
        BY <3>1, KidsAre
      <4> QED BY <1>1, <4>1
    <3>4. Visited(n) \subseteq Gates \ Evaluated
      BY <3>1, <3>2, <3>3
    <3>5. ASSUME NEW g \in Visited(n), NEW c \in Kids(g)
          PROVE  c \in BasicEvent \cup Evaluated \/ c \in Visited(n)
      <4>1. CASE g = n
        <5>1. c \in Kids(n) /\ c \in TreeNode
          BY <3>3, <4>1
        <5>2. c \in BasicEvent \cup Evaluated \/ c \in Gates \ Evaluated
          BY <5>1 DEF TreeNode
        <5>3. c \in Gates \ Evaluated => c \in Visited(c)
          BY VisitedIs
        <5> QED BY <3>2, <5>1, <5>2, <5>3
      <4>2. CASE g # n
        <5>1. PICK d \in Kids(n) : g \in Visited(d)
          BY <3>2, <4>2
        <5> QED BY <3>2, <3>3, <5>1
      <4> QED BY <4>1, <4>2
    <3> QED BY <3>4, <3>5
  <2> QED BY <2>1, <2>2
<1>2. TreeNode \subseteq T
  <2> HIDE DEF T
  <2> QED BY <1>1, NodeInduction
<1> QED BY <1>2

(* The probability a gate is given for a child. *)
NodeProb(n) == IF n \in BasicEvent THEN Probability[n] ELSE ft.result[n]

Settled == Evaluated \ outdated

FromKids(g) ==
  ft.result[g] = GateOf(GateTypes[g], GateK[g],
                        [i \in DOMAIN ft.children[g] |-> NodeProb(ft.children[g][i])])

(* The gates that count as evaluated and are not outdated have only such *)
(* gates for children, and what their gates make of them for result. *)
CachedOK ==
  /\ TreeOK
  /\ \A g \in Evaluated : GateTypes[g] = "VOTING" => ft.children[g] # << >>
  /\ \A g \in Settled : Kids(g) \subseteq BasicEvent \cup Settled /\ FromKids(g)

(* The tree starts without an edge, and nothing is evaluated. *)
LEMMA TreeStarts ==
  ASSUME TreeInit
  PROVE  CachedOK
<1>1. /\ ft.children = [g \in Gates |-> << >>] /\ ft.evaluated = [g \in Gates |-> FALSE]
      /\ ft.result = [g \in Gates |-> NoResult] /\ outdated = {}
      /\ ft = [children |-> ft.children, evaluated |-> ft.evaluated, result |-> ft.result]
  BY DEF TreeInit
<1>2. << >> \in Seq(TreeNode) /\ NoResult \in Pair /\ Len(<< >>) = 0 /\ 0 <= MaxChildren
      /\ DOMAIN << >> = {}
  <2>1. MaxChildren \in Nat
    BY AvailabilityAssumption
  <2> QED BY <2>1 DEF NoResult, Pair
<1>3. \A g \in Gates : Kids(g) = {}
  BY <1>1, <1>2 DEF Kids, Range
<1>4. ft.children \in [Gates -> Seq(TreeNode)] /\ ft.evaluated \in [Gates -> BOOLEAN]
      /\ ft.result \in [Gates -> Pair]
  <2> HIDE DEF Pair
  <2> QED BY <1>1, <1>2
<1>5. TreeOK
  <2> DEFINE a == ft.children
             b == ft.evaluated
             c == ft.result
             rec == [children |-> a, evaluated |-> b, result |-> c]
  <2>1. ft = rec
    BY <1>1
  <2>2. rec \in [children : [Gates -> Seq(TreeNode)], evaluated : [Gates -> BOOLEAN],
                 result : [Gates -> Pair]]
    <3>1. a \in [Gates -> Seq(TreeNode)] /\ b \in [Gates -> BOOLEAN] /\ c \in [Gates -> Pair]
      BY <1>4
    <3> HIDE DEF a, b, c
    <3> QED BY <3>1
  <2>3. \A g \in Gates : Len(ft.children[g]) <= MaxChildren
    BY <1>1, <1>2
  <2> QED BY <1>1, <1>3, <2>1, <2>2, <2>3 DEF TreeOK
<1>6. Evaluated = {}
  BY <1>1 DEF Evaluated
<1> QED BY <1>5, <1>6 DEF CachedOK, Settled

(* A child added outdates whatever stands above it. *)
LEMMA ChildIsAdded ==
  ASSUME CachedOK, NEW g \in Gates, NEW c \in TreeNode, ft_add_child(g, c)
  PROVE  CachedOK'
<1> DEFINE s == ft.children[g]
<1>1. TreeOK
  BY DEF CachedOK
<1>2. /\ ft'.children = [ft.children EXCEPT ![g] = Append(s, c)]
      /\ ft'.evaluated = [ft.evaluated EXCEPT ![g] = FALSE] /\ ft'.result = ft.result
      /\ ft' = [children |-> ft'.children, evaluated |-> ft'.evaluated, result |-> ft'.result]
      /\ outdated' = (outdated \cup {a \in Evaluated : g \in Under(a)}) \ {g}
      /\ Len(s) < MaxChildren /\ c < g
  BY <1>1 DEF ft_add_child, TreeOK
<1>3. /\ ft.children \in [Gates -> Seq(TreeNode)] /\ ft.evaluated \in [Gates -> BOOLEAN]
      /\ ft.result \in [Gates -> Pair] /\ s \in Seq(TreeNode)
  BY <1>1 DEF TreeOK
<1>4. /\ Append(s, c) \in Seq(TreeNode) /\ Len(Append(s, c)) = Len(s) + 1 /\ Len(s) \in Nat
      /\ MaxChildren \in Nat
      /\ \A i \in 1 .. Len(s) + 1 : Append(s, c)[i] = IF i <= Len(s) THEN s[i] ELSE c
      /\ DOMAIN Append(s, c) = 1 .. Len(s) + 1
  <2> HIDE DEF s
  <2>1. /\ Append(s, c) \in Seq(TreeNode) /\ Len(Append(s, c)) = Len(s) + 1 /\ Len(s) \in Nat
        /\ \A i \in 1 .. Len(s) + 1 : Append(s, c)[i] = IF i <= Len(s) THEN s[i] ELSE c
    BY <1>3
  <2>2. DOMAIN Append(s, c) = 1 .. Len(s) + 1
    BY <2>1, LenProperties
  <2> QED BY <2>1, <2>2, AvailabilityAssumption
<1>5. \A h \in Gates : h # g => ft'.children[h] = ft.children[h] /\ ft'.evaluated[h] = ft.evaluated[h]
  BY <1>2, <1>3
<1>6. ft'.children[g] = Append(s, c) /\ ft'.evaluated[g] = FALSE
  BY <1>2, <1>3
<1>7. ASSUME NEW h \in Gates, h # g PROVE Kids(h)' = Kids(h)
  <2>1. ft'.children[h] = ft.children[h]
    BY <1>5, <1>7
  <2> QED BY <2>1 DEF Kids
<1>8. \A d \in Kids(g)' : d < g
  <2> SUFFICES ASSUME NEW d \in Kids(g)' PROVE d < g
    OBVIOUS
  <2>1. PICK i \in DOMAIN Append(s, c) : d = Append(s, c)[i]
    BY <1>6 DEF Kids, Range
  <2>2. d = c \/ (i \in DOMAIN s /\ d = s[i])
    <3>1. DOMAIN s = 1 .. Len(s)
      BY <1>1, KidsAre
    <3> HIDE DEF s
    <3> QED BY <1>4, <2>1, <3>1
  <2>3. \A j \in DOMAIN s : s[j] < g
    BY <1>1, KidsAre
  <2> QED BY <1>2, <2>2, <2>3
<1>9. TreeOK'
  <2>1. ft' \in [children : [Gates -> Seq(TreeNode)], evaluated : [Gates -> BOOLEAN],
                 result : [Gates -> Pair]]
    <3> DEFINE x == ft'.children
               y == ft'.evaluated
               z == ft'.result
    <3>1. x \in [Gates -> Seq(TreeNode)]
      <4> DEFINE q == Append(s, c)
      <4>1. q \in Seq(TreeNode) /\ x = [ft.children EXCEPT ![g] = q]
        BY <1>2, <1>4
      <4> HIDE DEF q, x
      <4> QED BY <1>3, <4>1
    <3>2. y \in [Gates -> BOOLEAN] /\ z \in [Gates -> Pair]
      BY <1>2, <1>3
    <3>3. ft' = [children |-> x, evaluated |-> y, result |-> z]
      BY <1>2
    <3> HIDE DEF x, y, z
    <3> QED BY <3>1, <3>2, <3>3
  <2>2. \A h \in Gates : Len(ft'.children[h]) <= MaxChildren
    <3> TAKE h \in Gates
    <3>1. CASE h = g
      <4>1. Len(ft'.children[h]) = Len(s) + 1
        BY <1>4, <1>6, <3>1
      <4> HIDE DEF s
      <4> QED BY <1>2, <1>4, <4>1
    <3>2. CASE h # g
      <4>1. Len(ft.children[h]) <= MaxChildren
        BY <1>1 DEF TreeOK
      <4> QED BY <1>5, <3>2, <4>1
    <3> QED BY <3>1, <3>2
  <2>3. \A h \in Gates : \A d \in Kids(h)' : d < h
    <3> TAKE h \in Gates
    <3>1. CASE h = g
      BY <1>8, <3>1
    <3>2. CASE h # g
      BY <1>1, <1>7, <3>2, KidsAre
    <3> QED BY <3>1, <3>2
  <2>4. outdated' \subseteq Gates
    BY <1>1, <1>2 DEF TreeOK, Evaluated
  <2> QED BY <2>1, <2>2, <2>3, <2>4 DEF TreeOK
<1>10. Evaluated' = Evaluated \ {g}
  BY <1>5, <1>6 DEF Evaluated
<1>11. \A h \in Evaluated' : GateTypes[h] = "VOTING" => ft'.children[h] # << >>
  <2> SUFFICES ASSUME NEW h \in Evaluated', GateTypes[h] = "VOTING" PROVE ft'.children[h] # << >>
    OBVIOUS
  <2>1. h \in Evaluated /\ h \in Gates /\ h # g
    BY <1>10 DEF Evaluated
  <2> QED BY <1>5, <2>1 DEF CachedOK
<1>12. ASSUME NEW h \in Settled' PROVE Kids(h)' \subseteq BasicEvent \cup Settled' /\ FromKids(h)'
  <2>1. h \in Evaluated /\ h # g /\ h \in Gates /\ h \notin outdated /\ g \notin Under(h)
    BY <1>2, <1>10 DEF Settled, Evaluated
  <2>2. h \in Settled
    BY <2>1 DEF Settled
  <2>3. Kids(h) \subseteq BasicEvent \cup Settled /\ FromKids(h)
    BY <2>2 DEF CachedOK
  <2>4. Kids(h)' = Kids(h) /\ ft'.children[h] = ft.children[h]
    BY <1>5, <1>7, <2>1
  <2>5. ASSUME NEW d \in Kids(h), d \notin BasicEvent PROVE d \in Settled'
    <3>1. d \in Settled /\ d \in Evaluated /\ d \notin outdated
      BY <2>3, <2>5 DEF Settled
    <3>2. d \in Under(h) /\ Under(d) \subseteq Under(h)
      BY <1>1, <2>1, UnderGrows
    <3>3. d # g /\ g \notin Under(d)
      BY <2>1, <3>2
    <3> QED BY <1>2, <1>10, <3>1, <3>3 DEF Settled
  <2>6. Kids(h)' \subseteq BasicEvent \cup Settled'
    BY <2>4, <2>5
  <2>7. FromKids(h)'
    BY <1>2, <2>3, <2>4 DEF FromKids, NodeProb
  <2> QED BY <2>6, <2>7
<1> QED BY <1>9, <1>11, <1>12 DEF CachedOK

(* An evaluation settles the gates it visits. *)
LEMMA TreeIsEvaluated ==
  ASSUME CachedOK, NEW root \in Gates, ft_evaluate(root)
  PROVE  CachedOK'
<1> DEFINE visited == Visited(root)
           value == ValueOf(Evaluated)
<1>1. TreeOK /\ root \in TreeNode
  BY DEF CachedOK, TreeNode
<1>2. /\ visited \subseteq Gates \ Evaluated
      /\ \A g \in visited : \A c \in Kids(g) : c \in BasicEvent \cup Evaluated \/ c \in visited
  BY <1>1, VisitedCloses
<1>3. /\ value \in [TreeNode -> Pair]
      /\ \A n \in TreeNode : value[n] = NodeValue(n, Evaluated, value)
  BY <1>1, ValueIs
<1>4. /\ \A g \in visited : GateTypes[g] = "VOTING" => ft.children[g] # << >>
      /\ ft' = [ft EXCEPT
           !.result = [g \in Gates |-> IF g \in visited THEN value[g] ELSE ft.result[g]],
           !.evaluated = [g \in Gates |-> ft.evaluated[g] \/ g \in visited]]
      /\ outdated' = {g \in Gates : \/ g \in outdated
                                    \/ g \in visited /\ Under(g) \cap outdated # {}}
  BY Zenon DEF ft_evaluate
<1> HIDE DEF visited, value
<1>5. /\ ft.children \in [Gates -> Seq(TreeNode)] /\ ft.evaluated \in [Gates -> BOOLEAN]
      /\ ft.result \in [Gates -> Pair]
      /\ ft = [children |-> ft.children, evaluated |-> ft.evaluated, result |-> ft.result]
  BY <1>1 DEF TreeOK
<1>6. /\ ft' = [children |-> ft'.children, evaluated |-> ft'.evaluated, result |-> ft'.result]
      /\ ft'.children = ft.children
      /\ ft'.evaluated = [g \in Gates |-> ft.evaluated[g] \/ g \in visited]
      /\ ft'.result = [g \in Gates |-> IF g \in visited THEN value[g] ELSE ft.result[g]]
  BY <1>4, <1>5
<1>7. \A g : Kids(g)' = Kids(g)
  BY <1>6 DEF Kids
<1>8. Evaluated' = Evaluated \cup visited
  <2>1. Evaluated' = {g \in Gates : ft'.evaluated[g]}
    BY DEF Evaluated
  <2>2. \A g \in Gates : ft'.evaluated[g] = (ft.evaluated[g] \/ g \in visited)
    BY <1>6
  <2>3. Evaluated = {g \in Gates : ft.evaluated[g]}
    BY DEF Evaluated
  <2>4. \A g \in Evaluated' : g \in Evaluated \cup visited
    BY <2>1, <2>2, <2>3
  <2>5. \A g \in Evaluated \cup visited : g \in Evaluated'
    BY <1>2, <2>1, <2>2, <2>3
  <2> QED BY <2>4, <2>5
<1>9. TreeOK'
  <2>1. ft' \in [children : [Gates -> Seq(TreeNode)], evaluated : [Gates -> BOOLEAN],
                 result : [Gates -> Pair]]
    <3> DEFINE x == ft'.children
               y == ft'.evaluated
               z == ft'.result
    <3>1. x \in [Gates -> Seq(TreeNode)]
      BY <1>5, <1>6
    <3>2. y \in [Gates -> BOOLEAN]
      <4>1. \A g \in Gates : (ft.evaluated[g] \/ g \in visited) \in BOOLEAN
        OBVIOUS
      <4> QED BY <1>6, <4>1, Zenon
    <3>3. z \in [Gates -> Pair]
      <4>1. \A g \in Gates : (IF g \in visited THEN value[g] ELSE ft.result[g]) \in Pair
        <5> TAKE g \in Gates
        <5>1. g \in TreeNode
          BY DEF TreeNode
        <5>2. value[g] \in Pair /\ ft.result[g] \in Pair
          BY <1>3, <1>5, <5>1
        <5> QED BY <5>2
      <4> QED BY <1>6, <4>1
    <3>4. ft' = [children |-> x, evaluated |-> y, result |-> z]
      BY <1>6
    <3> HIDE DEF x, y, z
    <3> QED BY <3>1, <3>2, <3>3, <3>4
  <2>2. \A h \in Gates : Len(ft'.children[h]) <= MaxChildren /\ \A d \in Kids(h)' : d < h
    BY <1>1, <1>6, <1>7 DEF TreeOK
  <2>3. outdated' \subseteq Gates
    BY <1>4
  <2> QED BY <2>1, <2>2, <2>3 DEF TreeOK
<1>10. \A h \in Evaluated' : GateTypes[h] = "VOTING" => ft'.children[h] # << >>
  <2> SUFFICES ASSUME NEW h \in Evaluated', GateTypes[h] = "VOTING" PROVE ft.children[h] # << >>
    BY <1>6
  <2>1. h \in Evaluated \/ h \in visited
    BY <1>8
  <2> QED BY <1>4, <2>1 DEF CachedOK
<1>11. ASSUME NEW h \in Settled' PROVE Kids(h)' \subseteq BasicEvent \cup Settled' /\ FromKids(h)'
  <2>1. /\ h \in Evaluated \/ h \in visited
        /\ h \notin outdated /\ ~ (h \in visited /\ Under(h) \cap outdated # {}) /\ h \in Gates
    BY <1>2, <1>4, <1>8 DEF Settled, Evaluated
  <2>2. \A d \in Evaluated : d \in Gates /\ d \notin visited /\ d \in Evaluated'
                             /\ (d \notin outdated => d \in Settled')
    BY <1>2, <1>4, <1>8 DEF Evaluated, Settled
  <2>3. DOMAIN ft.children[h] = 1 .. Len(ft.children[h])
        /\ \A i \in DOMAIN ft.children[h] : ft.children[h][i] \in Kids(h)
    BY <1>1, <2>1, KidsAre
  <2>4. CASE h \notin visited
    <3>1. h \in Settled
      BY <2>1, <2>4 DEF Settled
    <3>2. Kids(h) \subseteq BasicEvent \cup Settled /\ FromKids(h)
      BY <3>1 DEF CachedOK
    <3>3. \A d \in Kids(h) : d \in BasicEvent \/ (d \in Settled' /\ d \notin visited /\ d \in Gates)
      BY <2>2, <3>2 DEF Settled
    <3>4. \A d \in Kids(h) : NodeProb(d)' = NodeProb(d)
      BY <1>6, <3>3 DEF NodeProb
    <3>5. ft'.result[h] = ft.result[h]
      BY <1>6, <2>1, <2>4
    <3>6. FromKids(h)'
      <4> DEFINE s == ft.children[h]
      <4>1. \A i \in DOMAIN s : (IF s[i] \in BasicEvent THEN Probability[s[i]] ELSE ft'.result[s[i]])
                                = NodeProb(s[i])
        BY <2>3, <3>4 DEF NodeProb
      <4>2. ft'.children[h] = s
        BY <1>6
      <4>3. FromKids(h)' <=> ft'.result[h] = GateOf(GateTypes[h], GateK[h],
              [i \in DOMAIN s |-> IF s[i] \in BasicEvent THEN Probability[s[i]]
                                  ELSE ft'.result[s[i]]])
        BY <4>2 DEF FromKids, NodeProb
      <4>4. FromKids(h) <=> ft.result[h] = GateOf(GateTypes[h], GateK[h],
              [i \in DOMAIN s |-> NodeProb(s[i])])
        BY DEF FromKids
      <4> HIDE DEF s
      <4>5. [i \in DOMAIN s |-> IF s[i] \in BasicEvent THEN Probability[s[i]]
                                  ELSE ft'.result[s[i]]]
            = [i \in DOMAIN s |-> NodeProb(s[i])]
        BY <4>1
      <4> QED BY <3>2, <3>5, <4>3, <4>4, <4>5
    <3>7. Kids(h)' \subseteq BasicEvent \cup Settled'
      BY <1>7, <3>3
    <3> QED BY <3>6, <3>7
  <2>5. CASE h \in visited
    <3>1. Under(h) \cap outdated = {} /\ h \notin Evaluated /\ h \notin BasicEvent /\ h \in TreeNode
      BY <1>2, <2>1, <2>5, AvailabilityAssumption DEF TreeNode
    <3>2. ASSUME NEW d \in Kids(h), d \notin BasicEvent
          PROVE  d \in Settled' /\ d \in Gates /\ (d \in Evaluated \/ d \in visited)
      <4>1. d \in Under(h) /\ Under(d) \subseteq Under(h)
        BY <1>1, <2>1, UnderGrows
      <4>2. d \notin outdated /\ Under(d) \cap outdated = {}
        BY <3>1, <4>1
      <4>3. d \in Evaluated \/ d \in visited
        BY <1>2, <2>5, <3>2
      <4> QED BY <1>2, <1>4, <1>8, <2>2, <4>2, <4>3 DEF Settled
    <3>3. Kids(h)' \subseteq BasicEvent \cup Settled'
      BY <1>7, <3>2
    <3>4. ASSUME NEW d \in Kids(h)
          PROVE  value[d] = IF d \in BasicEvent THEN Probability[d] ELSE ft'.result[d]
      <4>0. d \in TreeNode
        BY <1>1, <2>1, KidsAre
      <4>1. CASE d \in BasicEvent
        <5>1. value[d] = NodeValue(d, Evaluated, value)
          BY <1>3, <4>0
        <5> QED BY <4>1, <5>1 DEF NodeValue
      <4>2. CASE d \notin BasicEvent /\ d \in visited
        <5>1. d \in Gates
          BY <1>2, <4>2
        <5> QED BY <1>6, <4>2, <5>1
      <4>3. CASE d \notin BasicEvent /\ d \notin visited
        <5>1. d \in Evaluated /\ d \in Gates
          BY <3>2, <4>3
        <5>2. value[d] = NodeValue(d, Evaluated, value)
          BY <1>3, <4>0
        <5>3. value[d] = ft.result[d]
          BY <4>3, <5>1, <5>2 DEF NodeValue
        <5>4. ft'.result[d] = ft.result[d]
          BY <1>6, <4>3, <5>1
        <5> QED BY <4>3, <5>3, <5>4
      <4> QED BY <4>1, <4>2, <4>3
    <3> DEFINE s == ft.children[h]
    <3>5. value[h] = GateOf(GateTypes[h], GateK[h], [i \in DOMAIN s |-> value[s[i]]])
      <4>1. value[h] = NodeValue(h, Evaluated, value)
        BY <1>3, <3>1
      <4> QED BY <3>1, <4>1 DEF NodeValue
    <3>6. ft'.result[h] = value[h]
      BY <1>6, <2>1, <2>5
    <3>7. FromKids(h)' <=> ft'.result[h] = GateOf(GateTypes[h], GateK[h],
            [i \in DOMAIN s |-> IF s[i] \in BasicEvent THEN Probability[s[i]]
                                ELSE ft'.result[s[i]]])
      <4>1. ft'.children[h] = s
        BY <1>6
      <4> QED BY <4>1 DEF FromKids, NodeProb
    <3>8. \A i \in DOMAIN s : s[i] \in Kids(h)
      BY <2>3
    <3> HIDE DEF s
    <3>9. [i \in DOMAIN s |-> IF s[i] \in BasicEvent THEN Probability[s[i]] ELSE ft'.result[s[i]]]
          = [i \in DOMAIN s |-> value[s[i]]]
      BY <3>4, <3>8
    <3>10. FromKids(h)'
      BY <3>5, <3>6, <3>7, <3>9
    <3> QED BY <3>3, <3>10
  <2> QED BY <2>4, <2>5
<1> QED BY <1>9, <1>10, <1>11 DEF CachedOK

(* Every call on the tree keeps the settled gates true. *)
LEMMA TreeStays ==
  ASSUME CachedOK, TreeNext \/ UNCHANGED <<ft, outdated>>
  PROVE  CachedOK'
<1>1. CASE TreeNext
  BY <1>1, ChildIsAdded, TreeIsEvaluated DEF TreeNext
<1>2. CASE UNCHANGED <<ft, outdated>>
  BY <1>2 DEF CachedOK, TreeOK, Kids, Evaluated, Settled, FromKids, NodeProb
<1> QED BY <1>1, <1>2

(* The children of a settled gate come first. *)
LEMMA SettledKids ==
  ASSUME CachedOK, NEW g \in Settled
  PROVE  /\ g \in Gates /\ g \in TreeNode /\ g \notin BasicEvent
         /\ \A i \in DOMAIN ft.children[g] :
              LET c == ft.children[g][i] IN
              c \in TreeNode /\ c < g /\ c \in BasicEvent \cup Settled /\ c \in Kids(g)
         /\ DOMAIN ft.children[g] = 1 .. Len(ft.children[g]) /\ Len(ft.children[g]) \in Nat
         /\ NodeProb(g) = GateOf(GateTypes[g], GateK[g],
                                 [i \in DOMAIN ft.children[g] |-> NodeProb(ft.children[g][i])])
<1>1. g \in Gates /\ g \in TreeNode /\ g \notin BasicEvent
  BY AvailabilityAssumption DEF Settled, Evaluated, TreeNode
<1>2. TreeOK /\ Kids(g) \subseteq BasicEvent \cup Settled /\ FromKids(g)
  BY DEF CachedOK
<1>3. /\ Kids(g) \subseteq TreeNode /\ \A c \in Kids(g) : c < g
      /\ \A i \in DOMAIN ft.children[g] : ft.children[g][i] \in Kids(g)
      /\ DOMAIN ft.children[g] = 1 .. Len(ft.children[g]) /\ Len(ft.children[g]) \in Nat
  BY <1>1, <1>2, KidsAre
<1>4. NodeProb(g) = ft.result[g]
  BY <1>1 DEF NodeProb
<1>5. NodeProb(g) = GateOf(GateTypes[g], GateK[g],
                           [i \in DOMAIN ft.children[g] |-> NodeProb(ft.children[g][i])])
  BY <1>2, <1>4 DEF FromKids
<1> QED BY <1>1, <1>2, <1>3, <1>5

(* A gate settled has the probability of its subtree. *)
LEMMA CachedFollows ==
  ASSUME CachedOK
  PROVE  CachedIsTrue
<1> DEFINE value == ValueOf({})
           T == {n \in TreeNode : n \in BasicEvent \cup Settled => value[n] = NodeProb(n)}
<1>1. TreeOK
  BY DEF CachedOK
<1>2. \A n \in TreeNode : value[n] = NodeValue(n, {}, value)
  BY <1>1, ValueIs
<1> HIDE DEF value
<1>3. ASSUME NEW n \in TreeNode, \A m \in TreeNode : m < n => m \in T PROVE n \in T
  <2>1. CASE n \in BasicEvent
    <3>1. value[n] = Probability[n] /\ NodeProb(n) = Probability[n]
      BY <1>2, <2>1 DEF NodeValue, NodeProb
    <3> QED BY <3>1
  <2>2. CASE n \in Settled
    <3> DEFINE s == ft.children[n]
    <3>1. \A i \in DOMAIN s : s[i] \in TreeNode /\ s[i] < n /\ s[i] \in BasicEvent \cup Settled
      BY <2>2, SettledKids
    <3>2. n \notin BasicEvent
          /\ NodeProb(n) = GateOf(GateTypes[n], GateK[n], [i \in DOMAIN s |-> NodeProb(s[i])])
      BY <2>2, SettledKids
    <3>3. value[n] = GateOf(GateTypes[n], GateK[n], [i \in DOMAIN s |-> value[s[i]]])
      <4>1. value[n] = NodeValue(n, {}, value) /\ n \notin {}
        BY <1>2
      <4> QED BY <3>2, <4>1 DEF NodeValue
    <3> HIDE DEF s
    <3>4. \A i \in DOMAIN s : value[s[i]] = NodeProb(s[i])
      BY <1>3, <3>1
    <3>5. [i \in DOMAIN s |-> value[s[i]]] = [i \in DOMAIN s |-> NodeProb(s[i])]
      BY <3>4
    <3>6. value[n] = NodeProb(n)
      BY <3>2, <3>3, <3>5
    <3> QED BY <3>6
  <2>3. CASE n \notin BasicEvent \cup Settled
    BY <2>3
  <2> QED BY <2>1, <2>2, <2>3
<1>4. TreeNode \subseteq T
  <2> HIDE DEF T
  <2> QED BY <1>3, NodeInduction
<1>5. ASSUME NEW g \in Settled PROVE ft.result[g] = value[g]
  <2>1. g \in TreeNode /\ g \notin BasicEvent
    BY <1>5, SettledKids
  <2>2. value[g] = NodeProb(g)
    BY <1>4, <2>1
  <2> QED BY <2>1, <2>2 DEF NodeProb
<1> QED BY <1>5 DEF CachedIsTrue, Settled, value

(* The probability of a gate whose votes are not short is one. *)
LEMMA ProbabilityFollows ==
  ASSUME CachedOK
  PROVE  ResultIsProbability
<1> DEFINE Full(n) == \A m \in {n} \cup Under(n) : ~ Short(m)
           T == {n \in TreeNode : n \in BasicEvent \cup Settled /\ Full(n) => NodeProb(n) \in Fraction}
<1>1. TreeOK
  BY DEF CachedOK
<1>2. ASSUME NEW n \in TreeNode, \A m \in TreeNode : m < n => m \in T PROVE n \in T
  <2>1. CASE n \in BasicEvent
    <3>1. NodeProb(n) \in Fraction
      BY <2>1, AvailabilityAssumption DEF NodeProb
    <3> HIDE DEF Full
    <3> QED BY <3>1
  <2>2. CASE n \in Settled /\ Full(n)
    <3> DEFINE s == ft.children[n]
               ps == [i \in DOMAIN s |-> NodeProb(s[i])]
    <3>0. n \in Gates
      BY <2>2, SettledKids
    <3>1. \A i \in DOMAIN s : s[i] \in TreeNode /\ s[i] < n /\ s[i] \in BasicEvent \cup Settled
                              /\ s[i] \in Kids(n)
      BY <2>2, SettledKids
    <3>2. DOMAIN s = 1 .. Len(s) /\ Len(s) \in Nat
          /\ NodeProb(n) = GateOf(GateTypes[n], GateK[n], ps)
      BY <2>2, SettledKids
    <3>3. ~ Short(n)
      BY <2>2
    <3>4. GateTypes[n] = "VOTING" => GateK[n] <= Len(s) /\ Len(s) # 0
      <4> SUFFICES ASSUME GateTypes[n] = "VOTING" PROVE GateK[n] <= Len(s) /\ Len(s) # 0
        OBVIOUS
      <4>1. GateK[n] \in Nat
        BY <3>0, AvailabilityAssumption
      <4>2. GateK[n] <= Len(s)
        BY <3>0, <3>2, <3>3, <4>1 DEF Short
      <4>3. s # << >>
        BY <2>2 DEF CachedOK, Settled
      <4>4. s \in Seq(TreeNode)
        BY <1>1, <3>0, KidsAre
      <4>5. Len(s) # 0
        <5> HIDE DEF s
        <5> QED BY <4>3, <4>4, EmptySeq
      <4> QED BY <4>2, <4>5
    <3>5. ASSUME NEW i \in DOMAIN s PROVE NodeProb(s[i]) \in Fraction
      <4> DEFINE c == s[i]
      <4>1. c \in TreeNode /\ c < n /\ c \in BasicEvent \cup Settled /\ c \in Kids(n)
        BY <3>1
      <4> HIDE DEF s, c
      <4>2. c \in Under(n) /\ Under(c) \subseteq Under(n)
        BY <1>1, <3>0, <4>1, UnderGrows
      <4>3. Full(c)
        BY <2>2, <4>2
      <4>4. c \in T
        BY <1>2, <4>1
      <4>5. NodeProb(c) \in Fraction
        <5> HIDE DEF Full
        <5> QED BY <4>1, <4>3, <4>4
      <4> QED BY <4>5 DEF c
    <3> HIDE DEF s
    <3>6. ps \in [1 .. Len(s) -> Fraction] /\ ps \in [1 .. Len(s) -> Pair]
      <4>1. Fraction \subseteq Pair
        BY DEF Fraction, Pair
      <4> QED BY <3>2, <3>5, <4>1
    <3>7. ps \in Seq(Pair) /\ Len(ps) = Len(s)
      <4> HIDE DEF ps
      <4>1. ps \in Seq(Pair)
        BY <3>2, <3>6, SeqDef, Zenon
      <4> QED BY <3>2, <3>6, <4>1, LenProperties
    <3>8. GateK[n] \in Nat
      BY <3>0, AvailabilityAssumption
    <3>9. \A i \in 1 .. Len(ps) : ps[i] \in Fraction
      BY <3>6, <3>7
    <3> HIDE DEF ps
    <3>10. GateOf(GateTypes[n], GateK[n], ps) \in Fraction
      BY <3>4, <3>7, <3>8, <3>9, GateIsFraction
    <3>11. NodeProb(n) \in Fraction
      BY <3>2, <3>10
    <3> HIDE DEF Full
    <3> QED BY <3>11
  <2>3. CASE ~ (n \in BasicEvent \/ (n \in Settled /\ Full(n)))
    <3> HIDE DEF Full
    <3> QED BY <2>3
  <2> QED BY <2>1, <2>2, <2>3
<1>3. TreeNode \subseteq T
  <2> HIDE DEF T
  <2> QED BY <1>2, NodeInduction
<1>4. ASSUME NEW g \in Settled, \A n \in {g} \cup Under(g) : ~ Short(n)
      PROVE  0 <= ft.result[g][1] /\ ft.result[g][1] <= ft.result[g][2]
  <2>1. g \in TreeNode /\ g \notin BasicEvent
    BY <1>4, SettledKids
  <2>2. Full(g)
    BY <1>4
  <2>3. NodeProb(g) \in Fraction
    <3> HIDE DEF Full
    <3> QED BY <1>3, <1>4, <2>1, <2>2
  <2>4. ft.result[g] \in Fraction
    BY <2>1, <2>3 DEF NodeProb
  <2> QED BY <2>4 DEF Fraction
<1> QED BY <1>4 DEF ResultIsProbability, Settled

FoundAt(n, f) ==
  IF n \in BasicEvent THEN {n}
  ELSE IF GateTypes[n] = "AND" THEN UNION {f[c] : c \in Kids(n)}
  ELSE {}

(* What the search for cut sets finds at the nodes. *)
LEMMA FoundIs ==
  ASSUME TreeOK
  PROVE  \E found : /\ \A n \in TreeNode : found[n] = FoundAt(n, found)
                    /\ \A root : ft_minimal_cut_sets(root) =
                                   IF found[root] = {} THEN {} ELSE {found[root]}
<1> DEFINE V == SUBSET TreeNode
           G == [n \in TreeNode |-> [f \in [TreeNode -> V] |-> FoundAt(n, f)]]
           Eq(h) == h = [n \in TreeNode |-> FoundAt(n, h)]
           at == CHOOSE h : Eq(h)
<1>0. \A n \in TreeNode : n \notin BasicEvent => n \in Gates
  BY DEF TreeNode
<1>1. ASSUME NEW n \in TreeNode
      PROVE  /\ \A f \in [TreeNode -> V] : FoundAt(n, f) \in V
             /\ \A f, h : (\A m \in TreeNode : m < n => f[m] = h[m]) => FoundAt(n, f) = FoundAt(n, h)
  <2>1. CASE n \in BasicEvent
    BY <2>1 DEF FoundAt
  <2>2. CASE n \notin BasicEvent
    <3>1. Kids(n) \subseteq TreeNode /\ \A c \in Kids(n) : c < n
      BY <1>0, <2>2, KidsAre
    <3> QED BY <2>2, <3>1 DEF FoundAt
  <2> QED BY <2>1, <2>2
<1>2. FromBelow(G, V)
  BY <1>1 DEF FromBelow
<1>3. PICK f \in [TreeNode -> V] : \A n \in TreeNode : f[n] = G[n][f]
  <2>1. {} \in V
    OBVIOUS
  <2> HIDE DEF G, V
  <2> QED BY <1>2, <2>1, TreeRecursion
<1>4. \A n \in TreeNode : f[n] = FoundAt(n, f)
  BY <1>3
<1>5. Eq(f)
  <2>1. f = [n \in TreeNode |-> f[n]]
    OBVIOUS
  <2> QED BY <1>4, <2>1
<1>6. Eq(at)
  <2> HIDE DEF Eq
  <2> QED BY <1>5
<1>7. \A root : ft_minimal_cut_sets(root) = IF at[root] = {} THEN {} ELSE {at[root]}
  BY Zenon DEF ft_minimal_cut_sets, FoundAt, Kids
<1> HIDE DEF at, G
<1>8. \A n \in TreeNode : at[n] = FoundAt(n, at)
  BY <1>6
<1> HIDE DEF Eq
<1> QED BY <1>7, <1>8

OccursAt(S, n, f) ==
  IF n \in BasicEvent THEN n \in S
  ELSE LET on == {c \in Kids(n) : f[c]} IN
       CASE GateTypes[n] = "OR"  -> on # {}
         [] GateTypes[n] = "AND" -> on = Kids(n)
         [] GateTypes[n] = "INHIBIT" -> /\ Len(ft.children[n]) >= 2
                                        /\ {ft.children[n][1], ft.children[n][2]} \subseteq on
         [] OTHER -> Cardinality(on) >= GateK[n]

(* The event of a node, for a basic event and for an AND gate. *)
LEMMA OccursIs ==
  ASSUME TreeOK, NEW S
  PROVE  /\ \A n \in BasicEvent : Occurs(S, n) <=> n \in S
         /\ \A n \in Gates : GateTypes[n] = "AND" =>
              (Occurs(S, n) <=> \A c \in Kids(n) : Occurs(S, c))
<1> DEFINE V == BOOLEAN
           G == [n \in TreeNode |-> [f \in [TreeNode -> V] |-> OccursAt(S, n, f)]]
           Eq(h) == h = [n \in TreeNode |-> OccursAt(S, n, h)]
           at == CHOOSE h : Eq(h)
<1>0. /\ BasicEvent \subseteq TreeNode /\ Gates \subseteq TreeNode /\ BasicEvent \cap Gates = {}
      /\ \A n \in TreeNode : n \notin BasicEvent => n \in Gates
      /\ \A n \in Gates : GateTypes[n] \in GateType /\ GateK[n] \in Nat
  BY AvailabilityAssumption DEF TreeNode
<1>1. ASSUME NEW n \in TreeNode
      PROVE  /\ \A f \in [TreeNode -> V] : OccursAt(S, n, f) \in V
             /\ \A f, h : (\A m \in TreeNode : m < n => f[m] = h[m])
                            => OccursAt(S, n, f) = OccursAt(S, n, h)
  <2>1. CASE n \in BasicEvent
    BY <2>1 DEF OccursAt
  <2>2. CASE n \notin BasicEvent
    <3>1. Kids(n) \subseteq TreeNode /\ (\A c \in Kids(n) : c < n) /\ IsFiniteSet(Kids(n))
          /\ n \in Gates /\ GateTypes[n] \in GateType
      BY <1>0, <2>2, KidsAre
    <3>2. ASSUME NEW f, NEW h, \A m \in TreeNode : m < n => f[m] = h[m]
          PROVE  OccursAt(S, n, f) = OccursAt(S, n, h)
      <4>1. {c \in Kids(n) : f[c]} = {c \in Kids(n) : h[c]}
        BY <3>1, <3>2
      <4> QED BY <4>1, Zenon DEF OccursAt
    <3>3. ASSUME NEW f PROVE OccursAt(S, n, f) \in BOOLEAN
      <4> DEFINE on == {c \in Kids(n) : f[c]}
      <4>1. CASE GateTypes[n] = "OR"
        <5>1. OccursAt(S, n, f) = (on # {})
          BY <2>2, <4>1 DEF OccursAt
        <5> QED BY <5>1
      <4>2. CASE GateTypes[n] = "AND"
        <5>1. OccursAt(S, n, f) = (on = Kids(n))
          BY <2>2, <4>2 DEF OccursAt
        <5> QED BY <5>1
      <4>3. CASE GateTypes[n] = "INHIBIT"
        <5>1. OccursAt(S, n, f) = (/\ Len(ft.children[n]) >= 2
                                   /\ {ft.children[n][1], ft.children[n][2]} \subseteq on)
          BY <2>2, <4>3 DEF OccursAt
        <5> QED BY <5>1
      <4>4. CASE GateTypes[n] = "VOTING"
        <5>1. OccursAt(S, n, f) = (Cardinality(on) >= GateK[n])
          BY <2>2, <4>4 DEF OccursAt
        <5> QED BY <5>1
      <4> QED BY <3>1, <4>1, <4>2, <4>3, <4>4 DEF GateType
    <3> QED BY <3>2, <3>3
  <2> QED BY <2>1, <2>2
<1>2. FromBelow(G, V)
  BY <1>1 DEF FromBelow
<1>3. PICK f \in [TreeNode -> V] : \A n \in TreeNode : f[n] = G[n][f]
  <2>1. PICK v \in V : TRUE
    OBVIOUS
  <2> HIDE DEF G, V
  <2> QED BY <1>2, <2>1, TreeRecursion
<1>4. \A n \in TreeNode : f[n] = OccursAt(S, n, f)
  BY <1>3
<1>5. Eq(f)
  <2>1. f = [n \in TreeNode |-> f[n]]
    OBVIOUS
  <2> QED BY <1>4, <2>1
<1>6. Eq(at)
  <2> HIDE DEF Eq
  <2> QED BY <1>5
<1>7. \A n : Occurs(S, n) = at[n]
  BY Zenon DEF Occurs, OccursAt, Kids
<1> HIDE DEF at, G
<1>8. \A n \in TreeNode : at[n] = OccursAt(S, n, at)
  BY <1>6
<1> HIDE DEF Eq
<1>9. \A n \in BasicEvent : Occurs(S, n) <=> n \in S
  <2> TAKE n \in BasicEvent
  <2>1. Occurs(S, n) = OccursAt(S, n, at)
    BY <1>0, <1>7, <1>8
  <2> QED BY <2>1 DEF OccursAt
<1>10. ASSUME NEW n \in Gates, GateTypes[n] = "AND"
       PROVE  Occurs(S, n) <=> \A c \in Kids(n) : Occurs(S, c)
  <2>1. Occurs(S, n) = OccursAt(S, n, at) /\ n \notin BasicEvent
    BY <1>0, <1>7, <1>8
  <2>2. OccursAt(S, n, at) = ({c \in Kids(n) : at[c]} = Kids(n))
    BY <1>10, <2>1 DEF OccursAt
  <2>3. {c \in Kids(n) : at[c]} = Kids(n) <=> \A c \in Kids(n) : at[c]
    OBVIOUS
  <2> QED BY <1>7, <2>1, <2>2, <2>3
<1> QED BY <1>9, <1>10

(* The events reported are in every cut set of the root. *)
LEMMA CutSetFollows ==
  ASSUME TreeOK
  PROVE  CutSetIsNecessary
<1>1. PICK found : /\ \A n \in TreeNode : found[n] = FoundAt(n, found)
                   /\ \A root : ft_minimal_cut_sets(root) =
                                  IF found[root] = {} THEN {} ELSE {found[root]}
  BY FoundIs
<1> DEFINE And(n) == \A m \in ({n} \cup Under(n)) \cap Gates : GateTypes[m] = "AND"
           Ok(n) == \A S : /\ Occurs(S, n) => found[n] \subseteq S
                           /\ And(n) /\ found[n] \subseteq S => Occurs(S, n)
           T == {n \in TreeNode : Ok(n)}
<1>2. ASSUME NEW n \in TreeNode, \A m \in TreeNode : m < n => m \in T PROVE n \in T
  <2>1. CASE n \in BasicEvent
    <3>1. found[n] = {n}
      BY <1>1, <2>1 DEF FoundAt
    <3>2. \A S : Occurs(S, n) <=> n \in S
      BY <2>1, OccursIs
    <3> QED BY <3>1, <3>2
  <2>2. CASE n \notin BasicEvent /\ GateTypes[n] = "AND"
    <3>1. n \in Gates
      BY <2>2 DEF TreeNode
    <3>2. found[n] = UNION {found[c] : c \in Kids(n)}
      BY <1>1, <2>2 DEF FoundAt
    <3>3. \A S : Occurs(S, n) <=> \A c \in Kids(n) : Occurs(S, c)
      BY <2>2, <3>1, OccursIs
    <3>4. ASSUME NEW c \in Kids(n) PROVE Ok(c) /\ (And(n) => And(c))
      <4>1. c \in TreeNode /\ c < n /\ c \in Under(n) /\ Under(c) \subseteq Under(n)
        BY <3>1, UnderGrows
      <4>2. c \in T
        BY <1>2, <4>1
      <4>3. And(n) => And(c)
        BY <4>1
      <4> QED BY <4>2, <4>3
    <3>5. ASSUME NEW S, Occurs(S, n) PROVE found[n] \subseteq S
      <4>1. \A c \in Kids(n) : found[c] \subseteq S
        BY <3>3, <3>4, <3>5
      <4> QED BY <3>2, <4>1
    <3>6. ASSUME NEW S, And(n), found[n] \subseteq S PROVE Occurs(S, n)
      <4>1. \A c \in Kids(n) : found[c] \subseteq S
        BY <3>2, <3>6
      <4>2. \A c \in Kids(n) : Occurs(S, c)
        <5> TAKE c \in Kids(n)
        <5>1. Ok(c) /\ And(c) /\ found[c] \subseteq S
          BY <3>4, <3>6, <4>1
        <5> HIDE DEF And
        <5> QED BY <5>1
      <4> QED BY <3>3, <4>2
    <3> HIDE DEF And
    <3> QED BY <3>5, <3>6
  <2>3. CASE n \notin BasicEvent /\ GateTypes[n] # "AND"
    <3>1. n \in Gates
      BY <2>3 DEF TreeNode
    <3>2. found[n] = {}
      BY <1>1, <2>3 DEF FoundAt
    <3>3. ~ And(n)
      BY <2>3, <3>1
    <3> HIDE DEF And
    <3> QED BY <3>2, <3>3
  <2> QED BY <2>1, <2>2, <2>3
<1>3. TreeNode \subseteq T
  <2> HIDE DEF T
  <2> QED BY <1>2, NodeInduction
<1>4. ASSUME NEW g \in Gates, NEW cut \in ft_minimal_cut_sets(g)
      PROVE  /\ \A S \in SUBSET BasicEvent : Occurs(S, g) => cut \subseteq S
             /\ (\A n \in ({g} \cup Under(g)) \cap Gates : GateTypes[n] = "AND") => Occurs(cut, g)
  <2>1. cut = found[g]
    BY <1>1
  <2>2. Ok(g)
    BY <1>3 DEF TreeNode
  <2>3. \A S : Occurs(S, g) => cut \subseteq S
    BY <2>1, <2>2
  <2>4. And(g) => Occurs(cut, g)
    <3> HIDE DEF And
    <3> QED BY <2>1, <2>2
  <2> QED BY <2>3, <2>4
<1> QED BY <1>4 DEF CutSetIsNecessary

-----------------------------------------------------------------------------
(* The Markov model. *)

MarkovOK ==
  /\ markov \in [rates : [1 .. 2 -> Rates \cup {0}], steady : Int \X Int, solved : BOOLEAN]
  /\ markov.solved =>
       markov.steady = IF markov.rates[1] = 0 /\ markov.rates[2] = 0 THEN <<1, 1>>
                       ELSE <<markov.rates[2], markov.rates[1]>>

(* The chain starts unsolved. *)
LEMMA MarkovStarts ==
  ASSUME markov_init
  PROVE  MarkovOK
<1>1. <<0, 0>> \in [1 .. 2 -> Rates \cup {0}] /\ <<1, 1>> \in Int \X Int
  OBVIOUS
<1>2. markov.rates = <<0, 0>> /\ markov.steady = <<1, 1>> /\ markov.solved = FALSE
      /\ markov = [rates |-> <<0, 0>>, steady |-> <<1, 1>>, solved |-> FALSE]
  BY DEF markov_init
<1> DEFINE r == <<0, 0>>
           s == <<1, 1>>
<1>3. [rates |-> r, steady |-> s, solved |-> FALSE]
        \in [rates : [1 .. 2 -> Rates \cup {0}], steady : Int \X Int, solved : BOOLEAN]
  <2>1. r \in [1 .. 2 -> Rates \cup {0}] /\ s \in Int \X Int
    BY <1>1
  <2> HIDE DEF r, s
  <2> QED BY <2>1
<1> QED BY <1>2, <1>3 DEF MarkovOK

(* Every call on the chain keeps its solution current. *)
LEMMA MarkovStays ==
  ASSUME MarkovOK, MarkovNext
  PROVE  MarkovOK'
<1>1. /\ markov.rates \in [1 .. 2 -> Rates \cup {0}] /\ markov.steady \in Int \X Int
      /\ markov = [rates |-> markov.rates, steady |-> markov.steady, solved |-> markov.solved]
      /\ Rates \subseteq Nat
  BY AvailabilityAssumption DEF MarkovOK
<1>2. CASE \E from \in 1 .. 2, rate \in Rates : markov_set_transition(from, rate)
  <2>1. PICK from \in 1 .. 2, rate \in Rates : markov_set_transition(from, rate)
    BY <1>2
  <2>2. /\ markov'.rates = [markov.rates EXCEPT ![from] = rate] /\ markov'.steady = markov.steady
        /\ markov'.solved = FALSE
        /\ markov' = [rates |-> markov'.rates, steady |-> markov'.steady, solved |-> FALSE]
    BY <1>1, <2>1 DEF markov_set_transition
  <2>3. markov'.rates \in [1 .. 2 -> Rates \cup {0}]
    BY <1>1, <2>2
  <2> QED BY <1>1, <2>2, <2>3 DEF MarkovOK
<1>3. CASE markov_solve_steady_state
  <2> DEFINE r == markov.rates
             s == IF r[1] = 0 /\ r[2] = 0 THEN <<1, 1>> ELSE <<r[2], r[1]>>
  <2>1. r = <<0, 0>> <=> r[1] = 0 /\ r[2] = 0
    <3>1. ASSUME r[1] = 0, r[2] = 0 PROVE r = <<0, 0>>
      <4>1. \A i \in 1 .. 2 : r[i] = 0
        BY <3>1
      <4>2. r = [i \in 1 .. 2 |-> 0]
        BY <1>1, <4>1
      <4>3. <<0, 0>> = [i \in 1 .. 2 |-> 0]
        OBVIOUS
      <4> QED BY <4>2, <4>3
    <3>2. ASSUME r = <<0, 0>> PROVE r[1] = 0 /\ r[2] = 0
      BY <3>2
    <3> QED BY <3>1, <3>2
  <2>2. /\ markov'.rates = r /\ markov'.solved = TRUE /\ markov'.steady = s
        /\ markov' = [rates |-> r, steady |-> markov'.steady, solved |-> TRUE]
    BY <1>1, <1>3, <2>1 DEF markov_solve_steady_state
  <2>3. s \in Int \X Int
    <3>1. r[1] \in Int /\ r[2] \in Int
      BY <1>1
    <3> HIDE DEF r
    <3> QED BY <3>1
  <2> HIDE DEF s
  <2>4. markov' \in [rates : [1 .. 2 -> Rates \cup {0}], steady : Int \X Int, solved : BOOLEAN]
    <3>1. markov' = [rates |-> r, steady |-> s, solved |-> TRUE]
      BY <2>2
    <3>2. r \in [1 .. 2 -> Rates \cup {0}]
      BY <1>1
    <3> HIDE DEF r
    <3> QED BY <2>3, <3>1, <3>2
  <2>5. markov'.steady = IF markov'.rates[1] = 0 /\ markov'.rates[2] = 0 THEN <<1, 1>>
                         ELSE <<markov'.rates[2], markov'.rates[1]>>
    BY <2>2 DEF s
  <2> QED BY <2>4, <2>5 DEF MarkovOK
<1> QED BY <1>2, <1>3 DEF MarkovNext

(* A solved chain is in balance. *)
LEMMA SolutionFollows ==
  ASSUME MarkovOK
  PROVE  SolutionIsCurrent
<1> SUFFICES ASSUME markov.solved
             PROVE  /\ markov.steady[1] * markov.rates[1] = markov.steady[2] * markov.rates[2]
                    /\ markov_compute_availability[1] * markov.rates[1] > 0 =>
                         markov_mttff[1] * markov_compute_availability[1] * markov.rates[1]
                           = markov_mttff[2] * markov_compute_availability[2]
  BY DEF SolutionIsCurrent
<1> DEFINE a == markov.rates[1]
           b == markov.rates[2]
           x == markov.steady[1]
           y == markov.steady[2]
<1>1. a \in Nat /\ b \in Nat
  BY AvailabilityAssumption DEF MarkovOK
<1>2. (a = 0 /\ b = 0 /\ x = 1 /\ y = 1) \/ (x = b /\ y = a)
  BY DEF MarkovOK
<1>3. markov_compute_availability = <<x, x + y>>
  BY DEF markov_compute_availability
<1>4. x * a > 0 => markov_mttff = <<x + y, x * a>>
  BY DEF markov_mttff
<1> HIDE DEF a, b, x, y
<1>5. x * a = y * b /\ x \in Int /\ y \in Int
  BY <1>1, <1>2
<1>6. markov_compute_availability[1] = x /\ markov_compute_availability[2] = x + y
  BY <1>3
<1>7. ASSUME x * a > 0
      PROVE  markov_mttff[1] * markov_compute_availability[1] * a
               = markov_mttff[2] * markov_compute_availability[2]
  <2>1. markov_mttff[1] = x + y /\ markov_mttff[2] = x * a
    BY <1>4, <1>7
  <2>2. (x + y) * x * a = (x * a) * (x + y)
    BY <1>1, <1>5
  <2> QED BY <1>6, <2>1, <2>2
<1> QED BY <1>5, <1>6, <1>7 DEF a, b, x, y

(* The type of the tree and of the chain. *)
LEMMA AvailTypeFollows ==
  ASSUME CachedOK, MarkovOK
  PROVE  AvailTypeOK
BY DEF CachedOK, TreeOK, MarkovOK, AvailTypeOK

-----------------------------------------------------------------------------
(* The loop over the late slots. *)

Left(g, late) == HealthySlots(g) \ late

Brief(g, late) ==
  {i \in late \cap HealthySlots(g) : i > g.primary_index /\ \A j \in Left(g, late) : i < j}

Utmost(S) == CHOOSE i \in S : \A j \in S : j <= i

Heir(g, late) ==
  IF Left(g, late) # {} THEN First(Left(g, late))
  ELSE IF Brief(g, late) # {}
       THEN Utmost(Brief(g, late))
       ELSE g.primary_index

Swept(g, late) ==
  [i \in Slot |->
     IF i \in Left(g, late) /\ i = Heir(g, late) THEN "PRIMARY"
     ELSE IF i \in Brief(g, late) \/ (i = g.primary_index /\ g.role[i] = "PRIMARY") THEN "OFFLINE"
     ELSE g.role[i]]

(* Two groups with the same fields are the same. *)
LEMMA SameGroup ==
  ASSUME NEW g \in Group, NEW h \in Group, g.role = h.role, g.health = h.health,
         g.primary_index = h.primary_index, g.secondary_index = h.secondary_index,
         g.group_healthy = h.group_healthy, g.degraded_mode = h.degraded_mode,
         g.failover_state = h.failover_state
  PROVE  g = h
BY DEF Group

(* The closed form, field by field. *)
LEMMA TimedOutFields ==
  ASSUME NEW g \in Group, NEW late \in SUBSET Slot, late # {}
  PROVE  /\ timed_out(g, late).health =
              [i \in Slot |-> IF i \in late THEN "FAULTY" ELSE g.health[i]]
         /\ timed_out(g, late).primary_index =
              IF g.primary_index \in late THEN Heir(g, late) ELSE g.primary_index
         /\ timed_out(g, late).role =
              IF g.primary_index \in late THEN Swept(g, late) ELSE g.role
         /\ timed_out(g, late).group_healthy = (Cardinality(Left(g, late)) >= MRequired)
         /\ timed_out(g, late).degraded_mode =
              (Cardinality(Left(g, late)) >= MRequired /\ Cardinality(Left(g, late)) < N)
         /\ timed_out(g, late).secondary_index = g.secondary_index
         /\ timed_out(g, late).failover_state = g.failover_state
         /\ HealthySlots(timed_out(g, late)) = Left(g, late)
<1> DEFINE p         == g.primary_index
           marked    == [g EXCEPT !.health = [i \in Slot |->
                           IF i \in late THEN "FAULTY" ELSE @[i]]]
           survivors == HealthySlots(marked)
           briefly   == {i \in late \cap HealthySlots(g) :
                           i > p /\ \A j \in survivors : i < j}
           dropped   == briefly \cup {i \in {p} : g.role[i] = "PRIMARY"}
           heir      == IF survivors # {} THEN First(survivors)
                        ELSE IF briefly # {}
                             THEN CHOOSE i \in briefly : \A j \in briefly : j <= i
                             ELSE p
           roles     == [i \in Slot |->
                           IF i \in survivors /\ i = heir THEN "PRIMARY"
                           ELSE IF i \in dropped THEN "OFFLINE" ELSE g.role[i]]
           enough    == healthy_count(marked) >= MRequired
<1>1. /\ g.role \in [Slot -> Role] /\ g.health \in [Slot -> Health] /\ p \in Slot
      /\ g = [role |-> g.role, health |-> g.health, primary_index |-> p,
              secondary_index |-> g.secondary_index, group_healthy |-> g.group_healthy,
              degraded_mode |-> g.degraded_mode, failover_state |-> g.failover_state]
  BY DEF Group
<1>2. /\ marked.health = [i \in Slot |-> IF i \in late THEN "FAULTY" ELSE g.health[i]]
      /\ marked.role = g.role /\ marked.secondary_index = g.secondary_index
      /\ marked.failover_state = g.failover_state
  BY <1>1
<1>3. survivors = Left(g, late)
  BY <1>2 DEF HealthySlots, Left
<1>4. briefly = Brief(g, late)
  BY <1>3 DEF Brief
<1>5. heir = Heir(g, late)
  <2>1. heir = IF survivors # {} THEN First(survivors)
               ELSE IF briefly # {} THEN Utmost(briefly) ELSE p
    BY Zenon DEF Utmost
  <2> HIDE DEF heir, survivors, briefly
  <2> QED BY <1>3, <1>4, <2>1 DEF Heir
<1>6. roles = Swept(g, late)
  <2>1. \A i \in Slot : i \in dropped <=>
          (i \in Brief(g, late) \/ (i = g.primary_index /\ g.role[i] = "PRIMARY"))
    BY <1>4
  <2> HIDE DEF survivors, heir, dropped
  <2> QED BY <1>3, <1>5, <2>1 DEF Swept
<1>7. healthy_count(marked) = Cardinality(Left(g, late))
  BY <1>3 DEF healthy_count
<1>8. timed_out(g, late) =
        [marked EXCEPT !.role = IF p \in late THEN roles ELSE g.role,
                       !.primary_index = IF p \in late THEN heir ELSE p,
                       !.group_healthy = enough,
                       !.degraded_mode = enough /\ healthy_count(marked) < N]
  BY Zenon DEF timed_out
<1> HIDE DEF survivors, briefly, heir, roles
<1>9. /\ timed_out(g, late).health = marked.health
      /\ timed_out(g, late).role = (IF p \in late THEN roles ELSE g.role)
      /\ timed_out(g, late).primary_index = (IF p \in late THEN heir ELSE p)
      /\ timed_out(g, late).group_healthy = enough
      /\ timed_out(g, late).degraded_mode = (enough /\ healthy_count(marked) < N)
      /\ timed_out(g, late).secondary_index = marked.secondary_index
      /\ timed_out(g, late).failover_state = marked.failover_state
  BY <1>1, <1>8
<1>10. HealthySlots(timed_out(g, late)) = survivors
  BY <1>9 DEF HealthySlots, survivors
<1> HIDE DEF marked
<1> QED BY <1>2, <1>3, <1>5, <1>6, <1>7, <1>9, <1>10

(* A sweep that finds the primary late leaves the role with the heir, if a *)
(* module is left, and with no other that did not have it. *)
LEMMA SweptRoles ==
  ASSUME NEW g \in Group, NEW late \in SUBSET Slot
  PROVE  /\ PrimaryRoles(timed_out(g, late))
              \subseteq PrimaryRoles(g) \cup {timed_out(g, late).primary_index}
         /\ Leads(g) /\ HealthySlots(timed_out(g, late)) # {} => Leads(timed_out(g, late))
<1> DEFINE t == timed_out(g, late)
<1>1. CASE late = {}
  <2>1. t = g
    BY <1>1 DEF timed_out
  <2> HIDE DEF t
  <2> QED BY <2>1 DEF t
<1>2. CASE late # {} /\ g.primary_index \notin late
  <2>1. t.role = g.role /\ t.primary_index = g.primary_index
    BY <1>2, TimedOutFields
  <2>2. t.health = [i \in Slot |-> IF i \in late THEN "FAULTY" ELSE g.health[i]]
    BY <1>2, TimedOutFields
  <2>3. g.primary_index \in Slot
    BY DEF Group
  <2> HIDE DEF t
  <2> QED BY <1>2, <2>1, <2>2, <2>3 DEF Leads, PrimaryRoles, t
<1>3. CASE late # {} /\ g.primary_index \in late
  <2>1. t.role = Swept(g, late) /\ t.primary_index = Heir(g, late)
    BY <1>3, TimedOutFields
  <2>2. t.health = [i \in Slot |-> IF i \in late THEN "FAULTY" ELSE g.health[i]]
    BY <1>3, TimedOutFields
  <2>3. HealthySlots(t) = Left(g, late)
    BY <1>3, TimedOutFields
  <2> HIDE DEF t
  <2>4. ASSUME NEW i \in Slot, Swept(g, late)[i] = "PRIMARY", i # Heir(g, late)
        PROVE  g.role[i] = "PRIMARY"
    BY <2>4 DEF Swept
  <2>5. ASSUME Left(g, late) # {} PROVE Leads(t)
    <3>1. Left(g, late) \in SUBSET Slot
      BY DEF Left, HealthySlots
    <3>2. Heir(g, late) \in Left(g, late)
      BY <2>5, <3>1, FirstInSet DEF Heir
    <3>3. Swept(g, late)[Heir(g, late)] = "PRIMARY"
      BY <3>1, <3>2 DEF Swept
    <3>4. t.health[Heir(g, late)] = "HEALTHY"
      BY <2>3, <3>2 DEF HealthySlots
    <3> QED BY <2>1, <3>3, <3>4 DEF Leads
  <2> QED BY <2>1, <2>3, <2>4, <2>5 DEF PrimaryRoles, t
<1> QED BY <1>1, <1>2, <1>3

(* In any group the calls can build and for any slots found late, a *)
(* timeout check hands the role of a healthy leader to a healthy module *)
(* that primary_index names, if there is one, and leaves it with nobody *)
(* who held it for a turn of the loop only. *)
THEOREM RoleIsHandedOnHolds == Spec => []RoleIsHandedOn
<1>1. TypeOK => RoleIsHandedOn
  <2> SUFFICES ASSUME grp \in Group, NEW late \in SUBSET {s \in Slot : Watched(s)}
               PROVE  LET g == check_timeouts(grp, late) IN
                      /\ PrimaryRoles(g) \subseteq PrimaryRoles(grp) \cup {g.primary_index}
                      /\ Leads(grp) /\ HealthySlots(g) # {} => Leads(g)
    BY Zenon DEF TypeOK, RoleIsHandedOn
  <2> DEFINE swept == timed_out(grp, late)
             fails == /\ swept.health[swept.primary_index] # "HEALTHY"
                      /\ swept.group_healthy
  <2>1. swept \in Group
    BY TimedOutType
  <2>2. check_timeouts(grp, late) = IF fails THEN execute(swept) ELSE swept
    BY DEF check_timeouts
  <2>3. /\ PrimaryRoles(swept) \subseteq PrimaryRoles(grp) \cup {swept.primary_index}
        /\ Leads(grp) /\ HealthySlots(swept) # {} => Leads(swept)
    BY SweptRoles
  <2> HIDE DEF swept
  <2>4. CASE ~ fails
    BY <2>2, <2>3, <2>4
  <2>5. CASE fails
    <3> DEFINE g      == execute(swept)
               best   == elect_primary(swept)
               others == HealthySlots(swept) \ {best}
    <3>1. HealthySlots(swept) \in SUBSET Slot /\ others \in SUBSET Slot
      BY DEF HealthySlots
    <3>2. CASE HealthySlots(swept) = {}
      <4>1. g = [swept EXCEPT !.failover_state = "DEGRADED"]
        BY <3>2 DEF execute
      <4>2. /\ g.role = swept.role /\ g.primary_index = swept.primary_index
            /\ g.health = swept.health
        BY <2>1, <4>1 DEF Group
      <4> HIDE DEF g
      <4>3. PrimaryRoles(g) = PrimaryRoles(swept) /\ HealthySlots(g) = {}
        BY <3>2, <4>2 DEF PrimaryRoles, HealthySlots
      <4> QED BY <2>2, <2>3, <2>5, <4>2, <4>3 DEF g
    <3>3. CASE HealthySlots(swept) # {}
      <4>1. best \in HealthySlots(swept)
        BY <3>1, <3>3, HighestPriorityInSet DEF elect_primary
      <4>2. others # {} => First(others) \in Slot /\ First(others) # best
        BY <3>1, FirstInSet
      <4>3. /\ g.primary_index = best /\ g.health = swept.health
            /\ g.role = LET roles == [swept.role EXCEPT
                                        ![swept.primary_index] =
                                          IF swept.health[swept.primary_index] = "FAULTY"
                                          THEN "OFFLINE" ELSE "STANDBY",
                                        ![best] = "PRIMARY"]
                        IN IF others = {} THEN roles
                           ELSE [roles EXCEPT ![First(others)] = "SECONDARY"]
        BY <2>1, <3>3 DEF execute, Group
      <4>4. swept.role \in [Slot -> Role] /\ swept.primary_index \in Slot /\ best \in Slot
        BY <2>1, <3>1, <4>1 DEF Group
      <4> HIDE DEF g, best, others
      <4>5. g.role[best] = "PRIMARY"
        BY <4>2, <4>3, <4>4
      <4>6. \A i \in Slot : g.role[i] = "PRIMARY" /\ i # best =>
                              swept.role[i] = "PRIMARY" /\ i # swept.primary_index
        BY <4>2, <4>3, <4>4
      <4>7. Leads(g)
        BY <4>1, <4>3, <4>5 DEF Leads, HealthySlots
      <4>8. PrimaryRoles(g) \subseteq PrimaryRoles(grp) \cup {g.primary_index}
        BY <2>3, <4>3, <4>6 DEF PrimaryRoles
      <4> QED BY <2>2, <2>5, <4>7, <4>8 DEF g
    <3> QED BY <3>2, <3>3
  <2> QED BY <2>4, <2>5
<1> QED BY <1>1, TypeCorrect, PTL

(* One turn of the loop, field by field. *)
LEMMA SetFaultyFields ==
  ASSUME NEW g \in Group, NEW s \in Slot
  PROVE  LET peers == HealthySlots(g) \ {s}
             h     == module_set_health(g, s, "FAULTY") IN
         /\ h.health = [i \in Slot |-> IF i = s THEN "FAULTY" ELSE g.health[i]]
         /\ h.primary_index = IF s = g.primary_index /\ peers # {} THEN First(peers)
                              ELSE g.primary_index
         /\ h.role = [i \in Slot |->
              IF s = g.primary_index /\ peers # {} /\ i = First(peers) THEN "PRIMARY"
              ELSE IF s = g.primary_index /\ i = s /\ g.role[s] = "PRIMARY" THEN "OFFLINE"
              ELSE g.role[i]]
         /\ h.group_healthy = (Cardinality(peers) >= MRequired)
         /\ h.degraded_mode = (Cardinality(peers) >= MRequired /\ Cardinality(peers) < N)
         /\ h.secondary_index = g.secondary_index
         /\ h.failover_state = g.failover_state
<1> DEFINE marked   == [g EXCEPT !.health[s] = "FAULTY"]
           peers    == HealthySlots(marked) \ {s}
           promotes == s = g.primary_index /\ "FAULTY" # "HEALTHY" /\ peers # {}
           demotes  == /\ "FAULTY" \in {"FAULTY", "OFFLINE"}
                       /\ s = g.primary_index /\ g.role[s] = "PRIMARY"
           enough   == healthy_count(marked) >= MRequired
           demoted  == IF demotes THEN [g.role EXCEPT ![s] = "OFFLINE"] ELSE g.role
           roles    == IF promotes THEN [demoted EXCEPT ![First(peers)] = "PRIMARY"] ELSE demoted
           q        == HealthySlots(g) \ {s}
<1>1. /\ g.role \in [Slot -> Role] /\ g.health \in [Slot -> Health]
      /\ g = [role |-> g.role, health |-> g.health, primary_index |-> g.primary_index,
              secondary_index |-> g.secondary_index, group_healthy |-> g.group_healthy,
              degraded_mode |-> g.degraded_mode, failover_state |-> g.failover_state]
  BY DEF Group
<1>2. marked.health = [i \in Slot |-> IF i = s THEN "FAULTY" ELSE g.health[i]]
      /\ marked.secondary_index = g.secondary_index /\ marked.failover_state = g.failover_state
  BY <1>1
<1>3. HealthySlots(marked) = q /\ peers = q
  BY <1>2 DEF HealthySlots
<1>4. module_set_health(g, s, "FAULTY") =
        [marked EXCEPT !.role = roles,
                       !.primary_index = IF promotes THEN First(peers) ELSE g.primary_index,
                       !.group_healthy = enough,
                       !.degraded_mode = enough /\ healthy_count(marked) < N]
  BY Zenon DEF module_set_health
<1>5. healthy_count(marked) = Cardinality(q)
  BY <1>3 DEF healthy_count
<1>6. q # {} => First(q) \in Slot
  <2>1. q \in SUBSET Slot
    BY DEF HealthySlots
  <2> HIDE DEF q
  <2> QED BY <2>1, FirstInSet
<1> HIDE DEF q
<1>7. roles = [i \in Slot |->
                 IF s = g.primary_index /\ q # {} /\ i = First(q) THEN "PRIMARY"
                 ELSE IF s = g.primary_index /\ i = s /\ g.role[s] = "PRIMARY" THEN "OFFLINE"
                 ELSE g.role[i]]
  <2>1. peers = q
    BY <1>3
  <2> HIDE DEF peers
  <2>2. demoted = [i \in Slot |-> IF s = g.primary_index /\ i = s /\ g.role[s] = "PRIMARY"
                                  THEN "OFFLINE" ELSE g.role[i]]
    BY <1>1
  <2> HIDE DEF demoted
  <2>3. CASE promotes
    <3>1. roles = [demoted EXCEPT ![First(q)] = "PRIMARY"] /\ s = g.primary_index /\ q # {}
      BY <2>1, <2>3
    <3> QED BY <1>6, <2>2, <3>1
  <2>4. CASE ~ promotes
    <3>1. roles = demoted /\ ~ (s = g.primary_index /\ q # {})
      BY <2>1, <2>4
    <3> QED BY <2>2, <3>1
  <2> QED BY <2>3, <2>4
<1>8. promotes <=> s = g.primary_index /\ q # {}
  BY <1>3
<1> DEFINE pr == promotes
           en == enough
           ct == healthy_count(marked)
<1>9. module_set_health(g, s, "FAULTY") =
        [marked EXCEPT !.role = roles,
                       !.primary_index = IF pr THEN First(peers) ELSE g.primary_index,
                       !.group_healthy = en,
                       !.degraded_mode = en /\ ct < N]
  BY <1>4
<1> HIDE DEF roles, pr, en, ct
<1> HIDE DEF promotes, enough, peers
<1>10. LET h == module_set_health(g, s, "FAULTY") IN
       /\ h.health = marked.health /\ h.role = roles
       /\ h.primary_index = (IF pr THEN First(peers) ELSE g.primary_index)
       /\ h.group_healthy = en /\ h.degraded_mode = (en /\ ct < N)
       /\ h.secondary_index = marked.secondary_index /\ h.failover_state = marked.failover_state
  BY <1>1, <1>9
<1>11. pr <=> s = g.primary_index /\ q # {}
  BY <1>8 DEF pr
<1>12. en = (Cardinality(q) >= MRequired) /\ ct = Cardinality(q)
  BY <1>5 DEF en, ct, enough
<1>13. peers = q
  BY <1>3
<1> HIDE DEF marked
<1>14. /\ (IF pr THEN First(peers) ELSE g.primary_index) =
            IF s = g.primary_index /\ q # {} THEN First(q) ELSE g.primary_index
       /\ (en /\ ct < N) = (Cardinality(q) >= MRequired /\ Cardinality(q) < N)
  BY <1>11, <1>12, <1>13
<1> QED BY <1>2, <1>7, <1>10, <1>12, <1>14 DEF q

(* Slots are integers. *)
LEMMA SlotsAreInts == \A i \in Slot : i \in Int
BY NAssumption DEF Slot, MAX_MODULES

(* The first slot of a set is its least. *)
LEMMA FirstIs ==
  ASSUME NEW S \in SUBSET Slot, S # {}
  PROVE  First(S) \in S /\ \A j \in S : First(S) <= j
BY LeastSlot DEF First

(* The last slot of a set is its greatest. *)
LEMMA UtmostIs ==
  ASSUME NEW S \in SUBSET Slot, S # {}
  PROVE  Utmost(S) \in S /\ \A j \in S : j <= Utmost(S)
BY GreatestSlot DEF Utmost

(* One slot is the greatest, or the least, of a set. *)
LEMMA FirstUnique ==
  ASSUME NEW S \in SUBSET Slot, NEW i \in S, \A j \in S : i <= j
  PROVE  First(S) = i
<1>1. First(S) \in S /\ First(S) <= i
  BY FirstIs
<1>2. First(S) \in Int /\ i \in Int /\ i <= First(S)
  BY <1>1, SlotsAreInts
<1> QED BY <1>1, <1>2

(* The greatest slot is unique, too. *)
LEMMA UtmostUnique ==
  ASSUME NEW S \in SUBSET Slot, NEW i \in S, \A j \in S : j <= i
  PROVE  Utmost(S) = i
<1>1. Utmost(S) \in S /\ i <= Utmost(S)
  BY UtmostIs
<1>2. Utmost(S) \in Int /\ i \in Int /\ Utmost(S) <= i
  BY <1>1, SlotsAreInts
<1> QED BY <1>1, <1>2

(* Where the heir comes from. *)
LEMMA SweptSets ==
  ASSUME NEW g \in Group, NEW S \in SUBSET Slot
  PROVE  /\ Left(g, S) \in SUBSET Slot /\ Brief(g, S) \in SUBSET Slot
         /\ \A x \in Brief(g, S) : x \in S
         /\ Left(g, S) # {} => Heir(g, S) = First(Left(g, S)) /\ Heir(g, S) \in Left(g, S)
         /\ Left(g, S) = {} => Heir(g, S) \in S \cup {g.primary_index}
<1>1. Left(g, S) \in SUBSET Slot /\ Brief(g, S) \in SUBSET Slot
  BY DEF Left, Brief, HealthySlots
<1>2. \A x \in Brief(g, S) : x \in S
  BY DEF Brief
<1>3. Left(g, S) # {} => Heir(g, S) = First(Left(g, S)) /\ Heir(g, S) \in Left(g, S)
  BY <1>1, FirstIs DEF Heir
<1>4. Left(g, S) = {} => Heir(g, S) \in S \cup {g.primary_index}
  BY <1>1, <1>2, UtmostIs DEF Heir
<1> QED BY <1>1, <1>2, <1>3, <1>4

(* The next late slot i is no heir yet, or the primary is not late: only *)
(* its health changes. *)
LEMMA OtherSlotIsLate ==
  ASSUME NEW g \in Group, NEW S \in SUBSET Slot, NEW i \in Slot, \A s \in S : s < i,
         g.primary_index \in S, Heir(g, S) # i
  PROVE  /\ Brief(g, S \cup {i}) = Brief(g, S)
         /\ Heir(g, S \cup {i}) = Heir(g, S)
         /\ Swept(g, S \cup {i}) = Swept(g, S)
<1> DEFINE T == S \cup {i}
           H == HealthySlots(g)
           p == g.primary_index
<1>1. H \in SUBSET Slot /\ p \in Slot /\ p < i /\ T \in SUBSET Slot /\ i \notin S
  <2>1. H \in SUBSET Slot /\ p \in Slot
    BY DEF HealthySlots, Group
  <2>2. i \in Int /\ ~ (i < i)
    BY SlotsAreInts
  <2> QED BY <2>1, <2>2
<1>2. Left(g, S) = H \ S /\ Left(g, T) = (H \ S) \ {i}
  BY DEF Left
<1>3. Left(g, S) # {} => First(Left(g, S)) \in Left(g, S) /\ First(Left(g, S)) # i
                         /\ \A j \in Left(g, S) : First(Left(g, S)) <= j
  BY SweptSets, FirstIs
<1>4. Left(g, S) = {} => i \notin H
  BY <1>1, <1>2
<1>5. Brief(g, T) = Brief(g, S)
  <2>1. ASSUME NEW x \in S, x \in H
        PROVE  (\A j \in Left(g, T) : x < j) <=> (\A j \in Left(g, S) : x < j)
    <3>1. x < i
      OBVIOUS
    <3> QED BY <1>2, <3>1
  <2>2. i \in H => ~ (\A j \in Left(g, T) : i < j)
    <3>1. ASSUME i \in H
          PROVE  ~ (\A j \in Left(g, T) : i < j)
      <4>1. i \in Left(g, S)
        BY <1>1, <1>2, <3>1
      <4>2. First(Left(g, S)) \in Left(g, T) /\ First(Left(g, S)) <= i
        BY <1>2, <1>3, <4>1
      <4>3. First(Left(g, S)) \in Int /\ i \in Int
        BY <1>1, <1>2, <4>2, SlotsAreInts
      <4>4. ~ (i < First(Left(g, S)))
        BY <4>2, <4>3
      <4> QED BY <4>2, <4>4
    <3> QED BY <3>1
  <2>3. Brief(g, T) = {x \in T \cap H : x > p /\ \A j \in Left(g, T) : x < j}
    BY DEF Brief
  <2>4. Brief(g, S) = {x \in S \cap H : x > p /\ \A j \in Left(g, S) : x < j}
    BY DEF Brief
  <2> HIDE DEF H, p
  <2> QED BY <2>1, <2>2, <2>3, <2>4
<1>6. Heir(g, T) = Heir(g, S)
  <2>1. CASE Left(g, S) = {}
    <3>1. Left(g, T) = {}
      BY <1>2, <2>1
    <3> QED BY <1>5, <2>1, <3>1 DEF Heir
  <2>2. CASE Left(g, S) # {}
    <3>1. First(Left(g, S)) \in Left(g, T) /\ \A j \in Left(g, T) : First(Left(g, S)) <= j
      BY <1>2, <1>3, <2>2
    <3>2. Left(g, T) \in SUBSET Slot
      BY <1>1, <1>2
    <3>3. First(Left(g, T)) = First(Left(g, S))
      BY <3>1, <3>2, FirstUnique
    <3> QED BY <2>2, <3>1, <3>3 DEF Heir
  <2> QED BY <2>1, <2>2
<1>7. \A j \in Slot : (j \in Left(g, T) /\ j = Heir(g, T)) <=> (j \in Left(g, S) /\ j = Heir(g, S))
  BY <1>2, <1>6
<1> HIDE DEF T
<1>8. Swept(g, T) = Swept(g, S)
  BY <1>5, <1>7 DEF Swept
<1> QED BY <1>5, <1>6, <1>8 DEF T

(* The slots rest are left when i is late as well: their first becomes the *)
(* primary, if there is one, whether i was the heir or the primary itself. *)
HeirHandsOver(g, S, i, late, rest) ==
  /\ Heir(g, late) = IF rest # {} THEN First(rest) ELSE i
  /\ Swept(g, S)[i] = "PRIMARY"
  /\ Swept(g, late) = [j \in Slot |-> IF rest # {} /\ j = First(rest) THEN "PRIMARY"
                                     ELSE IF j = i THEN "OFFLINE" ELSE Swept(g, S)[j]]

PrimaryHandsOver(g, i, late, rest) ==
  /\ Heir(g, late) = IF rest # {} THEN First(rest) ELSE i
  /\ Swept(g, late) = [j \in Slot |-> IF rest # {} /\ j = First(rest) THEN "PRIMARY"
                                     ELSE IF j = i /\ g.role[i] = "PRIMARY" THEN "OFFLINE"
                                     ELSE g.role[j]]

(* The next late slot is the heir: it held the role for one turn, and the *)
(* survivors' first takes over, or the role goes nowhere. *)
LEMMA HeirIsLate ==
  ASSUME NEW g \in Group, NEW S \in SUBSET Slot, NEW i \in Slot, \A s \in S : s < i,
         g.primary_index \in S, Heir(g, S) = i
  PROVE  HeirHandsOver(g, S, i, S \cup {i}, Left(g, S \cup {i}))
<1> DEFINE T == S \cup {i}
           H == HealthySlots(g)
           p == g.primary_index
           L == Left(g, S)
           q == Left(g, T)
<1>1. H \in SUBSET Slot /\ p \in Slot /\ p < i /\ T \in SUBSET Slot /\ i \notin S
  <2>1. H \in SUBSET Slot /\ p \in Slot
    BY DEF HealthySlots, Group
  <2>2. i \in Int /\ ~ (i < i)
    BY SlotsAreInts
  <2> QED BY <2>1, <2>2
<1>2. L = H \ S /\ q = L \ {i} /\ L \in SUBSET Slot /\ q \in SUBSET Slot
  BY <1>1 DEF Left
<1>3. L # {} /\ i \in L /\ i = First(L)
  BY <1>1, SweptSets
<1>4. \A j \in q : i < j
  <2>1. \A j \in L : i <= j
    BY <1>2, <1>3, FirstIs
  <2>2. \A j \in q : j \in Slot /\ j \in L /\ j # i
    BY <1>2
  <2> QED BY <2>1, <2>2, NAssumption DEF Slot, MAX_MODULES
<1>5. Brief(g, T) = Brief(g, S) \cup {i}
  <2>1. ASSUME NEW x \in S, x \in H
        PROVE  (\A j \in q : x < j) <=> (\A j \in L : x < j)
    <3>1. x < i
      OBVIOUS
    <3> QED BY <1>2, <3>1
  <2>2. i \in H /\ i > p
    BY <1>1, <1>2, <1>3, NAssumption DEF Slot, MAX_MODULES
  <2>3. Brief(g, T) = {x \in T \cap H : x > p /\ \A j \in q : x < j}
    BY DEF Brief
  <2>4. Brief(g, S) = {x \in S \cap H : x > p /\ \A j \in L : x < j}
    BY DEF Brief
  <2> HIDE DEF H, p, L, q
  <2> QED BY <1>4, <2>1, <2>2, <2>3, <2>4
<1>6. Heir(g, T) = IF q # {} THEN First(q) ELSE i
  <2>1. Utmost(Brief(g, T)) = i
    <3>1. Brief(g, T) \in SUBSET Slot /\ i \in Brief(g, T)
      BY <1>1, <1>5, SweptSets
    <3>2. \A j \in Brief(g, T) : j <= i
      <4>1. \A j \in Brief(g, S) : j < i /\ j \in Slot
        BY SweptSets
      <4> QED BY <1>5, <4>1, NAssumption DEF Slot, MAX_MODULES
    <3> QED BY <3>1, <3>2, UtmostUnique
  <2>2. Brief(g, T) # {}
    BY <1>5
  <2> HIDE DEF T
  <2> QED BY <2>1, <2>2 DEF Heir, q
<1>7. Swept(g, S)[i] = "PRIMARY"
  BY <1>3 DEF Swept
<1>8. ASSUME NEW j \in Slot
      PROVE  Swept(g, T)[j] = IF q # {} /\ j = First(q) THEN "PRIMARY"
                              ELSE IF j = i THEN "OFFLINE" ELSE Swept(g, S)[j]
  <2>1. Swept(g, T)[j] = IF j \in q /\ j = Heir(g, T) THEN "PRIMARY"
                         ELSE IF j \in Brief(g, T) \/ (j = p /\ g.role[j] = "PRIMARY")
                              THEN "OFFLINE" ELSE g.role[j]
    BY DEF Swept
  <2>2. Swept(g, S)[j] = IF j \in L /\ j = i THEN "PRIMARY"
                         ELSE IF j \in Brief(g, S) \/ (j = p /\ g.role[j] = "PRIMARY")
                              THEN "OFFLINE" ELSE g.role[j]
    BY DEF Swept
  <2>3. q # {} => First(q) \in q
    BY <1>2, FirstIs
  <2> HIDE DEF q, L, T, p
  <2> QED BY <1>5, <1>6, <2>1, <2>2, <2>3
<1>9. Swept(g, T) = [j \in Slot |-> IF q # {} /\ j = First(q) THEN "PRIMARY"
                              ELSE IF j = i THEN "OFFLINE" ELSE Swept(g, S)[j]]
  <2>1. Swept(g, T) = [j \in Slot |-> Swept(g, T)[j]]
    BY DEF Swept
  <2> HIDE DEF q, T
  <2> QED BY <1>8, <2>1
<1> HIDE DEF q, T
<1>10. HeirHandsOver(g, S, i, T, q)
  BY <1>6, <1>7, <1>9 DEF HeirHandsOver
<1> QED BY <1>10 DEF q, T

(* The primary itself is the next late slot: nobody held its role yet. *)
LEMMA PrimaryIsLate ==
  ASSUME NEW g \in Group, NEW S \in SUBSET Slot, NEW i \in Slot, \A s \in S : s < i,
         g.primary_index = i
  PROVE  PrimaryHandsOver(g, i, S \cup {i}, Left(g, S \cup {i}))
<1> DEFINE T == S \cup {i}
           q == Left(g, T)
<1>1. q \in SUBSET Slot
  BY DEF Left, HealthySlots
<1>2. Brief(g, T) = {}
  <2>1. \A x \in T : ~ (x > i)
    BY NAssumption DEF Slot, MAX_MODULES
  <2> QED BY <2>1 DEF Brief
<1>3. q # {} => First(q) \in q
  BY <1>1, FirstIs
<1> HIDE DEF T
<1>4. Heir(g, T) = IF q # {} THEN First(q) ELSE i
  BY <1>2 DEF Heir
<1>5. \A j \in Slot : (j \in q /\ j = Heir(g, T)) <=> (q # {} /\ j = First(q))
  BY <1>3, <1>4
<1>6. Swept(g, T) =
        [j \in Slot |-> IF q # {} /\ j = First(q) THEN "PRIMARY"
                        ELSE IF j = i /\ g.role[i] = "PRIMARY" THEN "OFFLINE"
                        ELSE g.role[j]]
  <2>1. Swept(g, T) =
          [j \in Slot |-> IF j \in q /\ j = Heir(g, T) THEN "PRIMARY"
                          ELSE IF j = i /\ g.role[j] = "PRIMARY" THEN "OFFLINE"
                          ELSE g.role[j]]
    BY <1>2 DEF Swept
  <2> HIDE DEF q
  <2> QED BY <1>5, <2>1
<1> HIDE DEF q
<1>7. PrimaryHandsOver(g, i, T, q)
  BY <1>4, <1>6 DEF PrimaryHandsOver
<1> QED BY <1>7 DEF q, T

(* TimedOutFields, of a group that the loop has only begun with as well. *)
LEMMA BegunFields ==
  ASSUME NEW g \in Group, NEW S \in SUBSET Slot
  PROVE  /\ timed_out(g, S).health =
              [i \in Slot |-> IF i \in S THEN "FAULTY" ELSE g.health[i]]
         /\ timed_out(g, S).primary_index =
              IF g.primary_index \in S THEN Heir(g, S) ELSE g.primary_index
         /\ timed_out(g, S).role =
              IF g.primary_index \in S THEN Swept(g, S) ELSE g.role
         /\ timed_out(g, S).secondary_index = g.secondary_index
         /\ timed_out(g, S).failover_state = g.failover_state
         /\ HealthySlots(timed_out(g, S)) = Left(g, S)
<1>1. CASE S # {}
  BY <1>1, TimedOutFields
<1>2. CASE S = {}
  <2>1. timed_out(g, S) = g
    BY <1>2 DEF timed_out
  <2>2. g.health \in [Slot -> Health]
    BY DEF Group
  <2>3. g.health = [i \in Slot |-> IF i \in S THEN "FAULTY" ELSE g.health[i]]
    BY <1>2, <2>2
  <2>4. HealthySlots(g) = Left(g, S)
    BY <1>2 DEF Left
  <2> QED BY <1>2, <2>1, <2>3, <2>4
<1> QED BY <1>1, <1>2

(* One turn of the loop: the closed form for the slots so far, and then *)
(* one more slot FAULTY, is the closed form for all of them. *)
LEMMA TimedOutStep ==
  ASSUME NEW g \in Group, NEW S \in SUBSET Slot, NEW i \in Slot, \A s \in S : s < i
  PROVE  module_set_health(timed_out(g, S), i, "FAULTY") = timed_out(g, S \cup {i})
<1> DEFINE T == S \cup {i}
           q == Left(g, T)
           p == g.primary_index
           h == timed_out(g, S)
           t == timed_out(g, T)
           k == module_set_health(h, i, "FAULTY")
<1>1. T \in SUBSET Slot /\ T # {} /\ i \notin S /\ i \in T
  <2>1. i \in Int /\ ~ (i < i)
    BY SlotsAreInts
  <2> QED BY <2>1
<1>2. h \in Group /\ t \in Group /\ k \in Group
  <2>1. h \in Group /\ t \in Group
    BY <1>1, TimedOutType
  <2> HIDE DEF h, t
  <2> QED BY <2>1, SetHealthType DEF Health
<1>3. /\ h.health = [j \in Slot |-> IF j \in S THEN "FAULTY" ELSE g.health[j]]
      /\ h.primary_index = IF p \in S THEN Heir(g, S) ELSE p
      /\ h.role = IF p \in S THEN Swept(g, S) ELSE g.role
      /\ h.secondary_index = g.secondary_index /\ h.failover_state = g.failover_state
      /\ HealthySlots(h) = Left(g, S)
  BY BegunFields
<1>4. /\ t.health = [j \in Slot |-> IF j \in T THEN "FAULTY" ELSE g.health[j]]
      /\ t.primary_index = IF p \in T THEN Heir(g, T) ELSE p
      /\ t.role = IF p \in T THEN Swept(g, T) ELSE g.role
      /\ t.group_healthy = (Cardinality(q) >= MRequired)
      /\ t.degraded_mode = (Cardinality(q) >= MRequired /\ Cardinality(q) < N)
      /\ t.secondary_index = g.secondary_index /\ t.failover_state = g.failover_state
  BY <1>1, TimedOutFields
<1>5. HealthySlots(h) \ {i} = q
  BY <1>3 DEF Left
<1> HIDE DEF h, q
<1> DEFINE Fields(peers) ==
             /\ k.health = [j \in Slot |-> IF j = i THEN "FAULTY" ELSE h.health[j]]
             /\ k.primary_index = IF i = h.primary_index /\ peers # {} THEN First(peers)
                                  ELSE h.primary_index
             /\ k.role = [j \in Slot |->
                  IF i = h.primary_index /\ peers # {} /\ j = First(peers) THEN "PRIMARY"
                  ELSE IF i = h.primary_index /\ j = i /\ h.role[i] = "PRIMARY" THEN "OFFLINE"
                  ELSE h.role[j]]
             /\ k.group_healthy = (Cardinality(peers) >= MRequired)
             /\ k.degraded_mode = (Cardinality(peers) >= MRequired /\ Cardinality(peers) < N)
             /\ k.secondary_index = h.secondary_index
             /\ k.failover_state = h.failover_state
<1>6. Fields(q)
  <2>1. Fields(HealthySlots(h) \ {i})
    BY <1>2, SetFaultyFields, Zenon
  <2> HIDE DEF Fields
  <2> QED BY <1>5, <2>1
<1>7. k.health = t.health
  BY <1>3, <1>4, <1>6
<1> HIDE DEF k, t
<1>8. h.role \in [Slot -> Role] /\ g.role \in [Slot -> Role]
  BY <1>2 DEF Group
<1>9. i # h.primary_index => k.primary_index = h.primary_index /\ k.role = h.role
  BY <1>6, <1>8
<1>10. k.primary_index = t.primary_index /\ k.role = t.role
  <2>1. CASE p \notin S /\ i # p
    <3>1. i # h.primary_index /\ h.primary_index = p /\ h.role = g.role
      BY <1>3, <2>1
    <3>2. t.primary_index = p /\ t.role = g.role
      BY <1>4, <2>1
    <3> QED BY <1>9, <3>1, <3>2
  <2>2. CASE p \notin S /\ i = p
    <3>1. h.primary_index = i /\ h.role = g.role
      BY <1>3, <2>2
    <3>2. t.primary_index = Heir(g, T) /\ t.role = Swept(g, T)
      BY <1>1, <1>4, <2>2
    <3>3. /\ Heir(g, T) = IF q # {} THEN First(q) ELSE i
          /\ Swept(g, T) =
               [j \in Slot |-> IF q # {} /\ j = First(q) THEN "PRIMARY"
                               ELSE IF j = i /\ g.role[i] = "PRIMARY" THEN "OFFLINE"
                               ELSE g.role[j]]
      <4>1. PrimaryHandsOver(g, i, T, q)
        BY <2>2, PrimaryIsLate DEF q
      <4> QED BY <4>1 DEF PrimaryHandsOver
    <3>4. k.primary_index = IF q # {} THEN First(q) ELSE i
      BY <1>6, <3>1
    <3>5. k.role = [j \in Slot |-> IF q # {} /\ j = First(q) THEN "PRIMARY"
                                   ELSE IF j = i /\ g.role[i] = "PRIMARY" THEN "OFFLINE"
                                   ELSE g.role[j]]
      BY <1>6, <3>1
    <3> QED BY <3>2, <3>3, <3>4, <3>5
  <2>3. CASE p \in S /\ Heir(g, S) # i
    <3>1. i # h.primary_index /\ h.primary_index = Heir(g, S) /\ h.role = Swept(g, S)
      BY <1>3, <2>3
    <3>2. t.primary_index = Heir(g, T) /\ t.role = Swept(g, T)
      BY <1>4, <2>3
    <3>3. Heir(g, T) = Heir(g, S) /\ Swept(g, T) = Swept(g, S)
      BY <2>3, OtherSlotIsLate
    <3> QED BY <1>9, <3>1, <3>2, <3>3
  <2>4. CASE p \in S /\ Heir(g, S) = i
    <3>1. h.primary_index = i /\ h.role = Swept(g, S)
      BY <1>3, <2>4
    <3>2. t.primary_index = Heir(g, T) /\ t.role = Swept(g, T)
      BY <1>4, <2>4
    <3>3. /\ Heir(g, T) = IF q # {} THEN First(q) ELSE i
          /\ Swept(g, S)[i] = "PRIMARY"
          /\ Swept(g, T) =
               [j \in Slot |-> IF q # {} /\ j = First(q) THEN "PRIMARY"
                               ELSE IF j = i THEN "OFFLINE" ELSE Swept(g, S)[j]]
      <4>1. HeirHandsOver(g, S, i, T, q)
        BY <2>4, HeirIsLate DEF q
      <4> QED BY <4>1 DEF HeirHandsOver
    <3>4. k.primary_index = IF q # {} THEN First(q) ELSE i
      BY <1>6, <3>1
    <3>5. k.role = [j \in Slot |-> IF q # {} /\ j = First(q) THEN "PRIMARY"
                                   ELSE IF j = i THEN "OFFLINE" ELSE Swept(g, S)[j]]
      BY <1>6, <3>1, <3>3
    <3> QED BY <3>2, <3>3, <3>4, <3>5
  <2> QED BY <2>1, <2>2, <2>3, <2>4
<1>11. /\ k.secondary_index = t.secondary_index /\ k.failover_state = t.failover_state
       /\ k.group_healthy = t.group_healthy /\ k.degraded_mode = t.degraded_mode
  BY <1>3, <1>4, <1>6
<1>12. k = t
  BY <1>2, <1>7, <1>10, <1>11, SameGroup
<1> QED BY <1>12 DEF k, h, t

(* The whole loop, turn by turn. *)
LEMMA LoopIsClosed ==
  ASSUME grp \in Group, NEW late \in SUBSET Slot
  PROVE  timed_out(grp, late) = LoopResult(late)
<1> DEFINE turn == [a \in 1 .. N |-> [g \in Group |->
                      IF a - 1 \in late THEN module_set_health(g, a - 1, "FAULTY") ELSE g]]
<1>1. N \in Nat /\ \A a \in 1 .. N : a - 1 \in Slot
  BY NAssumption DEF Slot, MAX_MODULES
<1>2. turn \in [1 .. N -> [Group -> Group]]
  BY <1>1, SetHealthType DEF Health
<1>3. PICK c \in Courses(N, Group, grp, turn) : TRUE
  <2> HIDE DEF turn
  <2> QED BY <1>1, <1>2, Iteration
<1>4. /\ c \in [0 .. N -> Group] /\ c[0] = grp
      /\ \A a \in 1 .. N : c[a] = turn[a][c[a - 1]]
  BY <1>3 DEF Courses
<1>5. \A a \in 1 .. N :
        c[a] = IF a - 1 \in late THEN module_set_health(c[a - 1], a - 1, "FAULTY")
               ELSE c[a - 1]
  <2> TAKE a \in 1 .. N
  <2>1. c[a - 1] \in Group
    BY <1>1, <1>4
  <2> QED BY <1>4, <2>1
<1> HIDE DEF turn
<1> DEFINE Rest(f, i) == IF i = 0 THEN grp
                         ELSE IF i - 1 \in late
                              THEN module_set_health(f[i - 1], i - 1, "FAULTY")
                              ELSE f[i - 1]
<1>6. c = [i \in 0 .. N |-> Rest(c, i)]
  <2>1. \A i \in 0 .. N : c[i] = Rest(c, i)
    BY <1>1, <1>4, <1>5
  <2>2. c = [i \in 0 .. N |-> c[i]]
    BY <1>4
  <2> HIDE DEF Rest
  <2> QED BY <2>1, <2>2
<1> DEFINE loop == CHOOSE f : f = [i \in 0 .. N |-> Rest(f, i)]
<1>7. LoopResult(late) = loop[N]
  BY Zenon DEF LoopResult
<1>8. loop = [i \in 0 .. N |-> Rest(loop, i)]
  <2> HIDE DEF Rest
  <2> QED BY <1>6, Zenon
<1>9. loop[0] = grp
  <2> HIDE DEF loop
  <2>1. 0 \in 0 .. N
    BY <1>1
  <2>2. loop[0] = Rest(loop, 0)
    BY <1>8, <2>1
  <2> QED BY <2>2
<1>10. \A i \in 1 .. N :
         loop[i] = IF i - 1 \in late THEN module_set_health(loop[i - 1], i - 1, "FAULTY")
                   ELSE loop[i - 1]
  <2> HIDE DEF loop
  <2> TAKE i \in 1 .. N
  <2>1. i \in 0 .. N /\ i # 0
    BY <1>1
  <2> QED BY <1>8, <2>1
<1> HIDE DEF loop, Rest
<1> DEFINE Before(i) == {s \in late : s < i}
           T == {i \in 0 .. N : loop[i] = timed_out(grp, Before(i))}
<1> SUFFICES ASSUME \A s \in late : s \in Int /\ 0 <= s /\ s < N
             PROVE  timed_out(grp, late) = LoopResult(late)
  <2>1. \A s \in Slot : s \in Int /\ 0 <= s /\ s < N
    BY <1>1 DEF Slot
  <2> QED BY <2>1
<1>11. 0 \in T
  <2>1. Before(0) = {}
    OBVIOUS
  <2>2. timed_out(grp, Before(0)) = grp
    BY <2>1 DEF timed_out
  <2> QED BY <1>1, <1>9, <2>2
<1>12. ASSUME NEW i \in 0 .. N - 1, i \in T PROVE i + 1 \in T
  <2>1. i + 1 \in 1 .. N /\ (i + 1) - 1 = i /\ i \in Slot /\ i + 1 \in 0 .. N
    BY <1>1 DEF Slot
  <2>2. loop[i + 1] = IF i \in late THEN module_set_health(loop[i], i, "FAULTY")
                      ELSE loop[i]
    BY <1>10, <2>1
  <2>3. loop[i] = timed_out(grp, Before(i))
    BY <1>12
  <2>4. i \in Int
    BY <2>1
  <2>5. CASE i \in late
    <3>1. Before(i + 1) = Before(i) \cup {i}
      <4>1. \A s : s \in late => (s < i + 1 <=> (s < i \/ s = i))
        BY <2>4
      <4>2. \A s : s \in Before(i + 1) <=> s \in Before(i) \cup {i}
        BY <2>5, <4>1
      <4> HIDE DEF Before
      <4> QED BY <4>2
    <3>2. Before(i) \in SUBSET Slot /\ \A s \in Before(i) : s < i
      OBVIOUS
    <3> HIDE DEF Before
    <3>3. module_set_health(timed_out(grp, Before(i)), i, "FAULTY")
            = timed_out(grp, Before(i) \cup {i})
      BY <2>1, <3>2, TimedOutStep
    <3> QED BY <2>1, <2>2, <2>3, <2>5, <3>1, <3>3
  <2>6. CASE i \notin late
    <3>1. Before(i + 1) = Before(i)
      BY <2>4, <2>6
    <3> HIDE DEF Before
    <3> QED BY <2>1, <2>2, <2>3, <2>6, <3>1
  <2> QED BY <2>5, <2>6
<1>13. N \in T
  <2> HIDE DEF T
  <2> QED BY <1>1, <1>11, <1>12, SetInduction
<1>14. Before(N) = late
  OBVIOUS
<1> QED BY <1>7, <1>13, <1>14

-----------------------------------------------------------------------------
(* The library as a whole. *)

LibraryInv ==
  /\ IsVoter(voter)
  /\ FaultsOK /\ MeasuredOK /\ RingOK
  /\ CachedOK /\ MarkovOK

(* The invariant holds at the start. *)
LEMMA LibraryStarts ==
  ASSUME LibraryInit
  PROVE  LibraryInv
BY VoterStarts, FaultsStart, RingStarts, TreeStarts, MarkovStarts DEF LibraryInit, LibraryInv

(* A part that does not run keeps what is true of it. *)
LEMMA PartsRest ==
  /\ IsVoter(voter) /\ UNCHANGED voter => IsVoter(voter')
  /\ FaultsOK /\ MeasuredOK /\ UNCHANGED diagVars => FaultsOK' /\ MeasuredOK'
  /\ RingOK /\ UNCHANGED trendVars => RingOK'
  /\ MarkovOK /\ UNCHANGED markov => MarkovOK'
<1>1. FaultsOK /\ MeasuredOK /\ UNCHANGED diagVars => FaultsOK' /\ MeasuredOK'
  BY DEF diagVars, FaultsOK, MeasuredOK
<1>2. RingOK /\ UNCHANGED trendVars => RingOK'
  BY DEF trendVars, RingOK
<1>3. MarkovOK /\ UNCHANGED markov => MarkovOK'
  BY DEF MarkovOK
<1> QED BY <1>1, <1>2, <1>3

(* Every step of the library keeps it. *)
LEMMA LibraryStays ==
  ASSUME LibraryInv, [LibraryNext]_libraryVars
  PROVE  LibraryInv'
<1>1. /\ IsVoter(voter) /\ FaultsOK /\ MeasuredOK /\ RingOK /\ CachedOK /\ MarkovOK
  BY DEF LibraryInv
<1>2. CASE UNCHANGED libraryVars
  <2>1. /\ UNCHANGED voter /\ UNCHANGED diagVars /\ UNCHANGED trendVars
        /\ UNCHANGED <<ft, outdated>> /\ UNCHANGED markov
    BY <1>2 DEF libraryVars, monitorVars, treeVars
  <2> QED BY <1>1, <2>1, PartsRest, TreeStays DEF LibraryInv
<1>3. CASE GroupStep \/ VectorStep
  <2>1. /\ UNCHANGED voter /\ UNCHANGED diagVars /\ UNCHANGED trendVars
        /\ UNCHANGED <<ft, outdated>> /\ UNCHANGED markov
    BY <1>3 DEF GroupStep, VectorStep, monitorVars, treeVars
  <2> QED BY <1>1, <2>1, PartsRest, TreeStays DEF LibraryInv
<1>4. CASE VoterStep
  <2>1. /\ VoterNext /\ UNCHANGED diagVars /\ UNCHANGED trendVars
        /\ UNCHANGED <<ft, outdated>> /\ UNCHANGED markov
    BY <1>4 DEF VoterStep, monitorVars, treeVars
  <2> QED BY <1>1, <2>1, PartsRest, VoterStays, TreeStays DEF LibraryInv
<1>5. CASE MonitorStep
  <2>1. UNCHANGED voter /\ UNCHANGED <<ft, outdated>> /\ UNCHANGED markov
    BY <1>5 DEF MonitorStep, treeVars
  <2>2. \/ DiagNext /\ UNCHANGED trendVars
        \/ TrendNext /\ UNCHANGED diagVars
        \/ UNCHANGED diagVars /\ UNCHANGED trendVars
    BY <1>5 DEF MonitorStep, DiagNext, TrendNext, diag_record_trend, LinkNext,
                diag_record_comm_error
  <2>3. FaultsOK' /\ MeasuredOK' /\ RingOK'
    BY <1>1, <2>2, PartsRest, FaultsStay, RingStays
  <2> QED BY <1>1, <2>1, <2>3, PartsRest, TreeStays DEF LibraryInv
<1>6. CASE ModelStep
  <2>1. UNCHANGED voter /\ UNCHANGED diagVars /\ UNCHANGED trendVars
    BY <1>6 DEF ModelStep, monitorVars
  <2>2. /\ TreeNext \/ UNCHANGED <<ft, outdated>>
        /\ MarkovNext \/ UNCHANGED markov
    BY <1>6 DEF ModelStep, TreeNext, MarkovNext
  <2>3. CachedOK' /\ MarkovOK'
    BY <1>1, <2>2, PartsRest, TreeStays, MarkovStays
  <2> QED BY <1>1, <2>1, <2>3, PartsRest DEF LibraryInv
<1> QED BY <1>2, <1>3, <1>4, <1>5, <1>6 DEF LibraryNext

(* What the invariant and the shape of the group and the vectors give. *)
LEMMA LibraryFollows ==
  ASSUME LibraryInv, TypeOK, VectorTypeOK
  PROVE  LibrarySound
<1>1. IsVoter(voter) /\ FaultsOK /\ MeasuredOK /\ RingOK /\ CachedOK /\ MarkovOK /\ TreeOK
  BY DEF LibraryInv, CachedOK
<1>2. ClosedFormIsLoop
  <2> SUFFICES ASSUME NEW late \in SUBSET {s \in Slot : Watched(s)}
               PROVE  timed_out(grp, late) = LoopResult(late)
    BY DEF ClosedFormIsLoop
  <2>1. late \in SUBSET Slot /\ grp \in Group
    BY DEF TypeOK
  <2> QED BY <2>1, LoopIsClosed
<1>3. VoterTypeOK /\ OneFaultIsMasked /\ InvalidHasNoVote /\ AcceptedIsMajority
  BY <1>1, VoterTypeFollows, OneFaultFollows, InvalidFollows, AcceptedFollows
<1>4. DiagTypeOK /\ LogIsCensus /\ ExtremesAreReached /\ TrendIsOfTheNewest
  BY <1>1, DiagTypeFollows, FaultsFollow, TrendFollows
<1>5. /\ AvailTypeOK /\ CachedIsTrue /\ ResultIsProbability /\ CutSetIsNecessary
      /\ SolutionIsCurrent
  BY <1>1, AvailTypeFollows, CachedFollows, ProbabilityFollows, CutSetFollows, SolutionFollows
<1> QED BY <1>2, <1>3, <1>4, <1>5 DEF LibrarySound

(* Votes, diagnostics, the availability model and the loop over the late *)
(* modules keep their promises in every behaviour of the library *)
(* (voting.c, diag_monitor.c, availability_model.c, failover_engine.c). *)
THEOREM LibraryIsSound == LibrarySpec => []LibrarySound
<1>1. LibrarySpec => []LibraryInv
  <2>1. LibraryInit => LibraryInv
    BY LibraryStarts
  <2>2. LibraryInv /\ [LibraryNext]_libraryVars => LibraryInv'
    BY LibraryStays
  <2> QED BY <2>1, <2>2, PTL DEF LibrarySpec
<1>2. LibrarySpec => []TypeOK
  <2>1. LibraryInit => Init
    BY DEF LibraryInit
  <2>2. [LibraryNext]_libraryVars => [Next]_grp
    BY DEF LibraryNext, GroupStep, VectorStep, VoterStep, MonitorStep, ModelStep, libraryVars
  <2> QED BY <2>1, <2>2, TypeCorrect, PTL DEF LibrarySpec, Spec
<1>3. LibrarySpec => []VectorTypeOK
  <2>1. LibraryInit => VectorInit
    BY DEF LibraryInit
  <2>2. [LibraryNext]_libraryVars => [VectorNext]_vectorVars
    BY DEF LibraryNext, GroupStep, VectorStep, VoterStep, MonitorStep, ModelStep, libraryVars
  <2>3. VectorTypeOK /\ VectorsCountUpdates => VectorTypeOK
    OBVIOUS
  <2> QED BY <2>1, <2>2, VectorsCount, PTL DEF LibrarySpec, VectorSpec
<1>4. LibraryInv /\ TypeOK /\ VectorTypeOK => LibrarySound
  BY LibraryFollows
<1> QED BY <1>1, <1>2, <1>3, <1>4, PTL
=============================================================================
