----------------------------- MODULE DeltaVPlant ----------------------------
(***************************************************************************)
(* DeltaV around its control strategies: the redundant controller pair and *)
(* its log of failovers (delta_v_redundancy.c), a batch under commands *)
(* (delta_v_batch.c), the carriers and channels of a controller *)
(* (delta_v_controller.c), areas, nodes and licence of the system *)
(* (delta_v_system.c). *)
(* *)
(* Names, times and percentages that no decision reads are left out. *)
(***************************************************************************)
EXTENDS Integers, Sequences, FiniteSets, FiniteSetsExt, SequencesExt

CONSTANTS LogSize, MaxFailovers,        \* DELTAV_REDUN_MAX_EVENTS; bound of a run
          SetRoles, Reports, FailoverTypes, \* set by hand; <<hardware, software>>; causes
          IndexRange,                   \* range of the phase index
          CarrierIds, MaxCarriers, ChannelIds,
          ChannelRange,                 \* range of the uint16_t channel counts
          AreaIds, MaxAreas, MaxModules,
          MaxNodesOfAKind               \* DELTAV_MAX_CONTROLLERS and _WORKSTATIONS

ASSUME DeltaVPlantAssumption ==
  /\ {LogSize, MaxFailovers, IndexRange, MaxCarriers, ChannelRange, MaxAreas,
      MaxModules, MaxNodesOfAKind} \subseteq Nat \ {0}
  /\ 0 \notin AreaIds
  /\ SetRoles \subseteq {"STANDBY", "SYNCING", "FAILED", "ISOLATED"}
  /\ Reports \subseteq BOOLEAN \X BOOLEAN /\ FailoverTypes \subseteq {"MANUAL", "AUTOMATIC", "FAULT"}

VARIABLES dvPair,       \* delta_v_redundancy_pair_t
          dvLog,        \* delta_v_failover_log_t
          dvNewest,     \* the event logged last, by history
          dvBatch,      \* delta_v_batch_execution_t
          dvCtrl,       \* delta_v_controller_config_t
          dvSystem,     \* delta_v_system_config_t
          dvNode        \* a delta_v_node_t, and whether it was initialised since it started

dvPlantVars == <<dvPair, dvLog, dvNewest, dvBatch, dvCtrl, dvSystem, dvNode>>

Roles      == {"UNKNOWN", "PRIMARY", "STANDBY", "SYNCING", "FAILED", "ISOLATED"}
SyncStates == {"NONE", "COPYING", "SYNCHRONIZED", "MISMATCH"}
Member == [role : Roles, sync : SyncStates, hardware : BOOLEAN, software : BOOLEAN,
           database : BOOLEAN, firmware : BOOLEAN]
DvPair == [primary : Member, standby : Member, healthy : BOOLEAN, failovers : 0 .. MaxFailovers]
DvEvent == [type : FailoverTypes \union {"NONE"}, prev : Roles, new : Roles]
NoEvent == [type |-> "NONE", prev |-> "UNKNOWN", new |-> "UNKNOWN"]
DvLog   == [events : [0 .. LogSize - 1 -> DvEvent], count : 0 .. LogSize, write : 0 .. LogSize - 1,
            total : Nat, successful : Nat]

BatchStates == {"IDLE", "RUNNING", "COMPLETE", "PAUSING", "PAUSED", "HOLDING", "HELD",
                "RESTARTING", "STOPPING", "STOPPED", "ABORTING", "ABORTED"}
DvCommands  == {"START", "HOLD", "RESTART", "STOP", "ABORT", "PAUSE", "RESUME", "RESET"}
DvBatch == [state : BatchStates, active : BOOLEAN, phase : 0 .. IndexRange - 1, unit : 0 .. 2]

Carrier  == [id : CarrierIds, channels : SUBSET ChannelIds]
DvCtrl   == [carriers : Seq(Carrier), active : 0 .. ChannelRange - 1, healthy : 0 .. ChannelRange - 1]
Area     == [id : AreaIds, modules : 0 .. MaxModules]
DvSystem == [areas : Seq(Area), controllers : 0 .. MaxNodesOfAKind, workstations : 0 .. MaxNodesOfAKind]
NodeStatus == {"OFF", "BOOTING", "INITIALIZING", "STANDBY", "ACTIVE", "DEGRADED", "FAILED", "SIMULATE"}

-----------------------------------------------------------------------------
(* The pair.  A member is named for its place in the structure, not for *)
(* the role it plays. *)
pair_init ==
  LET member == [role |-> "PRIMARY", sync |-> "NONE", hardware |-> TRUE, software |-> TRUE,
                 database |-> FALSE, firmware |-> FALSE]
  IN [primary |-> member, standby |-> [member EXCEPT !.role = "STANDBY"],
      healthy |-> TRUE, failovers |-> 0]

(* Any role is accepted; no caller of src promotes a member by hand. *)
set_role ==
  /\ \E m \in {"primary", "standby"}, role \in SetRoles :
       dvPair' = [dvPair EXCEPT ![m].role = role]
  /\ UNCHANGED <<dvLog, dvNewest>>

initiate_sync ==
  /\ dvPair.primary.hardware /\ dvPair.standby.hardware /\ dvPair.standby.role = "STANDBY"
  /\ dvPair' = [dvPair EXCEPT !.standby.role = "SYNCING", !.standby.sync = "COPYING"]
  /\ UNCHANGED <<dvLog, dvNewest>>

(* What the copy and the diagnostics report is written by the caller. *)
CopyEnds ==
  /\ dvPair.standby.sync = "COPYING"
  /\ \E result \in {"SYNCHRONIZED", "MISMATCH"}, same \in BOOLEAN :
       dvPair' = [dvPair EXCEPT !.standby.sync = result, !.primary.firmware = same,
                                !.primary.database = same, !.standby.database = same]
  /\ UNCHANGED <<dvLog, dvNewest>>

HealthReported ==
  /\ \E m \in {"primary", "standby"}, report \in Reports :
       dvPair' = [dvPair EXCEPT ![m].hardware = report[1], ![m].software = report[2]]
  /\ UNCHANGED <<dvLog, dvNewest>>

log_init == [events |-> [i \in 0 .. LogSize - 1 |-> NoEvent], count |-> 0, write |-> 0,
             total |-> 0, successful |-> 0]

log_add(l, event) ==
  [l EXCEPT !.events[l.write] = event, !.write = (@ + 1) % LogSize,
            !.count = IF @ < LogSize THEN @ + 1 ELSE @, !.total = @ + 1, !.successful = @ + 1]

(* Mutant: the index does not wrap. *)
get_latest_unwrapped(l) == IF l.count = 0 \/ l.write = 0 THEN NoEvent ELSE l.events[l.write - 1]
get_latest(l) ==
  IF l.count = 0 THEN NoEvent
  ELSE l.events[IF l.write = 0 THEN LogSize - 1 ELSE l.write - 1]

MayFailOver(p) == p.healthy /\ (p.standby.role = "STANDBY" \/ p.standby.sync = "SYNCHRONIZED")

FailedOver(p) ==
  [p EXCEPT !.primary.role = "STANDBY", !.standby.role = "PRIMARY", !.failovers = @ + 1]

(* delta_v_redundancy_perform_failover, and _manual_switchover with MANUAL *)
perform_failover ==
  /\ MayFailOver(dvPair) /\ dvPair.failovers < MaxFailovers
  /\ \E type \in FailoverTypes :
       LET event == [type |-> type, prev |-> dvPair.primary.role, new |-> "PRIMARY"]
       IN /\ dvPair' = FailedOver(dvPair)
          /\ dvLog' = log_add(dvLog, event)
          /\ dvNewest' = event

(* delta_v_redundancy_is_bumpless_possible and _check_sync_health *)
is_bumpless_possible(p) ==
  /\ p.standby.sync = "SYNCHRONIZED"
  /\ p.primary.database /\ p.standby.database /\ p.primary.firmware

Sound(m) == m.hardware /\ m.software
validate_pair_health(p) == Sound(p.primary) /\ Sound(p.standby)
should_trigger_failover(p) == ~Sound(p.primary) /\ Sound(p.standby)

pair_health_score(p) ==
  LET points(b, n) == IF b THEN n ELSE 0
  IN Min({100, points(p.primary.hardware, 25) + points(p.primary.software, 25)
               + points(p.standby.hardware, 25) + points(p.standby.software, 25)
               + points(p.standby.sync = "SYNCHRONIZED", 10)
               + points(p.primary.database /\ p.standby.database, 10)})

DvPairNext ==
  set_role \/ initiate_sync \/ CopyEnds \/ HealthReported \/ perform_failover

-----------------------------------------------------------------------------
(* The batch: delta_v_batch_is_transition_valid. *)
is_transition_valid(state, command) ==
  CASE command = "START"   -> state \in {"IDLE", "COMPLETE"}
    [] command = "HOLD"    -> state \in {"RUNNING", "RESTARTING"}
    [] command = "RESTART" -> state \in {"HELD", "PAUSED"}
    [] command = "STOP"    -> state \in {"RUNNING", "HELD", "PAUSED"}
    [] command = "ABORT"   -> state \notin {"IDLE", "ABORTED"}
    [] command = "PAUSE"   -> state = "RUNNING"
    [] command = "RESUME"  -> state = "PAUSED"
    [] command = "RESET"   -> state \in {"COMPLETE", "STOPPED", "ABORTED"}

Target(state, command) ==
  CASE command \in {"START", "RESUME"} -> "RUNNING"
    [] command = "HOLD"    -> IF state = "RUNNING" THEN "HOLDING" ELSE "HELD"
    [] command = "RESTART" -> "RESTARTING"
    [] command = "STOP"    -> "STOPPING"
    [] command = "ABORT"   -> "ABORTING"
    [] command = "PAUSE"   -> "PAUSING"
    [] command = "RESET"   -> "IDLE"

Commanded(b, command) ==
  [b EXCEPT !.state = Target(@, command),
            !.active = (@ \/ command = "START") /\ command # "RESET"]

issue_command ==
  \E command \in DvCommands :
    is_transition_valid(dvBatch.state, command) /\ dvBatch' = Commanded(dvBatch, command)

(* Nothing compares the index with the phases of the recipe. *)
advance_index(i) == (i + 1) % IndexRange

advance_phase ==
  /\ dvBatch.active /\ dvBatch.state = "RUNNING"
  /\ dvBatch' = [dvBatch EXCEPT !.phase = advance_index(@)]

allocate_unit ==
  /\ ~(dvBatch.active /\ dvBatch.state = "RUNNING")
  /\ \E unit \in 1 .. 2 : dvBatch' = [dvBatch EXCEPT !.unit = unit]

DvBatchNext == issue_command \/ advance_phase \/ allocate_unit

(* A recipe is a sequence of unit procedures, these of operations, these *)
(* of the durations of their phases. *)
recipe_validate(size, recipe) ==
  /\ size > 0 /\ recipe # <<>>
  /\ \A u \in DOMAIN recipe : recipe[u] # <<>> /\ \A o \in DOMAIN recipe[u] : recipe[u][o] # <<>>

add_phase(recipe, u, o, duration) ==
  IF u \in DOMAIN recipe /\ o \in DOMAIN recipe[u] /\ Len(recipe[u][o]) < 16
  THEN [recipe EXCEPT ![u][o] = Append(@, duration)] ELSE recipe
add_operation(recipe, u) ==
  IF u \in DOMAIN recipe /\ Len(recipe[u]) < 8 THEN [recipe EXCEPT ![u] = Append(@, <<>>)] ELSE recipe
add_unit_procedure(recipe) == IF Len(recipe) < 4 THEN Append(recipe, <<>>) ELSE recipe

estimate_cycle_time(recipe) ==
  FoldLeft(LAMBDA x, y : x + y, 0, FlattenSeq(FlattenSeq(recipe)))

formula_scale(amounts, factor) ==
  IF factor <= 0 THEN amounts ELSE [i \in DOMAIN amounts |-> amounts[i] * factor]
validate_formula(a, b, temperature) == a >= 0 /\ b >= 0 /\ temperature > 0

-----------------------------------------------------------------------------
(* Carriers and channels of a controller.  Both counts grow with each *)
(* configuration, even of a channel that was configured before. *)
CarrierIn(c, id) == \E i \in DOMAIN c.carriers : c.carriers[i].id = id
PlaceOfCarrier(c, id) == SelectInSeq(c.carriers, LAMBDA x : x.id = id)

add_carrier ==
  /\ Len(dvCtrl.carriers) < MaxCarriers
  /\ \E id \in CarrierIds :
       ~CarrierIn(dvCtrl, id)
       /\ dvCtrl' = [dvCtrl EXCEPT !.carriers = Append(@, [id |-> id, channels |-> {}])]

WithoutEntry(s, i) == RemoveAt(s, i)

remove_carrier ==
  \E i \in DOMAIN dvCtrl.carriers :
    dvCtrl' = [dvCtrl EXCEPT !.carriers = WithoutEntry(@, i)]

configure_channel ==
  \E id \in CarrierIds, ch \in ChannelIds :
    /\ CarrierIn(dvCtrl, id)
    /\ dvCtrl' = [dvCtrl EXCEPT !.carriers[PlaceOfCarrier(dvCtrl, id)].channels = @ \union {ch},
                                !.active = (@ + 1) % ChannelRange, !.healthy = (@ + 1) % ChannelRange]

decommission_channel ==
  \E id \in CarrierIds, ch \in ChannelIds :
    /\ CarrierIn(dvCtrl, id)
    /\ dvCtrl' = [dvCtrl EXCEPT !.carriers[PlaceOfCarrier(dvCtrl, id)].channels = @ \ {ch},
                                !.active = (@ - 1) % ChannelRange]

count_faulty_channels(c) == (c.active - c.healthy) % ChannelRange
health_check(c, mode, temperature, overrun) ==
  mode # "FAILSAFE" /\ temperature <= 85 /\ overrun <= 80 /\ c.healthy * 100 >= c.active * 95
validate_io_configuration(c) ==
  MapThenSumSet(LAMBDA i : Cardinality(c.carriers[i].channels), DOMAIN c.carriers) <= 256
self_test(c, memories, temperature) ==
  memories /\ temperature < 90 /\ (c.healthy > 0 \/ c.active = 0)
is_overloaded(load, overrun, memory) == load > 85 \/ overrun > 20 \/ memory > 90
remaining_dsts(limit, used) == IF limit > used THEN limit - used ELSE 0
channel_diagnose(active, open, short, fault) == ~active \/ (~open /\ ~short /\ ~fault)

DvCtrlNext == add_carrier \/ remove_carrier \/ configure_channel \/ decommission_channel

-----------------------------------------------------------------------------
(* Areas and nodes of the system. *)
AreaIn(s, id) == \E i \in DOMAIN s.areas : s.areas[i].id = id

add_area ==
  /\ Len(dvSystem.areas) < MaxAreas
  /\ \E area \in [id : AreaIds, modules : 0 .. MaxModules] :
       ~AreaIn(dvSystem, area.id) /\ dvSystem' = [dvSystem EXCEPT !.areas = Append(@, area)]
  /\ UNCHANGED dvNode

remove_area ==
  /\ \E i \in DOMAIN dvSystem.areas :
       /\ dvSystem.areas[i].modules = 0
       /\ dvSystem' = [dvSystem EXCEPT !.areas = WithoutEntry(@, i)]
  /\ UNCHANGED dvNode

(* Only counted: two nodes may have one id, and decommissioning takes *)
(* nothing away. *)
register_node ==
  /\ \E kind \in {"controllers", "workstations"} :
       dvSystem[kind] < MaxNodesOfAKind /\ dvSystem' = [dvSystem EXCEPT ![kind] = @ + 1]
  /\ UNCHANGED dvNode

system_validate(hostname, major, s, subnet, sis, redundant) ==
  IF ~hostname THEN "MISSING_REF"
  ELSE IF major = 0 \/ (s.areas = <<>> /\ s.workstations > 0) \/ ~subnet THEN "WARNING"
  ELSE IF sis /\ ~redundant THEN "SIS_VIOLATION" ELSE "OK"

license_check(s, l, tags, sis, batch) ==
  /\ l.valid /\ ~l.expired
  /\ s.controllers <= l.controllers /\ s.workstations <= l.workstations /\ tags <= l.dsts
  /\ sis => l.sis
  /\ batch => l.batch

validate_network_topology(subnet, mask, bandwidth, redundant, primary, secondary) ==
  subnet # 0 /\ mask # 0 /\ bandwidth >= 100000000 /\ ~(redundant /\ primary = secondary)
find_next_node_id(type) ==
  CASE type = "CONTROLLER" -> 101 [] type = "PROFESSIONAL_PLUS" -> 1 [] OTHER -> 2
build_is_fresh(download, build) == build # 0 /\ download <= build
download_possible(mode, check) == mode \in {"SETUP", "DOWNLOAD_PARTIAL"} /\ check = "OK"

(* delta_v_is_valid_status_transition, the guard of whoever sets a status. *)
NextStatus ==
  [s \in NodeStatus |->
     CASE s = "OFF"          -> {"BOOTING"}
       [] s = "BOOTING"      -> {"INITIALIZING", "FAILED"}
       [] s = "INITIALIZING" -> {"STANDBY", "ACTIVE", "FAILED"}
       [] s = "STANDBY"      -> {"ACTIVE", "FAILED", "OFF"}
       [] s = "ACTIVE"       -> {"STANDBY", "DEGRADED", "FAILED", "SIMULATE"}
       [] s = "DEGRADED"     -> {"ACTIVE", "STANDBY", "FAILED"}
       [] s = "FAILED"       -> {"OFF", "BOOTING"}
       [] s = "SIMULATE"     -> {"ACTIVE", "OFF"}]

set_node_status ==
  /\ \E next \in NextStatus[dvNode.status] :
       dvNode' = [status |-> next,
                  initialised |-> next = "INITIALIZING"
                                  \/ (dvNode.initialised /\ next \notin {"OFF", "BOOTING", "FAILED"})]
  /\ UNCHANGED dvSystem

DvSystemNext == add_area \/ remove_area \/ register_node \/ set_node_status

-----------------------------------------------------------------------------
DvPlantInit ==
  /\ dvPair = pair_init /\ dvLog = log_init /\ dvNewest = NoEvent
  /\ dvBatch = [state |-> "IDLE", active |-> FALSE, phase |-> 0, unit |-> 0]
  /\ dvCtrl = [carriers |-> <<>>, active |-> 0, healthy |-> 0]
  /\ dvSystem = [areas |-> <<>>, controllers |-> 0, workstations |-> 0]
  /\ dvNode = [status |-> "OFF", initialised |-> FALSE]

DvPlantTypeOK ==
  /\ dvPair \in DvPair /\ dvLog \in DvLog /\ dvNewest \in DvEvent
  /\ dvBatch \in DvBatch /\ dvCtrl \in DvCtrl /\ dvSystem \in DvSystem
  /\ dvNode \in [status : NodeStatus, initialised : BOOLEAN]

(* No two members are in control, the log hands back the event written *)
(* last however often the ring went round, and a node at work was *)
(* initialised after it started or failed. *)
DvPlantSound ==
  /\ ~(dvPair.primary.role = "PRIMARY" /\ dvPair.standby.role = "PRIMARY")
  /\ get_latest(dvLog) = dvNewest /\ dvLog.count = Min({LogSize, dvLog.total})
  /\ dvNode.status \in {"STANDBY", "ACTIVE", "DEGRADED", "SIMULATE"} => dvNode.initialised
  /\ \A i, j \in DOMAIN dvCtrl.carriers :
       dvCtrl.carriers[i].id = dvCtrl.carriers[j].id => i = j
  /\ \A i, j \in DOMAIN dvSystem.areas : dvSystem.areas[i].id = dvSystem.areas[j].id => i = j

(* Control that left the first member never comes back to it: the failover *)
(* writes roles to places and never swaps them.  A batch that left RUNNING *)
(* never runs again: holding, pausing and restarting are left by no *)
(* function but the abort. *)
NothingComesBack ==
  [][/\ dvPair.primary.role # "PRIMARY" => dvPair'.primary.role # "PRIMARY"
     /\ dvBatch.state \notin {"IDLE", "RUNNING"} => dvBatch'.state \notin {"IDLE", "RUNNING"}
    ]_<<dvPair, dvBatch>>
=============================================================================
