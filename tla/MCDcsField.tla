----------------------------- MODULE MCDcsField -----------------------------
(***************************************************************************)
(* The parts of mini-dcs-system-architecture, of mini-emerson-deltav-system*)
(* and of mini-fieldbus-foundation-h1 side by side: a behaviour runs one of*)
(* them, the others stay as they are.  They share no state, so that nothing*)
(* is lost by it.  Instances, inputs, and the checks of the functions that *)
(* no state machine calls. *)
(***************************************************************************)
EXTENDS Isa88Batch, DcsPair, DcsDatabase, ScanCycle, DcsAlarm, DcsDesign,
        DeltaVPlant, DeltaVControl, H1Link, H1Device

VARIABLE part

dcsVars    == <<isa88, dcsPair, dcsDb, scanCycle, dcsAlarm, sif, plan>>
deltaVVars == <<dvPair, dvLog, dvNewest, dvBatch, dvCtrl, dvSystem, dvNode, dvPid, dvSeq, dvVote>>
h1Vars     == <<las, turns, overrun, agents, bus, clocks, h1Block, h1Line, h1Seg>>
dcsFieldVars == <<dcsVars, deltaVVars, h1Vars, part>>

(* A part that does not run keeps one of its initial states. *)
DcsFieldInit ==
  /\ Isa88Init /\ DcsPairInit /\ DcsDbInit /\ ScanInit /\ DcsAlarmInit /\ SafetyInit /\ DesignInit
  /\ DvPlantInit /\ DvControlInit /\ H1LinkInit /\ H1DeviceInit
  /\ part \in {"batch", "pair", "database", "watchdog", "window", "schedule", "state",
               "filter", "burst", "safety", "design",
               "DeltaV pair", "DeltaV batch", "controller", "system", "pid", "sequence", "vote",
               "scheduler", "agents", "clocks", "block", "line", "segment"}
  /\ part # "pair" => pair.mode = "HOT_STANDBY" /\ ramp.output = Min(Outputs)
  /\ part # "safety" => sif.target_sil = Min(Targets) /\ sif.required_rrf = Min(Reductions)
  /\ part # "block" => h1Block.permitted = {"MAN", "AUTO", "CAS"}

DcsBatchStep == part = "batch" /\ Isa88Next
                /\ UNCHANGED <<dcsPair, dcsDb, scanCycle, dcsAlarm, sif, plan>>
DcsPairStep  == part = "pair" /\ DcsPairNext
                /\ UNCHANGED <<isa88, dcsDb, scanCycle, dcsAlarm, sif, plan>>
DatabaseStep == part = "database" /\ DcsDbNext
                /\ UNCHANGED <<isa88, dcsPair, scanCycle, dcsAlarm, sif, plan>>
ScanStep     == /\ \/ part = "watchdog" /\ WatchdogNext
                   \/ part = "window" /\ WindowNext
                   \/ part = "schedule" /\ ScheduleNext
                /\ UNCHANGED <<isa88, dcsPair, dcsDb, dcsAlarm, sif, plan>>
DcsAlarmStep == /\ \/ part = "state" /\ StateNext
                   \/ part = "filter" /\ FilterNext
                   \/ part = "burst" /\ BurstNext
                /\ UNCHANGED <<isa88, dcsPair, dcsDb, scanCycle, sif, plan>>
DesignStep   == /\ \/ part = "safety" /\ SafetyNext /\ UNCHANGED plan
                   \/ part = "design" /\ DesignNext /\ UNCHANGED sif
                /\ UNCHANGED <<isa88, dcsPair, dcsDb, scanCycle, dcsAlarm>>

DcsStep ==
  /\ DcsBatchStep \/ DcsPairStep \/ DatabaseStep \/ ScanStep \/ DcsAlarmStep \/ DesignStep
  /\ UNCHANGED <<deltaVVars, h1Vars>>

PlantStep ==
  /\ \/ /\ part = "DeltaV pair" /\ DvPairNext /\ UNCHANGED <<dvBatch, dvCtrl, dvSystem, dvNode>>
     \/ /\ part = "DeltaV batch" /\ DvBatchNext
        /\ UNCHANGED <<dvPair, dvLog, dvNewest, dvCtrl, dvSystem, dvNode>>
     \/ /\ part = "controller" /\ DvCtrlNext
        /\ UNCHANGED <<dvPair, dvLog, dvNewest, dvBatch, dvSystem, dvNode>>
     \/ /\ part = "system" /\ DvSystemNext
        /\ UNCHANGED <<dvPair, dvLog, dvNewest, dvBatch, dvCtrl>>
  /\ UNCHANGED <<dvControlVars, h1Vars>>

ControlStep ==
  /\ \/ part = "pid" /\ DvPidNext /\ UNCHANGED <<dvSeq, dvVote>>
     \/ part = "sequence" /\ DvSequenceNext /\ UNCHANGED <<dvPid, dvVote>>
     \/ part = "vote" /\ DvVoteNext /\ UNCHANGED <<dvPid, dvSeq>>
  /\ UNCHANGED <<dvPlantVars, h1Vars>>

LinkStep ==
  /\ \/ part = "scheduler" /\ LasNext /\ UNCHANGED <<agents, bus, clocks>>
     \/ part = "agents" /\ AgentNext /\ UNCHANGED <<las, turns, overrun, clocks>>
     \/ part = "clocks" /\ sm_process_td /\ UNCHANGED <<las, turns, overrun, agents, bus>>
  /\ UNCHANGED <<deltaVVars, h1DeviceVars>>

DeviceStep ==
  /\ \/ part = "block" /\ H1BlockNext /\ UNCHANGED <<h1Line, h1Seg>>
     \/ part = "line" /\ H1LineNext /\ UNCHANGED <<h1Block, h1Seg>>
     \/ part = "segment" /\ AddH1Device /\ UNCHANGED <<h1Block, h1Line>>
  /\ UNCHANGED <<deltaVVars, h1LinkVars>>

FieldStep ==
  /\ PlantStep \/ ControlStep \/ LinkStep \/ DeviceStep
  /\ UNCHANGED dcsVars

DcsFieldNext == (DcsStep \/ FieldStep) /\ UNCHANGED part

(* The scan goes on and takes time; the pair synchronises and each alarm *)
(* gets its values, periodically. *)
ScansBatch ==
  /\ part = "batch" /\ Isa88Scan
  /\ UNCHANGED <<dcsPair, dcsDb, scanCycle, dcsAlarm, sif, plan, deltaVVars, h1Vars, part>>

Synchronises ==
  /\ part = "pair" /\ dcs_redundancy_synchronize
  /\ UNCHANGED <<isa88, dcsDb, scanCycle, dcsAlarm, sif, plan, deltaVVars, h1Vars, part>>

Processes(a) ==
  /\ part = "state" /\ \E active \in BOOLEAN : dcs_alarm_process(a, active)
  /\ UNCHANGED <<isa88, dcsPair, dcsDb, scanCycle, sif, plan, deltaVVars, h1Vars, part>>

DcsFieldSpec ==
  /\ DcsFieldInit /\ [][DcsFieldNext]_dcsFieldVars
  /\ WF_dcsFieldVars(ScansBatch) /\ WF_dcsFieldVars(Synchronises)
  /\ \A a \in DcsAlarms : WF_dcsFieldVars(Processes(a))

(* What the parts promise of their state: see the conjuncts. *)
DcsSound ==
  /\ Isa88TypeOK /\ DcsPairTypeOK /\ DcsDbTypeOK /\ ScanTypeOK /\ DcsAlarmTypeOK
  /\ SafetyTypeOK /\ DesignTypeOK
  /\ Isa88InOrder /\ FlagMeansResynced
  /\ TablesHaveNoDuplicates /\ FittingPhasesFit
  /\ WatchdogBites /\ OwedIsShown /\ FloodIsExact /\ RecommendedIsVerified

(* What is accepted on the strength of a computation is acceptable: a *)
(* schedule by its utilisation, a topology by its name, a frame by its *)
(* checksum. *)
AcceptedIsFit == AcceptedSchedulesMeetDeadlines /\ TopologyIsTrue /\ DamageIsSeen

(* What no step does: of a bumpless transfer, a safety function, the *)
(* hysteresis filter; of a carrier that was replaced, a controller in *)
(* hand, a schedule, a segment.  See the seven properties. *)
StepsSound ==
  /\ RampIsBumpless /\ WorseIsNotAccepted /\ ActivationTakesDelay
  /\ NothingComesBack /\ TransferIsBumpless /\ CycleStaysInside /\ MoreIsNotBetter

(* A running batch ends, a standby becomes ready again, a lasting condition*)
(* is announced again: see the three properties. *)
DcsRecovers == Isa88Ends /\ StandbyRecovers /\ Reannounced

(* What DeltaV promises of its state: see DvPlantSound and WaitsAndVotes. *)
DeltaVSound == DvPlantTypeOK /\ DvControlTypeOK /\ DvPlantSound /\ WaitsAndVotes

(* What the segments promise: fair tokens, addresses that stay unique *)
(* however the messages that assign them are delayed or repeated, blocks *)
(* in permitted modes, no good frame refused or misread. *)
BusIsSound ==
  /\ H1LinkTypeOK /\ H1DeviceTypeOK
  /\ TokenIsFair /\ AddressesAreUnique /\ ModeIsPermitted /\ UndamagedIsAccepted

(* What is promised of a DeltaV plant and of the segments below it. *)
FieldSound == DeltaVSound /\ BusIsSound

-----------------------------------------------------------------------------
(* Instances. *)

Kinds == {<<2>>, <<1, 3>>, <<0>>}
Caps  == <<5, 8>>

SomeTags ==
  {[id |-> 1, name |-> "a", eu_min |-> 0, eu_max |-> 9, area |-> "x"],
   [id |-> 2, name |-> "a", eu_min |-> 0, eu_max |-> 9, area |-> ""],
   [id |-> 2, name |-> "b", eu_min |-> 9, eu_max |-> 9, area |-> "y"],
   [id |-> 1, name |-> "c", eu_min |-> 0, eu_max |-> 9, area |-> "x"]}

SomeControllers ==
  {[id |-> 1, scan_period |-> 50000], [id |-> 2, scan_period |-> 60000],
   [id |-> 2, scan_period |-> 2000000]}

ModuleOf(id, controller, time, type, enabled, inputs, outputs) ==
  [id |-> id, controller |-> controller, execution_time |-> time, type |-> type,
   enabled |-> enabled, inputs |-> inputs, outputs |-> outputs]

SomeModules ==
  {ModuleOf(1, 1, 3000, "SAFETY", TRUE, <<1, 0>>, <<2>>),
   ModuleOf(2, 2, 4000, "INTERLOCK", TRUE, << >>, <<7>>),
   ModuleOf(3, 1, 9000, "PID", TRUE, <<2>>, << >>),
   ModuleOf(3, 2, 9000, "CALC", FALSE, <<2>>, << >>)}

TableSizes == [tags |-> 2, controllers |-> 2, io |-> 1, modules |-> 3]

AllOne   == [a \in DcsAlarms |-> 1]
AllThree == [a \in DcsAlarms |-> 3]

-----------------------------------------------------------------------------
(* Functions against their references. *)

ASSUME AvailabilityByCounting ==
  \A a \in 0 .. 3 :
    LET F(arch) == dcs_analyze_redundancy_availability(a, 3, arch) IN
    /\ F("1oo1") = 9 * AvailableCases(a, 3, 1, 1)
    /\ F("1oo2") = 3 * AvailableCases(a, 3, 1, 2)
    /\ F("2oo2") = 3 * AvailableCases(a, 3, 2, 2)
    /\ F("2oo3") = AvailableCases(a, 3, 2, 3)

(* A hot standby takes over within a scan, a warm one within ten. *)
ASSUME SwitchoverTimes ==
  \A ms \in {0, 50, 1000} :
    LET period == IF ms = 0 THEN 250 ELSE ms IN
    /\ dcs_calculate_switchover_time("ACTIVE_ACTIVE", ms) < period
    /\ dcs_calculate_switchover_time("HOT_STANDBY", ms) < period
    /\ dcs_calculate_switchover_time("WARM_STANDBY", ms) < 10 * period
    /\ dcs_calculate_switchover_time("COLD_STANDBY", ms) > 10 * period

ASSUME ScanRules ==
  /\ \A c \in {0, 1, 499, 500, 501, 1000, 2500, 2501, 5000, 20000, 20001, 70000} :
       /\ dcs_recommend_scan_period(c) \in standard_periods
       /\ c \in 500 .. 50000 => dcs_recommend_scan_period(c) * 10 >= c
  /\ \A t, u \in {0, 50, 100, 101, 129, 130, 149, 150, 300} :
       t <= u => dcs_detect_scan_overrun(t, 100) <= dcs_detect_scan_overrun(u, 100)
  /\ \A s \in {0, 10, 30, 100} :
       dcs_max_pid_loops_per_scan(250, s, 150) * 150 <= 250 * 10 * (IF s = 0 THEN 30 ELSE s)

(* More fault tolerance or a larger safe failure fraction never lowers the *)
(* level, and complex components never have a higher one than simple ones. *)
ASSUME SilTable ==
  \A pfd \in {0, 50, 500, 5000, 50000}, h \in 0 .. 2, f \in {0, 60, 90, 99} :
    /\ dcs_determine_sil(pfd, h, f, "B") <= dcs_determine_sil(pfd, h, f, "A")
    /\ \A h2 \in h .. 2, f2 \in {0, 60, 90, 99}, t \in {"A", "B"} :
         f2 >= f => dcs_determine_sil(pfd, h, f, t) <= dcs_determine_sil(pfd, h2, f2, t)

ASSUME RiskReduction ==
  \A t, p \in 0 .. 4 : dcs_calculate_rrf(t, p) >= 1 /\ (t >= p /\ t > 0 => dcs_calculate_rrf(t, p) = 1)

ASSUME NetworkRules ==
  /\ MapThenSumSet(LAMBDA c : dcs_design_bandwidth_allocation[c], ToSet(traffic)) = 100
  /\ IsInjective([i \in DOMAIN traffic |-> dcs_map_traffic_to_vlan_priority[traffic[i]]])
  /\ \A n \in 0 .. 9, h \in {0, 10}, p \in {0, 1} :
       /\ dcs_calculate_token_rotation(n, h, p) <= dcs_calculate_token_rotation(n + 1, h, p)
       /\ n > 0 => dcs_token_ring_throughput(n, h, p, 100) <= 100
  /\ \A n \in 0 .. 20, limit \in 0 .. 6 :
       LET s == dcs_recommend_segmentation(n, limit) IN
       /\ s.segments * s.per_segment >= n
       /\ s.per_segment <= (IF limit = 0 THEN 50 ELSE limit)
  /\ \A n \in 2 .. 9, t \in Topologies :
       dcs_worst_case_latency(t, n, 100, 100) <= dcs_worst_case_latency("BUS", 9, 10, 100)
  /\ dcs_verify_realtime_deadline(7900, 100, 10, 0) /\ ~dcs_verify_realtime_deadline(7900, 101, 10, 0)

(* What is recommended has the capacity for what it was recommended for. *)
ASSUME VendorRules ==
  /\ \A io \in {0, 1, 560, 561, 1120, 5600, 9999} :
       LET h == dcs_honeywell_recommend_sizing(io) IN
       /\ dcs_honeywell_max_io_capacity(h.controllers, h.racks) >= io
       /\ h.controllers <= 10 * h.servers
       /\ dcs_deltav_charm_capacity(dcs_compare_vendor_sizing(io).emerson) >= io
       /\ dcs_compare_vendor_sizing(io).yokogawa <= dcs_compare_vendor_sizing(io).honeywell
       /\ dcs_deltav_dst_tier(io, 7) >= io + 7
  /\ dcs_yokogawa_vnet_bandwidth_check(781250) /\ ~dcs_yokogawa_vnet_bandwidth_check(781251)
  /\ dcs_yokogawa_fcs_utilization(100, 0, 0) = dcs_yokogawa_fcs_utilization(0, 400, 0)
  /\ dcs_analyze_controller_loading(100, 0, 0, 0, 100) = 17

(* Level by level, as far as a node has one. *)
ASSUME Hierarchy ==
  {dcs_map_node_to_isa95_level[n] : n \in DOMAIN dcs_map_node_to_isa95_level} = 0 .. 4

ASSUME Justification ==
  \A a \in DcsAlarms, d, o \in BOOLEAN, t \in 0 .. 1 :
    LET r == dcs_alarm_rationalize(a, d, o, t) IN
    r.has_safety_consequence => r.is_justified /\ d /\ o /\ t > 0

(* The recommended band is never narrower than four times the noise. *)
ASSUME Hysteresis ==
  \A s \in {-1000, 0, 50, 1000}, n \in {0, 5, 50} : dcs_alarm_recommend_hysteresis(s, n) >= 4 * n

-----------------------------------------------------------------------------
(* Instances. *)

GoodOrBroken == {<<TRUE, TRUE>>, <<FALSE, TRUE>>}

StepOf(type, param, next) == [type |-> type, param |-> param, next |-> next]
Chart == <<StepOf("SET", 0, 1), StepOf("WAIT", 3, 2), StepOf("WAIT", 2, 3), StepOf("IF", 0, 4)>>

Permits == {{"MAN", "AUTO", "CAS"}, {"MAN", "CAS"}, {"AUTO", "RCAS", "LO"}, {"IMAN", "ROUT"}}

Byte(n)     == [i \in 1 .. 8 |-> (n \div 2 ^ (8 - i)) % 2]
TwoMessages == {Byte(0), Byte(165)}

-----------------------------------------------------------------------------
(* Functions against their references. *)

(* The published check values of the checksums for the digits 1 to 9, of *)
(* which three at a time are taken; the two modules agree on CRC-16. *)
Digits(from) == FlattenSeq([i \in 1 .. 3 |-> Byte(47 + from + i)])
LeastFirst(from) == FlattenSeq([i \in 1 .. 3 |-> Reverse(Byte(47 + from + i))])
Number(bits) == MapThenSumSet(LAMBDA b : 2 ^ b, bits)

Modbus3 == modbus_crc16(LeastFirst(1))
Modbus6 == ModbusFrom(Modbus3, LeastFirst(4))
Modbus9 == ModbusFrom(Modbus6, LeastFirst(7))
Ccitt3  == crc16_ccitt(Digits(1))
Ccitt6  == CcittFrom(Ccitt3, Digits(4))
Ccitt9  == CcittFrom(Ccitt6, Digits(7))
Acn3    == Crc32From(0 .. 31, LeastFirst(1))
Acn6    == Crc32From(Acn3, LeastFirst(4))
Acn9    == (0 .. 31) \ Crc32From(Acn6, LeastFirst(7))

ASSUME CheckValues ==
  /\ Number(Modbus9) = 19255                              \* 0x4B37
  /\ Number(Ccitt9) = 10673                               \* 0x29B1
  /\ Number(Acn9 \intersect 0 .. 15) = 14630              \* 0xCBF43926
  /\ Number({b - 16 : b \in Acn9 \intersect 16 .. 31}) = 52212
  /\ acn_crc32(LeastFirst(1)) = (0 .. 31) \ Acn3
  /\ ff_crc16_ccitt(Digits(1)) = [i \in 1 .. 16 |-> IF 16 - i \in Ccitt3 THEN 1 ELSE 0]

(* No data looks like the start or the end of a frame. *)
ASSUME DelimitersAreUnambiguous ==
  \A a, b \in {0, 1, 37, 73, 146, 165, 219, 255} :
    LET half == manchester_encode(Byte(a) \o Byte(b)) IN
    /\ manchester_decode(half) = Byte(a) \o Byte(b)
    /\ \A p \in 1 .. 17 : ~delimiter_detect(start_delimiter, half, p)
                          /\ ~delimiter_detect(end_delimiter, half, p)

(* A pair is only switched when its health is in doubt, to a sound member. *)
ASSUME PairRules ==
  \A p1, p2, s1, s2, signal \in BOOLEAN, sync \in SyncStates :
    LET p == [pair_init EXCEPT !.primary.hardware = p1, !.primary.software = p2,
                !.standby.hardware = s1, !.standby.software = s2, !.standby.sync = sync,
                !.primary.database = signal, !.standby.database = signal, !.primary.firmware = signal]
    IN /\ should_trigger_failover(p) => ~validate_pair_health(p) /\ s1 /\ s2
       /\ is_bumpless_possible(p) => sync = "SYNCHRONIZED" /\ signal
       /\ pair_health_score(p) = 100 => validate_pair_health(p)
       /\ validate_pair_health(p) /\ is_bumpless_possible(p) => pair_health_score(p) = 100

(* A recipe built with the three functions is valid once each level has an *)
(* entry, and takes the sum of its phases. *)
ASSUME RecipeRules ==
  LET empty == add_operation(add_unit_procedure(<< >>), 1)
      full  == add_phase(add_phase(empty, 1, 1, 30), 1, 1, 12)
  IN /\ recipe_validate(1, full) /\ ~recipe_validate(1, empty) /\ ~recipe_validate(0, full)
     /\ ~recipe_validate(1, add_unit_procedure(full)) /\ ~recipe_validate(1, << >>)
     /\ estimate_cycle_time(full) = 42 /\ add_phase(full, 2, 1, 9) = full
     /\ formula_scale(<<2, 3>>, 2) = <<4, 6>> /\ formula_scale(<<2, 3>>, 0) = <<2, 3>>
     /\ validate_formula(0, 1, 20) /\ ~validate_formula(0, 1, 0)

(* One channel decommissioned looks like 65535 faulty ones. *)
ASSUME ChannelRules ==
  LET c == [carriers |-> <<[id |-> 1, channels |-> {1}]>>, active |-> 0, healthy |-> 1]
  IN /\ count_faulty_channels(c) = ChannelRange - 1 /\ health_check(c, "NORMAL", 85, 80)
     /\ ~health_check(c, "FAILSAFE", 20, 0) /\ validate_io_configuration(c)
     /\ self_test(c, TRUE, 89) /\ ~self_test(c, FALSE, 20)
     /\ is_overloaded(86, 0, 0) /\ ~is_overloaded(85, 20, 90)
     /\ remaining_dsts(5, 7) = 0 /\ remaining_dsts(7, 5) = 2
     /\ \A active, open, short, fault \in BOOLEAN :
          channel_diagnose(active, open, short, fault) <=> (active => ~(open \/ short \/ fault))

ASSUME SystemRules ==
  LET s == [areas |-> << >>, controllers |-> 1, workstations |-> 1]
      l == [valid |-> TRUE, expired |-> FALSE, controllers |-> 1, workstations |-> 1, dsts |-> 50,
            sis |-> FALSE, batch |-> TRUE]
  IN /\ system_validate(TRUE, 1, s, TRUE, FALSE, FALSE) = "WARNING"
     /\ system_validate(TRUE, 1, [s EXCEPT !.workstations = 0], TRUE, TRUE, FALSE) = "SIS_VIOLATION"
     /\ license_check(s, l, 50, FALSE, TRUE) /\ ~license_check(s, l, 51, FALSE, TRUE)
     /\ ~license_check(s, l, 50, TRUE, TRUE)
     /\ validate_network_topology(1, 1, 100000000, TRUE, 1, 2)
     /\ ~validate_network_topology(1, 1, 100000000, TRUE, 1, 1)
     /\ find_next_node_id("CONTROLLER") > find_next_node_id("OPERATOR")
     /\ build_is_fresh(1, 2) /\ ~build_is_fresh(0, 0)
     /\ download_possible("SETUP", "OK") /\ ~download_possible("NORMAL", "OK")

(* A split range never opens both valves the wrong way round; a curve with *)
(* rising points is followed without a jump. *)
ASSUME ControlRules ==
  /\ \A mode \in {"SEQUENTIAL", "OVERLAP"}, point \in {30, 50}, x, y \in {0, 20, 30, 40, 75, 100} :
       x <= y => \A i \in 1 .. 2 : split_range(mode, point, x)[i] <= split_range(mode, point, y)[i]
  /\ LET curve == <<<<0, 0>>, <<10, 40>>, <<20, 50>>>> IN
     /\ monotonic(curve) /\ ~monotonic(Append(curve, <<20, 60>>))
     /\ \A x \in 0 .. 25 : interpolate(curve, x) \in 0 .. 50
                           /\ interpolate(curve, x) <= interpolate(curve, x + 1)
  /\ ratio(2, 1, 3, 0, 5) = 5 /\ ratio(2, 1, 1, 0, 5) = 3
  /\ mpc_horizons(30, 30) = <<30, 10>> /\ mpc_horizons(5, 8) = <<5, 10>>
  /\ calc_divide(7, 2, 1) = 4 /\ calc_divide(7, 0, 1) = 0
  /\ \A trip \in BOOLEAN :
       LET il == interlock_evaluate([enabled |-> TRUE, tripped |-> FALSE, output |-> TRUE], trip)
       IN il.tripped = trip /\ il.output = ~trip
  /\ check_alarm([pv |-> 9, sp |-> 5], 8, 2, 9) /\ ~check_alarm([pv |-> 8, sp |-> 5], 8, 2, 3)
  /\ LET m == [setpoint |-> <<10>>, weight |-> <<1>>, low |-> <<2>>, suppression |-> 1,
               model |-> [c \in {<<1, 1>>} |-> 3]]
     IN mpc_objective(m) = 16 /\ mpc_solve(m) /\ mpc_move(m, 1, 5) = <<4, 10>>
        /\ mpc_move([m EXCEPT !.setpoint = <<90>>], 1, 5) = <<5, 1>>

ASSUME MessageRules ==
  /\ packet_validate(1, 2, 10, 10) /\ ~packet_validate(0, 2, 1, 10) /\ ~packet_validate(1, 2, 11, 10)
  /\ opc_tag_read(TRUE, "GOOD") /\ ~opc_tag_read(TRUE, "BAD")
  /\ build_request(258, 3) = <<1, 2, 0, 3>> /\ parse_response(FALSE, 300) = [ok |-> TRUE, length |-> 252]
  /\ poll_success_rate(3, 1) = 75 /\ poll_success_rate(0, 0) = 0
  /\ diagnose_device(TRUE, 96, 4, 99) /\ ~diagnose_device(TRUE, 95, 5, 0)
  /\ eip_diagnose(TRUE, 101, 1) /\ ~eip_diagnose(TRUE, 100, 1)
  /\ macrocycle(<<[active |-> TRUE, time |-> 50], [active |-> FALSE, time |-> 9]>>) = 60

(* The election: exactly one of two managers wins, and it waits less. *)
ASSUME LinkRules ==
  /\ \A p, q \in {1, 2, 17, 255} :
       /\ lm_election_compare(p, q) = -lm_election_compare(q, p)
       /\ (lm_election_compare(p, q) = 1) <=> (lm_holdoff_ms(p) < lm_holdoff_ms(q))
  /\ live_list_find(<<16, 20>>, 20) /\ ~live_list_find(<<16>>, 20) /\ ~live_list_is_full(<<16>>)
  /\ las_cd_utilization(las_init) = <<0, Macrocycle>> /\ las_has_idle_time(las_init, Macrocycle)
  /\ nm_error_rate(6, 4, 1) = <<1, 10>> /\ nm_efficiency(6, 4, 1) = <<9, 10>>
  /\ nm_efficiency(0, 0, 1) = -1 /\ sm_find_tag_match([sm_init EXCEPT !.state = "OPERATIONAL"], "none")
  /\ smib_read("DEVICE_TAG", 32) /\ ~smib_read("DEVICE_TAG", 31) /\ ~smib_read("VFD_REF_LIST", 32)

(* Whatever leads from one mode to another leads through modes that may *)
(* follow each other, and a version never drops what was mandatory. *)
ASSUME DeviceRules ==
  /\ \A permitted \in Permits, m \in BlockModes :
       mode_transition_allowed("OOS", m, permitted) <=> m \in permitted \union {"OOS"}
  /\ ~mode_transition_allowed("MAN", "CAS", {"MAN", "AUTO", "CAS"})
  /\ fms_read_parameter("SP") = "OK" /\ fms_read_parameter("GONE") = "NO_OBJECT"
  /\ fms_write_status("PV", "AUTO") = "READ_ONLY" /\ fms_write_status("SP", "OOS") = "ACCESS"
  /\ LET link == [block |-> 1, param |-> 18] IN
     ~link_validate(link, link) /\ link_validate(link, [link EXCEPT !.param = 9])
  /\ \A v, w \in {40, 46, 50, 52, 60, 62, 70} :
       v <= w => \A f \in SUBSET {"TIME_SYNC", "ALERTS", "FDI"} :
         itk_check_compliance(f, w) => itk_check_compliance(f, v)
  /\ cff_supports_fb({0, 15, 16}, 15) /\ ~cff_supports_fb({0, 15, 16}, 16)
  /\ cff_link_compatible([bnu |-> 1, qub |-> 0], [bnu |-> 2, qub |-> 1])
  /\ dd_validate_value(0, 9, 9) /\ ~dd_validate_value(0, 9, 10)
  /\ LET id == [i \in 1 .. 32 |-> i] IN
     device_identity_equal(id, [id EXCEPT ![25] = 0]) /\ ~device_identity_equal(id, [id EXCEPT ![24] = 0])

(* What is longer or carries more is never better. *)
ASSUME SegmentRules ==
  /\ \A n \in 1 .. 31 : h1_max_spur_length(n + 1) <= h1_max_spur_length(n)
  /\ \A k \in DOMAIN cable_spec, mA \in {100, 400} :
       /\ max_trunk_length(24000, 9000, mA, k) <= cable_spec[k].longest
       /\ max_trunk_length(24000, 9000, mA, k) <= max_trunk_length(24000, 9000, mA - 50, k)
  /\ segment_round_trip_time(<<[spur |-> 60, cable |-> "A"], [spur |-> 120, cable |-> "D"]>>) > 750000
  /\ h1_total_half_bits(8, 10) = 320 /\ h1_frame_fits(8, 255) /\ ~h1_frame_fits(16, 256)
  /\ LET io == [type |-> "FISCO", ui |-> 17, uo |-> 14, ii |-> 300, io |-> 200, pi |-> 3, po |-> 2,
                ci |-> 4, li |-> 10]
     IN fisco_verify_compatibility(io, io) /\ ~fisco_verify_compatibility([io EXCEPT !.type = "ENTITY"], io)
        /\ ~fisco_verify_compatibility([io EXCEPT !.ui = 13], io)
  /\ LET good == [signal |-> 800, dc |-> 200, noise |-> 10, retransmitted |-> 0, errors |-> 0,
                  detected |-> 5, expected |-> 5]
     IN /\ segment_health_evaluate(good) = 0
        /\ segment_health_evaluate([good EXCEPT !.detected = 3, !.noise = 60]) = 3
        /\ segment_health_evaluate([good EXCEPT !.noise = 60, !.errors = 11]) = 2
  /\ commissioning_ready(<<TRUE, TRUE>>) /\ ~commissioning_ready(<<TRUE, FALSE>>)
=============================================================================
