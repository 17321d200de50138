---------------------------- MODULE MCEcsExperion -----------------------------
(***************************************************************************)
(* The ECS-700 (the redundant pair, the I/O modules, the control blocks and*)
(* charts, communication and configuration) and the controller, the system *)
(* record, the blocks and the operator station of the Experion, side by *)
(* side: a behaviour runs one part, the others stay as they are.  They *)
(* share no state, so that nothing is lost by it.  Instances, inputs and *)
(* the checks of the functions that no state machine calls. *)
(***************************************************************************)
EXTENDS EcsPair, EcsControl, EcsNet,
        ExperionController, ExperionSystem, ExperionBlocks, ExperionHmi

VARIABLE part

ecsVars      == <<pairVars, ioVars, controlVars, netVars>>
experionVars == <<ceeVars, c300Vars, systemVars, blockVars, cabVars, hmiVars>>
stationVars  == <<ecsVars, experionVars, part>>

FirstTuning == [kc |-> 1, ti |-> 1, td |-> 0]
FirstLimits == <<0, 4>>

(* A part that does not run keeps one of its initial states. *)
StationInit ==
  /\ PairInit /\ IoInit /\ ControlInit /\ NetInit
  /\ cee_init /\ c300_init /\ experion_system_init /\ pid_block_init /\ CabInit /\ station_init
  /\ part \in {"pair", "io", "conversions", "cascade", "chart", "net", "config", "exchange",
               "cee", "c300", "system", "log", "network", "ramp", "pid", "table", "cab",
               "average", "band", "rate", "bulk", "summary", "trend", "face", "display"}
  /\ part # "io" => ioModule.enabledCount = 0 /\ \A c \in EcsChannels : channel[c].signal = "AI_4_20MA"
  /\ part # "cascade" => ~ecsPid["secondary"].reverse
  /\ part # "chart" => ~interlock.requiresReset
  /\ part # "network" => \A p \in FTEPath : fte.score[p] = Min(Scores)
  /\ part # "pid" => pid.tuning = FirstTuning /\ pid.limits = FirstLimits
  /\ part # "average" => ma.window = Min(WindowSizes)

PairStep ==
  part = "pair" /\ PairNext /\ UNCHANGED <<ioVars, controlVars, netVars>>

IoStep ==
  /\ \/ part = "io" /\ IoNext
     \/ part = "conversions" /\ Convert
  /\ UNCHANGED <<pairVars, controlVars, netVars>>

ControlStep ==
  /\ \/ part = "cascade" /\ EcsPidNext
     \/ part = "chart" /\ SequenceNext
  /\ UNCHANGED <<pairVars, ioVars, netVars>>

NetStep ==
  /\ \/ part = "net" /\ NetNext
     \/ part = "config" /\ ConfigNext
     \/ part = "exchange" /\ Exchange
  /\ UNCHANGED <<pairVars, ioVars, controlVars>>

EcsStep ==
  /\ PairStep \/ IoStep \/ ControlStep \/ NetStep
  /\ UNCHANGED experionVars

CeeStep == part = "cee" /\ CeeNext
           /\ UNCHANGED <<c300Vars, systemVars, blockVars, cabVars, hmiVars>>
C300Step == part = "c300" /\ C300Next
            /\ UNCHANGED <<ceeVars, systemVars, blockVars, cabVars, hmiVars>>
SystemStep == /\ \/ part = "system" /\ SystemNext
                 \/ part = "log" /\ redundancy_log_failover
                 \/ part = "network" /\ NetworkNext
                 \/ part = "ramp" /\ RampNext
              /\ UNCHANGED <<ceeVars, c300Vars, blockVars, cabVars, hmiVars>>
BlockStep == /\ \/ part = "pid" /\ PidNext
                \/ part = "table" /\ TableNext
             /\ UNCHANGED <<ceeVars, c300Vars, systemVars, cabVars, hmiVars>>
CabStep == /\ \/ part = "cab" /\ CabNext
              \/ part = "average" /\ AverageNext
              \/ part = "band" /\ BandNext
              \/ part = "rate" /\ RateNext
              \/ part = "bulk" /\ BulkNext
           /\ UNCHANGED <<ceeVars, c300Vars, systemVars, blockVars, hmiVars>>
HmiStep == /\ \/ part = "summary" /\ SummaryNext
              \/ part = "trend" /\ TrendNext
              \/ part = "face" /\ FaceNext
              \/ part = "display" /\ DisplayNext
           /\ UNCHANGED <<ceeVars, c300Vars, systemVars, blockVars, cabVars>>

ExperionStep ==
  /\ CeeStep \/ C300Step \/ SystemStep \/ BlockStep \/ CabStep \/ HmiStep
  /\ UNCHANGED ecsVars

StationNext == (EcsStep \/ ExperionStep) /\ UNCHANGED part

StationSpec == StationInit /\ [][StationNext]_stationVars

(* What a control station, its communication and its configuration promise *)
(* of their state: see the conjuncts. *)
EcsSound ==
  /\ PairTypeOK /\ LostIsTheDifference
  /\ IoTypeOK /\ ConversionsAgree
  /\ ControlTypeOK /\ OneToken
  /\ NetTypeOK /\ ClockErrorBounded /\ ExchangeSound /\ AcceptedMeansDisjoint

(* What no step of a pair, a PID block or a chart does: see the three *)
(* properties. *)
EcsMovesSafely == GraceSeparates /\ OutputSmooth /\ DwellRespected

(* What the controller and the system record promise: see the conjuncts. *)
ControllerSound ==
  /\ CeeTypeOK /\ C300TypeOK /\ SystemTypeOK
  /\ NoFrameMissed
  /\ OutputsHold
  /\ PrimaryIsServer /\ StopIsFinal
  /\ LogKeepsTheLast /\ NetworkIsTrue /\ RampBetween

(* What blocks, workbook and operator station promise: see the conjuncts. *)
StationSound ==
  /\ BlockTypeOK /\ CabTypeOK /\ HmiTypeOK
  /\ CharacterizerHits /\ AverageIsExact /\ ReadyMeansSound
  /\ CountsAreTrue /\ FloodWasReal /\ PenShowsTheLast /\ FaceIsHonest

(* What no step does: see the four properties. *)
BlockStepsSound == TransferIsSmooth /\ RateIsKept /\ BandAlternates /\ NothingCleared

-----------------------------------------------------------------------------
Worn == [Nominal EXCEPT !.cpu = 90, !.mem = 100, !.net = 60, !.io = 3]
Dying == [Nominal EXCEPT !.cpu = 96, !.watchdogs = 2]
SomeHealths == {Nominal, Worn, Dying}

ChartNext  == (0 :> <<1>>) @@ (1 :> <<2, 3>>) @@ (2 :> <<3>>) @@ (3 :> <<1, 0>>)
ChartDwell == (0 :> 0) @@ (1 :> 2) @@ (2 :> 0) @@ (3 :> 3)

-----------------------------------------------------------------------------
(* A worse reading never raises the score of a controller, except where *)
(* the table of processor loads jumps up at 81 % and that of free memory *)
(* falls at 128 MB (ecs700_redundancy.c:259, 273). *)
ASSUME ScoreRules ==
  /\ \A a, b \in 0 .. 100 : a <= b /\ (a > 80 <=> b > 80) => CpuScore(a) >= CpuScore(b)
  /\ CpuScore(80) < CpuScore(81) /\ MemScore(127) > MemScore(128)
  /\ \A a, b \in {0, 1, 9, 10, 49, 50, 99, 100, 499, 500} :
       a <= b => NetScore(a) >= NetScore(b) /\ IoScore(a) >= IoScore(b)
  /\ \A a, b \in {40, 65, 66, 75, 85, 86} : a <= b => TempScore(a) >= TempScore(b)
  /\ \A off \in {0, 12, 13, 24, 25} : PowerScore(240 + off) = PowerScore(240 - off)
  /\ HealthScore(Nominal) = 1000

(* Filters stay between what they mix, rates vanish inside the deadband, *)
(* the cold junction adds its own temperature. *)
ASSUME SignalRules ==
  /\ \A new, old \in -3 .. 3, sample, tc \in 0 .. 3 :
       LET f == signal_filter(new, old, sample, tc)
       IN (new <= f /\ f <= old) \/ (old <= f /\ f <= new)
  /\ \A now, before \in 0 .. 4 : Abs(now - before) < 2 => pv_rate(now, before, 1, 2) = 0
  /\ pv_rate(4, 0, 2, 1) = 2 /\ pv_rate(4, 0, 0, 1) = 0
  /\ \A cold \in {0, 25}, type \in 0 .. 8 : cjc_compensate(0, cold, type) = cold
  /\ cjc_compensate(4060, 25, 0) = 125
  /\ OutputCounts(2, 2, 10) = 0 /\ OutputCounts(10, 2, 10) = FullScale
  /\ eu_to_transmitter(0, 0, 100) = 400 /\ eu_to_transmitter(100, 0, 100) = 2000
  /\ eu_to_transmitter(-3, 0, 100) = 360 /\ eu_to_transmitter(103, 0, 100) = 2100

ASSUME NetworkRules ==
  /\ header_init(9) = [priority |-> 7, version |-> 1] /\ header_init(3).priority = 3
  /\ bits_per_scan(50, 4) = 8 * 282 /\ bits_per_scan(51, 4) = 8 * 368
  /\ load_percent(5, 10) = 50 /\ load_percent(11, 10) = 100 /\ load_percent(1, 0) = 100
  /\ \A m \in {<<1, 0, 1>>, <<0, 0, 0, 1>>} : crc16(m \o [b \in 1 .. 16 |-> IF 16 - b \in crc16(m) THEN 1 ELSE 0]) = {}

-----------------------------------------------------------------------------
(* Instances. *)

TaskKind(phase, period, priority, wcet) ==
  [phase_id |-> phase, period |-> period, priority |-> priority, wcet |-> wcet]

SomeKinds ==
  {TaskKind(1, 10, 0, 4), TaskKind(2, 20, 1, 6), TaskKind(1, 30, 2, 9), TaskKind(2, 0, 1, 3),
   TaskKind(1, 5, 3, 1)}

SomeRanges == {<<0, 2>>, <<1, 1>>}

SomeTunings == {FirstTuning, [kc |-> 2, ti |-> 1, td |-> 0], [kc |-> 1, ti |-> 0, td |-> 1]}
SomeLimits  == {FirstLimits, <<1, 3>>}
WindupRange == <<0, 4>>

SomePoints == {[x |-> x, y |-> y] : x \in {0, 2, 3, 7}, y \in {1, 4}}

Row(tag, lo, hi, alarm_lo, alarm_hi) ==
  [tag |-> tag, lo |-> lo, hi |-> hi, alarm_lo |-> alarm_lo, alarm_hi |-> alarm_hi,
   controller |-> 0]

SomeRows == {Row("a", 0, 9, 1, 8), Row("b", 0, 9, 0, 9), Row("a", 1, 9, 1, 9),
             Row("c", 5, 5, 5, 5), Row("d", 2, 5, 1, 5), Row("e", 2, 5, 3, 6)}

SomeParents == [d \in 0 .. 3 |-> CASE d \in {0, 1} -> 0 [] d = 2 -> 1 [] OTHER -> 9]

SetpointRange == <<1, 3>>
OutputRange   == <<0, 2>>

-----------------------------------------------------------------------------
(* Functions against their references. *)

(* All of three tasks, one of them perhaps disabled or without a period. *)
ASSUME SchedulesAreTested ==
  LET Candidate == {[period |-> T, priority |-> p, wcet |-> c, enabled |-> e] :
                      T \in {0, 3, 4, 7}, p \in 0 .. 2, c \in {1, 2}, e \in {TRUE}}
                   \cup {[period |-> 4, priority |-> 0, wcet |-> 2, enabled |-> FALSE]} IN
  \A a, b, c \in Candidate : TestsAgree(<<a, b, c>>)

ASSUME AlarmsFollowTheOrder ==
  \A pv \in 0 .. 9, roc \in {0, 3} :
    LET limits == [lolo |-> 2, lo |-> 4, hi |-> 6, hihi |-> 8, roc |-> 2]
        mask   == c300_evaluate_alarms(limits, pv, roc) IN
    /\ ("LOLO" \in mask => "LO" \in mask) /\ ("HIHI" \in mask => "HI" \in mask)
    /\ ~({"LO", "HI"} \subseteq mask)
    /\ "ROC" \in mask <=> roc > 2

ASSUME ScaleIsInRange ==
  \A raw \in 0 .. 12, from \in {<<4, 10>>, <<5, 5>>}, eu \in {<<0, 6>>, <<3, 15>>} :
    LET scaled == c300_scale_to_eu(raw, from, eu) IN
    /\ eu[1] <= scaled /\ scaled <= eu[2]
    /\ raw <= from[1] => scaled = eu[1]
    /\ raw >= from[2] /\ from[1] # from[2] => scaled = eu[2]

(* A clock that is off by no more than the way takes is found; one that is *)
(* off by more is refused. *)
ASSUME OffsetIsFound ==
  \A delay \in 0 .. 3, off \in -5 .. 5 :
    LET found == experion_clock_offset_ns(10, 10 + delay + off, 20 + off, 20 + delay) IN
    IF off \in -delay .. delay THEN found = off ELSE found = TooLarge

ASSUME LongerIntervalIsNoSafer ==
  \A x \in {1, 2, 5, 20, 99, 300}, y \in {1, 2, 5, 20, 99, 300}, beta \in {0, 5, 10, 100} :
    LET level(z) == SafetyLevel(sil_calculate_pfdavg(z, beta)) IN
    x <= y => level(y) <= level(x) /\ required_hft(level(y)) <= required_hft(level(x))

(* In the steady state a lead and a lag leave the gain alone. *)
ASSUME SteadyStateIsGain ==
  \A gain \in 0 .. 3, lead \in 0 .. 3, lag \in 1 .. 3, ts \in 1 .. 4, u \in -2 .. 2 :
    leadlag_step(gain, lead, lag, ts, u, u, gain * u) = gain * u * LeadLagDenominator(ts, lag)

ASSUME OpenCascadeIsSilent ==
  \A op \in 0 .. 3, ratio \in 0 .. 2 :
    LET link(active) == [active |-> active, ratio |-> ratio, bias |-> 1] IN
    /\ cascade_calculate_sp(link(FALSE), op) = {}
    /\ cascade_calculate_sp(link(TRUE), op) = {op * ratio + 1}

ASSUME RatioIsClamped ==
  \A ratio \in -2 .. 14 : ratio_execute(ratio, 3, 1) \in 1 .. 31

(* Two ranges in sequence: the second opens when the first is open. *)
ASSUME SplitInSequence ==
  \A op \in 0 .. 100 :
    LET first  == split_range_execute([start |-> 0, end |-> 50], op)
        second == split_range_execute([start |-> 50, end |-> 100], op) IN
    /\ second > 0 => first = 100
    /\ op < 100 => second < 100
    /\ first + second = 2 * op

ASSUME SelectorSelects ==
  \A inputs \in [1 .. 3 -> 0 .. 3], type \in {"HIGH", "LOW", "MEDIAN"} :
    LET selected == override_selector_execute(type, inputs) IN
    /\ inputs[selected.index] = selected.value
    /\ CASE type = "HIGH" -> \A i \in 1 .. 3 : inputs[i] <= selected.value
         [] type = "LOW"  -> \A i \in 1 .. 3 : inputs[i] >= selected.value
         [] OTHER -> /\ Cardinality({i \in 1 .. 3 : inputs[i] <= selected.value}) >= 2
                     /\ Cardinality({i \in 1 .. 3 : inputs[i] >= selected.value}) >= 2

ASSUME HornerIsThePolynomial ==
  \A a, b, c \in -2 .. 2, x \in -4 .. 4 :
    LET cut == CutTo(x, <<-3, 3>>) IN
    cab_polynomial_eval(<<a, b, c>>, <<-3, 3>>, x) = a + b * cut + c * cut * cut

ASSUME VersionsAreOrdered ==
  LET versions == (0 .. 1) \X (0 .. 1) \X (1 .. 2) IN
  \A a, b \in versions :
    /\ cab_version_compare(a, b) = -cab_version_compare(b, a)
    /\ cab_version_compare(a, b) = 0 <=> a = b
    /\ cab_version_compare(a, cab_version_increment(a)) = -1
    /\ \A c \in versions : cab_version_compare(a, b) = -1 /\ cab_version_compare(b, c) = -1
                             => cab_version_compare(a, c) = -1

ASSUME BareBlockIsWarnedOf ==
  \A inputs, outputs, params \in 0 .. 2 :
    LET built == cab_build(inputs, outputs, params) IN
    /\ built.warnings = 0 <=> inputs + outputs > 0
    /\ inputs + outputs + params > 0 => built.code_size > cab_build(0, 0, 0).code_size
=============================================================================
