----------------------------- MODULE EcsControl -----------------------------
(***************************************************************************)
(* The control station of the ECS-700 (ecs700_control_station.c): PID *)
(* blocks alone and in cascade, the sequential function chart, interlocks. *)
(* *)
(* Values are integers in the unit of the loop; the constants of a block *)
(* are chosen so that the divisions of the algorithm stay small.  A *)
(* quotient is rounded down.  Time is counted in sample times. *)
(* *)
(* Then the I/O subsystem (ecs700_io_subsystem.c and the signal *)
(* conversions of ecs700_system_core.c): channels, modules and their scan, *)
(* and the conversions between counts, engineering units and currents. *)
(* A count ranges over 0 .. FullScale (65535 in the code), currents are in *)
(* tenths of a milliampere, and quotients are rounded down. *)
(***************************************************************************)
EXTENDS Integers, FiniteSets, Sequences

CONSTANTS Kp, TwoTi, KpTd, Tf,    \* Kp, 2 Ti, Kp * Td and Tf of every block
          OutHi, Rate, SpRate, EcsDeadband,
          EcsPvs, Setpoints,          \* process values and setpoints that occur
          MaxIntegral,             \* bound on |integral|
          Steps, NextStep, MinDwell, MaxDwell, InitialStep,
          MaxElapsed               \* bound on elapsed_time_ms / 100

ASSUME EcsControlAssumption ==
  /\ Kp \in Nat /\ TwoTi \in Nat /\ KpTd \in Nat /\ Tf \in Nat \ {0}
  /\ OutHi \in Nat \ {0} /\ Rate \in Nat /\ SpRate \in Nat /\ EcsDeadband \in Nat
  /\ EcsPvs \subseteq Int /\ Setpoints \subseteq Int /\ MaxIntegral \in Nat /\ MaxElapsed \in Nat
  /\ IsFiniteSet(Steps) /\ Steps = 0 .. Cardinality(Steps) - 1 /\ InitialStep \in Steps
  /\ NextStep \in [Steps -> Seq(Nat)] /\ MinDwell \in [Steps -> Nat]
  /\ MaxDwell \in [Steps -> Nat]

VARIABLES ecsPid,        \* the two ecs700_pid_block_t of an ecs700_cascade_pair_t
          cascadeOn,  \* cascade_enabled
          chart,      \* active and elapsed of every ecs700_sfc_step_t
          interlock   \* ecs700_interlock_t

controlVars == <<ecsPid, cascadeOn, chart, interlock>>

Mode == {"MANUAL", "AUTO", "CASCADE", "TRACK"}
Loops == {"primary", "secondary"}
PidBlock ==
  [mode : Mode, reverse : BOOLEAN, sp : Int, pv : Int, out : Int, error : Int,
   integral : Int, derivative : Int, pvPrev : Int, hi : Int, enabled : BOOLEAN,
   first : BOOLEAN]
InterlockType == [active : BOOLEAN, requiresReset : BOOLEAN]
ChartType == [active : [Steps -> BOOLEAN], elapsed : [Steps -> Nat], acted : [Steps -> Nat]]

Clip(x, lo, hi) == IF x > hi THEN hi ELSE IF x < lo THEN lo ELSE x
Abs(x) == IF x < 0 THEN -x ELSE x
Sign(b) == IF b.reverse THEN -1 ELSE 1
InBand(e) == IF EcsDeadband > 0 /\ Abs(e) < EcsDeadband THEN 0 ELSE e

-----------------------------------------------------------------------------
(* ecs700_pid_execute.  `delta` is the time since the last execution; a *)
(* clock that went backwards gives a huge unsigned difference. *)
EffectiveDt(b, delta) == IF b.first \/ delta > 10 \/ delta <= 0 THEN 1 ELSE delta

LimitedSetpoint(b, dt) ==
  IF SpRate > 0 THEN b.pv + Clip(b.sp - b.pv, -(SpRate * dt), SpRate * dt) ELSE b.sp

Saturated(b, error) ==
  \/ b.out >= b.hi /\ error > 0
  \/ b.out <= 0 /\ error < 0

IntegralTerm(b, sp, error, dt) ==
  IF TwoTi = 0 \/ Saturated(b, error) THEN b.integral
  ELSE b.integral + (Kp * (error + InBand(sp - b.pvPrev)) * dt) \div TwoTi

DerivativeTerm(b, dt) ==
  IF KpTd = 0 THEN 0
  ELSE Clip((Tf * b.derivative - KpTd * (b.pv - b.pvPrev)) \div (Tf + dt),
            -(KpTd \div 2), KpTd \div 2)

(* Mutant: the limits first and the rate not at all after a pause. *)
LimitedOutputOnce(b, raw, dt) ==
  Clip(IF Rate > 0 /\ dt = 1 THEN b.out + Clip(raw - b.out, -Rate, Rate) ELSE raw, 0, b.hi)

LimitedOutput(b, raw, dt) ==
  Clip(IF Rate > 0 THEN b.out + Clip(raw - b.out, -(Rate * dt), Rate * dt) ELSE raw, 0, b.hi)

Automatic(b, dt) ==
  LET sp == LimitedSetpoint(b, dt)
      error == InBand(sp - b.pv)
      i == IntegralTerm(b, sp, error, dt)
      d == DerivativeTerm(b, dt)
  IN [b EXCEPT !.sp = sp, !.error = error, !.integral = i,
               !.derivative = IF KpTd > 0 THEN d ELSE @, !.pvPrev = b.pv,
               !.out = LimitedOutput(b, Sign(b) * (Kp * error + i + d), dt),
               !.first = FALSE]

(* The application enables the tracking of a value; in TRACK without it the*)
(* block goes on like in AUTO. *)
Tracks == [enable : BOOLEAN, value : {0}]

PidExecute(b, delta, track) ==
  IF ~b.enabled THEN b
  ELSE IF b.mode = "MANUAL"
       THEN [b EXCEPT !.error = b.sp - b.pv, !.integral = b.out - Kp * (b.sp - b.pv),
                      !.derivative = 0, !.pvPrev = b.pv, !.first = FALSE]
  ELSE IF b.mode = "TRACK" /\ track.enable
       THEN [b EXCEPT !.out = track.value, !.integral = track.value - Kp * b.error,
                      !.derivative = 0, !.pvPrev = b.pv, !.first = FALSE]
  ELSE Automatic(b, EffectiveDt(b, delta))

set_output_limits(b, hi) ==
  IF hi <= 0 THEN b ELSE [b EXCEPT !.hi = hi, !.out = Clip(@, 0, hi)]

mode_transition(b, mode) ==
  IF b.mode = mode THEN b
  ELSE IF b.mode = "MANUAL" /\ mode \in {"AUTO", "CASCADE"}
       THEN [b EXCEPT !.mode = mode, !.enabled = TRUE,
                      !.integral = Sign(b) * b.out - Kp * InBand(b.sp - b.pv) - b.derivative]
  ELSE [b EXCEPT !.mode = mode, !.enabled = mode # "MANUAL"]

(* The alarm bits of a block: derived from it and read by nothing else. *)
check_alarms(b) ==
  (IF b.pv >= 4 THEN {"HIHI"} ELSE IF b.pv >= 3 THEN {"HI"} ELSE {})
    \union (IF b.pv <= -1 THEN {"LOLO"} ELSE IF b.pv <= 0 THEN {"LO"} ELSE {})
    \union (IF Abs(b.sp - b.pv) >= 3 THEN {"DEV"} ELSE {})

pid_init(reverse) ==
  [mode |-> "AUTO", reverse |-> reverse, sp |-> 0, pv |-> 0, out |-> 0, error |-> 0,
   integral |-> 0, derivative |-> 0, pvPrev |-> 0, hi |-> OutHi, enabled |-> TRUE,
   first |-> TRUE]

-----------------------------------------------------------------------------
(* ecs700_cascade_init and ecs700_cascade_execute. *)
PidInit ==
  /\ \E reverse \in BOOLEAN :
       ecsPid = [l \in Loops |-> pid_init(l = "secondary" /\ reverse)]
  /\ cascadeOn = FALSE

Bounded(b) == Abs(b.integral) <= MaxIntegral

CascadeExecute ==
  /\ \E pv1, pv2 \in EcsPvs, delta \in {0, 2, 11}, track \in Tracks :
       LET first  == PidExecute([ecsPid["primary"] EXCEPT !.pv = pv1], delta, track)
           given  == [ecsPid["secondary"] EXCEPT !.pv = pv2]
           second == PidExecute(IF cascadeOn
                                THEN [given EXCEPT !.sp = Clip(first.out, 0, OutHi)]
                                ELSE given, delta, track)
       IN /\ Bounded(first) /\ Bounded(second)
          /\ ecsPid' = [ecsPid EXCEPT !["primary"] = first, !["secondary"] = second]
  /\ UNCHANGED <<cascadeOn, chart, interlock>>

Operate(l) ==
  /\ \/ \E mode \in Mode \ {"CASCADE"} : ecsPid' = [ecsPid EXCEPT ![l] = mode_transition(@, mode)]
     \/ \E sp \in Setpoints : ecsPid' = [ecsPid EXCEPT ![l].sp = sp]
     \/ \E hi \in {1, OutHi} : ecsPid' = [ecsPid EXCEPT ![l] = set_output_limits(@, hi)]
  /\ Bounded(ecsPid'[l])
  /\ UNCHANGED <<cascadeOn, chart, interlock>>

EnableCascade ==
  /\ cascadeOn' = ~cascadeOn
  /\ UNCHANGED <<ecsPid, chart, interlock>>

EcsPidNext == CascadeExecute \/ Operate("primary") \/ EnableCascade

-----------------------------------------------------------------------------
(* ecs700_sfc_execute: steps are visited by index, and a step activated by *)
(* an earlier one is visited in the same scan.  `acted` counts the scans *)
(* in which a step has executed its actions since it was last entered; the *)
(* code has no such counter. *)
ChartInit ==
  chart = [active |-> [s \in Steps |-> s = InitialStep],
           elapsed |-> [s \in Steps |-> 0], acted |-> [s \in Steps |-> 0]]

Acted(c) ==
  [c EXCEPT !.elapsed = [s \in Steps |-> IF c.active[s] THEN @[s] + 1 ELSE @[s]],
            !.acted = [s \in Steps |-> IF c.active[s] THEN @[s] + 1 ELSE @[s]]]

Entered(c, s) ==
  [c EXCEPT !.active[s] = TRUE, !.elapsed[s] = 0, !.acted[s] = 0]

(* The first transition always holds, so the others never fire and the *)
(* maximum dwell time forces nothing that would not happen anyway. *)
Fires(c, s) == c.active[s] /\ c.elapsed[s] >= MinDwell[s] /\ NextStep[s] # <<>>

Visited(c, s) ==
  IF ~Fires(c, s) THEN c
  ELSE LET left == [c EXCEPT !.active[s] = FALSE]
           next == NextStep[s][1]
       IN IF next \in Steps THEN Entered(left, next) ELSE left

AfterScan(c) ==
  LET scan[n \in 0 .. Cardinality(Steps)] ==
        IF n = 0 THEN Acted(c) ELSE Visited(scan[n - 1], n - 1)
  IN scan[Cardinality(Steps)]

SfcExecute ==
  /\ \A s \in Steps : chart.elapsed[s] < MaxElapsed
  /\ chart' = AfterScan(chart)
  /\ UNCHANGED <<ecsPid, cascadeOn, interlock>>

-----------------------------------------------------------------------------
(* ecs700_interlock_evaluate and _reset, for a trigger value of 2. *)
Triggered(condition, pv) ==
  CASE condition = 0 -> pv > 2
    [] condition = 1 -> pv >= 2
    [] condition = 2 -> pv < 2
    [] condition = 3 -> pv <= 2
    [] condition = 4 -> pv = 2
    [] OTHER -> FALSE

InterlockInit == \E r \in BOOLEAN : interlock = [active |-> FALSE, requiresReset |-> r]

InterlockEvaluate ==
  /\ \E condition \in 0 .. 5, pv \in 1 .. 3 :
       interlock' = [interlock EXCEPT !.active = @ \/ Triggered(condition, pv)]
  /\ UNCHANGED <<ecsPid, cascadeOn, chart>>

InterlockReset ==
  /\ interlock.requiresReset
  /\ interlock' = [interlock EXCEPT !.active = FALSE]
  /\ UNCHANGED <<ecsPid, cascadeOn, chart>>

ControlInit == PidInit /\ ChartInit /\ InterlockInit
SequenceNext == SfcExecute \/ InterlockEvaluate \/ InterlockReset

-----------------------------------------------------------------------------
(* Blocks, chart and interlock are well formed. *)
ControlTypeOK ==
  /\ ecsPid \in [Loops -> PidBlock] /\ cascadeOn \in BOOLEAN
  /\ \A l \in Loops : check_alarms(ecsPid[l]) \subseteq {"HIHI", "HI", "LOLO", "LO", "DEV"}
  /\ chart \in ChartType /\ interlock \in InterlockType

(* No valve jumps: whatever the operator does between two executions, an *)
(* automatic execution moves the output by at most the configured rate and *)
(* leaves it within the limits, unless a tracked value had taken it out of *)
(* them (ecs700_control_station.c:250-265). *)
OutputSmooth ==
  [][\A l \in Loops :
       (/\ ecsPid'[l].out # ecsPid[l].out
        /\ ecsPid[l].mode = "AUTO" /\ ecsPid'[l].hi = ecsPid[l].hi
        /\ ecsPid[l].out \in 0 .. ecsPid[l].hi)
       => /\ ecsPid'[l].out \in 0 .. ecsPid'[l].hi
          /\ Rate > 0 => Abs(ecsPid'[l].out - ecsPid[l].out) <= 2 * Rate]_controlVars

(* The chart keeps exactly one token however its steps loop, jump back or *)
(* chain within a scan. *)
OneToken == Cardinality({s \in Steps : chart.active[s]}) = 1

(* A step with a minimum dwell time is only left after its actions ran that*)
(* long since it was last entered. *)
DwellRespected ==
  [][\A s \in Steps : (chart.active[s] /\ ~chart'.active[s])
       => chart.acted[s] + 1 >= MinDwell[s]]_controlVars

-----------------------------------------------------------------------------
(* The I/O subsystem. *)

CONSTANTS EcsChannels,     \* channels of the module, 0 .. num_channels - 1
          FullScale,    \* 65535
          Counts,       \* raw readings the module delivers
          MaxScans      \* bound on the number of scans

ASSUME EcsIoAssumption ==
  /\ FullScale \in Nat /\ FullScale > 7 /\ Counts \subseteq 0 .. FullScale
  /\ IsFiniteSet(EcsChannels) /\ EcsChannels \subseteq Nat /\ MaxScans \in Nat

VARIABLES channel,   \* ecs700_io_channel_t of each channel
          ioModule,  \* ecs700_io_module_t
          reading    \* a count and a span some caller converts

ioVars == <<channel, ioModule, reading>>

ModuleState == {"OFFLINE", "BOOTING", "ONLINE", "DEGRADED", "MAINTENANCE", "FAULT"}
Quality == {"GOOD", "UNCERTAIN", "BAD", "MANUAL"}
CurrentSignals == {"AI_4_20MA", "AO_4_20MA"}
EcsSignals == CurrentSignals \union {"AI_0_10V", "AO_0_10V", "AI_TC", "AI_RTD", "DI"}
ChannelType ==
  [signal : EcsSignals, enabled : BOOLEAN, quality : Quality, counts : 0 .. FullScale,
   openWire : BOOLEAN, overrange : BOOLEAN, faults : Nat]
ModuleType ==
  [state : ModuleState, enabledCount : Nat, scans : 0 .. MaxScans, errors : Nat]

-----------------------------------------------------------------------------
(* Thresholds of NAMUR NE43 and the current the code derives from a count. *)
detect_open_wire(tenths) == tenths < 36
detect_overrange(tenths) == tenths > 208
RawCurrent(counts) == 40 + (160 * counts) \div FullScale

(* ecs700_io_process_input without the filter, whose value nothing reads. *)
Assessed(faults, openWire) ==
  IF faults = 0 /\ ~openWire THEN "GOOD"
  ELSE IF faults <= 3 THEN "UNCERTAIN" ELSE "BAD"

process_input(c, counts) ==
  IF ~c.enabled THEN c
  ELSE LET current == RawCurrent(counts)
           watched == c.signal \in CurrentSignals
           open    == watched /\ detect_open_wire(current)
           over    == watched /\ ~open /\ detect_overrange(current)
           faults  == IF open THEN c.faults + 1
                      ELSE IF watched /\ ~over THEN 0 ELSE c.faults
           wire    == IF open THEN TRUE
                      ELSE IF watched /\ ~over THEN FALSE ELSE c.openWire
       IN [c EXCEPT !.counts = counts, !.faults = faults, !.openWire = wire,
                    !.overrange = IF over THEN TRUE
                                  ELSE IF watched /\ ~open THEN FALSE ELSE @,
                    !.quality = Assessed(faults, wire)]

-----------------------------------------------------------------------------
channel_init(signal) ==
  [signal |-> signal, enabled |-> TRUE, quality |-> "BAD", counts |-> 0,
   openWire |-> FALSE, overrange |-> FALSE, faults |-> 0]

module_init(enabledCount) ==
  [state |-> "ONLINE", enabledCount |-> enabledCount, scans |-> 0, errors |-> 0]

(* The application declares the channels in use; nothing counts them. *)
IoInit ==
  /\ channel \in {[c \in EcsChannels |-> channel_init(kind[c])] :
                    kind \in [EcsChannels -> {"AI_4_20MA", "AI_0_10V"}]}
  /\ \E n \in {0, Cardinality(EcsChannels)} : ioModule = module_init(n)
  /\ reading = [raw |-> 0, span |-> FullScale]

(* The state of the module after a scan in which `failed` channels are bad.*)
StateAfterScan(failed, enabledCount) ==
  IF failed = 0 THEN "ONLINE"
  ELSE IF failed < enabledCount THEN "DEGRADED" ELSE "FAULT"

(* num_values may be smaller than the number of channels: the first ones *)
(* are scanned and the others keep what they had. *)
ModuleScan ==
  /\ ioModule.state \in {"ONLINE", "DEGRADED"}
  /\ ioModule.scans < MaxScans
  /\ \E n \in 1 .. Cardinality(EcsChannels), values \in [EcsChannels -> Counts] :
       LET scanned == {c \in EcsChannels : c < n /\ channel[c].enabled}
           after   == [c \in EcsChannels |-> IF c \in scanned
                                          THEN process_input(channel[c], values[c])
                                          ELSE channel[c]]
           failed  == Cardinality({c \in scanned : after[c].quality = "BAD"})
           state   == StateAfterScan(failed, ioModule.enabledCount)
       IN /\ channel' = after
          /\ ioModule' = [ioModule EXCEPT
                !.state = state, !.scans = @ + 1,
                !.errors = IF state = "FAULT" THEN @ + 1 ELSE @]
  /\ UNCHANGED reading

SetEnabled ==
  /\ \E c \in EcsChannels, on \in BOOLEAN :
       channel' = [channel EXCEPT ![c].enabled = on]
  /\ UNCHANGED <<ioModule, reading>>

(* ecs700_io_set_output: clamp to the range, scale, round to the nearest. *)
Clamp(x, lo, hi) == IF x < lo THEN lo ELSE IF x > hi THEN hi ELSE x
OutputCounts(eu, lo, hi) ==
  IF hi > lo THEN (2 * (Clamp(eu, lo, hi) - lo) * FullScale + (hi - lo)) \div (2 * (hi - lo))
  ELSE 0

SetOutput ==
  /\ \E c \in EcsChannels, eu \in {0, 7, 13} :
       /\ channel[c].enabled
       /\ channel' = [channel EXCEPT ![c].counts = OutputCounts(eu, 2, 10)]
  /\ UNCHANGED <<ioModule, reading>>

module_fault_count ==
  Cardinality({c \in EcsChannels : channel[c].enabled /\ channel[c].quality = "BAD"})

(* The conversions are functions: somebody reads another count. *)
Convert ==
  /\ reading' \in [raw : 0 .. FullScale, span : {1, 7, FullScale, 2 * FullScale + 3}]
  /\ UNCHANGED <<channel, ioModule>>

IoNext == ModuleScan \/ SetEnabled \/ SetOutput

-----------------------------------------------------------------------------
(* Conversions.  A range is [rawLo, rawHi, euLo, euHi]. *)
raw_to_eu(raw, r) ==
  IF r.rawLo >= r.rawHi THEN r.euLo
  ELSE r.euLo + ((Clamp(raw, r.rawLo, r.rawHi) - r.rawLo) * (r.euHi - r.euLo))
                \div (r.rawHi - r.rawLo)
eu_to_raw(eu, r) ==
  IF r.euLo >= r.euHi THEN Clamp(r.rawLo, 0, FullScale)
  ELSE Clamp(r.rawLo + (2 * (Clamp(eu, r.euLo, r.euHi) - r.euLo) * (r.rawHi - r.rawLo)
                        + (r.euHi - r.euLo)) \div (2 * (r.euHi - r.euLo)),
             0, FullScale)

(* ecs700_io_sqrt_extract, in whole percent: its linear region below 0.1 % *)
(* of differential pressure is not reached. *)
Root(n) == CHOOSE r \in 0 .. n : r * r <= n /\ (r + 1) * (r + 1) > n
sqrt_extract(dp, cutOff) == IF dp <= 0 \/ dp < cutOff THEN 0 ELSE Root(100 * dp)

(* ecs700_io_eu_to_transmitter_ma in hundredths of a milliampere. *)
eu_to_transmitter(eu, lo, hi) ==
  IF hi <= lo THEN 400
  ELSE IF 1000 * (eu - lo) < -25 * (hi - lo) THEN 360
  ELSE IF 1000 * (eu - lo) > 1025 * (hi - lo) THEN 2100
  ELSE 400 + (1600 * (eu - lo)) \div (hi - lo)

(* The low-pass filter of both files: alpha = sample / (sample + tc). *)
signal_filter(new, old, sample, tc) ==
  IF sample <= 0 \/ tc <= 0 THEN new
  ELSE (sample * new + tc * old) \div (sample + tc)

(* ecs700_compute_pv_rate. *)
pv_rate(now, before, dt, deadband) ==
  LET delta == now - before
  IN IF dt <= 0 \/ (delta < deadband /\ -delta < deadband) THEN 0 ELSE delta \div dt

(* ecs700_io_cjc_compensate, coefficients in tenths of a microvolt per *)
(* degree, the voltage in microvolts. *)
Seebeck == <<406, 517, 409, 609, 262, 58, 54, 2>>
cjc_compensate(microvolts, cold, type) ==
  IF type \notin 0 .. 7 THEN cold
  ELSE (10 * microvolts + Seebeck[type + 1] * cold) \div Seebeck[type + 1]

-----------------------------------------------------------------------------
(* The state of channels and module is well formed. *)
IoTypeOK == channel \in [EcsChannels -> ChannelType] /\ ioModule \in ModuleType
            /\ reading.raw \in 0 .. FullScale

(* A conversion must keep the order of the counts it is given, and writing *)
(* back what was read must return the count (eu_to_raw and raw_to_eu of *)
(* ecs700_system_core.c:294, 322; ranges whose raw_lo is not negative). *)
ConversionsAgree ==
  LET r == [rawLo |-> 0, rawHi |-> FullScale, euLo |-> -20, euHi |-> -20 + reading.span]
      eu == raw_to_eu(reading.raw, r)
  IN /\ reading.span >= FullScale => eu_to_raw(eu, r) = reading.raw
     /\ reading.raw < FullScale => eu <= raw_to_eu(reading.raw + 1, r)
     /\ sqrt_extract(reading.raw, 2) <= sqrt_extract(reading.raw + 1, 2)
     /\ detect_open_wire(eu_to_transmitter(eu, r.euLo, r.euHi) \div 10) => eu < r.euLo
=============================================================================
