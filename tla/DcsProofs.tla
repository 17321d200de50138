----------------------------- MODULE DcsProofs ------------------------------
(***************************************************************************)
(* Theorems about the generic DCS of mini-dcs-system-architecture, for any *)
(* set of alarms, tables of any size, any recipe, any time-out and ramp, *)
(* any figures of a design. *)
(***************************************************************************)
EXTENDS FieldProofs

-----------------------------------------------------------------------------
(* Quotients of natural numbers. *)

LEMMA QuotientIsNat ==
  ASSUME NEW a \in Nat, NEW b \in Nat \ {0}
  PROVE  a \div b \in Nat
OBVIOUS

LEMMA QuotientBelow ==
  ASSUME NEW a \in Nat, NEW b \in Nat \ {0}, NEW c \in Nat, a <= c * b
  PROVE  a \div b <= c
<1> DEFINE q == a \div b
<1>1. q \in Nat /\ q * b <= a
  OBVIOUS
<1> HIDE DEF q
<1>2. ASSUME q > c PROVE FALSE
  <2>1. q >= c + 1
    BY <1>1, <1>2
  <2>2. q * b >= (c + 1) * b
    BY <1>1, <2>1
  <2>3. (c + 1) * b = c * b + b
    OBVIOUS
  <2> QED BY <1>1, <2>2, <2>3
<1> QED BY <1>1, <1>2 DEF q

-----------------------------------------------------------------------------
(* The redundant pair and its ramp. *)

PairInv == DcsPairTypeOK /\ FlagMeansResynced

LEMMA PairNumbers ==
  /\ Span \in Nat \ {0} /\ MaxStepPct \in Nat /\ RampTime \in Nat /\ Outputs \subseteq Nat
  /\ ScanSeconds \subseteq Nat \ {0} /\ MaxSwitchovers \in Nat
BY DcsPairAssumption

LEMMA PairStarts == DcsPairInit => PairInv
<1> SUFFICES ASSUME DcsPairInit PROVE PairInv
  OBVIOUS
<1>1. PICK mode \in RedundancyModes : pair = dcs_redundancy_init(mode)
  BY DEF DcsPairInit
<1>2. pair.sync_completeness \in 0 .. Whole /\ 0 \in 0 .. MaxSwitchovers
  BY <1>1, PairNumbers DEF dcs_redundancy_init, Whole
<1>3. ramp \in [output : Nat, target : Outputs, arrived : BOOLEAN]
  BY PairNumbers DEF DcsPairInit
<1>4. DcsPairTypeOK
  BY <1>1, <1>2, <1>3 DEF DcsPairTypeOK, dcs_redundancy_init
<1>5. FlagMeansResynced
  <2>1. CASE mode = "HOT_STANDBY"
    BY <1>1, <2>1
    DEF FlagMeansResynced, dcs_redundancy_init, dcs_redundancy_standby_ready, Whole, Enough
  <2>2. CASE mode # "HOT_STANDBY"
    BY <1>1, <2>2 DEF FlagMeansResynced, dcs_redundancy_init
  <2> QED BY <2>1, <2>2
<1> QED BY <1>4, <1>5 DEF PairInv

LEMMA SyncStepIs ==
  ASSUME NEW r \in 1 .. Whole
  PROVE  sync_step(r) \in Nat
<1>1. (r * 15) \div 100 \in Nat /\ 100 \in Int
  BY DEF Whole
<1> QED BY <1>1, MaxOfTwo DEF sync_step

LEMMA MaxStepIs ==
  ASSUME NEW dt \in ScanSeconds
  PROVE  max_step(dt) \in Nat
<1> DEFINE a == MaxStepPct * Span * dt
           b == 100 * (IF RampTime > 0 THEN RampTime ELSE 1)
<1>1. a \in Nat
  BY PairNumbers
<1>2. b \in Nat \ {0}
  BY PairNumbers
<1>3. max_step(dt) = a \div b
  BY DEF max_step
<1> HIDE DEF a, b
<1> QED BY <1>1, <1>2, <1>3, QuotientIsNat

(* A step goes towards the target, not beyond it, and not too far. *)
RampGoes(dt) ==
  LET moved == ramp'.output - ramp.output
      left  == ramp.target - ramp.output
  IN  /\ moved \in -max_step(dt) .. max_step(dt) \/ moved * 1000 \in -Span .. Span
      /\ IF left >= 0 THEN moved \in 0 .. left ELSE moved \in left .. 0
      /\ ramp'.arrived => ramp'.output = ramp'.target
      /\ ramp' \in [output : Nat, target : Outputs, arrived : BOOLEAN]

LEMMA RampStepIs ==
  ASSUME DcsPairTypeOK, NEW dt \in ScanSeconds, dcs_bumpless_transfer_step(dt)
  PROVE  RampGoes(dt)
<1> DEFINE out  == ramp.output
           goal == ramp.target
           diff == goal - out
           most == max_step(dt)
           step == ramp_step(diff, dt)
           near == Max({diff, -diff}) * 1000 < Span
           to   == IF near THEN goal ELSE out + step
           done == near \/ (step > 0 /\ to >= goal) \/ (step < 0 /\ to <= goal)
<1>1. out \in Nat /\ goal \in Nat /\ goal \in Outputs /\ diff \in Int /\ Span \in Nat
  <2>1. out \in Nat /\ goal \in Outputs
    BY DEF DcsPairTypeOK
  <2> HIDE DEF out, goal
  <2>2. goal \in Nat /\ Span \in Nat
    BY <2>1, PairNumbers
  <2> QED BY <2>1, <2>2
<1>2. most \in Nat
  BY MaxStepIs
<1>3. /\ Max({diff, -diff}) = IF diff >= -diff THEN diff ELSE -diff
      /\ Min({diff, most}) = IF diff <= most THEN diff ELSE most
      /\ Max({diff, -most}) = IF diff >= -most THEN diff ELSE -most
  <2> HIDE DEF diff, most
  <2>1. -diff \in Int /\ -most \in Int
    BY <1>1, <1>2
  <2> QED BY <1>1, <1>2, <2>1, MaxOfTwo, MinOfTwo
<1>4. step = IF diff > 0 THEN Min({diff, most}) ELSE Max({diff, -most})
  BY DEF ramp_step
<1>5. ramp' = [ramp EXCEPT !.output = to, !.arrived = done]
  BY ZenonT(30) DEF dcs_bumpless_transfer_step
<1> HIDE DEF step, most
<1>6. /\ step \in Int
      /\ diff >= 0 => step \in 0 .. diff
      /\ diff < 0 => step \in diff .. 0
      /\ step \in -most .. most
  BY <1>1, <1>2, <1>3, <1>4
<1>7. near <=> diff * 1000 < Span /\ -diff * 1000 < Span
  <2> HIDE DEF diff
  <2> QED BY <1>1, <1>3
<1> HIDE DEF near
<1>8. to \in Nat /\ done \in BOOLEAN
  BY <1>1, <1>6
<1>9. done => to = goal
  BY <1>1, <1>6
<1>10. /\ to - out \in -most .. most \/ (to - out) * 1000 \in -Span .. Span
       /\ IF diff >= 0 THEN to - out \in 0 .. diff ELSE to - out \in diff .. 0
  <2>1. CASE near
    <3>1. to = goal
      BY <2>1
    <3>2. diff * 1000 \in -Span .. Span
      BY <1>1, <1>7, <2>1
    <3> QED BY <1>1, <3>1, <3>2
  <2>2. CASE ~near
    <3>1. to - out = step
      BY <1>1, <1>6, <2>2
    <3> HIDE DEF to, diff, out, goal
    <3>2. diff \in Int /\ step \in Int
      BY <1>1, <1>6
    <3> QED BY <1>6, <3>1, <3>2
  <2> QED BY <2>1, <2>2
<1> HIDE DEF to, done
<1>11. ramp' = [output |-> to, target |-> goal, arrived |-> done]
  BY <1>5 DEF DcsPairTypeOK
<1> QED BY <1>1, <1>8, <1>9, <1>10, <1>11 DEF RampGoes, most

LEMMA PairKept ==
  ASSUME PairInv, DcsPairNext
  PROVE  PairInv'
<1>1. DcsPairTypeOK /\ FlagMeansResynced
  BY DEF PairInv
<1>2. ASSUME NEW t \in Triggers, NEW h \in {"absent", "healthy", "failed"},
             dcs_redundancy_switchover(t, h)
      PROVE  PairInv'
  <2>1. pair.switchover_count + 1 \in 0 .. MaxSwitchovers
    BY <1>1, <1>2, PairNumbers DEF dcs_redundancy_switchover, DcsPairTypeOK
  <2>2. pair' = [mode |-> pair.mode, primary |-> pair.standby, standby |-> pair.primary,
                 standby_ready |-> FALSE, sync_completeness |-> pair.sync_completeness,
                 switchover_count |-> pair.switchover_count + 1, resynced |-> FALSE]
    BY <1>1, <1>2 DEF dcs_redundancy_switchover, Swapped, DcsPairTypeOK
  <2>3. ramp' \in [output : Nat, target : Outputs, arrived : BOOLEAN]
    BY <1>1, <1>2 DEF dcs_redundancy_switchover, DcsPairTypeOK
  <2> QED BY <1>1, <2>1, <2>2, <2>3 DEF PairInv, DcsPairTypeOK, FlagMeansResynced
<1>3. ASSUME dcs_redundancy_synchronize PROVE PairInv'
  <2> DEFINE c == pair.sync_completeness
             r == Whole - c
             synced == IF r > 0 THEN Min({c + sync_step(r), Whole}) ELSE c
  <2>1. c \in 0 .. Whole /\ r \in 0 .. Whole /\ Whole \in Int
    <3>1. c \in 0 .. Whole
      BY <1>1 DEF DcsPairTypeOK
    <3>2. Whole \in Nat
      BY DEF Whole
    <3> HIDE DEF c, synced
    <3> QED BY <3>1, <3>2
  <2>2. synced \in c .. Whole
    <3>1. CASE r > 0
      <4>1. sync_step(r) \in Nat
        BY <2>1, <3>1, SyncStepIs
      <4> DEFINE x == c + sync_step(r)
      <4>2. x \in Int /\ x >= c
        BY <2>1, <4>1
      <4> HIDE DEF x
      <4>3. Min({x, Whole}) = IF x <= Whole THEN x ELSE Whole
        BY <2>1, <4>2, MinOfTwo
      <4>4. synced = Min({x, Whole})
        BY <3>1 DEF x
      <4> HIDE DEF synced
      <4> QED BY <2>1, <4>2, <4>3, <4>4
    <3>2. CASE ~(r > 0)
      BY <2>1, <3>2
    <3> QED BY <3>1, <3>2
  <2>3. /\ pair' = [pair EXCEPT !.sync_completeness = synced,
                                !.standby_ready = @ \/ synced >= Enough,
                                !.resynced = TRUE]
        /\ ramp' = ramp
    BY <1>3, Zenon DEF dcs_redundancy_synchronize, dcsPair
  <2> HIDE DEF synced, c
  <2>4. synced \in 0 .. Whole /\ (c >= Enough => synced >= Enough)
    BY <2>1, <2>2 DEF Enough
  <2>5. pair.standby_ready => c >= Enough
    BY <1>1 DEF FlagMeansResynced, dcs_redundancy_standby_ready, c
  <2>6. DcsPairTypeOK'
    BY <1>1, <2>3, <2>4 DEF DcsPairTypeOK
  <2>7. /\ pair'.sync_completeness = synced /\ pair'.resynced
        /\ pair'.standby_ready => synced >= Enough
    BY <1>1, <2>3, <2>4, <2>5 DEF DcsPairTypeOK
  <2> QED BY <2>6, <2>7 DEF PairInv, FlagMeansResynced, dcs_redundancy_standby_ready
<1>4. ASSUME NEW dt \in ScanSeconds, dcs_bumpless_transfer_step(dt) PROVE PairInv'
  <2>1. ramp' \in [output : Nat, target : Outputs, arrived : BOOLEAN]
    BY <1>1, <1>4, RampStepIs DEF RampGoes
  <2>2. pair' = pair
    BY <1>4 DEF dcs_bumpless_transfer_step
  <2> QED BY <1>1, <2>1, <2>2 DEF PairInv, DcsPairTypeOK, FlagMeansResynced
<1> QED BY <1>2, <1>3, <1>4 DEF DcsPairNext

(* No scan of the output goes too far, and no other step moves it. *)
RampStep ==
  /\ ramp'.target = ramp.target =>
       LET moved == ramp'.output - ramp.output
           left  == ramp.target - ramp.output
       IN  /\ \/ \E dt \in ScanSeconds : moved \in -max_step(dt) .. max_step(dt)
              \/ moved * 1000 \in -Span .. Span
           /\ IF left >= 0 THEN moved \in 0 .. left ELSE moved \in left .. 0
  /\ ramp'.arrived => ramp'.output = ramp'.target

LEMMA RampIsKept ==
  ASSUME PairInv, DcsPairNext, ramp' # ramp
  PROVE  RampStep
<1>1. DcsPairTypeOK
  BY DEF PairInv
<1>2. ASSUME NEW t \in Triggers, NEW h \in {"absent", "healthy", "failed"},
             dcs_redundancy_switchover(t, h)
      PROVE  RampStep
  <2>1. ramp'.output = ramp.output /\ ramp'.arrived = FALSE
    BY <1>1, <1>2 DEF dcs_redundancy_switchover, DcsPairTypeOK
  <2>2. ramp.output \in Nat /\ ramp.target \in Nat /\ Span \in Nat
    BY <1>1, PairNumbers DEF DcsPairTypeOK
  <2>3. ramp'.output - ramp.output = 0 /\ 0 * 1000 \in -Span .. Span
    BY <2>1, <2>2
  <2> QED BY <2>1, <2>2, <2>3 DEF RampStep
<1>3. ASSUME NEW dt \in ScanSeconds, dcs_bumpless_transfer_step(dt) PROVE RampStep
  BY <1>1, <1>3, RampStepIs DEF RampGoes, RampStep
<1>4. CASE dcs_redundancy_synchronize
  BY <1>4 DEF dcs_redundancy_synchronize
<1> QED BY <1>2, <1>3, <1>4 DEF DcsPairNext

-----------------------------------------------------------------------------
(* The watchdog, the window of scan times and the schedule. *)

ScanInv ==
  /\ ScanTypeOK
  /\ quiet = wd.elapsed
  /\ wd.expired <=> wd.elapsed >= Timeout

LEMMA ScanNumbers ==
  /\ Timeout \in Nat \ {0} /\ Ticks \subseteq Nat /\ ScanPeriod \in Nat \ {0}
  /\ ScanTimes \subseteq Nat /\ TaskTimes \subseteq Nat \ {0} /\ TaskPeriods \subseteq Nat
BY ScanAssumption

LEMMA ScanStarts == ScanInit => ScanInv
BY ScanNumbers, EmptySeq DEF ScanInit, ScanInv, ScanTypeOK, dcs_watchdog_init

LEMMA WatchdogKept ==
  ASSUME ScanInv, WatchdogNext
  PROVE  ScanInv'
<1>1. /\ wd \in [elapsed : Nat, expired : BOOLEAN] /\ quiet \in Nat
      /\ window \in Seq(ScanTimes) /\ tasks \in Seq(Task)
      /\ quiet = wd.elapsed
  BY DEF ScanInv, ScanTypeOK
<1>2. CASE dcs_watchdog_reset
  <2>1. wd' = [elapsed |-> 0, expired |-> FALSE] /\ quiet' = 0
    BY <1>1, <1>2 DEF dcs_watchdog_reset
  <2>2. window' = window /\ tasks' = tasks
    BY <1>2 DEF dcs_watchdog_reset
  <2> QED BY <1>1, <2>1, <2>2, ScanNumbers DEF ScanInv, ScanTypeOK
<1>3. ASSUME NEW dt \in Ticks, dcs_watchdog_tick(dt) PROVE ScanInv'
  <2> DEFINE late == wd.elapsed + dt >= Timeout
  <2>1. dt \in Nat /\ wd.elapsed + dt \in Nat /\ Timeout \in Nat
    BY <1>1, ScanNumbers
  <2>2. wd' = [elapsed |-> wd.elapsed + dt, expired |-> wd.expired \/ late]
    BY <1>1, <1>3 DEF dcs_watchdog_tick, TimedOut
  <2>3. wd.expired => late
    BY <1>1, <2>1 DEF ScanInv
  <2>4. (wd.expired \/ late) = late
    <3> HIDE DEF late
    <3>1. late \in BOOLEAN /\ wd.expired \in BOOLEAN
      BY <1>1 DEF late
    <3> QED BY <2>3, <3>1
  <2>5. quiet' = wd.elapsed + dt /\ window' = window /\ tasks' = tasks
    BY <1>1, <1>3 DEF dcs_watchdog_tick
  <2>6. wd'.elapsed = wd.elapsed + dt /\ wd'.expired = late
    BY <2>2, <2>4
  <2>7. wd' \in [elapsed : Nat, expired : BOOLEAN]
    BY <2>1, <2>2, <2>4
  <2> QED BY <1>1, <2>1, <2>5, <2>6, <2>7 DEF ScanInv, ScanTypeOK
<1> QED BY <1>2, <1>3 DEF WatchdogNext

LEMMA WindowKept ==
  ASSUME ScanInv, WindowNext
  PROVE  ScanInv'
<1>1. PICK time \in ScanTimes : Measured(time)
  BY DEF WindowNext
<1>2. window' \in Seq(ScanTimes)
  BY <1>1, AppendProperties DEF ScanInv, ScanTypeOK, Measured
<1> QED BY <1>1, <1>2 DEF ScanInv, ScanTypeOK, Measured

LEMMA ScheduleKept ==
  ASSUME ScanInv, ScheduleNext
  PROVE  ScanInv'
<1>1. PICK t \in Task : AddTask(t)
  BY DEF ScheduleNext
<1>2. tasks' \in Seq(Task)
  BY <1>1, AppendProperties DEF ScanInv, ScanTypeOK, AddTask
<1> QED BY <1>1, <1>2 DEF ScanInv, ScanTypeOK, AddTask

(* Fewer than one in a thousand, of a thousand at most, is none. *)
LEMMA HealthyIsInTime ==
  ASSUME ScanInv, window # << >>, Len(window) <= 1000, scan_healthy
  PROVE  Max(Range(window)) <= ScanPeriod
<1> DEFINE n == Len(window)
           late == {i \in DOMAIN window : window[i] > ScanPeriod}
<1>0. n \in Nat /\ 1 <= n /\ n <= 1000 /\ 1 \in Int
  <2>1. window \in Seq(ScanTimes)
    BY DEF ScanInv, ScanTypeOK
  <2>2. n \in Nat
    BY <2>1, LenProperties
  <2>3. n # 0
    BY <2>1, EmptySeq
  <2> QED BY <2>2, <2>3
<1>1. DOMAIN window = 1 .. n /\ \A i \in 1 .. n : window[i] \in ScanTimes
  BY LenProperties, ElementOfSeq DEF ScanInv, ScanTypeOK
<1> HIDE DEF n
<1>2. late \in SUBSET (1 .. n) /\ IsFiniteSet(1 .. n)
  BY <1>0, <1>1, FS_Interval
<1>3. IsFiniteSet(late) /\ Cardinality(late) \in Nat
  <2> HIDE DEF late
  <2> QED BY <1>2, FS_Subset, FS_CardinalityType
<1>4. 1000 * Cardinality(late) < n
  BY DEF scan_healthy, overrun_count, n
<1>5. late = {}
  <2>1. Cardinality(late) = 0
    <3> HIDE DEF late
    <3> QED BY <1>0, <1>3, <1>4
  <2> HIDE DEF late
  <2> QED BY <1>3, <2>1, FS_EmptySet
<1>6. \A i \in 1 .. n : window[i] \in 0 .. ScanPeriod
  <2>1. ASSUME NEW i \in 1 .. n PROVE window[i] \in 0 .. ScanPeriod
    <3>1. window[i] \in Nat /\ ~ (window[i] > ScanPeriod)
      BY <1>1, <1>5, <2>1, ScanNumbers
    <3> QED BY <3>1, ScanNumbers
  <2> QED BY <2>1
<1> DEFINE T == Range(window)
<1>7. T \subseteq 0 .. ScanPeriod /\ T # {}
  <2>1. 1 \in 1 .. n
    BY <1>0
  <2> QED BY <1>1, <1>6, <2>1 DEF Range
<1> HIDE DEF T
<1>8. Max(T) \in T
  BY <1>7, ScanNumbers, MaxOfSome
<1>9. Max(T) \in 0 .. ScanPeriod
  BY <1>7, <1>8
<1>10. Max(T) <= ScanPeriod
  BY <1>9, ScanNumbers
<1> QED BY <1>10 DEF T

LEMMA ScanInvSuffices ==
  ASSUME ScanInv
  PROVE  ScanTypeOK /\ WatchdogBites
<1>1. (quiet >= Timeout => wd.expired) /\ (wd.expired => wd.elapsed >= Timeout)
  BY DEF ScanInv
<1> QED BY <1>1, HealthyIsInTime DEF ScanInv, WatchdogBites

-----------------------------------------------------------------------------
(* Alarms: their states, the shared filter, the flood. *)

StateInv ==
  /\ alarm \in [DcsAlarms -> DcsAlarmState] /\ raised \in [DcsAlarms -> BOOLEAN]
  /\ owed \subseteq DcsAlarms /\ dropped \subseteq owed
  /\ \A a \in DcsAlarms :
       /\ a \in owed \ dropped => alarm[a] \in {"UNACK_ACTIVE", "UNACK_CLEAR", "SHELVED"}
       /\ a \in dropped => alarm[a] \in {"NORMAL", "SUPPRESSED", "OUT_OF_SVC"}
       /\ alarm[a] \in {"ACK_CLEAR", "UNACK_CLEAR"} => ~raised[a]

(* As long as one alarm alone used the filter its timer is that alarm's. *)
FilterInv ==
  /\ filter \in [above : 0 .. MaxSeconds, below : 0 .. MaxSeconds, was_active : BOOLEAN]
  /\ own \in [DcsAlarms -> 0 .. MaxSeconds] /\ users \subseteq DcsAlarms
  /\ \A a \in DcsAlarms : users \subseteq {a} => own[a] = filter.above

BurstInv ==
  /\ burst \in Seq(0 .. MaxTime)
  /\ \A i, j \in 1 .. Len(burst) : i <= j => burst[i] <= burst[j]

LEMMA AlarmNumbers ==
  /\ IsFiniteSet(DcsAlarms) /\ MaxSeconds \in Nat /\ MaxTime \in Nat
  /\ OnDelay \in [DcsAlarms -> Nat] /\ OffDelay \in [DcsAlarms -> Nat]
  /\ FloodWindow \in Nat \ {0} /\ FloodThreshold \in Nat \ {0}
BY DcsAlarmAssumption

LEMMA AlarmsStart == DcsAlarmInit => StateInv /\ FilterInv /\ BurstInv
<1> SUFFICES ASSUME DcsAlarmInit PROVE StateInv /\ FilterInv /\ BurstInv
  OBVIOUS
<1>1. StateInv
  BY DEF DcsAlarmInit, StateInv, DcsAlarmState
<1>2. FilterInv
  BY AlarmNumbers DEF DcsAlarmInit, FilterInv
<1>3. BurstInv
  BY EmptySeq DEF DcsAlarmInit, BurstInv
<1> QED BY <1>1, <1>2, <1>3

LEMMA AfterValueIs ==
  ASSUME NEW s \in DcsAlarmState, NEW active \in BOOLEAN
  PROVE  /\ AfterValue(s, active) \in DcsAlarmState
         /\ AfterValue(s, active) \in {"ACK_CLEAR", "UNACK_CLEAR"} => ~active
         /\ s \in {"UNACK_ACTIVE", "UNACK_CLEAR", "SHELVED"} =>
              AfterValue(s, active) \in {"UNACK_ACTIVE", "UNACK_CLEAR", "SHELVED"}
         /\ s \in {"NORMAL", "SUPPRESSED", "OUT_OF_SVC"} =>
              AfterValue(s, active) \in {s, "UNACK_ACTIVE"}
<1>1. CASE active
  BY <1>1 DEF AfterValue, DcsAlarmState
<1>2. CASE ~active
  BY <1>2 DEF AfterValue, DcsAlarmState
<1> QED BY <1>1, <1>2

LEMMA StateKept ==
  ASSUME StateInv, StateNext
  PROVE  StateInv'
<1>0. /\ alarm \in [DcsAlarms -> DcsAlarmState] /\ raised \in [DcsAlarms -> BOOLEAN]
      /\ owed \subseteq DcsAlarms /\ dropped \subseteq owed
  BY DEF StateInv
<1>1. ASSUME NEW a \in DcsAlarms, NEW active \in BOOLEAN, dcs_alarm_process(a, active)
      PROVE  StateInv'
  <2> DEFINE after == AfterValue(alarm[a], active)
  <2>1. /\ after \in DcsAlarmState
        /\ after \in {"ACK_CLEAR", "UNACK_CLEAR"} => ~active
        /\ alarm[a] \in {"UNACK_ACTIVE", "UNACK_CLEAR", "SHELVED"} =>
             after \in {"UNACK_ACTIVE", "UNACK_CLEAR", "SHELVED"}
        /\ alarm[a] \in {"NORMAL", "SUPPRESSED", "OUT_OF_SVC"} => after \in {alarm[a], "UNACK_ACTIVE"}
    BY <1>0, AfterValueIs
  <2>2. /\ alarm' = [alarm EXCEPT ![a] = after]
        /\ raised' = [raised EXCEPT ![a] = active]
        /\ IF alarm'[a] = "UNACK_ACTIVE"
           THEN owed' = owed \cup {a} /\ dropped' = dropped \ {a}
           ELSE owed' = owed /\ dropped' = dropped
    BY <1>1 DEF dcs_alarm_process
  <2> HIDE DEF after
  <2>3. alarm' \in [DcsAlarms -> DcsAlarmState] /\ raised' \in [DcsAlarms -> BOOLEAN]
    BY <1>0, <2>1, <2>2
  <2>4. alarm'[a] = after /\ raised'[a] = active
    BY <1>0, <2>2
  <2>5. \A b \in DcsAlarms : b # a => /\ alarm'[b] = alarm[b] /\ raised'[b] = raised[b]
                                      /\ b \in owed' <=> b \in owed
                                      /\ b \in dropped' <=> b \in dropped
    BY <1>0, <2>2
  <2>6. owed' \subseteq DcsAlarms /\ dropped' \subseteq owed'
    BY <1>0, <2>2
  <2>7. /\ a \in owed' \ dropped' => after \in {"UNACK_ACTIVE", "UNACK_CLEAR", "SHELVED"}
        /\ a \in dropped' => after \in {"NORMAL", "SUPPRESSED", "OUT_OF_SVC"}
    <3>1. CASE after = "UNACK_ACTIVE"
      BY <2>2, <2>4, <3>1
    <3>2. CASE after # "UNACK_ACTIVE"
      BY <2>1, <2>2, <2>4, <3>2 DEF StateInv
    <3> QED BY <3>1, <3>2
  <2> QED BY <1>0, <2>1, <2>3, <2>4, <2>5, <2>6, <2>7 DEF StateInv
<1>2. ASSUME NEW a \in DcsAlarms, dcs_alarm_acknowledge(a) PROVE StateInv'
  <2>1. /\ alarm' = [alarm EXCEPT ![a] = Acknowledged[alarm[a]]]
        /\ owed' = owed \ {a} /\ raised' = raised /\ dropped' = dropped
        /\ alarm[a] \in {"UNACK_ACTIVE", "UNACK_CLEAR"}
    BY <1>2 DEF dcs_alarm_acknowledge, Acknowledged
  <2>2. /\ Acknowledged[alarm[a]] \in DcsAlarmState
        /\ Acknowledged[alarm[a]] \in {"ACK_CLEAR", "UNACK_CLEAR"} => alarm[a] = "UNACK_CLEAR"
    BY <2>1 DEF Acknowledged, DcsAlarmState
  <2>3. alarm' \in [DcsAlarms -> DcsAlarmState] /\ alarm'[a] = Acknowledged[alarm[a]]
    BY <1>0, <2>1, <2>2
  <2>4. \A b \in DcsAlarms : b # a => alarm'[b] = alarm[b]
    BY <1>0, <2>1
  <2>5. a \notin dropped
    BY <2>1 DEF StateInv
  <2> QED BY <1>0, <2>1, <2>2, <2>3, <2>4, <2>5 DEF StateInv
<1>3. ASSUME NEW a \in DcsAlarms, dcs_alarm_shelve(a) PROVE StateInv'
  BY <1>0, <1>3 DEF dcs_alarm_shelve, StateInv, DcsAlarmState
<1>4. ASSUME NEW a \in DcsAlarms, dcs_alarm_check_unshelve(a) PROVE StateInv'
  BY <1>0, <1>4 DEF dcs_alarm_check_unshelve, StateInv, DcsAlarmState
<1>5. ASSUME NEW a \in DcsAlarms, Service(a) PROVE StateInv'
  BY <1>0, <1>5 DEF Service, StateInv, DcsAlarmState
<1> QED BY <1>1, <1>2, <1>3, <1>4, <1>5 DEF StateNext

LEMMA CountedIs ==
  ASSUME NEW n \in Nat
  PROVE  Counted(n) \in 0 .. MaxSeconds /\ (Counted(n) = IF n <= MaxSeconds THEN n ELSE MaxSeconds)
<1>1. n \in Int /\ MaxSeconds \in Int /\ MaxSeconds \in Nat
  BY AlarmNumbers
<1>2. Counted(n) = IF n <= MaxSeconds THEN n ELSE MaxSeconds
  BY <1>1, MinOfTwo DEF Counted
<1> QED BY <1>1, <1>2

LEMMA FilterKept ==
  ASSUME FilterInv, FilterNext
  PROVE  /\ FilterInv'
         /\ \A a \in DcsAlarms : users' = {a} /\ filter'.was_active /\ ~filter.was_active
                                   => own'[a] >= OnDelay[a]
<1>0. /\ filter \in [above : 0 .. MaxSeconds, below : 0 .. MaxSeconds, was_active : BOOLEAN]
      /\ own \in [DcsAlarms -> 0 .. MaxSeconds] /\ users \subseteq DcsAlarms
      /\ \A a \in DcsAlarms : users \subseteq {a} => own[a] = filter.above
  BY DEF FilterInv
<1>1. PICK a \in DcsAlarms, value \in {"above", "between", "below"} :
        dcs_alarm_evaluate_with_hysteresis(a, value)
  BY DEF FilterNext
<1> DEFINE up   == Counted(filter.above + 1)
           down == Counted(filter.below + 1)
           mine == Counted(own[a] + 1)
<1>2. up \in 0 .. MaxSeconds /\ down \in 0 .. MaxSeconds /\ mine \in 0 .. MaxSeconds
  <2>1. filter.above + 1 \in Nat /\ filter.below + 1 \in Nat /\ own[a] + 1 \in Nat
    BY <1>0
  <2> QED BY <2>1, CountedIs
<1>3. users \subseteq {a} => mine = up
  BY <1>0
<1>4. 0 \in 0 .. MaxSeconds
  BY AlarmNumbers
<1>5. users' = users \cup {a}
  BY <1>1 DEF dcs_alarm_evaluate_with_hysteresis
<1>6. /\ filter' = Filtered(a, value)
      /\ own' = [own EXCEPT ![a] = CASE value = "above" -> mine
                                     [] value = "below" -> 0
                                     [] OTHER           -> own[a]]
  BY <1>1 DEF dcs_alarm_evaluate_with_hysteresis
<1>7. OnDelay[a] \in Nat /\ OffDelay[a] \in Nat
  BY AlarmNumbers
<1> DEFINE FilterFits(f, o) ==
      /\ f \in [above : 0 .. MaxSeconds, below : 0 .. MaxSeconds, was_active : BOOLEAN]
      /\ o \in 0 .. MaxSeconds
      /\ users \subseteq {a} => o = f.above
      /\ users \subseteq {a} /\ f.was_active /\ ~filter.was_active => o >= OnDelay[a]
<1>8. FilterFits(filter', own'[a])
  <2>1. CASE value = "above"
    <3>1. filter' = [above |-> up, below |-> 0,
                     was_active |-> filter.was_active \/ up >= OnDelay[a]]
      BY <1>6, <2>1 DEF Filtered
    <3>2. own'[a] = mine
      BY <1>0, <1>6, <2>1
    <3> HIDE DEF up, mine
    <3> DEFINE late == up >= OnDelay[a]
    <3>3. late \in BOOLEAN
      OBVIOUS
    <3> HIDE DEF late
    <3>4. filter'.was_active /\ ~filter.was_active => late
      BY <1>0, <3>1, <3>3 DEF late
    <3>5. filter' \in [above : 0 .. MaxSeconds, below : 0 .. MaxSeconds, was_active : BOOLEAN]
      BY <1>0, <1>2, <1>4, <3>1, <3>3 DEF late
    <3>6. filter'.above = up
      BY <3>1
    <3> QED BY <1>2, <1>3, <3>2, <3>4, <3>5, <3>6 DEF late
  <2>2. CASE value = "below"
    <3>1. filter' = [above |-> 0, below |-> down,
                     was_active |-> filter.was_active /\ down < OffDelay[a]]
      BY <1>6, <2>2 DEF Filtered
    <3>2. own'[a] = 0
      BY <1>0, <1>6, <2>2
    <3> HIDE DEF down
    <3> DEFINE short == down < OffDelay[a]
    <3>3. short \in BOOLEAN
      OBVIOUS
    <3> HIDE DEF short
    <3>4. ~(filter'.was_active /\ ~filter.was_active)
      BY <1>0, <3>1, <3>3 DEF short
    <3>5. filter' \in [above : 0 .. MaxSeconds, below : 0 .. MaxSeconds, was_active : BOOLEAN]
      BY <1>0, <1>2, <1>4, <3>1, <3>3 DEF short
    <3>6. filter'.above = 0
      BY <3>1
    <3> QED BY <1>4, <3>2, <3>4, <3>5, <3>6
  <2>3. CASE value = "between"
    <3>1. filter' = filter
      BY <1>6, <2>3 DEF Filtered
    <3>2. own'[a] = own[a]
      BY <1>0, <1>6, <2>3
    <3> QED BY <1>0, <3>1, <3>2
  <2> QED BY <2>1, <2>2, <2>3
<1>9. own' \in [DcsAlarms -> 0 .. MaxSeconds]
  <2> DEFINE o == CASE value = "above" -> mine [] value = "below" -> 0 [] OTHER -> own[a]
  <2>1. own'[a] = o
    BY <1>0, <1>6
  <2> HIDE DEF o, mine
  <2>2. o \in 0 .. MaxSeconds
    BY <1>8, <2>1
  <2> QED BY <1>0, <1>6, <2>2 DEF o
<1>10. ASSUME NEW b \in DcsAlarms, users' \subseteq {b} PROVE b = a /\ users \subseteq {a}
  BY <1>5, <1>10
<1>11. users' \subseteq DcsAlarms
  BY <1>0, <1>5
<1>12. FilterInv'
  BY <1>8, <1>9, <1>10, <1>11 DEF FilterInv
<1> QED BY <1>8, <1>10, <1>12

LEMMA BurstKept ==
  ASSUME BurstInv, BurstNext
  PROVE  BurstInv'
<1>1. PICK time \in 0 .. MaxTime : Arrives(time)
  BY DEF BurstNext
<1> DEFINE n == Len(burst)
<1>2. /\ burst \in Seq(0 .. MaxTime) /\ n \in Nat
      /\ \A i \in 1 .. n : burst[i] \in 0 .. MaxTime
  BY LenProperties, ElementOfSeq DEF BurstInv
<1>3. /\ burst' = Append(burst, time)
      /\ burst # << >> => time >= burst[n]
  BY <1>1 DEF Arrives
<1>4. /\ burst' \in Seq(0 .. MaxTime) /\ Len(burst') = n + 1
      /\ \A i \in 1 .. n : burst'[i] = burst[i]
      /\ burst'[n + 1] = time
  BY <1>2, <1>3, AppendProperties
<1>5. ASSUME NEW i \in 1 .. n PROVE burst[i] <= time
  <2>1. burst # << >>
    BY <1>2, <1>5, EmptySeq
  <2>2. n \in 1 .. n /\ i <= n
    BY <1>2, <1>5
  <2>3. burst[i] <= burst[n] /\ burst[n] \in 0 .. MaxTime /\ burst[i] \in 0 .. MaxTime
    BY <1>2, <2>2 DEF BurstInv
  <2> QED BY <1>3, <2>1, <2>3
<1> HIDE DEF n
<1>6. ASSUME NEW i \in 1 .. n + 1, NEW j \in 1 .. n + 1, i <= j PROVE burst'[i] <= burst'[j]
  <2>1. CASE j \in 1 .. n
    <3>1. i \in 1 .. n
      BY <1>2, <1>6, <2>1
    <3>2. burst[i] <= burst[j]
      BY <1>6, <2>1, <3>1 DEF BurstInv, n
    <3> QED BY <1>4, <2>1, <3>1, <3>2
  <2>2. CASE j = n + 1 /\ i \in 1 .. n
    BY <1>4, <1>5, <2>2
  <2>3. CASE j = n + 1 /\ i = n + 1
    BY <1>4, <2>3
  <2> QED BY <1>2, <1>6, <2>1, <2>2, <2>3
<1> QED BY <1>4, <1>6 DEF BurstInv

(* A finite set has subsets of every smaller size. *)
LEMMA SubsetOfSize ==
  ASSUME NEW S, IsFiniteSet(S), NEW m \in 0 .. Cardinality(S)
  PROVE  \E T \in SUBSET S : Cardinality(T) = m
<1> DEFINE n == Cardinality(S)
           U == {k \in 0 .. n : \E T \in SUBSET S : Cardinality(T) = n - k}
<1>1. n \in Nat
  BY FS_CardinalityType
<1> HIDE DEF n
<1>2. 0 \in U
  BY <1>1 DEF n
<1>3. ASSUME NEW k \in 0 .. n - 1, k \in U PROVE k + 1 \in U
  <2>1. PICK T \in SUBSET S : Cardinality(T) = n - k
    BY <1>3
  <2>2. IsFiniteSet(T)
    BY FS_Subset
  <2>3. T # {}
    BY <1>1, <1>3, <2>1, FS_EmptySet
  <2>4. PICK x \in T : TRUE
    BY <2>3
  <2>5. Cardinality(T \ {x}) = Cardinality(T) - 1
    BY <2>2, <2>4, FS_RemoveElement
  <2>6. Cardinality(T \ {x}) = n - (k + 1) /\ T \ {x} \in SUBSET S /\ k + 1 \in 0 .. n
    BY <1>1, <1>3, <2>1, <2>5
  <2> QED BY <2>6
<1> HIDE DEF U
<1>4. 0 .. n \subseteq U
  BY <1>1, <1>2, <1>3, SetInduction
<1>5. n - m \in 0 .. n /\ n - (n - m) = m
  BY <1>1 DEF n
<1> QED BY <1>4, <1>5 DEF U

(* A flood is reported exactly when enough alarms came within a window. *)
LEMMA FloodFollows ==
  ASSUME BurstInv
  PROVE  FloodIsExact
<1> DEFINE n == Len(burst)
           starts == {i \in DOMAIN burst : Cardinality(InWindow(i)) >= FloodThreshold}
           Group(S) == /\ Cardinality(S) = FloodThreshold
                       /\ \A i, j \in S : burst[i] - burst[j] <= FloodWindow
<1>1. /\ n \in Nat /\ DOMAIN burst = 1 .. n
      /\ \A i \in 1 .. n : burst[i] \in Nat
      /\ \A i, j \in 1 .. n : i <= j => burst[i] <= burst[j]
  <2>1. burst \in Seq(0 .. MaxTime)
    BY DEF BurstInv
  <2>2. n \in Nat /\ DOMAIN burst = 1 .. n
    BY <2>1, LenProperties
  <2>3. \A i \in 1 .. n : burst[i] \in 0 .. MaxTime
    BY <2>1, ElementOfSeq
  <2> QED BY <2>2, <2>3, AlarmNumbers DEF BurstInv
<1>2. FloodWindow \in Nat /\ FloodThreshold \in Nat /\ FloodThreshold > 0
  BY AlarmNumbers
<1>3. dcs_alarm_detect_flood.flood <=> starts # {}
  BY DEF dcs_alarm_detect_flood
<1> HIDE DEF n
<1>4. \A i \in 1 .. n : InWindow(i) = {j \in i .. n : burst[j] <= burst[i] + FloodWindow}
  BY DEF InWindow, n
<1>5. \A i \in 1 .. n : InWindow(i) \in SUBSET (1 .. n)
  BY <1>1, <1>4
<1>6. IsFiniteSet(1 .. n) /\ \A i \in 1 .. n : IsFiniteSet(InWindow(i)) /\ Cardinality(InWindow(i)) \in Nat
  <2>1. IsFiniteSet(1 .. n)
    <3>1. 1 \in Int /\ n \in Int
      BY <1>1
    <3> QED BY <3>1, FS_Interval
  <2> QED BY <1>5, <2>1, FS_Subset, FS_CardinalityType
<1>7. ASSUME starts # {} PROVE \E S \in SUBSET (1 .. n) : Group(S)
  <2>1. PICK i \in 1 .. n : Cardinality(InWindow(i)) >= FloodThreshold
    BY <1>1, <1>7
  <2>2. FloodThreshold \in 0 .. Cardinality(InWindow(i))
    BY <1>2, <1>6, <2>1
  <2>3. PICK S \in SUBSET InWindow(i) : Cardinality(S) = FloodThreshold
    BY <1>6, <2>2, SubsetOfSize
  <2>4. ASSUME NEW j \in S, NEW k \in S PROVE burst[j] - burst[k] <= FloodWindow
    <3>1. j \in 1 .. n /\ k \in 1 .. n /\ i <= k /\ burst[j] <= burst[i] + FloodWindow
      BY <1>1, <1>4, <2>3
    <3>2. burst[i] <= burst[k] /\ burst[i] \in Nat /\ burst[j] \in Nat /\ burst[k] \in Nat
      BY <1>1, <3>1
    <3> QED BY <1>2, <3>1, <3>2
  <2> QED BY <1>5, <2>3, <2>4
<1>8. ASSUME NEW S \in SUBSET (1 .. n), Group(S) PROVE starts # {}
  <2>1. S # {}
    BY <1>2, <1>8, FS_EmptySet
  <2>2. PICK i \in S : \A j \in S : i <= j
    <3>1. S \subseteq Nat
      BY <1>1
    <3> QED BY <2>1, <3>1, LeastNat
  <2>3. S \in SUBSET InWindow(i)
    <3>1. ASSUME NEW j \in S PROVE j \in InWindow(i)
      <4>1. j \in 1 .. n /\ i \in 1 .. n /\ i <= j
        BY <2>2
      <4>2. burst[j] - burst[i] <= FloodWindow /\ burst[i] \in Nat /\ burst[j] \in Nat
        BY <1>1, <1>8, <4>1
      <4>3. j \in i .. n /\ burst[j] <= burst[i] + FloodWindow
        BY <1>1, <1>2, <4>1, <4>2
      <4> QED BY <1>4, <4>1, <4>3
    <3> QED BY <3>1
  <2>4. i \in 1 .. n /\ Cardinality(S) <= Cardinality(InWindow(i))
    BY <1>6, <2>3, FS_Subset
  <2>5. Cardinality(InWindow(i)) >= FloodThreshold
    BY <1>2, <1>6, <1>8, <2>4
  <2> QED BY <1>1, <2>4, <2>5
<1> HIDE DEF starts
<1> QED BY <1>1, <1>3, <1>7, <1>8 DEF FloodIsExact

LEMMA StandingIsStirred ==
  StateInv => dcs_alarm_calculate_kpi.standing <= dcs_alarm_calculate_kpi.activations
<1> DEFINE active  == {a \in DcsAlarms : alarm[a] \in {"UNACK_ACTIVE", "ACK_ACTIVE"}}
           stirred == {a \in DcsAlarms : alarm[a] \in {"UNACK_ACTIVE", "ACK_ACTIVE",
                                                       "UNACK_CLEAR", "ACK_CLEAR"}}
<1>1. active \in SUBSET stirred /\ stirred \in SUBSET DcsAlarms
  OBVIOUS
<1>2. /\ dcs_alarm_calculate_kpi.standing = Cardinality(active)
      /\ dcs_alarm_calculate_kpi.activations = Cardinality(stirred)
  BY DEF dcs_alarm_calculate_kpi
<1> HIDE DEF active, stirred
<1> QED BY <1>1, <1>2, AlarmNumbers, FS_Subset

AlarmsInv == StateInv /\ FilterInv /\ BurstInv

LEMMA AlarmsInvSuffices ==
  ASSUME AlarmsInv
  PROVE  DcsAlarmTypeOK /\ OwedIsShown /\ FloodIsExact
<1>1. StateInv /\ FilterInv /\ BurstInv
  BY DEF AlarmsInv
<1>2. FloodIsExact
  BY <1>1, FloodFollows
<1>3. DcsAlarmTypeOK
  BY <1>1 DEF DcsAlarmTypeOK, StateInv, FilterInv, BurstInv
<1>4. OwedIsShown
  BY <1>1, StandingIsStirred DEF OwedIsShown, StateInv
<1> QED BY <1>2, <1>3, <1>4

-----------------------------------------------------------------------------
(* Designs and safety functions. *)

LEMMA DesignStarts == DesignInit => DesignTypeOK
<1> SUFFICES ASSUME DesignInit PROVE DesignTypeOK
  OBVIOUS
<1>1. /\ Min(ControllerCounts) \in ControllerCounts /\ Min(StationCounts) \in StationCounts
      /\ Min(IoCounts) \in IoCounts /\ Min(BackboneSpeeds) \in BackboneSpeeds
  BY DesignAssumption, MinOfNats
<1> DEFINE ms == 500  short == 100  long == 1000
           target == 9990  better == 9995  best == 9999
<1>2. ms \in ScanPeriods /\ target \in AvailabilityTargets
  <2>1. ScanPeriods = {short, ms, long} /\ AvailabilityTargets = {target, better, best}
    BY DEF ScanPeriods, AvailabilityTargets
  <2> HIDE DEF short, ms, long, target, better, best
  <2> QED BY <2>1
<1>3. plan = [controllers |-> Min(ControllerCounts), stations |-> Min(StationCounts),
              io_subsystems |-> 0, io |-> Min(IoCounts), scan_ms |-> ms, topology |-> "STAR",
              speed |-> Min(BackboneSpeeds), backbone_redundant |-> FALSE,
              controller_redundancy |-> FALSE, server_redundancy |-> FALSE, target |-> target]
  BY DEF DesignInit
<1> HIDE DEF ms, target
<1> QED BY <1>1, <1>2, <1>3 DEF DesignTypeOK, Topologies

PlansOf(C, S, N, I, M, T, B, D) ==
  [controllers : C, stations : S, io_subsystems : N, io : I, scan_ms : M, topology : T,
   speed : B, backbone_redundant : BOOLEAN, controller_redundancy : BOOLEAN,
   server_redundancy : BOOLEAN, target : D]

LEMMA PlanFollows ==
  ASSUME NEW C, NEW S, NEW N, NEW I, NEW M, NEW T, NEW B, NEW D,
         NEW p \in PlansOf(C, S, N, I, M, T, B, D), NEW t \in T, NEW b \in BOOLEAN, NEW c \in BOOLEAN
  PROVE  [p EXCEPT !.topology = t, !.backbone_redundant = b, !.controller_redundancy = c]
           \in PlansOf(C, S, N, I, M, T, B, D)
BY DEF PlansOf

LEMMA PlanHasPoints ==
  ASSUME NEW C, NEW S, NEW N, NEW I, NEW M, NEW T, NEW B, NEW D,
         NEW p \in PlansOf(C, S, N, I, M, T, B, D), NEW i \in I, NEW n \in N
  PROVE  [p EXCEPT !.io = i, !.io_subsystems = n] \in PlansOf(C, S, N, I, M, T, B, D)
BY DEF PlansOf

LEMMA PlanAims ==
  ASSUME NEW C, NEW S, NEW N, NEW I, NEW M, NEW T, NEW B, NEW D,
         NEW p \in PlansOf(C, S, N, I, M, T, B, D), NEW d \in D, NEW b \in BOOLEAN
  PROVE  [p EXCEPT !.target = d, !.server_redundancy = b] \in PlansOf(C, S, N, I, M, T, B, D)
BY DEF PlansOf

LEMMA PlanIs ==
  ASSUME DesignTypeOK
  PROVE  plan.controllers \in Nat /\ plan.io \in Nat
<1>1. plan.controllers \in ControllerCounts /\ plan.io \in IoCounts
  BY DEF DesignTypeOK
<1> QED BY <1>1, DesignAssumption

LEMMA RecommendedIs ==
  ASSUME DesignTypeOK
  PROVE  /\ recommended_topo(plan) \in Topologies \ {"BUS"}
         /\ plan.controllers > 3
              => recommended_topo(plan) \in {"RING", "DUAL_RING", "MESH", "DUAL_STAR"}
<1> DEFINE size == CASE plan.controllers > 20 -> "MESH" [] plan.controllers > 10 -> "DUAL_RING"
                     [] plan.controllers > 3 -> "RING"  [] OTHER -> "STAR"
           A == plan.target > 9999
           B == plan.target \in 9991 .. 9999 /\ TopologyRank[size] < TopologyRank["DUAL_RING"]
<1>1. plan.controllers \in Nat
  BY PlanIs
<1>2. /\ size \in {"MESH", "DUAL_RING", "RING", "STAR"}
      /\ plan.controllers > 3 => size \in {"MESH", "DUAL_RING", "RING"}
  BY <1>1
<1>3. recommended_topo(plan) = CASE A -> "MESH" [] B -> "DUAL_RING" [] OTHER -> size
  BY DEF recommended_topo
<1> HIDE DEF size, A, B
<1>4. recommended_topo(plan) \in {"MESH", "DUAL_RING", size}
  BY <1>3
<1> QED BY <1>2, <1>4 DEF Topologies

LEMMA DesignKept ==
  ASSUME DesignTypeOK, DesignNext
  PROVE  DesignTypeOK'
<1>1. recommended_topo(plan) \in Topologies
  BY RecommendedIs
<1> DEFINE levels == 0 .. 1
           all == PlansOf(ControllerCounts, StationCounts, levels, IoCounts, ScanPeriods,
                          Topologies, BackboneSpeeds, AvailabilityTargets)
           topo == recommended_topo(plan)
           many == plan.controllers > 3
           few  == plan.controllers > 2
           some(i) == IF i > 0 THEN 1 ELSE 0
           high(t) == t > 9990
<1>2. plan \in all
  BY DEF DesignTypeOK, PlansOf
<1>3. plan' \in all => DesignTypeOK'
  BY DEF DesignTypeOK, PlansOf
<1>4. /\ \A i : some(i) \in levels
      /\ \A t : high(t) \in BOOLEAN
      /\ many \in BOOLEAN /\ few \in BOOLEAN
  OBVIOUS
<1>5. \/ \E c \in ControllerCounts : plan' = [plan EXCEPT !.controllers = c]
      \/ \E s \in StationCounts : plan' = [plan EXCEPT !.stations = s]
      \/ \E i \in IoCounts : plan' = [plan EXCEPT !.io = i, !.io_subsystems = some(i)]
      \/ \E ms \in ScanPeriods : plan' = [plan EXCEPT !.scan_ms = ms]
      \/ \E t \in AvailabilityTargets : plan' = [plan EXCEPT !.target = t, !.server_redundancy = high(t)]
      \/ \E t \in Topologies : plan' = [plan EXCEPT !.topology = t]
      \/ \E s \in BackboneSpeeds : plan' = [plan EXCEPT !.speed = s]
      \/ plan' = [plan EXCEPT !.topology = topo, !.backbone_redundant = many,
                              !.controller_redundancy = few]
  BY DEF DesignNext
<1> HIDE DEF levels, topo, many, few, some, high
<1>6. plan' \in all
  <2>1. CASE plan' = [plan EXCEPT !.topology = topo, !.backbone_redundant = many,
                                  !.controller_redundancy = few]
    <3>1. topo \in Topologies
      BY <1>1 DEF topo
    <3> QED BY <1>2, <1>4, <2>1, <3>1, PlanFollows, Zenon
  <2>2. ASSUME NEW i \in IoCounts, plan' = [plan EXCEPT !.io = i, !.io_subsystems = some(i)]
        PROVE  plan' \in all
    BY <1>2, <1>4, <2>2, PlanHasPoints, Zenon
  <2>3. ASSUME NEW t \in AvailabilityTargets, plan' = [plan EXCEPT !.target = t, !.server_redundancy = high(t)]
        PROVE  plan' \in all
    BY <1>2, <1>4, <2>3, PlanAims, Zenon
  <2>4. ASSUME NEW c \in ControllerCounts, plan' = [plan EXCEPT !.controllers = c]
        PROVE  plan' \in all
    BY <1>2, <2>4 DEF PlansOf
  <2>5. ASSUME NEW s \in StationCounts, plan' = [plan EXCEPT !.stations = s]
        PROVE  plan' \in all
    BY <1>2, <2>5 DEF PlansOf
  <2>6. ASSUME NEW ms \in ScanPeriods, plan' = [plan EXCEPT !.scan_ms = ms]
        PROVE  plan' \in all
    BY <1>2, <2>6 DEF PlansOf
  <2>7. ASSUME NEW t \in Topologies, plan' = [plan EXCEPT !.topology = t]
        PROVE  plan' \in all
    BY <1>2, <2>7 DEF PlansOf
  <2>8. ASSUME NEW s \in BackboneSpeeds, plan' = [plan EXCEPT !.speed = s]
        PROVE  plan' \in all
    BY <1>2, <2>8 DEF PlansOf
  <2> HIDE DEF all
  <2> QED BY <1>5, <2>1, <2>2, <2>3, <2>4, <2>5, <2>6, <2>7, <2>8, Zenon
<1> QED BY <1>3, <1>6

LEMMA CeilingCovers ==
  ASSUME NEW a \in Nat, NEW b \in Nat \ {0}
  PROVE  CeilDiv(a, b) \in Nat /\ CeilDiv(a, b) * b >= a
<1> DEFINE q == (a + b - 1) \div b
<1>1. q \in Nat /\ a + b - 1 < q * b + b
  OBVIOUS
<1>2. q * b \in Nat
  BY <1>1
<1> HIDE DEF q
<1>3. q * b >= a
  BY <1>1, <1>2
<1> QED BY <1>1, <1>3 DEF q, CeilDiv

(* The controllers that are recommended have the inputs and outputs. *)
LEMMA CountCovers ==
  ASSUME NEW io \in Nat, NEW ms
  PROVE  dcs_calculate_controller_count(io, ms) * io_per_controller(ms) >= io
<1> DEFINE per == io_per_controller(ms)
           need == CeilDiv(io, per)
<1>1. per \in {350, 1050, 2100}
  BY DEF io_per_controller
<1>2. per \in Nat \ {0}
  BY <1>1
<1> HIDE DEF per
<1>3. need \in Nat /\ need * per >= io
  BY <1>2, CeilingCovers
<1> HIDE DEF need
<1>4. Max({2, need}) = IF 2 >= need THEN 2 ELSE need
  BY <1>3, MaxOfTwo
<1>5. need <= 2 => need * per <= 2 * per
  BY <1>1, <1>3
<1>6. Max({2, need}) * per >= io
  <2>1. CASE 2 >= need
    <3>1. Max({2, need}) * per = 2 * per /\ need * per \in Nat /\ 2 * per \in Nat
      BY <1>2, <1>3, <1>4, <2>1
    <3> QED BY <1>3, <1>5, <2>1, <3>1
  <2>2. CASE ~(2 >= need)
    BY <1>3, <1>4, <2>2
  <2> QED BY <2>1, <2>2
<1>7. CASE io = 0
  BY <1>2, <1>7 DEF dcs_calculate_controller_count, per
<1>8. CASE io # 0
  <2>1. dcs_calculate_controller_count(io, ms) = Max({2, need})
    BY <1>8 DEF dcs_calculate_controller_count, need, per
  <2> QED BY <1>6, <2>1 DEF per
<1> QED BY <1>7, <1>8

LEMMA RecommendedFollows ==
  ASSUME DesignTypeOK
  PROVE  RecommendedIsVerified
<1> DEFINE topo == recommended_topo(plan)
           p == [plan EXCEPT !.topology = topo,
                             !.backbone_redundant = plan.controllers > 3,
                             !.controller_redundancy = plan.controllers > 2,
                             !.server_redundancy = TRUE]
           r == dcs_recommend_system_sizing(plan)
<1>1. /\ plan.controllers \in Nat /\ plan.io \in Nat
      /\ topo # "BUS"
      /\ plan.controllers > 3 => topo \in {"RING", "DUAL_RING", "MESH", "DUAL_STAR"}
  BY PlanIs, RecommendedIs DEF Topologies
<1> HIDE DEF topo
<1>2. /\ p.controllers = plan.controllers /\ p.topology = topo
      /\ p.backbone_redundant = (plan.controllers > 3)
      /\ p.controller_redundancy = (plan.controllers > 2)
      /\ p.server_redundancy = TRUE
  BY DEF DesignTypeOK
<1> HIDE DEF p
<1>3. "controllers" \notin Violations(p)
  BY <1>2 DEF Violations
<1>4. "bus" \notin Violations(p)
  BY <1>1, <1>2 DEF Violations
<1>5. "network" \notin Violations(p)
  BY <1>2 DEF Violations
<1>6. "servers" \notin Violations(p)
  BY <1>2 DEF Violations
<1>7. Violations(p) \subseteq {"level 0", "level 1", "level 2", "controllers", "bus", "network",
                               "load", "operators", "servers"}
  BY DEF Violations
<1>8. Violations(p) \subseteq {"level 0", "level 1", "level 2", "load", "operators"}
  BY <1>3, <1>4, <1>5, <1>6, <1>7
<1>9. p.backbone_redundant => dcs_verify_topology_redundancy(p.topology, TRUE)
  BY <1>1, <1>2 DEF dcs_verify_topology_redundancy
<1>10. r.controllers * io_per_controller(plan.scan_ms) >= plan.io
  BY <1>1, CountCovers DEF dcs_recommend_system_sizing
<1> QED BY <1>8, <1>9, <1>10 DEF RecommendedIsVerified, p, topo

LEMMA SafetyStarts == SafetyInit => SafetyTypeOK
<1> SUFFICES ASSUME SafetyInit PROVE SafetyTypeOK
  OBVIOUS
<1>1. /\ Min(Rates) \in Rates /\ Min(Intervals) \in Intervals /\ Min(Betas) \in Betas
  <2>1. Betas \subseteq Nat
    BY SafetyAssumption
  <2> QED BY <2>1, SafetyAssumption, MinOfNats
<1> QED BY <1>1 DEF SafetyInit, SafetyTypeOK, Architectures

LEMMA SafetyKept ==
  ASSUME SafetyTypeOK, SafetyNext
  PROVE  SafetyTypeOK'
<1>1. ASSUME NEW p \in Parts, NEW a \in Architectures, sif' = [sif EXCEPT !.arch[p] = a]
      PROVE  SafetyTypeOK'
  BY <1>1 DEF SafetyTypeOK
<1>2. ASSUME NEW p \in Parts, NEW r \in Rates, sif' = [sif EXCEPT !.rate[p] = r]
      PROVE  SafetyTypeOK'
  BY <1>2 DEF SafetyTypeOK
<1>3. ASSUME NEW b \in Betas, sif' = [sif EXCEPT !.beta["sensor"] = b]
      PROVE  SafetyTypeOK'
  BY <1>3 DEF SafetyTypeOK, Parts
<1>4. ASSUME NEW i \in Intervals, sif' = [sif EXCEPT !.interval = i]
      PROVE  SafetyTypeOK'
  BY <1>4 DEF SafetyTypeOK
<1> QED BY <1>1, <1>2, <1>3, <1>4 DEF SafetyNext

-----------------------------------------------------------------------------
(* The tables of the system database. *)

LEMMA DbNumbers ==
  /\ Tags \subseteq [id : Nat, name : STRING, eu_min : Int, eu_max : Int, area : STRING]
  /\ Controllers \subseteq [id : Nat, scan_period : Nat] /\ IoPoints \subseteq Nat
  /\ Capacity \in [tags : Nat, controllers : Nat, io : Nat, modules : Nat]
  /\ MaxOptimised \in Nat /\ \A m \in Modules : m.execution_time \in Nat
BY DcsDatabaseAssumption

(* Every entry of a table differs from the others in the column f. *)
Apart(s) == \A i, j \in DOMAIN s : s[i] = s[j] => i = j

TagsApart == Apart(Column(db.tags, "id")) /\ Apart(Column(db.tags, "name"))

TablesApart ==
  /\ TagsApart /\ Apart(Column(db.controllers, "id")) /\ Apart(db.io)
  /\ Apart(Column(db.modules, "id"))

InPhase(p) == {m \in ToSet(db.modules) : m.id \in assigned /\ PhaseOf(m) = p}

(* The time counted for a phase is at least that of the modules assigned *)
(* to it, and what is shown to be complete has been compared. *)
PhaseIsCounted(p) ==
  /\ TimeOf(InPhase(p)) <= db.scan_phases[p].actual_time
  /\ db.scan_phases[p].is_complete
       => db.scan_phases[p].actual_time <= db.scan_phases[p].allocated_time

DbInv ==
  /\ DcsDbTypeOK /\ TablesApart /\ Len(db.tags) <= Capacity.tags
  /\ assigned \subseteq {m.id : m \in ToSet(db.modules)}
  /\ \A p \in 1 .. 5 : PhaseIsCounted(p)

(* What a table holds is finite, and grows by what is appended. *)
LEMMA TableIsFinite ==
  ASSUME NEW S, NEW s \in Seq(S)
  PROVE  IsFiniteSet(ToSet(s)) /\ ToSet(s) \subseteq S /\ ToSet(s) = {s[i] : i \in 1 .. Len(s)}
<1>1. Len(s) \in Nat /\ DOMAIN s = 1 .. Len(s) /\ \A i \in 1 .. Len(s) : s[i] \in S
  BY LenProperties, ElementOfSeq
<1>2. IsFiniteSet(1 .. Len(s))
  <2>1. 1 \in Int /\ Len(s) \in Int
    BY <1>1
  <2> QED BY <2>1, FS_Interval
<1>3. s = [i \in 1 .. Len(s) |-> s[i]]
  BY <1>1
<1>4. IsFiniteSet({s[i] : i \in 1 .. Len(s)})
  BY <1>2, <1>3, FiniteImage
<1> QED BY <1>1, <1>4 DEF ToSet

LEMMA TableGrows ==
  ASSUME NEW S, NEW s \in Seq(S), NEW e \in S
  PROVE  /\ Append(s, e) \in Seq(S) /\ Len(Append(s, e)) = Len(s) + 1
         /\ ToSet(Append(s, e)) = ToSet(s) \cup {e}
<1>1. /\ Append(s, e) \in Seq(S) /\ Len(Append(s, e)) = Len(s) + 1
      /\ \A i \in 1 .. Len(s) : Append(s, e)[i] = s[i]
      /\ Append(s, e)[Len(s) + 1] = e /\ Len(s) \in Nat
  BY AppendProperties, LenProperties
<1>2. ToSet(Append(s, e)) = {Append(s, e)[i] : i \in 1 .. Len(s) + 1}
  BY <1>1, TableIsFinite
<1>3. ToSet(s) = {s[i] : i \in 1 .. Len(s)}
  BY TableIsFinite
<1>4. 1 .. Len(s) + 1 = (1 .. Len(s)) \cup {Len(s) + 1}
  BY <1>1
<1>5. {Append(s, e)[i] : i \in 1 .. Len(s) + 1} = {s[i] : i \in 1 .. Len(s)} \cup {e}
  BY <1>1, <1>4
<1> QED BY <1>1, <1>2, <1>3, <1>5

(* An entry that differs from those of the table may be appended. *)
LEMMA ApartGrows ==
  ASSUME NEW S, NEW s \in Seq(S), NEW e \in S, NEW field,
         Apart(Column(s, field)), \A d \in ToSet(s) : d[field] # e[field]
  PROVE  Apart(Column(Append(s, e), field))
<1>1. /\ Append(s, e) \in Seq(S) /\ Len(Append(s, e)) = Len(s) + 1
      /\ \A i \in 1 .. Len(s) : Append(s, e)[i] = s[i]
      /\ Append(s, e)[Len(s) + 1] = e /\ Len(s) \in Nat /\ DOMAIN s = 1 .. Len(s)
      /\ DOMAIN Append(s, e) = 1 .. Len(s) + 1
  BY AppendProperties, LenProperties
<1>2. \A i \in 1 .. Len(s) : s[i][field] # e[field]
  BY <1>1 DEF ToSet
<1>3. \A i, j \in 1 .. Len(s) : s[i][field] = s[j][field] => i = j
  BY <1>1 DEF Apart, Column
<1>4. SUFFICES ASSUME NEW i \in 1 .. Len(s) + 1, NEW j \in 1 .. Len(s) + 1,
                      Append(s, e)[i][field] = Append(s, e)[j][field]
               PROVE  i = j
  BY <1>1 DEF Apart, Column
<1>5. (i \in 1 .. Len(s) \/ i = Len(s) + 1) /\ (j \in 1 .. Len(s) \/ j = Len(s) + 1)
  BY <1>1
<1> QED BY <1>1, <1>2, <1>3, <1>4, <1>5

LEMMA ApartListGrows ==
  ASSUME NEW S, NEW s \in Seq(S), NEW e \in S, Apart(s), e \notin ToSet(s)
  PROVE  Apart(Append(s, e))
<1>1. /\ Append(s, e) \in Seq(S) /\ Len(Append(s, e)) = Len(s) + 1
      /\ \A i \in 1 .. Len(s) : Append(s, e)[i] = s[i]
      /\ Append(s, e)[Len(s) + 1] = e /\ Len(s) \in Nat /\ DOMAIN s = 1 .. Len(s)
      /\ DOMAIN Append(s, e) = 1 .. Len(s) + 1
  BY AppendProperties, LenProperties
<1>2. \A i \in 1 .. Len(s) : s[i] # e
  BY <1>1 DEF ToSet
<1>3. \A i, j \in 1 .. Len(s) : s[i] = s[j] => i = j
  BY <1>1 DEF Apart
<1>4. SUFFICES ASSUME NEW i \in 1 .. Len(s) + 1, NEW j \in 1 .. Len(s) + 1,
                      Append(s, e)[i] = Append(s, e)[j]
               PROVE  i = j
  BY <1>1 DEF Apart
<1>5. (i \in 1 .. Len(s) \/ i = Len(s) + 1) /\ (j \in 1 .. Len(s) \/ j = Len(s) + 1)
  BY <1>1
<1> QED BY <1>1, <1>2, <1>3, <1>4, <1>5

(* The time of a set of modules is a sum. *)
TimesOf(S) == [m \in S |-> m.execution_time]

LEMMA TimeOfIs ==
  ASSUME NEW S \in SUBSET Modules, IsFiniteSet(S)
  PROVE  \E g \in Sums(S, TimesOf(S)) : \A s \in SUBSET S : TimeOf(s) = g[s]
<1> DEFINE f == TimesOf(S)
<1>1. f \in [S -> Nat] /\ f \in [S -> Int] /\ \A m \in S : f[m] = m.execution_time
  BY DbNumbers DEF TimesOf
<1>2. PICK g : g \in Sums(S, f)
  <2> HIDE DEF f
  <2> QED BY <1>1, SumsExist
<1>3. ASSUME NEW s \in SUBSET S PROVE TimeOf(s) = g[s]
  <2> DEFINE Eq(h) == h = [t \in SUBSET s |->
                             IF t = {} THEN 0
                             ELSE LET x == CHOOSE y \in t : TRUE
                                  IN  x.execution_time + h[t \ {x}]]
             iter == CHOOSE h : Eq(h)
             k == [t \in SUBSET s |-> g[t]]
  <2>1. TimeOf(s) = iter[s]
    BY Zenon DEF TimeOf, MapThenSumSet, MapThenFoldSet
  <2>2. ASSUME NEW t \in SUBSET s
        PROVE  k[t] = IF t = {} THEN 0 ELSE Picked(t).execution_time + k[t \ {Picked(t)}]
    <3>1. g[t] = IF t = {} THEN 0 ELSE f[Picked(t)] + g[t \ {Picked(t)}]
      <4>1. t \in SUBSET S
        OBVIOUS
      <4> HIDE DEF f
      <4> QED BY <1>2, <4>1 DEF Sums
    <3>2. t # {} => Picked(t) \in t
      BY Zenon DEF Picked
    <3>3. t # {} => f[Picked(t)] = Picked(t).execution_time
      BY <1>1, <3>2
    <3>4. k[t] = g[t] /\ k[t \ {Picked(t)}] = g[t \ {Picked(t)}]
      OBVIOUS
    <3> HIDE DEF k, f
    <3> QED BY <3>1, <3>3, <3>4
  <2>3. Eq(k)
    <3>1. k = [t \in SUBSET s |-> k[t]]
      OBVIOUS
    <3>2. k = [t \in SUBSET s |->
                IF t = {} THEN 0 ELSE Picked(t).execution_time + k[t \ {Picked(t)}]]
      <4> HIDE DEF k
      <4> QED BY <2>2, <3>1
    <3> HIDE DEF k
    <3> QED BY <3>2, Zenon DEF Picked
  <2>4. Eq(iter)
    <3> HIDE DEF k
    <3> QED BY <2>3, Zenon
  <2>5. ASSUME NEW h, Eq(h), NEW t \in SUBSET s
        PROVE  h[t] = IF t = {} THEN 0 ELSE Picked(t).execution_time + h[t \ {Picked(t)}]
    BY <2>5 DEF Picked
  <2> DEFINE T == {t \in SUBSET s : iter[t] = k[t]}
  <2>6. {} \in T
    <3>1. iter[{}] = 0 /\ k[{}] = 0
      <4> HIDE DEF k, iter, Eq
      <4> QED BY <2>3, <2>4, <2>5
    <3> QED BY <3>1
  <2>7. ASSUME NEW t \in SUBSET s, t # {}, \A x \in t : t \ {x} \in T
        PROVE  t \in T
    <3>1. Picked(t) \in t
      BY <2>7 DEF Picked
    <3>2. iter[t \ {Picked(t)}] = k[t \ {Picked(t)}]
      BY <2>7, <3>1
    <3>3. /\ iter[t] = Picked(t).execution_time + iter[t \ {Picked(t)}]
          /\ k[t] = Picked(t).execution_time + k[t \ {Picked(t)}]
      <4> HIDE DEF Eq, iter, k
      <4> QED BY <2>3, <2>4, <2>5, <2>7
    <3> HIDE DEF k, iter
    <3> QED BY <3>2, <3>3
  <2>8. SUBSET s \subseteq T
    <3>1. IsFiniteSet(s)
      BY FS_Subset
    <3> HIDE DEF T
    <3> QED BY <2>6, <2>7, <3>1, SubsetInduction
  <2>9. s \in T
    <3> HIDE DEF T
    <3> QED BY <2>8
  <2> QED BY <2>1, <2>9
<1> QED BY <1>2, <1>3

LEMMA TimesAdd ==
  ASSUME NEW A \in SUBSET Modules, NEW B \in SUBSET Modules, IsFiniteSet(A), IsFiniteSet(B)
  PROVE  /\ TimeOf(A) \in Nat /\ TimeOf(B) \in Nat /\ TimeOf(A \cup B) \in Nat
         /\ TimeOf(A \cup B) <= TimeOf(A) + TimeOf(B)
<1> DEFINE S == A \cup B
           f == TimesOf(S)
<1>1. S \in SUBSET Modules /\ A \in SUBSET S /\ B \in SUBSET S /\ S \in SUBSET S
  OBVIOUS
<1>2. IsFiniteSet(S)
  BY FS_Union
<1>3. f \in [S -> Nat]
  BY <1>1, DbNumbers DEF TimesOf
<1> HIDE DEF f, S
<1>4. PICK g \in Sums(S, f) : \A s \in SUBSET S : TimeOf(s) = g[s]
  BY <1>1, <1>2, TimeOfIs DEF f
<1>5. \A s \in SUBSET S : g[s] \in Nat
  BY <1>2, <1>3, <1>4, SumsAreNat
<1>6. g[A \cup B] <= g[A] + g[B]
  BY <1>1, <1>2, <1>3, <1>4, SumsOfUnion
<1> QED BY <1>1, <1>4, <1>5, <1>6 DEF S

LEMMA NoModulesTakeNoTime == TimeOf({}) = 0
<1>1. {} \in SUBSET Modules /\ IsFiniteSet({}) /\ {} \in SUBSET {}
  BY FS_EmptySet
<1>2. PICK g \in Sums({}, TimesOf({})) : \A s \in SUBSET {} : TimeOf(s) = g[s]
  BY <1>1, TimeOfIs
<1>3. g[{}] = 0
  BY <1>1, <1>2 DEF Sums
<1> QED BY <1>1, <1>2, <1>3

(* The modules of a phase and of a controller are those of the table. *)
LEMMA PartsOfTheTable ==
  ASSUME DbInv
  PROVE  /\ ToSet(db.modules) \in SUBSET Modules /\ IsFiniteSet(ToSet(db.modules))
         /\ \A p : InPhase(p) \in SUBSET Modules /\ IsFiniteSet(InPhase(p))
         /\ \A c : ModulesOf(c) \in SUBSET Modules /\ IsFiniteSet(ModulesOf(c))
<1>1. ToSet(db.modules) \in SUBSET Modules /\ IsFiniteSet(ToSet(db.modules))
  <2>1. db.modules \in Seq(Modules)
    BY DEF DbInv, DcsDbTypeOK
  <2> QED BY <2>1, TableIsFinite
<1>2. \A X \in SUBSET ToSet(db.modules) : X \in SUBSET Modules /\ IsFiniteSet(X)
  BY <1>1, FS_Subset
<1>3. \A p : InPhase(p) \in SUBSET ToSet(db.modules)
  BY DEF InPhase
<1>4. \A c : ModulesOf(c) \in SUBSET ToSet(db.modules)
  BY DEF ModulesOf
<1> QED BY <1>1, <1>2, <1>3, <1>4

LEMMA BudgetsAreNat ==
  \A p \in 1 .. 5 : phase_budgets[p] \in Nat /\ budget_fractions[p] \in Nat
BY DEF phase_budgets, budget_fractions

LEMMA DbStarts == db = dcs_db_init /\ assigned = {} /\ optimised \in 0 .. MaxOptimised => DbInv
<1> SUFFICES ASSUME db = dcs_db_init, assigned = {}, optimised \in 0 .. MaxOptimised
             PROVE  DbInv
  OBVIOUS
<1>1. /\ db.tags = << >> /\ db.controllers = << >> /\ db.io = << >> /\ db.modules = << >>
      /\ db.scan_phases = [p \in 1 .. 5 |-> [allocated_time |-> phase_budgets[p] * 2500,
                                             actual_time |-> 0, num_modules |-> 0,
                                             is_complete |-> TRUE]]
  BY DEF dcs_db_init
<1>2. \A S : << >> \in Seq(S)
  BY EmptySeq
<1>3. DOMAIN << >> = {} /\ Len(<< >>) = 0
  OBVIOUS
<1>4. db.scan_phases \in [1 .. 5 -> ScanPhase]
  <2>1. \A p \in 1 .. 5 : phase_budgets[p] * 2500 \in Nat
    BY BudgetsAreNat
  <2> QED BY <1>1, <2>1 DEF ScanPhase
<1>5. DcsDbTypeOK
  <2>1. db = [tags |-> db.tags, controllers |-> db.controllers, io |-> db.io,
              modules |-> db.modules, scan_phases |-> db.scan_phases]
    BY DEF dcs_db_init
  <2>2. db.tags \in Seq(Tags) /\ db.controllers \in Seq(Controllers) /\ db.io \in Seq(IoPoints)
        /\ db.modules \in Seq(Modules)
    BY <1>1, <1>2
  <2>3. db \in [tags : Seq(Tags), controllers : Seq(Controllers), io : Seq(IoPoints),
                modules : Seq(Modules), scan_phases : [1 .. 5 -> ScanPhase]]
    BY <1>4, <2>1, <2>2
  <2> QED BY <2>3 DEF DcsDbTypeOK
<1>6. TablesApart
  <2>1. \A field : Column(<< >>, field) = << >>
    BY <1>3 DEF Column
  <2>2. Apart(<< >>)
    BY <1>3 DEF Apart
  <2> QED BY <1>1, <2>1, <2>2 DEF TablesApart, TagsApart
<1>7. ToSet(db.modules) = {}
  BY <1>1, <1>3 DEF ToSet
<1>8. \A p \in 1 .. 5 : PhaseIsCounted(p)
  <2> SUFFICES ASSUME NEW p \in 1 .. 5 PROVE PhaseIsCounted(p)
    OBVIOUS
  <2>1. InPhase(p) = {}
    BY <1>7 DEF InPhase
  <2>2. db.scan_phases[p].actual_time = 0 /\ db.scan_phases[p].allocated_time \in Nat
    BY <1>1, <1>4 DEF ScanPhase
  <2> QED BY <2>1, <2>2, NoModulesTakeNoTime DEF PhaseIsCounted
<1>9. Capacity.tags \in Nat
  BY DbNumbers
<1> QED BY <1>1, <1>3, <1>5, <1>6, <1>7, <1>8, <1>9 DEF DbInv

LEMMA DbStartsAgain ==
  (db = dcs_db_init /\ assigned = {} /\ optimised \in 0 .. MaxOptimised => DbInv)'
BY DbStarts, PTL

LEMMA PhasesCarryOver ==
  ASSUME DbInv, db'.modules = db.modules, db'.scan_phases = db.scan_phases, assigned' = assigned
  PROVE  /\ \A p \in 1 .. 5 : PhaseIsCounted(p)'
         /\ assigned' \subseteq {m.id : m \in ToSet(db'.modules)}
<1>1. \A p : InPhase(p)' = InPhase(p)
  BY DEF InPhase
<1>2. \A p \in 1 .. 5 : TimeOf(InPhase(p))' = TimeOf(InPhase(p))
  BY <1>1
<1>3. \A p \in 1 .. 5 : PhaseIsCounted(p)
  BY DEF DbInv
<1> QED BY <1>2, <1>3 DEF PhaseIsCounted, DbInv

LEMMA TagAdded ==
  ASSUME DbInv, NEW t \in Tags, dcs_db_add_tag(t) PROVE DbInv'
<1>1. /\ db.tags \in Seq(Tags) /\ Len(db.tags) < Capacity.tags /\ TagFree(t)
      /\ db' = [db EXCEPT !.tags = Append(@, t)] /\ assigned' = assigned /\ optimised' = optimised
  BY DEF dcs_db_add_tag, DbInv, DcsDbTypeOK
<1>2. Append(db.tags, t) \in Seq(Tags) /\ Len(Append(db.tags, t)) = Len(db.tags) + 1
  BY <1>1, TableGrows
<1>3. /\ db'.tags = Append(db.tags, t) /\ db'.controllers = db.controllers /\ db'.io = db.io
      /\ db'.modules = db.modules /\ db'.scan_phases = db.scan_phases
  BY <1>1 DEF DbInv, DcsDbTypeOK
<1>4. DcsDbTypeOK'
  BY <1>1, <1>2 DEF DbInv, DcsDbTypeOK
<1>5. Apart(Column(Append(db.tags, t), "id"))
  <2>1. \A d \in ToSet(db.tags) : d["id"] # t["id"]
    BY <1>1 DEF TagFree
  <2>2. Apart(Column(db.tags, "id"))
    BY DEF DbInv, TablesApart, TagsApart
  <2> QED BY <1>1, <2>1, <2>2, ApartGrows
<1>6. Apart(Column(Append(db.tags, t), "name"))
  <2>1. \A d \in ToSet(db.tags) : d["name"] # t["name"]
    BY <1>1 DEF TagFree
  <2>2. Apart(Column(db.tags, "name"))
    BY DEF DbInv, TablesApart, TagsApart
  <2> QED BY <1>1, <2>1, <2>2, ApartGrows
<1>7. TablesApart'
  BY <1>3, <1>5, <1>6 DEF DbInv, TablesApart, TagsApart
<1>8. Len(db'.tags) <= Capacity.tags
  <2>1. Len(db.tags) \in Nat /\ Capacity.tags \in Nat
    BY <1>1, LenProperties, DbNumbers
  <2> QED BY <1>1, <1>2, <1>3, <2>1
<1> QED BY <1>1, <1>3, <1>4, <1>7, <1>8, PhasesCarryOver DEF DbInv

LEMMA ControllerAdded ==
  ASSUME DbInv, NEW c \in Controllers, dcs_db_add_controller(c) PROVE DbInv'
<1>1. /\ db.controllers \in Seq(Controllers) /\ \A d \in ToSet(db.controllers) : d.id # c.id
      /\ db' = [db EXCEPT !.controllers = Append(@, c)]
      /\ assigned' = assigned /\ optimised' = optimised
  BY DEF dcs_db_add_controller, DbInv, DcsDbTypeOK
<1>2. Append(db.controllers, c) \in Seq(Controllers)
  BY <1>1, TableGrows
<1>3. /\ db'.controllers = Append(db.controllers, c) /\ db'.tags = db.tags /\ db'.io = db.io
      /\ db'.modules = db.modules /\ db'.scan_phases = db.scan_phases
  BY <1>1 DEF DbInv, DcsDbTypeOK
<1>4. DcsDbTypeOK'
  BY <1>1, <1>2 DEF DbInv, DcsDbTypeOK
<1>5. Apart(Column(Append(db.controllers, c), "id"))
  <2>1. \A d \in ToSet(db.controllers) : d["id"] # c["id"]
    BY <1>1
  <2>2. Apart(Column(db.controllers, "id"))
    BY DEF DbInv, TablesApart
  <2> QED BY <1>1, <2>1, <2>2, ApartGrows
<1>6. TablesApart'
  BY <1>3, <1>5 DEF DbInv, TablesApart, TagsApart
<1> QED BY <1>1, <1>3, <1>4, <1>6, PhasesCarryOver DEF DbInv

LEMMA PointAdded ==
  ASSUME DbInv, NEW i \in IoPoints, dcs_db_add_io_point(i) PROVE DbInv'
<1>1. /\ db.io \in Seq(IoPoints) /\ i \notin ToSet(db.io)
      /\ db' = [db EXCEPT !.io = Append(@, i)]
      /\ assigned' = assigned /\ optimised' = optimised
  BY DEF dcs_db_add_io_point, DbInv, DcsDbTypeOK
<1>2. Append(db.io, i) \in Seq(IoPoints)
  BY <1>1, TableGrows
<1>3. /\ db'.io = Append(db.io, i) /\ db'.tags = db.tags /\ db'.controllers = db.controllers
      /\ db'.modules = db.modules /\ db'.scan_phases = db.scan_phases
  BY <1>1 DEF DbInv, DcsDbTypeOK
<1>4. DcsDbTypeOK'
  BY <1>1, <1>2 DEF DbInv, DcsDbTypeOK
<1>5. Apart(Append(db.io, i))
  <2>1. Apart(db.io)
    BY DEF DbInv, TablesApart
  <2> QED BY <1>1, <2>1, ApartListGrows
<1>6. TablesApart'
  BY <1>3, <1>5 DEF DbInv, TablesApart, TagsApart
<1> QED BY <1>1, <1>3, <1>4, <1>6, PhasesCarryOver DEF DbInv

(* A new module is in no phase: its number is new, and only modules of the *)
(* table have been assigned. *)
LEMMA ModuleAdded ==
  ASSUME DbInv, NEW m \in Modules, dcs_db_add_control_module(m) PROVE DbInv'
<1>1. /\ db.modules \in Seq(Modules) /\ \A n \in ToSet(db.modules) : n.id # m.id
      /\ db' = [db EXCEPT !.modules = Append(@, m)]
      /\ assigned' = assigned /\ optimised' = optimised
  BY DEF dcs_db_add_control_module, DbInv, DcsDbTypeOK
<1>2. /\ Append(db.modules, m) \in Seq(Modules)
      /\ ToSet(Append(db.modules, m)) = ToSet(db.modules) \cup {m}
  BY <1>1, TableGrows
<1>3. /\ db'.modules = Append(db.modules, m) /\ db'.tags = db.tags /\ db'.io = db.io
      /\ db'.controllers = db.controllers /\ db'.scan_phases = db.scan_phases
  BY <1>1 DEF DbInv, DcsDbTypeOK
<1>4. DcsDbTypeOK'
  BY <1>1, <1>2 DEF DbInv, DcsDbTypeOK
<1>5. Apart(Column(Append(db.modules, m), "id"))
  <2>1. \A d \in ToSet(db.modules) : d["id"] # m["id"]
    BY <1>1
  <2>2. Apart(Column(db.modules, "id"))
    BY DEF DbInv, TablesApart
  <2> QED BY <1>1, <2>1, <2>2, ApartGrows
<1>6. TablesApart'
  BY <1>3, <1>5 DEF DbInv, TablesApart, TagsApart
<1>7. m.id \notin assigned /\ assigned \subseteq {n.id : n \in ToSet(db.modules)}
  BY <1>1 DEF DbInv
<1>8. \A p : InPhase(p)' = InPhase(p)
  BY <1>1, <1>2, <1>3, <1>7 DEF InPhase
<1>9. \A p \in 1 .. 5 : PhaseIsCounted(p)'
  <2>1. \A p \in 1 .. 5 : TimeOf(InPhase(p))' = TimeOf(InPhase(p))
    BY <1>8
  <2>2. \A p \in 1 .. 5 : PhaseIsCounted(p)
    BY DEF DbInv
  <2> QED BY <1>3, <2>1, <2>2 DEF PhaseIsCounted
<1>10. assigned' \subseteq {n.id : n \in ToSet(db'.modules)}
  BY <1>1, <1>2, <1>3, <1>7
<1> QED BY <1>3, <1>4, <1>6, <1>9, <1>10 DEF DbInv

LEMMA PhasesLoaded ==
  ASSUME DbInv, NEW c \in ToSet(db.controllers), dcs_db_optimize_scan_phases(c) PROVE DbInv'
<1>1. /\ db' = [db EXCEPT !.scan_phases = [p \in 1 .. 5 |-> LoadedPhase(p, c)]]
      /\ assigned' = assigned \cup {m.id : m \in ModulesOf(c)}
      /\ optimised' = optimised + 1 /\ optimised < MaxOptimised
  BY DEF dcs_db_optimize_scan_phases
<1>2. /\ db'.scan_phases = [p \in 1 .. 5 |-> LoadedPhase(p, c)] /\ db'.tags = db.tags
      /\ db'.io = db.io /\ db'.controllers = db.controllers /\ db'.modules = db.modules
  BY <1>1 DEF DbInv, DcsDbTypeOK
<1>3. c.scan_period \in Nat
  <2>1. db.controllers \in Seq(Controllers)
    BY DEF DbInv, DcsDbTypeOK
  <2>2. c \in Controllers
    BY <2>1, TableIsFinite
  <2> QED BY <2>2, DbNumbers
<1> DEFINE mine(p) == {m \in ModulesOf(c) : PhaseOf(m) = p}
           share(p) == (c.scan_period * budget_fractions[p]) \div 100
           time(p) == db.scan_phases[p].actual_time + TimeOf(mine(p))
<1>4. \A p : mine(p) \in SUBSET Modules /\ IsFiniteSet(mine(p))
  <2>1. ModulesOf(c) \in SUBSET Modules /\ IsFiniteSet(ModulesOf(c))
    BY PartsOfTheTable
  <2>2. \A p : mine(p) \in SUBSET ModulesOf(c)
    OBVIOUS
  <2> HIDE DEF mine
  <2> QED BY <2>1, <2>2, FS_Subset
<1>5. \A p \in 1 .. 5 : TimeOf(mine(p)) \in Nat
  <2> HIDE DEF mine
  <2> QED BY <1>4, TimesAdd
<1>6. \A p \in 1 .. 5 : share(p) \in Nat
  <2> SUFFICES ASSUME NEW p \in 1 .. 5 PROVE share(p) \in Nat
    OBVIOUS
  <2>1. c.scan_period * budget_fractions[p] \in Nat
    BY <1>3, BudgetsAreNat
  <2> QED BY <2>1, QuotientIsNat
<1>7. \A p \in 1 .. 5 : db.scan_phases[p].actual_time \in Nat /\ db.scan_phases[p].num_modules \in Nat
  BY DEF DbInv, DcsDbTypeOK, ScanPhase
<1>8. \A p \in 1 .. 5 :
        db'.scan_phases[p] = [allocated_time |-> share(p), actual_time |-> time(p),
                              num_modules |-> db.scan_phases[p].num_modules + Cardinality(mine(p)),
                              is_complete |-> time(p) <= share(p)]
  BY <1>2 DEF LoadedPhase
<1>9. DcsDbTypeOK'
  <2>1. \A p \in 1 .. 5 : time(p) \in Nat
    <3> HIDE DEF mine
    <3> QED BY <1>5, <1>7
  <2>2. \A p \in 1 .. 5 : db.scan_phases[p].num_modules + Cardinality(mine(p)) \in Nat
    <3>1. \A p : Cardinality(mine(p)) \in Nat
      <4> HIDE DEF mine
      <4> QED BY <1>4, FS_CardinalityType
    <3> HIDE DEF mine
    <3> QED BY <1>7, <3>1
  <2>3. ASSUME NEW p \in 1 .. 5 PROVE db'.scan_phases[p] \in ScanPhase
    <3>1. (time(p) <= share(p)) \in BOOLEAN
      OBVIOUS
    <3> DEFINE fits == time(p) <= share(p)
               many == db.scan_phases[p].num_modules + Cardinality(mine(p))
    <3>2. db'.scan_phases[p] = [allocated_time |-> share(p), actual_time |-> time(p),
                                num_modules |-> many, is_complete |-> fits]
      BY <1>8
    <3>3. fits \in BOOLEAN /\ many \in Nat
      BY <2>2, <3>1
    <3> HIDE DEF fits, many, mine, time, share
    <3> QED BY <1>6, <2>1, <3>2, <3>3 DEF ScanPhase
  <2>4. db'.scan_phases \in [1 .. 5 -> ScanPhase]
    BY <1>2, <2>3
  <2>5. db' \in [tags : Seq(Tags), controllers : Seq(Controllers), io : Seq(IoPoints),
                 modules : Seq(Modules), scan_phases : [1 .. 5 -> ScanPhase]]
    BY <1>1, <1>2, <2>4 DEF DbInv, DcsDbTypeOK
  <2>6. assigned' \subseteq {m.id : m \in Modules}
    <3>1. ModulesOf(c) \in SUBSET Modules
      BY PartsOfTheTable
    <3> QED BY <1>1, <3>1 DEF DbInv, DcsDbTypeOK
  <2>7. optimised' \in 0 .. MaxOptimised
    <3>1. optimised \in 0 .. MaxOptimised /\ MaxOptimised \in Nat
      BY DbNumbers DEF DbInv, DcsDbTypeOK
    <3> QED BY <1>1, <3>1
  <2> QED BY <2>5, <2>6, <2>7 DEF DcsDbTypeOK
<1>10. TablesApart'
  BY <1>2 DEF DbInv, TablesApart, TagsApart
<1>11. \A p \in 1 .. 5 : InPhase(p)' = InPhase(p) \cup mine(p)
  <2>1. \A m, n \in ToSet(db.modules) : m.id = n.id => m = n
    <3>1. Apart(Column(db.modules, "id"))
      BY DEF DbInv, TablesApart
    <3> QED BY <3>1 DEF Apart, Column, ToSet
  <2>2. \A m \in ModulesOf(c) : m \in ToSet(db.modules)
    BY DEF ModulesOf
  <2>3. \A m \in ToSet(db.modules) :
          m.id \in assigned' <=> (m.id \in assigned \/ m \in ModulesOf(c))
    BY <1>1, <2>1, <2>2
  <2> SUFFICES ASSUME NEW p \in 1 .. 5 PROVE InPhase(p)' = InPhase(p) \cup mine(p)
    OBVIOUS
  <2>4. InPhase(p)' = {m \in ToSet(db.modules) : m.id \in assigned' /\ PhaseOf(m) = p}
    BY <1>2 DEF InPhase
  <2> QED BY <2>2, <2>3, <2>4 DEF InPhase
<1>12. \A p \in 1 .. 5 : PhaseIsCounted(p)'
  <2> SUFFICES ASSUME NEW p \in 1 .. 5 PROVE PhaseIsCounted(p)'
    OBVIOUS
  <2>1. TimeOf(InPhase(p))' = TimeOf(InPhase(p) \cup mine(p))
    BY <1>11
  <2>2. InPhase(p) \in SUBSET Modules /\ IsFiniteSet(InPhase(p))
    BY PartsOfTheTable
  <2>3. /\ TimeOf(InPhase(p)) \in Nat /\ TimeOf(InPhase(p) \cup mine(p)) \in Nat
        /\ TimeOf(InPhase(p) \cup mine(p)) <= TimeOf(InPhase(p)) + TimeOf(mine(p))
    <3> HIDE DEF mine
    <3> QED BY <1>4, <2>2, TimesAdd
  <2>4. TimeOf(InPhase(p)) <= db.scan_phases[p].actual_time
    BY DEF DbInv, PhaseIsCounted
  <2>5. TimeOf(InPhase(p) \cup mine(p)) <= time(p)
    <3> HIDE DEF mine
    <3> QED BY <1>5, <1>7, <2>3, <2>4
  <2>6. db'.scan_phases[p].actual_time = time(p) /\ db'.scan_phases[p].allocated_time = share(p)
        /\ db'.scan_phases[p].is_complete = (time(p) <= share(p))
    <3> HIDE DEF mine, time, share
    <3> QED BY <1>8
  <2> HIDE DEF mine, time, share
  <2> QED BY <2>1, <2>5, <2>6 DEF PhaseIsCounted
<1>13. assigned' \subseteq {m.id : m \in ToSet(db'.modules)}
  BY <1>1, <1>2 DEF DbInv, ModulesOf
<1>14. Len(db'.tags) <= Capacity.tags
  BY <1>2 DEF DbInv
<1> QED BY <1>9, <1>10, <1>12, <1>13, <1>14 DEF DbInv

LEMMA DbKept ==
  ASSUME DbInv, DcsDbNext PROVE DbInv'
<1>1. CASE dcs_db_free
  <2>1. (db = dcs_db_init /\ assigned = {} /\ optimised \in 0 .. MaxOptimised)'
    BY <1>1 DEF dcs_db_free, DbInv, DcsDbTypeOK, dcs_db_init
  <2> QED BY <2>1, DbStartsAgain
<1>2. CASE \E t \in Tags : dcs_db_add_tag(t)
  BY <1>2, TagAdded
<1>3. CASE \E c \in Controllers : dcs_db_add_controller(c)
  BY <1>3, ControllerAdded
<1>4. CASE \E i \in IoPoints : dcs_db_add_io_point(i)
  BY <1>4, PointAdded
<1>5. CASE \E m \in Modules : dcs_db_add_control_module(m)
  BY <1>5, ModuleAdded
<1>6. CASE \E c \in ToSet(db.controllers) : dcs_db_optimize_scan_phases(c)
  BY <1>6, PhasesLoaded
<1> QED BY <1>1, <1>2, <1>3, <1>4, <1>5, <1>6 DEF DcsDbNext

(* An area belongs to some tag. *)
LEMMA AreasAreFew ==
  ASSUME DbInv PROVE num_areas <= Max({1, Len(db.tags)})
<1> DEFINE n == Len(db.tags)
           area == [i \in 1 .. n |-> db.tags[i].area]
           A == {area[i] : i \in 1 .. n}
           B == {t.area : t \in ToSet(db.tags)} \ {""}
<1>1. n \in Nat /\ db.tags \in Seq(Tags)
  BY LenProperties DEF DbInv, DcsDbTypeOK
<1>2. IsFiniteSet(1 .. n) /\ Cardinality(1 .. n) = n
  <2>1. 1 \in Int /\ n \in Int
    BY <1>1
  <2>2. IsFiniteSet(1 .. n) /\ Cardinality(1 .. n) = IF 1 > n THEN 0 ELSE n - 1 + 1
    <3> HIDE DEF n
    <3> QED BY <2>1, FS_Interval
  <2> QED BY <1>1, <2>2
<1>3. area \in Surjection(1 .. n, A)
  BY DEF Surjection
<1>4. IsFiniteSet(A) /\ Cardinality(A) <= n
  <2> HIDE DEF A, area, n
  <2> QED BY <1>2, <1>3, FS_Surjection
<1>5. B \in SUBSET A
  <2>1. ToSet(db.tags) = {db.tags[i] : i \in 1 .. n}
    BY <1>1, TableIsFinite
  <2> QED BY <2>1
<1>6. Cardinality(B) \in Nat /\ Cardinality(B) <= n /\ Cardinality(A) \in Nat
  <2> HIDE DEF A, B, n
  <2> QED BY <1>1, <1>4, <1>5, FS_Subset, FS_CardinalityType
<1>7. num_areas = Max({1, Cardinality(B)})
  BY DEF num_areas
<1> HIDE DEF B, n
<1>8. Max({1, Cardinality(B)}) <= Max({1, n})
  <2>1. /\ Max({1, Cardinality(B)}) = IF 1 >= Cardinality(B) THEN 1 ELSE Cardinality(B)
        /\ Max({1, n}) = IF 1 >= n THEN 1 ELSE n
    BY <1>1, <1>6, MaxOfTwo
  <2> QED BY <1>1, <1>6, <2>1
<1> QED BY <1>7, <1>8 DEF n

LEMMA NoneEqual ==
  ASSUME NEW s, Apart(s), DOMAIN s \subseteq Nat PROVE Duplicates(s) = 0
<1>1. {p \in (DOMAIN s) \X (DOMAIN s) : p[1] < p[2] /\ s[p[1]] = s[p[2]]} = {}
  BY DEF Apart
<1> QED BY <1>1, FS_EmptySet DEF Duplicates

LEMMA TablesFollow ==
  ASSUME DbInv PROVE TablesHaveNoDuplicates
<1>1. /\ db.tags \in Seq(Tags) /\ db.controllers \in Seq(Controllers) /\ db.io \in Seq(IoPoints)
  BY DEF DbInv, DcsDbTypeOK
<1>2. \A field : DOMAIN Column(db.tags, field) \subseteq Nat
                 /\ DOMAIN Column(db.controllers, field) \subseteq Nat
  <2>1. DOMAIN db.tags = 1 .. Len(db.tags) /\ DOMAIN db.controllers = 1 .. Len(db.controllers)
        /\ Len(db.tags) \in Nat /\ Len(db.controllers) \in Nat
    BY <1>1, LenProperties
  <2> QED BY <2>1 DEF Column
<1>3. DOMAIN db.io \subseteq Nat
  BY <1>1, LenProperties
<1>4. /\ Duplicates(Column(db.tags, "id")) = 0 /\ Duplicates(Column(db.tags, "name")) = 0
      /\ Duplicates(Column(db.controllers, "id")) = 0 /\ Duplicates(db.io) = 0
  BY <1>2, <1>3, NoneEqual DEF DbInv, TablesApart, TagsApart
<1>5. ASSUME NEW t \in ToSet(db.tags) PROVE dcs_db_find_tag_by_name(t.name) = t.id
  <2> DEFINE found == {u \in ToSet(db.tags) : u.name = t.name}
  <2>1. \A u \in ToSet(db.tags) : u.name = t.name => u = t
    <3>1. Apart(Column(db.tags, "name"))
      BY DEF DbInv, TablesApart, TagsApart
    <3> QED BY <3>1 DEF Apart, Column, ToSet
  <2>2. found = {t}
    BY <2>1
  <2>3. (CHOOSE u \in {t} : TRUE) = t
    BY Zenon
  <2> QED BY <2>2, <2>3 DEF dcs_db_find_tag_by_name
<1>6. growth_margin_pct \in 0 .. 100
  <2>1. Capacity.tags \in Nat /\ Len(db.tags) \in Nat /\ Len(db.tags) <= Capacity.tags
    BY <1>1, LenProperties, DbNumbers DEF DbInv
  <2>2. CASE Capacity.tags > 0
    <3> DEFINE a == (Capacity.tags - Len(db.tags)) * 100
               b == Capacity.tags
    <3>1. a \in Nat /\ b \in Nat \ {0} /\ a <= 100 * b
      BY <2>1, <2>2
    <3>2. growth_margin_pct = a \div b
      BY <2>2 DEF growth_margin_pct
    <3> HIDE DEF a, b
    <3>3. a \div b \in Nat /\ a \div b <= 100
      BY <3>1, QuotientIsNat, QuotientBelow
    <3> QED BY <3>2, <3>3
  <2>3. CASE ~(Capacity.tags > 0)
    <3>1. growth_margin_pct = 0
      BY <2>3, Zenon DEF growth_margin_pct
    <3> QED BY <3>1
  <2> QED BY <2>2, <2>3
<1> QED BY <1>4, <1>5, <1>6, AreasAreFew DEF TablesHaveNoDuplicates

LEMMA PhasesFollow ==
  ASSUME DbInv PROVE FittingPhasesFit
<1>1. ASSUME NEW p \in 1 .. 5, db.scan_phases[p].is_complete
      PROVE  TimeOf({m \in ToSet(db.modules) : m.id \in assigned /\ PhaseOf(m) = p})
               <= db.scan_phases[p].allocated_time
  <2>1. InPhase(p) = {m \in ToSet(db.modules) : m.id \in assigned /\ PhaseOf(m) = p}
    BY DEF InPhase
  <2>2. TimeOf(InPhase(p)) \in Nat
    <3>1. InPhase(p) \in SUBSET Modules /\ IsFiniteSet(InPhase(p))
      BY PartsOfTheTable
    <3> QED BY <3>1, TimesAdd
  <2>3. db.scan_phases[p].actual_time \in Nat /\ db.scan_phases[p].allocated_time \in Nat
    BY DEF DbInv, DcsDbTypeOK, ScanPhase
  <2>4. PhaseIsCounted(p)
    BY DEF DbInv
  <2> QED BY <1>1, <2>1, <2>2, <2>3, <2>4 DEF PhaseIsCounted
<1>2. ASSUME NEW c \in ToSet(db.controllers), dcs_db_analyze_controller_load(c), c.scan_period > 0
      PROVE  TimeOf(ModulesOf(c)) * 3 <= c.scan_period * 2
  <2> DEFINE T == TimeOf(ModulesOf(c))
             P == c.scan_period
             x == (T * 115 + P - 1) \div P
  <2>1. P \in Nat \ {0}
    <3>1. db.controllers \in Seq(Controllers)
      BY DEF DbInv, DcsDbTypeOK
    <3>2. c \in Controllers
      BY <3>1, TableIsFinite
    <3> QED BY <1>2, <3>2, DbNumbers
  <2>2. T \in Nat
    <3>1. ModulesOf(c) \in SUBSET Modules /\ IsFiniteSet(ModulesOf(c))
      BY PartsOfTheTable
    <3> QED BY <3>1, TimesAdd
  <2>3. LoadOf(c) = Min({100, x}) /\ LoadOf(c) <= 70
    BY <1>2, <2>1 DEF LoadOf, dcs_db_analyze_controller_load
  <2>4. x \in Nat /\ T * 115 <= x * P
    <3> HIDE DEF T, P
    <3>1. T * 115 + P - 1 \in Nat
      BY <2>1, <2>2
    <3> DEFINE a == T * 115 + P - 1
    <3>2. a \div P \in Nat /\ a < (a \div P) * P + P
      <4>1. a \in Nat
        BY <3>1
      <4> HIDE DEF a
      <4> QED BY <2>1, <4>1
    <3>3. x = a \div P
      OBVIOUS
    <3> HIDE DEF x
    <3>4. x \in Nat /\ T * 115 + P - 1 < x * P + P
      BY <3>2, <3>3
    <3> QED BY <2>1, <2>2, <3>4
  <2> HIDE DEF x, T, P
  <2>5. x <= 70
    <3>1. Min({100, x}) = IF 100 <= x THEN 100 ELSE x
      BY <2>4, MinOfTwo
    <3> QED BY <2>3, <2>4, <3>1
  <2>6. x * P <= 70 * P
    BY <2>1, <2>4, <2>5
  <2>7. T * 115 <= 70 * P
    BY <2>1, <2>2, <2>4, <2>6
  <2> QED BY <2>1, <2>2, <2>7 DEF T, P
<1> QED BY <1>1, <1>2 DEF FittingPhasesFit

-----------------------------------------------------------------------------
(* The sum of a sequence, and the sequence of the entries of sequences. *)

LEMMA SumSeqIs ==
  ASSUME NEW D, NEW s, IsFiniteSet(D), s \in [D -> Int]
  PROVE  \E g \in Sums(D, s) : SumSeq(s) = g[D]
<1> DEFINE Eq(h) == h = [t \in SUBSET D |->
                           IF t = {} THEN 0
                           ELSE LET x == CHOOSE y \in t : TRUE IN s[x] + h[t \ {x}]]
           iter == CHOOSE h : Eq(h)
<1>1. PICK g : g \in Sums(D, s)
  BY SumsExist
<1>2. DOMAIN s = D
  OBVIOUS
<1>3. SumSeq(s) = iter[D]
  BY <1>2, Zenon DEF SumSeq, FoldFunction, FoldFunctionOnSet, MapThenFoldSet
<1>4. /\ g \in [SUBSET D -> Int]
      /\ \A t \in SUBSET D : g[t] = IF t = {} THEN 0 ELSE s[Picked(t)] + g[t \ {Picked(t)}]
  BY <1>1 DEF Sums
<1>5. Eq(g)
  <2>1. g = [t \in SUBSET D |-> IF t = {} THEN 0 ELSE s[Picked(t)] + g[t \ {Picked(t)}]]
    BY <1>4
  <2> QED BY <2>1, Zenon DEF Picked
<1>6. Eq(iter)
  BY <1>5, Zenon
<1>7. ASSUME NEW h, Eq(h), NEW t \in SUBSET D
      PROVE  h[t] = IF t = {} THEN 0 ELSE s[Picked(t)] + h[t \ {Picked(t)}]
  BY <1>7 DEF Picked
<1> DEFINE T == {t \in SUBSET D : iter[t] = g[t]}
<1>8. {} \in T
  <2>1. iter[{}] = 0 /\ g[{}] = 0
    <3> HIDE DEF iter, Eq
    <3> QED BY <1>5, <1>6, <1>7
  <2> QED BY <2>1
<1>9. ASSUME NEW t \in SUBSET D, t # {}, \A x \in t : t \ {x} \in T
      PROVE  t \in T
  <2>1. Picked(t) \in t
    BY <1>9 DEF Picked
  <2>2. iter[t \ {Picked(t)}] = g[t \ {Picked(t)}]
    BY <1>9, <2>1
  <2>3. /\ iter[t] = s[Picked(t)] + iter[t \ {Picked(t)}]
        /\ g[t] = s[Picked(t)] + g[t \ {Picked(t)}]
    <3> HIDE DEF Eq, iter
    <3> QED BY <1>5, <1>6, <1>7, <1>9
  <2> HIDE DEF iter
  <2> QED BY <2>2, <2>3
<1>10. D \in T
  <2>1. SUBSET D \subseteq T
    <3> HIDE DEF T
    <3> QED BY <1>8, <1>9, SubsetInduction
  <2> HIDE DEF T
  <2> QED BY <2>1
<1> QED BY <1>1, <1>3, <1>10

(* The course of FlattenSeq. *)
LEMMA FlattenIs ==
  ASSUME NEW S, NEW seqs \in Seq(Seq(S)), Len(seqs) > 0
  PROVE  \E h : /\ h[1] = seqs[1]
                /\ \A i \in 2 .. Len(seqs) : h[i] = h[i - 1] \o seqs[i]
                /\ FlattenSeq(seqs) = h[Len(seqs)]
<1> DEFINE n == Len(seqs)
           Eq(h) == h = [i \in 1 .. n |-> IF i = 1 THEN seqs[i] ELSE h[i - 1] \o seqs[i]]
           flat == CHOOSE h : Eq(h)
           F == [i \in 1 .. n |-> [x \in Seq(S) |-> x \o seqs[i]]]
<1>1. n \in Nat /\ \A i \in 1 .. n : seqs[i] \in Seq(S)
  BY LenProperties, ElementOfSeq
<1>2. F \in [1 .. n -> [Seq(S) -> Seq(S)]]
  <2>1. ASSUME NEW i \in 1 .. n, NEW x \in Seq(S) PROVE x \o seqs[i] \in Seq(S)
    BY <1>1, ConcatProperties
  <2> HIDE DEF n
  <2> QED BY <2>1
<1>3. PICK g : g \in Courses(n, Seq(S), << >>, F)
  <2>1. << >> \in Seq(S)
    BY EmptySeq
  <2> HIDE DEF F, n
  <2> QED BY <1>1, <1>2, <2>1, Iteration
<1>4. /\ g \in [0 .. n -> Seq(S)] /\ g[0] = << >>
      /\ \A i \in 1 .. n : g[i] = g[i - 1] \o seqs[i]
  <2>1. g \in [0 .. n -> Seq(S)] /\ g[0] = << >> /\ \A i \in 1 .. n : g[i] = F[i][g[i - 1]]
    <3> HIDE DEF F, n
    <3> QED BY <1>3 DEF Courses
  <2>2. \A i \in 1 .. n : i - 1 \in 0 .. n
    BY <1>1
  <2> HIDE DEF n
  <2> QED BY <2>1, <2>2
<1>5. Eq([i \in 1 .. n |-> g[i]])
  <2> DEFINE k == [i \in 1 .. n |-> g[i]]
  <2>1. \A i \in 1 .. n : i # 1 => i - 1 \in 1 .. n
    BY <1>1
  <2>2. n > 0 => g[1] = seqs[1]
    <3>1. n > 0 => 1 \in 1 .. n /\ 1 - 1 = 0
      BY <1>1
    <3>2. n > 0 => g[1] = << >> \o seqs[1]
      <4> HIDE DEF n
      <4> QED BY <1>4, <3>1
    <3>3. n > 0 => << >> \o seqs[1] = seqs[1]
      <4> HIDE DEF n
      <4> QED BY <1>1, <3>1, ConcatEmptySeq
    <3> QED BY <3>2, <3>3
  <2>3. ASSUME NEW i \in 1 .. n
        PROVE  k[i] = IF i = 1 THEN seqs[i] ELSE k[i - 1] \o seqs[i]
    <3>1. k[i] = g[i] /\ (i # 1 => k[i - 1] = g[i - 1])
      BY <2>1
    <3>2. i = 1 => g[i] = seqs[i]
      BY <1>1, <2>2
    <3>3. g[i] = g[i - 1] \o seqs[i]
      BY <1>4
    <3> HIDE DEF k, n
    <3> QED BY <3>1, <3>2, <3>3
  <2>4. k = [i \in 1 .. n |-> k[i]]
    OBVIOUS
  <2> HIDE DEF k, n
  <2> QED BY <2>3, <2>4 DEF k
<1>6. Eq(flat)
  BY <1>5, Zenon
<1>7. FlattenSeq(seqs) = flat[n]
  <2>1. ~(Len(seqs) = 0)
    BY <1>1
  <2> QED BY <2>1, Zenon DEF FlattenSeq
<1>8. flat[1] = seqs[1] /\ \A i \in 2 .. n : flat[i] = flat[i - 1] \o seqs[i]
  <2>1. 1 \in 1 .. n /\ \A i \in 2 .. n : i \in 1 .. n /\ i # 1
    BY <1>1
  <2>2. ASSUME NEW h, Eq(h), NEW i \in 1 .. n
        PROVE  h[i] = IF i = 1 THEN seqs[i] ELSE h[i - 1] \o seqs[i]
    BY <2>2
  <2> HIDE DEF Eq, flat, n
  <2> QED BY <1>6, <2>1, <2>2
<1> QED BY <1>7, <1>8

(* It is a sequence over the same set, as long as the others together. *)
LEMMA FlattenedIs ==
  ASSUME NEW S, NEW seqs \in Seq(Seq(S))
  PROVE  /\ FlattenSeq(seqs) \in Seq(S)
         /\ Len(FlattenSeq(seqs)) = SumSeq([i \in 1 .. Len(seqs) |-> Len(seqs[i])])
<1> DEFINE n == Len(seqs)
           lens == [i \in 1 .. n |-> Len(seqs[i])]
<1>1. n \in Nat /\ \A i \in 1 .. n : seqs[i] \in Seq(S)
  BY LenProperties, ElementOfSeq
<1>2. lens \in [1 .. n -> Int] /\ \A i \in 1 .. n : lens[i] = Len(seqs[i]) /\ lens[i] \in Nat
  BY <1>1, LenProperties
<1>3. IsFiniteSet(1 .. n)
  <2>1. 1 \in Int /\ n \in Int
    BY <1>1
  <2> HIDE DEF n
  <2> QED BY <2>1, FS_Interval
<1>4. PICK g \in Sums(1 .. n, lens) : SumSeq(lens) = g[1 .. n]
  <2> HIDE DEF n, lens
  <2> QED BY <1>2, <1>3, SumSeqIs
<1>5. g \in [SUBSET (1 .. n) -> Int] /\ g[{}] = 0 /\ AnyOrder(1 .. n, lens, g)
  <2> HIDE DEF n, lens
  <2> QED BY <1>2, <1>3, <1>4, SumsAnyOrder DEF Sums
<1>6. CASE n = 0
  <2>1. seqs = << >>
    BY <1>6
  <2>2. FlattenSeq(seqs) = << >>
    BY <1>6, <2>1, Zenon DEF FlattenSeq
  <2>3. 1 .. n = {}
    BY <1>6
  <2>4. << >> \in Seq(S) /\ Len(<< >>) = 0
    BY EmptySeq
  <2>5. SumSeq(lens) = 0
    <3> HIDE DEF lens, n
    <3> QED BY <1>4, <1>5, <2>3
  <2> QED BY <2>2, <2>4, <2>5
<1>7. CASE n > 0
  <2>1. PICK h : /\ h[1] = seqs[1]
                 /\ \A i \in 2 .. n : h[i] = h[i - 1] \o seqs[i]
                 /\ FlattenSeq(seqs) = h[n]
    <3>1. Len(seqs) > 0
      BY <1>7
    <3> QED BY <3>1, FlattenIs
  <2> DEFINE T == {k \in 0 .. n : k > 0 => h[k] \in Seq(S) /\ Len(h[k]) = g[1 .. k]}
  <2>2. 0 \in T
    BY <1>1
  <2>3. ASSUME NEW k \in 0 .. n - 1, k \in T PROVE k + 1 \in T
    <3>1. k + 1 \in 1 .. n /\ k \in Nat
      BY <1>1, <2>3
    <3>2. /\ 1 .. k + 1 \in SUBSET (1 .. n) /\ k + 1 \in 1 .. k + 1
          /\ (1 .. k + 1) \ {k + 1} = 1 .. k
      BY <1>1, <3>1
    <3>3. g[1 .. k + 1] = lens[k + 1] + g[1 .. k]
      <4> HIDE DEF n, lens
      <4> QED BY <1>5, <3>1, <3>2 DEF AnyOrder
    <3>4. CASE k = 0
      <4>1. h[1] = seqs[1] /\ 1 \in 1 .. n /\ 1 .. 0 = {}
        BY <2>1, <3>1, <3>4
      <4>2. g[1 .. 1] = lens[1] /\ lens[1] = Len(seqs[1]) /\ lens[1] \in Nat
        <5> HIDE DEF n, lens
        <5> QED BY <1>2, <1>5, <3>3, <3>4, <4>1
      <4> HIDE DEF lens
      <4> QED BY <1>1, <3>1, <3>4, <4>1, <4>2
    <3>5. CASE k > 0
      <4>1. h[k] \in Seq(S) /\ Len(h[k]) = g[1 .. k]
        BY <2>3, <3>5
      <4>2. h[k + 1] = h[k] \o seqs[k + 1]
        <5>1. k + 1 \in 2 .. n /\ (k + 1) - 1 = k
          BY <1>1, <3>1, <3>5
        <5> HIDE DEF n
        <5> QED BY <2>1, <5>1
      <4>3. h[k + 1] \in Seq(S) /\ Len(h[k + 1]) = Len(h[k]) + Len(seqs[k + 1])
        <5>1. seqs[k + 1] \in Seq(S)
          BY <1>1, <3>1
        <5> QED BY ZenonT(30), <4>1, <4>2, <5>1, ConcatProperties
      <4>4. Len(h[k]) \in Nat /\ Len(seqs[k + 1]) \in Nat /\ lens[k + 1] = Len(seqs[k + 1])
        <5> HIDE DEF lens
        <5> QED BY <1>1, <1>2, <3>1, <4>1, LenProperties
      <4>5. Len(h[k + 1]) = g[1 .. k + 1]
        <5> HIDE DEF lens
        <5> QED BY <3>3, <4>1, <4>3, <4>4
      <4> QED BY <3>1, <4>3, <4>5
    <3> QED BY <3>1, <3>4, <3>5
  <2>4. n \in T
    <3>1. 0 .. n \subseteq T
      <4> HIDE DEF T, n
      <4> QED BY <1>1, <2>2, <2>3, SetInduction
    <3>2. n \in 0 .. n
      BY <1>1
    <3> HIDE DEF T
    <3> QED BY <3>1, <3>2
  <2>5. h[n] \in Seq(S) /\ Len(h[n]) = g[1 .. n]
    <3> HIDE DEF lens, n
    <3> QED BY <1>7, <2>4
  <2>6. FlattenSeq(seqs) \in Seq(S) /\ Len(FlattenSeq(seqs)) = SumSeq(lens)
    <3> HIDE DEF lens, n
    <3> QED BY <1>4, <2>1, <2>5
  <2> QED BY <2>6
<1> QED BY <1>1, <1>6, <1>7

-----------------------------------------------------------------------------
(* The ISA-88 batch.  The invariant: an operation has as many completed *)
(* phases as its index says and untouched ones after the next; a phase *)
(* with a duration that is not complete has not run for it yet; and a batch*)
(* that was never started has completed nothing. *)

LEMMA Isa88Numbers ==
  /\ OperationKinds \subseteq Seq(Nat) /\ << >> \notin OperationKinds
  /\ Steps \subseteq Nat /\ UnitCapacities \in Seq(Nat)
  /\ MaxOperations \in Nat /\ MaxElapsed \in Nat
BY Isa88Assumption

NotYetDone(phase) ==
  phase.state \in {"RUNNING", "HELD", "RESTARTING"} /\ phase.duration > 0
    => phase.elapsed < phase.duration

SoundPhase == {phase \in RecipePhase : NotYetDone(phase)}

SoundOperation ==
  {op \in [phases : Seq(SoundPhase), current_phase_idx : Nat, is_complete : BOOLEAN] :
     /\ Len(op.phases) > 0 /\ op.current_phase_idx <= Len(op.phases)
     /\ op.is_complete <=> op.current_phase_idx = Len(op.phases)
     /\ \A p \in 1 .. Len(op.phases) :
          /\ p <= op.current_phase_idx <=> op.phases[p].state = "COMPLETE"
          /\ p > op.current_phase_idx + 1 => op.phases[p].state = "IDLE"}

Isa88Inv ==
  /\ recipe \in [batch_state : Isa88BatchState, operations : Seq(SoundOperation)]
  /\ units \in [DOMAIN UnitCapacities -> Isa88UnitState]
  /\ recipe.batch_state = "IDLE"
       => \A o \in 1 .. Len(recipe.operations) : recipe.operations[o].current_phase_idx = 0

LEMMA Isa88Starts == Isa88Init => Isa88Inv
<1> SUFFICES ASSUME Isa88Init PROVE Isa88Inv
  OBVIOUS
<1>1. << >> \in Seq(SoundOperation) /\ Len(<< >>) = 0
  BY EmptySeq
<1>2. recipe = [batch_state |-> "IDLE", operations |-> << >>]
  BY DEF Isa88Init, isa88_recipe_init
<1>3. units \in [DOMAIN UnitCapacities -> Isa88UnitState]
  BY DEF Isa88Init, Isa88UnitState
<1> QED BY <1>1, <1>2, <1>3 DEF Isa88Inv, Isa88BatchState

LEMMA OperationIs ==
  ASSUME NEW op \in SoundOperation
  PROVE  /\ op.phases \in Seq(SoundPhase) /\ Len(op.phases) \in Nat
         /\ DOMAIN op.phases = 1 .. Len(op.phases)
         /\ op.current_phase_idx \in Nat /\ op.is_complete \in BOOLEAN
         /\ op = [phases |-> op.phases, current_phase_idx |-> op.current_phase_idx,
                  is_complete |-> op.is_complete]
         /\ Len(op.phases) > 0 /\ op.current_phase_idx <= Len(op.phases)
         /\ op.is_complete <=> op.current_phase_idx = Len(op.phases)
<1>1. /\ op \in [phases : Seq(SoundPhase), current_phase_idx : Nat, is_complete : BOOLEAN]
      /\ Len(op.phases) > 0 /\ op.current_phase_idx <= Len(op.phases)
      /\ op.is_complete <=> op.current_phase_idx = Len(op.phases)
  BY DEF SoundOperation
<1>2. op.phases \in Seq(SoundPhase)
  BY <1>1
<1>3. Len(op.phases) \in Nat /\ DOMAIN op.phases = 1 .. Len(op.phases)
  BY <1>2, LenProperties
<1> QED BY <1>1, <1>2, <1>3

LEMMA PhasesInOrder ==
  ASSUME NEW op \in SoundOperation, NEW p \in 1 .. Len(op.phases)
  PROVE  /\ op.phases[p] \in SoundPhase
         /\ p <= op.current_phase_idx <=> op.phases[p].state = "COMPLETE"
         /\ p > op.current_phase_idx + 1 => op.phases[p].state = "IDLE"
<1>1. op.phases \in Seq(SoundPhase)
  BY OperationIs
<1>2. op.phases[p] \in SoundPhase
  BY <1>1, ElementOfSeq
<1> QED BY <1>2 DEF SoundOperation

LEMMA OperationsAre ==
  ASSUME Isa88Inv
  PROVE  /\ recipe.operations \in Seq(SoundOperation) /\ Len(recipe.operations) \in Nat
         /\ DOMAIN recipe.operations = 1 .. Len(recipe.operations)
         /\ \A o \in 1 .. Len(recipe.operations) : recipe.operations[o] \in SoundOperation
         /\ recipe.batch_state \in Isa88BatchState
         /\ recipe = [batch_state |-> recipe.batch_state, operations |-> recipe.operations]
<1>1. recipe \in [batch_state : Isa88BatchState, operations : Seq(SoundOperation)]
  BY DEF Isa88Inv
<1>2. recipe.operations \in Seq(SoundOperation)
  BY <1>1
<1> QED BY <1>1, <1>2, LenProperties, ElementOfSeq

LEMMA SoundPhaseIs ==
  ASSUME NEW s \in Isa88PhaseState, NEW d \in Nat, NEW e \in Nat,
         s \in {"RUNNING", "HELD", "RESTARTING"} /\ d > 0 => e < d
  PROVE  [state |-> s, duration |-> d, elapsed |-> e] \in SoundPhase
BY DEF SoundPhase, RecipePhase, NotYetDone

(* What a scan makes of a phase. *)
LEMMA PhaseExecuted ==
  ASSUME NEW phase \in SoundPhase, NEW dt \in Steps, phase.state # "COMPLETE"
  PROVE  isa88_phase_execute(phase, dt) \in SoundPhase
<1> DEFINE minutes == Min({phase.elapsed + dt, MaxElapsed})
           next == isa88_phase_execute(phase, dt)
<1>1. /\ phase \in RecipePhase /\ NotYetDone(phase)
      /\ phase.state \in Isa88PhaseState /\ phase.duration \in Nat /\ phase.elapsed \in Nat
      /\ phase = [state |-> phase.state, duration |-> phase.duration, elapsed |-> phase.elapsed]
  BY DEF SoundPhase, RecipePhase
<1>2. minutes \in Nat
  <2>1. phase.elapsed + dt \in Nat /\ MaxElapsed \in Nat
    BY <1>1, Isa88Numbers
  <2>2. minutes = IF phase.elapsed + dt <= MaxElapsed THEN phase.elapsed + dt ELSE MaxElapsed
    BY <2>1, MinOfTwo
  <2> QED BY <2>1, <2>2
<1> HIDE DEF minutes
<1>0. {"RUNNING", "COMPLETE"} \subseteq Isa88PhaseState
  BY DEF Isa88PhaseState, Isa88BatchState
<1> SUFFICES next \in SoundPhase
  OBVIOUS
<1>3. CASE phase.state = "IDLE"
  <2>1. next = [state |-> "RUNNING", duration |-> phase.duration, elapsed |-> 0]
    BY <1>1, <1>3 DEF isa88_phase_execute
  <2> HIDE DEF next
  <2> QED BY <1>0, <1>1, <2>1, SoundPhaseIs
<1>4. CASE phase.state = "RESTARTING"
  <2>1. next = [state |-> "RUNNING", duration |-> phase.duration, elapsed |-> phase.elapsed]
    BY <1>1, <1>4 DEF isa88_phase_execute
  <2>2. phase.duration > 0 => phase.elapsed < phase.duration
    BY <1>1, <1>4 DEF NotYetDone
  <2> HIDE DEF next
  <2> QED BY <1>0, <1>1, <2>1, <2>2, SoundPhaseIs
<1>5. CASE phase.state = "RUNNING"
  <2> DEFINE st == IF phase.duration > 0 /\ minutes >= phase.duration THEN "COMPLETE" ELSE "RUNNING"
  <2>1. next = [phase EXCEPT !.elapsed = minutes,
                             !.state = IF phase.duration > 0 /\ minutes >= phase.duration
                                       THEN "COMPLETE" ELSE @]
    BY <1>5 DEF isa88_phase_execute, minutes
  <2>2. next = [state |-> st, duration |-> phase.duration, elapsed |-> minutes]
    BY <1>1, <1>5, <2>1
  <2>3. st \in Isa88PhaseState
        /\ (st \in {"RUNNING", "HELD", "RESTARTING"} /\ phase.duration > 0
              => minutes < phase.duration)
    BY <1>0, <1>1, <1>2
  <2> HIDE DEF next, st
  <2> QED BY <1>1, <1>2, <2>2, <2>3, SoundPhaseIs
<1>6. CASE phase.state \notin {"IDLE", "RESTARTING", "RUNNING"}
  <2>1. next = phase
    BY <1>6 DEF isa88_phase_execute
  <2> QED BY <2>1
<1> QED BY <1>3, <1>4, <1>5, <1>6

LEMMA ThreeFieldsSet ==
  ASSUME NEW A, NEW B, NEW C, NEW ps, NEW i, NEW done, NEW n, NEW phase,
         NEW op \in [phases : A, current_phase_idx : B, is_complete : C],
         ps = [op.phases EXCEPT ![n] = phase]
  PROVE  [op EXCEPT !.phases[n] = phase, !.current_phase_idx = i, !.is_complete = done]
           = [phases |-> ps, current_phase_idx |-> i, is_complete |-> done]
<1>1. /\ op = [phases |-> op.phases, current_phase_idx |-> op.current_phase_idx,
               is_complete |-> op.is_complete]
      /\ DOMAIN op = {"phases", "current_phase_idx", "is_complete"}
  OBVIOUS
<1>2. [op EXCEPT !.phases = ps]
        = [phases |-> ps, current_phase_idx |-> op.current_phase_idx,
           is_complete |-> op.is_complete]
  BY <1>1
<1>3. [[phases |-> ps, current_phase_idx |-> op.current_phase_idx,
        is_complete |-> op.is_complete] EXCEPT !.current_phase_idx = i]
        = [phases |-> ps, current_phase_idx |-> i, is_complete |-> op.is_complete]
  OBVIOUS
<1>4. [[phases |-> ps, current_phase_idx |-> i, is_complete |-> op.is_complete]
        EXCEPT !.is_complete = done]
        = [phases |-> ps, current_phase_idx |-> i, is_complete |-> done]
  OBVIOUS
<1> QED BY Zenon, <1>2, <1>3, <1>4

(* What becomes of an operation whose next phase becomes this one. *)
LEMMA WithPhaseIs ==
  ASSUME NEW op \in SoundOperation, ~op.is_complete, NEW phase \in SoundPhase
  PROVE  /\ WithPhase(op, phase) \in SoundOperation
         /\ Len(WithPhase(op, phase).phases) = Len(op.phases)
         /\ WithPhase(op, phase).current_phase_idx
              = IF phase.state = "COMPLETE" THEN op.current_phase_idx + 1 ELSE op.current_phase_idx
<1> DEFINE next == op.current_phase_idx + 1
           ps == [op.phases EXCEPT ![next] = phase]
           idx == IF phase.state = "COMPLETE" THEN next ELSE op.current_phase_idx
           done == phase.state = "COMPLETE" /\ next >= Len(op.phases)
<1>1. /\ op.phases \in Seq(SoundPhase) /\ Len(op.phases) \in Nat
      /\ op.current_phase_idx \in Nat /\ op.current_phase_idx < Len(op.phases)
      /\ op = [phases |-> op.phases, current_phase_idx |-> op.current_phase_idx,
               is_complete |-> op.is_complete]
  BY OperationIs
<1>2. next \in 1 .. Len(op.phases)
  BY <1>1
<1>3. /\ ps \in Seq(SoundPhase) /\ Len(ps) = Len(op.phases)
      /\ \A p \in 1 .. Len(op.phases) : ps[p] = IF p = next THEN phase ELSE op.phases[p]
  <2> HIDE DEF next
  <2> QED BY <1>1, <1>2, ExceptSeq
<1>4. WithPhase(op, phase) = [phases |-> ps, current_phase_idx |-> idx, is_complete |-> done]
  <2>1. WithPhase(op, phase)
          = [op EXCEPT !.phases[next] = phase, !.current_phase_idx = idx, !.is_complete = done]
    BY DEF WithPhase
  <2>2. ps = [op.phases EXCEPT ![next] = phase]
    OBVIOUS
  <2>3. op \in [phases : Seq(SoundPhase), current_phase_idx : Nat, is_complete : BOOLEAN]
    BY DEF SoundOperation
  <2> HIDE DEF ps, idx, done, next
  <2> QED BY <2>1, <2>2, <2>3, ThreeFieldsSet
<1>5. idx \in Nat /\ idx <= Len(ps) /\ done \in BOOLEAN /\ (done <=> idx = Len(ps))
  BY <1>1, <1>2, <1>3
<1>6. ASSUME NEW p \in 1 .. Len(ps)
      PROVE  /\ p <= idx <=> ps[p].state = "COMPLETE"
             /\ p > idx + 1 => ps[p].state = "IDLE"
  <2>1. p \in 1 .. Len(op.phases)
    BY <1>3
  <2>2. /\ p <= op.current_phase_idx <=> op.phases[p].state = "COMPLETE"
        /\ p > op.current_phase_idx + 1 => op.phases[p].state = "IDLE"
    BY <2>1, PhasesInOrder
  <2>3. CASE p = next
    <3>1. ps[p] = phase
      <4> HIDE DEF ps, next
      <4> QED BY <1>3, <2>1, <2>3
    <3> HIDE DEF ps
    <3> QED BY <1>1, <2>3, <3>1
  <2>4. CASE p # next
    <3>1. ps[p] = op.phases[p]
      <4> HIDE DEF ps, next
      <4> QED BY <1>3, <2>1, <2>4
    <3> HIDE DEF ps
    <3> QED BY <1>1, <2>1, <2>2, <2>4, <3>1
  <2> QED BY <2>3, <2>4
<1> HIDE DEF ps, idx, done, next
<1>7. [phases |-> ps, current_phase_idx |-> idx, is_complete |-> done] \in SoundOperation
  BY <1>1, <1>3, <1>5, <1>6 DEF SoundOperation
<1> QED BY <1>3, <1>4, <1>7 DEF idx, next

(* The operation that a step works on: the first that is not complete. *)
LEMMA FirstIncomplete ==
  ASSUME Isa88Inv, incomplete(recipe.operations) # {}
  PROVE  /\ Min(incomplete(recipe.operations)) \in 1 .. Len(recipe.operations)
         /\ ~recipe.operations[Min(incomplete(recipe.operations))].is_complete
<1>1. DOMAIN recipe.operations = 1 .. Len(recipe.operations) /\ Len(recipe.operations) \in Nat
  BY OperationsAre
<1>2. incomplete(recipe.operations) \subseteq Nat
  BY <1>1 DEF incomplete
<1>3. Min(incomplete(recipe.operations)) \in incomplete(recipe.operations)
  BY <1>2, MinOfNats
<1> QED BY <1>1, <1>3 DEF incomplete

LEMMA NextPhaseIs ==
  ASSUME NEW op \in SoundOperation, ~op.is_complete, NEW dt \in Steps
  PROVE  isa88_phase_execute(op.phases[op.current_phase_idx + 1], dt) \in SoundPhase
<1> DEFINE next == op.current_phase_idx + 1
<1>1. /\ Len(op.phases) \in Nat /\ op.current_phase_idx \in Nat
      /\ op.current_phase_idx < Len(op.phases)
  BY OperationIs
<1>2. next \in 1 .. Len(op.phases)
  BY <1>1
<1>3. op.phases[next] \in SoundPhase /\ op.phases[next].state # "COMPLETE"
  <2>1. /\ op.phases[next] \in SoundPhase
        /\ next <= op.current_phase_idx <=> op.phases[next].state = "COMPLETE"
    <3> HIDE DEF next
    <3> QED BY <1>2, PhasesInOrder
  <2> QED BY <1>1, <2>1
<1> HIDE DEF next
<1> QED BY <1>3, PhaseExecuted DEF next

(* What the steps do to the recipe: to the state of the batch, ... *)
Moves(from, to) ==
  recipe.batch_state \in from /\ recipe' = [recipe EXCEPT !.batch_state = to]

(* ... to one operation, ... *)
Replaces(o, op) ==
  /\ o \in 1 .. Len(recipe.operations) /\ op \in SoundOperation
  /\ recipe' = [recipe EXCEPT !.operations = [recipe.operations EXCEPT ![o] = op]]

(* ... or to its length. *)
Extends(op) ==
  /\ op \in SoundOperation /\ op.current_phase_idx = 0
  /\ recipe' = [recipe EXCEPT !.operations = Append(recipe.operations, op)]

LEMMA MovedKept ==
  ASSUME Isa88Inv, NEW from, NEW to \in Isa88BatchState \ {"IDLE"}, Moves(from, to),
         units' \in [DOMAIN UnitCapacities -> Isa88UnitState]
  PROVE  Isa88Inv'
<1>1. recipe = [batch_state |-> recipe.batch_state, operations |-> recipe.operations]
      /\ recipe.operations \in Seq(SoundOperation)
  BY OperationsAre
<1>2. recipe' = [batch_state |-> to, operations |-> recipe.operations]
  BY <1>1 DEF Moves
<1> QED BY <1>1, <1>2 DEF Isa88Inv

LEMMA ReplacedKept ==
  ASSUME Isa88Inv, NEW o, NEW op, Replaces(o, op),
         recipe.batch_state = "IDLE" => op.current_phase_idx = 0,
         units' \in [DOMAIN UnitCapacities -> Isa88UnitState]
  PROVE  Isa88Inv'
<1> DEFINE ops == [recipe.operations EXCEPT ![o] = op]
<1>1. recipe = [batch_state |-> recipe.batch_state, operations |-> recipe.operations]
      /\ recipe.operations \in Seq(SoundOperation) /\ recipe.batch_state \in Isa88BatchState
  BY OperationsAre
<1>2. o \in 1 .. Len(recipe.operations) /\ op \in SoundOperation
  BY DEF Replaces
<1>3. /\ ops \in Seq(SoundOperation) /\ Len(ops) = Len(recipe.operations)
      /\ \A q \in 1 .. Len(recipe.operations) : ops[q] = IF q = o THEN op ELSE recipe.operations[q]
  BY <1>1, <1>2, ExceptSeq
<1>4. recipe' = [batch_state |-> recipe.batch_state, operations |-> ops]
  <2> HIDE DEF ops
  <2> QED BY <1>1 DEF Replaces, ops
<1> HIDE DEF ops
<1>5. recipe' \in [batch_state : Isa88BatchState, operations : Seq(SoundOperation)]
  BY <1>1, <1>3, <1>4
<1>6. recipe'.batch_state = "IDLE" => \A q \in 1 .. Len(ops) : ops[q].current_phase_idx = 0
  BY <1>3, <1>4 DEF Isa88Inv
<1>7. recipe'.operations = ops
  BY <1>4
<1> QED BY <1>5, <1>6, <1>7 DEF Isa88Inv

LEMMA ExtendedKept ==
  ASSUME Isa88Inv, NEW op, Extends(op),
         units' \in [DOMAIN UnitCapacities -> Isa88UnitState]
  PROVE  Isa88Inv'
<1> DEFINE ops == Append(recipe.operations, op)
           n == Len(recipe.operations)
<1>1. recipe = [batch_state |-> recipe.batch_state, operations |-> recipe.operations]
      /\ recipe.operations \in Seq(SoundOperation) /\ recipe.batch_state \in Isa88BatchState
      /\ n \in Nat
  BY OperationsAre
<1>2. op \in SoundOperation /\ op.current_phase_idx = 0
  BY DEF Extends
<1>3. /\ ops \in Seq(SoundOperation) /\ Len(ops) = n + 1
      /\ \A q \in 1 .. n : ops[q] = recipe.operations[q]
      /\ ops[n + 1] = op
  BY <1>1, <1>2, AppendProperties
<1>4. recipe' = [batch_state |-> recipe.batch_state, operations |-> ops]
  BY <1>1 DEF Extends
<1>5. recipe.batch_state = "IDLE" => \A q \in 1 .. n : recipe.operations[q].current_phase_idx = 0
  BY DEF Isa88Inv
<1> HIDE DEF ops, n
<1>6. recipe' \in [batch_state : Isa88BatchState, operations : Seq(SoundOperation)]
  BY <1>1, <1>3, <1>4
<1>7. recipe'.batch_state = "IDLE" => \A q \in 1 .. Len(ops) : ops[q].current_phase_idx = 0
  <2> SUFFICES ASSUME recipe.batch_state = "IDLE", NEW q \in 1 .. n + 1
               PROVE  ops[q].current_phase_idx = 0
    BY <1>3, <1>4
  <2>1. q \in 1 .. n \/ q = n + 1
    BY <1>1
  <2> QED BY <1>2, <1>3, <1>5, <2>1
<1>8. recipe'.operations = ops
  BY <1>4
<1> QED BY <1>6, <1>7, <1>8 DEF Isa88Inv

(* Every step of the batch is one of them, or is about the units. *)
Stepped ==
  \/ \E c \in DOMAIN transition_table : Moves(transition_table[c], commanded[c])
  \/ incomplete(recipe.operations) = {} /\ Moves({"RUNNING"}, "COMPLETE")
  \/ \E o, op :
       /\ Replaces(o, op)
       /\ Len(op.phases) = Len(recipe.operations[o].phases)
       /\ \/ op.current_phase_idx = recipe.operations[o].current_phase_idx
          \/ /\ recipe.batch_state = "RUNNING" /\ ~recipe.operations[o].is_complete
             /\ op.current_phase_idx = recipe.operations[o].current_phase_idx + 1
  \/ \E op : Extends(op)

LEMMA NestedExcept ==
  ASSUME NEW A, NEW B, NEW r \in [batch_state : A, operations : B], NEW o, NEW op
  PROVE  [r EXCEPT !.operations[o] = op] = [r EXCEPT !.operations = [r.operations EXCEPT ![o] = op]]
OBVIOUS

LEMMA AddingExtends ==
  ASSUME Isa88Inv, NEW d \in OperationKinds, isa88_recipe_add_operation(d)
  PROVE  \E op : Extends(op)
<1> DEFINE idle == [p \in DOMAIN d |-> [state |-> "IDLE", duration |-> d[p], elapsed |-> 0]]
           op == [phases |-> idle, current_phase_idx |-> 0, is_complete |-> FALSE]
<1>1. d \in Seq(Nat) /\ d # << >>
  BY Isa88Numbers
<1>2. /\ Len(d) \in Nat /\ DOMAIN d = 1 .. Len(d) /\ Len(d) > 0
      /\ \A p \in 1 .. Len(d) : d[p] \in Nat
  BY <1>1, LenProperties, ElementOfSeq
<1>3. "IDLE" \in Isa88PhaseState /\ "IDLE" \notin {"RUNNING", "HELD", "RESTARTING"}
  BY DEF Isa88PhaseState, Isa88BatchState
<1>4. \A p \in 1 .. Len(d) : [state |-> "IDLE", duration |-> d[p], elapsed |-> 0] \in SoundPhase
  BY <1>2, <1>3, SoundPhaseIs
<1>5. /\ idle \in Seq(SoundPhase) /\ Len(idle) = Len(d)
      /\ \A p \in 1 .. Len(d) : idle[p].state = "IDLE"
  <2>1. idle \in [1 .. Len(d) -> SoundPhase]
    BY <1>2, <1>4
  <2>2. idle \in Seq(SoundPhase) /\ Len(idle) = Len(d)
    <3>1. DOMAIN idle = 1 .. Len(d)
      BY <1>2
    <3> HIDE DEF idle
    <3> QED BY <1>2, <2>1, <3>1, SeqDef
  <2> QED BY <1>2, <2>2
<1> HIDE DEF idle
<1>6. op \in SoundOperation
  BY <1>2, <1>5 DEF SoundOperation
<1>7. op.current_phase_idx = 0
  OBVIOUS
<1>8. recipe' = [recipe EXCEPT !.operations = Append(recipe.operations, op)]
  BY DEF isa88_recipe_add_operation, idle
<1> HIDE DEF op
<1> QED BY <1>6, <1>7, <1>8 DEF Extends

LEMMA ExecutingSteps ==
  ASSUME Isa88Inv, NEW dt \in Steps, isa88_batch_execute_step(dt) PROVE Stepped
<1> DEFINE todo == incomplete(recipe.operations)
           o == Min(todo)
           op == recipe.operations[o]
           phase == isa88_phase_execute(op.phases[op.current_phase_idx + 1], dt)
<1>1. recipe.batch_state = "RUNNING"
  BY DEF isa88_batch_execute_step
<1>2. CASE todo = {}
  <2>1. Moves({"RUNNING"}, "COMPLETE")
    BY <1>1, <1>2 DEF isa88_batch_execute_step, Moves
  <2> QED BY <1>2, <2>1 DEF Stepped
<1>3. CASE todo # {}
  <2>1. o \in 1 .. Len(recipe.operations) /\ ~op.is_complete
    BY <1>3, FirstIncomplete
  <2>2. op \in SoundOperation
    BY <2>1, OperationsAre
  <2>3. phase \in SoundPhase
    <3> HIDE DEF op
    <3> QED BY <2>1, <2>2, NextPhaseIs
  <2>4. /\ WithPhase(op, phase) \in SoundOperation
        /\ Len(WithPhase(op, phase).phases) = Len(op.phases)
        /\ WithPhase(op, phase).current_phase_idx
             = IF phase.state = "COMPLETE" THEN op.current_phase_idx + 1 ELSE op.current_phase_idx
    <3> HIDE DEF op, phase
    <3> QED BY <2>1, <2>2, <2>3, WithPhaseIs
  <2>5. recipe' = [recipe EXCEPT !.operations[o] = WithPhase(op, phase)]
    BY <1>3 DEF isa88_batch_execute_step
  <2>6. recipe' = [recipe EXCEPT !.operations = [recipe.operations EXCEPT ![o] = WithPhase(op, phase)]]
    <3>1. recipe \in [batch_state : Isa88BatchState, operations : Seq(SoundOperation)]
      BY DEF Isa88Inv
    <3> HIDE DEF o, op, phase
    <3> QED BY <2>5, <3>1, NestedExcept
  <2>7. Replaces(o, WithPhase(op, phase))
    <3> HIDE DEF o, op, phase
    <3> QED BY <2>1, <2>4, <2>6 DEF Replaces
  <2>8. /\ Len(WithPhase(op, phase).phases) = Len(recipe.operations[o].phases)
        /\ ~recipe.operations[o].is_complete
        /\ \/ WithPhase(op, phase).current_phase_idx = recipe.operations[o].current_phase_idx
           \/ WithPhase(op, phase).current_phase_idx = recipe.operations[o].current_phase_idx + 1
    <3> HIDE DEF o, phase
    <3> QED BY <2>1, <2>4
  <2> HIDE DEF o, op, phase
  <2> QED BY <1>1, <2>7, <2>8 DEF Stepped
<1> QED BY <1>2, <1>3

(* An operation in which a phase that is neither complete nor untouched is *)
(* put into another such state. *)
LEMMA StateSet ==
  ASSUME NEW op \in SoundOperation, NEW p \in 1 .. Len(op.phases),
         NEW s \in {"HELD", "RESTARTING"}, op.phases[p].state \in {"RUNNING", "HELD"}
  PROVE  LET new == [op EXCEPT !.phases = [op.phases EXCEPT ![p] = [op.phases[p] EXCEPT !.state = s]]]
         IN  /\ new \in SoundOperation /\ Len(new.phases) = Len(op.phases)
             /\ new.current_phase_idx = op.current_phase_idx
<1> DEFINE phase == [op.phases[p] EXCEPT !.state = s]
           ps == [op.phases EXCEPT ![p] = phase]
           new == [op EXCEPT !.phases = ps]
<1>1. /\ op.phases \in Seq(SoundPhase) /\ Len(op.phases) \in Nat
      /\ op.current_phase_idx \in Nat /\ op.is_complete \in BOOLEAN
      /\ op = [phases |-> op.phases, current_phase_idx |-> op.current_phase_idx,
               is_complete |-> op.is_complete]
      /\ Len(op.phases) > 0 /\ op.current_phase_idx <= Len(op.phases)
      /\ op.is_complete <=> op.current_phase_idx = Len(op.phases)
  BY OperationIs
<1>2. /\ op.phases[p] \in SoundPhase
      /\ p <= op.current_phase_idx <=> op.phases[p].state = "COMPLETE"
      /\ p > op.current_phase_idx + 1 => op.phases[p].state = "IDLE"
  BY PhasesInOrder
<1>3. phase \in SoundPhase /\ phase.state = s
  <2> DEFINE old == op.phases[p]
  <2>1. /\ old \in RecipePhase /\ NotYetDone(old)
        /\ old.duration \in Nat /\ old.elapsed \in Nat
        /\ old = [state |-> old.state, duration |-> old.duration, elapsed |-> old.elapsed]
    <3> HIDE DEF old
    <3> QED BY <1>2 DEF SoundPhase, RecipePhase, old
  <2>2. old.duration > 0 => old.elapsed < old.duration
    <3>1. old.state \in {"RUNNING", "HELD", "RESTARTING"}
      OBVIOUS
    <3> HIDE DEF old
    <3> QED BY <2>1, <3>1 DEF NotYetDone
  <2>3. phase = [state |-> s, duration |-> old.duration, elapsed |-> old.elapsed]
    <3>1. phase = [old EXCEPT !.state = s]
      OBVIOUS
    <3> HIDE DEF old, phase
    <3> QED BY <2>1, <3>1
  <2>4. s \in Isa88PhaseState
    BY DEF Isa88PhaseState, Isa88BatchState
  <2> HIDE DEF old, phase
  <2> QED BY <2>1, <2>2, <2>3, <2>4, SoundPhaseIs
<1> HIDE DEF phase
<1>4. /\ ps \in Seq(SoundPhase) /\ Len(ps) = Len(op.phases)
      /\ \A q \in 1 .. Len(op.phases) : ps[q] = IF q = p THEN phase ELSE op.phases[q]
  BY <1>1, <1>3, ExceptSeq
<1> HIDE DEF ps
<1>5. new = [phases |-> ps, current_phase_idx |-> op.current_phase_idx,
             is_complete |-> op.is_complete]
  BY <1>1
<1>6. ASSUME NEW q \in 1 .. Len(ps)
      PROVE  /\ q <= op.current_phase_idx <=> ps[q].state = "COMPLETE"
             /\ q > op.current_phase_idx + 1 => ps[q].state = "IDLE"
  <2>1. q \in 1 .. Len(op.phases)
    BY <1>4
  <2>2. CASE q = p
    <3>1. ps[q].state = s
      BY <1>3, <1>4, <2>1, <2>2
    <3>2. ~(p <= op.current_phase_idx) /\ ~(p > op.current_phase_idx + 1)
      BY <1>2
    <3> QED BY <2>2, <3>1, <3>2
  <2>3. CASE q # p
    <3>1. ps[q] = op.phases[q]
      BY <1>4, <2>1, <2>3
    <3>2. /\ q <= op.current_phase_idx <=> op.phases[q].state = "COMPLETE"
          /\ q > op.current_phase_idx + 1 => op.phases[q].state = "IDLE"
      BY <2>1, PhasesInOrder
    <3> QED BY <3>1, <3>2
  <2> QED BY <2>2, <2>3
<1> HIDE DEF new
<1>7. new \in SoundOperation
  BY <1>1, <1>4, <1>5, <1>6 DEF SoundOperation
<1>8. Len(new.phases) = Len(op.phases) /\ new.current_phase_idx = op.current_phase_idx
  BY <1>4, <1>5
<1> QED BY <1>7, <1>8 DEF new, ps, phase

LEMMA DeepExcept ==
  ASSUME NEW A, NEW B, NEW r \in [batch_state : A, operations : B], NEW o, NEW p, NEW s
  PROVE  [r EXCEPT !.operations[o].phases[p].state = s]
           = [r EXCEPT !.operations = [r.operations EXCEPT ![o] =
                [r.operations[o] EXCEPT !.phases =
                   [r.operations[o].phases EXCEPT ![p] = [r.operations[o].phases[p] EXCEPT !.state = s]]]]]
OBVIOUS

LEMMA EquipmentSteps ==
  ASSUME Isa88Inv, NEW o \in DOMAIN recipe.operations,
         NEW p \in DOMAIN recipe.operations[o].phases, Equipment(o, p)
  PROVE  Stepped
<1> DEFINE op == recipe.operations[o]
<1>1. o \in 1 .. Len(recipe.operations) /\ op \in SoundOperation
  BY OperationsAre
<1>2. p \in 1 .. Len(op.phases)
  <2>1. DOMAIN op.phases = 1 .. Len(op.phases)
    <3> HIDE DEF op
    <3> QED BY <1>1, OperationIs
  <2> QED BY <2>1
<1>3. PICK s \in {"HELD", "RESTARTING"} :
        /\ op.phases[p].state \in {"RUNNING", "HELD"}
        /\ recipe' = [recipe EXCEPT !.operations[o].phases[p].state = s]
  BY DEF Equipment
<1> DEFINE new == [op EXCEPT !.phases = [op.phases EXCEPT ![p] = [op.phases[p] EXCEPT !.state = s]]]
<1>4. /\ new \in SoundOperation /\ Len(new.phases) = Len(op.phases)
      /\ new.current_phase_idx = op.current_phase_idx
  <2> HIDE DEF op
  <2> QED BY <1>1, <1>2, <1>3, StateSet
<1>5. recipe' = [recipe EXCEPT !.operations = [recipe.operations EXCEPT ![o] = new]]
  <2>1. recipe \in [batch_state : Isa88BatchState, operations : Seq(SoundOperation)]
    BY DEF Isa88Inv
  <2> QED BY <1>3, <2>1, DeepExcept
<1> HIDE DEF new
<1>6. Replaces(o, new)
  BY <1>1, <1>4, <1>5 DEF Replaces
<1>7. Len(new.phases) = Len(recipe.operations[o].phases)
      /\ new.current_phase_idx = recipe.operations[o].current_phase_idx
  BY <1>4
<1> HIDE DEF op
<1> QED BY <1>6, <1>7 DEF Stepped

LEMMA CommandMoves ==
  \A c \in DOMAIN transition_table :
    commanded[c] \in Isa88BatchState \ {"IDLE"}
BY DEF transition_table, commanded, Isa88BatchState

LEMMA Isa88Steps ==
  ASSUME Isa88Inv, Isa88Next
  PROVE  /\ units' \in [DOMAIN UnitCapacities -> Isa88UnitState]
         /\ Stepped \/ UNCHANGED recipe
<1>0. units \in [DOMAIN UnitCapacities -> Isa88UnitState]
  BY DEF Isa88Inv
<1>1. CASE \E d \in OperationKinds : isa88_recipe_add_operation(d)
  <2>1. PICK d \in OperationKinds : isa88_recipe_add_operation(d)
    BY <1>1
  <2>2. Stepped
    BY <2>1, AddingExtends DEF Stepped
  <2> QED BY <1>0, <2>1, <2>2 DEF isa88_recipe_add_operation
<1>2. CASE \E c \in DOMAIN transition_table : isa88_batch_command(c)
  <2>1. PICK c \in DOMAIN transition_table : isa88_batch_command(c)
    BY <1>2
  <2>2. Moves(transition_table[c], commanded[c]) /\ units' = units
    BY <2>1 DEF isa88_batch_command, Moves
  <2>3. Stepped
    BY <2>2, Zenon DEF Stepped
  <2> QED BY <1>0, <2>2, <2>3
<1>3. CASE \E dt \in Steps : isa88_batch_execute_step(dt)
  <2>1. PICK dt \in Steps : isa88_batch_execute_step(dt)
    BY <1>3
  <2>2. Stepped
    BY <2>1, ExecutingSteps
  <2> QED BY <1>0, <2>1, <2>2 DEF isa88_batch_execute_step
<1>4. CASE \E o \in DOMAIN recipe.operations :
             \E p \in DOMAIN recipe.operations[o].phases : Equipment(o, p)
  <2>0. PICK o \in DOMAIN recipe.operations :
          \E p \in DOMAIN recipe.operations[o].phases : Equipment(o, p)
    BY <1>4
  <2>1. PICK p \in DOMAIN recipe.operations[o].phases : Equipment(o, p)
    BY <2>0
  <2>2. Stepped
    BY <2>1, EquipmentSteps
  <2> QED BY <1>0, <2>1, <2>2 DEF Equipment
<1>5. CASE \E c \in {UnitCapacities[u] : u \in DOMAIN UnitCapacities} : OccupyUnit(c)
  <2>1. "BUSY" \in Isa88UnitState
    BY DEF Isa88UnitState
  <2> QED BY <1>0, <1>5, <2>1 DEF OccupyUnit, isa88_allocate_unit
<1>6. CASE \E u \in DOMAIN UnitCapacities : FreeUnit(u)
  <2>1. "IDLE" \in Isa88UnitState
    BY DEF Isa88UnitState
  <2> QED BY <1>0, <1>6, <2>1 DEF FreeUnit
<1> QED BY <1>1, <1>2, <1>3, <1>4, <1>5, <1>6 DEF Isa88Next

LEMMA Isa88Kept ==
  ASSUME Isa88Inv, Isa88Next PROVE Isa88Inv'
<1>1. units' \in [DOMAIN UnitCapacities -> Isa88UnitState]
  BY Isa88Steps
<1>2. CASE \E c \in DOMAIN transition_table : Moves(transition_table[c], commanded[c])
  BY <1>1, <1>2, CommandMoves, MovedKept
<1>3. CASE Moves({"RUNNING"}, "COMPLETE")
  <2>1. "COMPLETE" \in Isa88BatchState \ {"IDLE"}
    BY DEF Isa88BatchState
  <2> QED BY <1>1, <1>3, <2>1, MovedKept
<1>4. ASSUME NEW o, NEW op, Replaces(o, op),
             \/ op.current_phase_idx = recipe.operations[o].current_phase_idx
             \/ recipe.batch_state = "RUNNING"
      PROVE  Isa88Inv'
  <2>1. recipe.batch_state = "IDLE" => op.current_phase_idx = 0
    BY <1>4 DEF Replaces, Isa88Inv
  <2> QED BY <1>1, <1>4, <2>1, ReplacedKept
<1>5. CASE \E op : Extends(op)
  BY <1>1, <1>5, ExtendedKept
<1>6. CASE UNCHANGED recipe
  BY <1>1, <1>6 DEF Isa88Inv
<1>7. Stepped \/ UNCHANGED recipe
  BY Isa88Steps
<1> QED BY <1>2, <1>3, <1>4, <1>5, <1>6, <1>7 DEF Stepped

LEMMA SeqMonotone ==
  ASSUME NEW S, NEW T, S \subseteq T
  PROVE  Seq(S) \subseteq Seq(T)
<1> SUFFICES ASSUME NEW s \in Seq(S) PROVE s \in Seq(T)
  OBVIOUS
<1>1. Len(s) \in Nat /\ DOMAIN s = 1 .. Len(s) /\ \A i \in 1 .. Len(s) : s[i] \in S
  BY LenProperties, ElementOfSeq
<1>2. s \in [1 .. Len(s) -> T]
  <2>1. s = [i \in 1 .. Len(s) |-> s[i]]
    BY <1>1
  <2> QED BY <1>1, <2>1
<1> QED BY <1>1, <1>2, SeqDef

LEMMA Isa88Typed == Isa88Inv => Isa88TypeOK
<1>1. SoundPhase \subseteq RecipePhase
  BY DEF SoundPhase
<1>2. Seq(SoundPhase) \subseteq Seq(RecipePhase)
  BY <1>1, SeqMonotone
<1>3. SoundOperation \subseteq RecipeOperation
  <2>1. SoundOperation
          \subseteq [phases : Seq(SoundPhase), current_phase_idx : Nat, is_complete : BOOLEAN]
    BY Zenon DEF SoundOperation
  <2> QED BY <1>2, <2>1 DEF RecipeOperation
<1>4. Seq(SoundOperation) \subseteq Seq(RecipeOperation)
  BY <1>3, SeqMonotone
<1> QED BY <1>4 DEF Isa88Inv, Isa88TypeOK

(* The phases of all operations. *)
LEMMA AllPhasesAre ==
  ASSUME Isa88Inv
  PROVE  /\ AllPhases \in Seq(SoundPhase)
         /\ Len(AllPhases)
              = SumSeq([o \in 1 .. Len(recipe.operations) |-> Len(recipe.operations[o].phases)])
<1> DEFINE n == Len(recipe.operations)
           seqs == [o \in 1 .. n |-> recipe.operations[o].phases]
<1>1. /\ n \in Nat /\ DOMAIN recipe.operations = 1 .. n
      /\ \A o \in 1 .. n : recipe.operations[o] \in SoundOperation
  BY OperationsAre
<1>2. \A o \in 1 .. n : recipe.operations[o].phases \in Seq(SoundPhase)
  BY <1>1, OperationIs
<1>3. seqs \in Seq(Seq(SoundPhase)) /\ Len(seqs) = n
  <2>1. seqs \in [1 .. n -> Seq(SoundPhase)] /\ DOMAIN seqs = 1 .. n
    <3> HIDE DEF n
    <3> QED BY <1>2
  <2> HIDE DEF seqs, n
  <2> QED BY <1>1, <2>1, SeqDef
<1>4. AllPhases = FlattenSeq(seqs)
  BY <1>1 DEF AllPhases
<1>5. /\ FlattenSeq(seqs) \in Seq(SoundPhase)
      /\ Len(FlattenSeq(seqs)) = SumSeq([o \in 1 .. Len(seqs) |-> Len(seqs[o])])
  <2> HIDE DEF seqs
  <2> QED BY <1>3, FlattenedIs
<1>6. [o \in 1 .. Len(seqs) |-> Len(seqs[o])] = [o \in 1 .. n |-> Len(recipe.operations[o].phases)]
  BY <1>3
<1> QED BY <1>4, <1>5, <1>6

LEMMA CompletedIsLess ==
  ASSUME NEW phase \in SoundPhase, phase.duration > 0
  PROVE  /\ completed_minutes(phase) \in Nat /\ phase.duration \in Nat
         /\ completed_minutes(phase) <= phase.duration
<1>1. phase.duration \in Nat /\ phase.elapsed \in Nat /\ NotYetDone(phase)
  BY DEF SoundPhase, RecipePhase
<1>2. CASE phase.state = "RUNNING"
  <2>1. phase.elapsed < phase.duration
    BY <1>1, <1>2 DEF NotYetDone
  <2>2. completed_minutes(phase) = phase.elapsed
    BY <1>2 DEF completed_minutes
  <2> QED BY <1>1, <2>1, <2>2
<1>3. CASE phase.state = "COMPLETE"
  <2>1. completed_minutes(phase) = phase.duration
    BY <1>3 DEF completed_minutes
  <2> QED BY <1>1, <2>1
<1>4. CASE phase.state \notin {"RUNNING", "COMPLETE"}
  <2>1. completed_minutes(phase) = 0
    BY <1>4 DEF completed_minutes
  <2> QED BY <1>1, <2>1
<1> QED BY <1>2, <1>3, <1>4

LEMMA ProgressIsAtMostAll ==
  ASSUME Isa88Inv, \A p \in DOMAIN AllPhases : AllPhases[p].duration > 0
  PROVE  isa88_calculate_batch_progress <= 100
<1> DEFINE P == AllPhases
           D == DOMAIN P
           f == [p \in D |-> P[p].duration]
           e == [p \in D |-> completed_minutes(P[p])]
<1>1. P \in Seq(SoundPhase) /\ Len(P) \in Nat /\ D = 1 .. Len(P)
  <2>1. P \in Seq(SoundPhase)
    BY AllPhasesAre
  <2> HIDE DEF P
  <2> QED BY <2>1, LenProperties
<1>2. \A p \in D : P[p] \in SoundPhase
  <2> HIDE DEF P
  <2> QED BY <1>1, ElementOfSeq
<1>3. \A p \in D : e[p] \in Nat /\ f[p] \in Nat /\ e[p] <= f[p]
  <2> SUFFICES ASSUME NEW p \in D PROVE e[p] \in Nat /\ f[p] \in Nat /\ e[p] <= f[p]
    OBVIOUS
  <2>1. P[p].duration > 0
    OBVIOUS
  <2> HIDE DEF P
  <2> QED BY <1>2, <2>1, CompletedIsLess
<1>4. IsFiniteSet(D)
  <2>1. 1 \in Int /\ Len(P) \in Int
    BY <1>1
  <2> HIDE DEF P
  <2> QED BY <1>1, <2>1, FS_Interval
<1>5. e \in [D -> Nat] /\ f \in [D -> Nat] /\ e \in [D -> Int] /\ f \in [D -> Int]
  <2>1. DOMAIN e = D /\ DOMAIN f = D /\ e = [p \in D |-> e[p]] /\ f = [p \in D |-> f[p]]
    OBVIOUS
  <2> HIDE DEF e, f, D
  <2> QED BY <1>3, <2>1
<1>6. isa88_calculate_batch_duration = SumSeq(f)
  BY DEF isa88_calculate_batch_duration
<1>7. isa88_calculate_batch_progress
        = IF SumSeq(f) = 0 THEN 0 ELSE (SumSeq(e) * 100) \div SumSeq(f)
  BY <1>6 DEF isa88_calculate_batch_progress
<1> HIDE DEF e, f, D, P
<1>8. PICK g \in Sums(D, e) : SumSeq(e) = g[D]
  BY <1>4, <1>5, SumSeqIs
<1>9. PICK h \in Sums(D, f) : SumSeq(f) = h[D]
  BY <1>4, <1>5, SumSeqIs
<1>10. g[D] \in Nat /\ h[D] \in Nat
  <2>1. D \in SUBSET D
    OBVIOUS
  <2> QED BY <1>4, <1>5, <1>8, <1>9, <2>1, SumsAreNat
<1>11. g[D] <= h[D]
  BY <1>3, <1>4, <1>5, <1>8, <1>9, SumsCompare
<1>12. CASE SumSeq(f) = 0
  BY <1>7, <1>12
<1>13. CASE SumSeq(f) # 0
  <2>1. /\ SumSeq(e) * 100 \in Nat /\ SumSeq(f) \in Nat \ {0}
        /\ SumSeq(e) * 100 <= 100 * SumSeq(f)
    BY <1>8, <1>9, <1>10, <1>11, <1>13
  <2>2. (SumSeq(e) * 100) \div SumSeq(f) <= 100
    BY <2>1, QuotientBelow
  <2> QED BY <1>7, <1>13, <2>2
<1> QED BY <1>12, <1>13

LEMMA OrderFollows == Isa88Inv => Isa88InOrder
<1> SUFFICES ASSUME Isa88Inv PROVE Isa88InOrder
  OBVIOUS
<1>1. ASSUME NEW o \in DOMAIN recipe.operations
      PROVE  LET op == recipe.operations[o] IN
             \A p \in DOMAIN op.phases :
               /\ p <= op.current_phase_idx <=> op.phases[p].state = "COMPLETE"
               /\ p > op.current_phase_idx + 1 => op.phases[p].state = "IDLE"
  <2>1. recipe.operations[o] \in SoundOperation
    BY OperationsAre
  <2>2. DOMAIN recipe.operations[o].phases = 1 .. Len(recipe.operations[o].phases)
    BY <2>1, OperationIs
  <2> QED BY <2>1, <2>2, PhasesInOrder
<1> QED BY <1>1, ProgressIsAtMostAll DEF Isa88InOrder

-----------------------------------------------------------------------------
(* The batch implements the sequential batch.  Its place is the number of *)
(* completed phases, its size the number of phases. *)

LEMMA SumsOfTheSame ==
  ASSUME NEW S, NEW f, NEW g, NEW h, IsFiniteSet(S), f \in [S -> Int],
         g \in Sums(S, f), h \in Sums(S, f)
  PROVE  g[S] = h[S]
<1>1. g[S] \in Int /\ h[S] \in Int
  BY DEF Sums
<1>2. \A x \in S : f[x] <= f[x]
  OBVIOUS
<1>3. g[S] <= h[S]
  BY <1>2, SumsCompare
<1>4. h[S] <= g[S]
  BY <1>2, SumsCompare
<1> QED BY <1>1, <1>3, <1>4

LEMMA SumSeqOfZeros ==
  ASSUME NEW D, IsFiniteSet(D) PROVE SumSeq([x \in D |-> 0]) = 0
<1> DEFINE z == [x \in D |-> 0]
           h == [s \in SUBSET D |-> 0]
<1>1. z \in [D -> Int] /\ \A x \in D : z[x] = 0
  OBVIOUS
<1>2. h \in [SUBSET D -> Int] /\ \A s \in SUBSET D : h[s] = 0
  OBVIOUS
<1>3. ASSUME NEW s \in SUBSET D
      PROVE  h[s] = IF s = {} THEN 0 ELSE z[Picked(s)] + h[s \ {Picked(s)}]
  <2>1. h[s] = 0 /\ h[s \ {Picked(s)}] = 0
    BY <1>2
  <2>2. s # {} => z[Picked(s)] = 0
    <3>1. s # {} => Picked(s) \in s
      BY Zenon DEF Picked
    <3> HIDE DEF z
    <3> QED BY <1>1, <3>1
  <2> HIDE DEF z, h
  <2> QED BY <2>1, <2>2
<1>4. h \in Sums(D, z)
  <2> HIDE DEF z, h
  <2> QED BY <1>2, <1>3 DEF Sums
<1>5. h[D] = 0
  BY <1>2
<1> HIDE DEF z, h
<1>6. PICK g \in Sums(D, z) : SumSeq(z) = g[D]
  BY <1>1, SumSeqIs
<1>7. g[D] = h[D]
  BY <1>1, <1>4, <1>6, SumsOfTheSame
<1> QED BY <1>5, <1>6, <1>7 DEF z

(* The sum without one entry, and what follows for a changed one. *)
Without(D, a, o) == [x \in D \ {o} |-> a[x]]

LEMMA SumSeqWithout ==
  ASSUME NEW D, NEW a, NEW o \in D, IsFiniteSet(D), a \in [D -> Int]
  PROVE  /\ SumSeq(Without(D, a, o)) \in Int
         /\ SumSeq(a) = a[o] + SumSeq(Without(D, a, o))
<1> DEFINE T == D \ {o}
           r == [x \in T |-> a[x]]
<1>1. PICK g \in Sums(D, a) : SumSeq(a) = g[D]
  BY SumSeqIs
<1>2. g \in [SUBSET D -> Int] /\ AnyOrder(D, a, g)
  BY SumsAnyOrder DEF Sums
<1>3. g[D] = a[o] + g[T]
  <2>1. D \in SUBSET D /\ o \in D
    OBVIOUS
  <2> QED BY <1>2, <2>1 DEF AnyOrder
<1>4. T \in SUBSET D /\ IsFiniteSet(T) /\ r \in [T -> Int]
  <2>1. T \in SUBSET D
    OBVIOUS
  <2>2. IsFiniteSet(T)
    BY <2>1, FS_Subset
  <2> QED BY <2>1, <2>2
<1> DEFINE k == [s \in SUBSET T |-> g[s]]
<1>5. k \in Sums(T, r)
  <2>1. [s \in SUBSET T |-> g[s]] \in Sums(T, [x \in T |-> a[x]])
    <3> HIDE DEF T
    <3> QED BY <1>4, SumsBelow
  <2> QED BY <2>1
<1>6. k[T] = g[T]
  <2> HIDE DEF T
  <2>1. T \in SUBSET T
    OBVIOUS
  <2> QED BY <2>1
<1>7. PICK h \in Sums(T, r) : SumSeq(r) = h[T]
  <2> HIDE DEF T, r
  <2> QED BY <1>4, SumSeqIs
<1>8. h[T] = k[T]
  <2> HIDE DEF T, r, k
  <2> QED BY <1>4, <1>5, <1>7, SumsOfTheSame
<1>9. g[T] \in Int
  BY <1>2, <1>4
<1>10. r = Without(D, a, o)
  BY DEF Without
<1> HIDE DEF T, r, k
<1> QED BY <1>1, <1>3, <1>6, <1>7, <1>8, <1>9, <1>10

LEMMA SumSeqChanged ==
  ASSUME NEW D, NEW a, NEW b, NEW o \in D, IsFiniteSet(D), a \in [D -> Int], b \in [D -> Int],
         \A x \in D : x # o => a[x] = b[x], b[o] = a[o] + 1
  PROVE  SumSeq(b) = SumSeq(a) + 1
<1>1. Without(D, a, o) = Without(D, b, o)
  BY DEF Without
<1> DEFINE rest == SumSeq(Without(D, a, o))
<1>2. rest \in Int /\ SumSeq(a) = a[o] + rest
  BY SumSeqWithout
<1>3. SumSeq(b) = b[o] + SumSeq(Without(D, b, o))
  BY SumSeqWithout
<1>4. SumSeq(Without(D, b, o)) = rest
  BY <1>1
<1> HIDE DEF rest
<1>5. a[o] \in Int /\ b[o] \in Int
  OBVIOUS
<1> QED BY <1>2, <1>3, <1>4, <1>5

LEMMA SumSeqAppended ==
  ASSUME NEW n \in Nat, NEW a, a \in [1 .. n + 1 -> Int]
  PROVE  SumSeq(a) = SumSeq([x \in 1 .. n |-> a[x]]) + a[n + 1]
<1>1. IsFiniteSet(1 .. n + 1) /\ n + 1 \in 1 .. n + 1
  <2>1. 1 \in Int /\ n + 1 \in Int /\ n + 1 \in 1 .. n + 1
    OBVIOUS
  <2> QED BY <2>1, FS_Interval
<1>2. (1 .. n + 1) \ {n + 1} = 1 .. n
  OBVIOUS
<1> DEFINE rest == SumSeq([x \in 1 .. n |-> a[x]])
<1>3. rest \in Int /\ SumSeq(a) = a[n + 1] + rest
  <2> DEFINE D == 1 .. n + 1
             o == n + 1
  <2>1. /\ SumSeq(Without(D, a, o)) \in Int
        /\ SumSeq(a) = a[o] + SumSeq(Without(D, a, o))
    <3> HIDE DEF D, o
    <3>1. o \in D /\ IsFiniteSet(D) /\ a \in [D -> Int]
      BY <1>1 DEF D, o
    <3> QED BY <3>1, SumSeqWithout
  <2>2. Without(D, a, o) = [x \in 1 .. n |-> a[x]]
    BY <1>2 DEF Without
  <2> HIDE DEF D, o
  <2> QED BY <2>1, <2>2 DEF o
<1> HIDE DEF rest
<1>4. a[n + 1] \in Int
  BY <1>1
<1> QED BY <1>3, <1>4 DEF rest

LEMMA SumSeqCompare ==
  ASSUME NEW D, NEW a, NEW b, IsFiniteSet(D), a \in [D -> Nat], b \in [D -> Nat],
         \A x \in D : a[x] <= b[x]
  PROVE  SumSeq(a) \in Nat /\ SumSeq(b) \in Nat /\ SumSeq(a) <= SumSeq(b)
<1>1. a \in [D -> Int] /\ b \in [D -> Int]
  OBVIOUS
<1>2. PICK g \in Sums(D, a) : SumSeq(a) = g[D]
  BY <1>1, SumSeqIs
<1>3. PICK h \in Sums(D, b) : SumSeq(b) = h[D]
  BY <1>1, SumSeqIs
<1>4. g[D] \in Nat /\ h[D] \in Nat
  <2>1. D \in SUBSET D
    OBVIOUS
  <2> QED BY <1>2, <1>3, <2>1, SumsAreNat
<1>5. g[D] <= h[D]
  BY <1>1, <1>2, <1>3, SumsCompare
<1> QED BY <1>2, <1>3, <1>4, <1>5

Indexes(ops) == [o \in DOMAIN ops |-> ops[o].current_phase_idx]
Lengths(ops) == [o \in DOMAIN ops |-> Len(ops[o].phases)]

Completed == SumSeq(Indexes(recipe.operations))
InAll     == Len(AllPhases)

LEMMA ColumnsAre ==
  ASSUME NEW ops \in Seq(SoundOperation)
  PROVE  /\ DOMAIN ops = 1 .. Len(ops) /\ Len(ops) \in Nat /\ IsFiniteSet(DOMAIN ops)
         /\ Indexes(ops) \in [DOMAIN ops -> Nat] /\ Lengths(ops) \in [DOMAIN ops -> Nat]
         /\ Indexes(ops) \in [DOMAIN ops -> Int] /\ Lengths(ops) \in [DOMAIN ops -> Int]
         /\ \A o \in DOMAIN ops : /\ Indexes(ops)[o] = ops[o].current_phase_idx
                                  /\ Lengths(ops)[o] = Len(ops[o].phases)
                                  /\ Indexes(ops)[o] <= Lengths(ops)[o]
<1>1. DOMAIN ops = 1 .. Len(ops) /\ Len(ops) \in Nat
  BY LenProperties
<1>2. IsFiniteSet(DOMAIN ops)
  <2>1. 1 \in Int /\ Len(ops) \in Int
    BY <1>1
  <2> QED BY <1>1, <2>1, FS_Interval
<1>3. ASSUME NEW o \in DOMAIN ops
      PROVE  /\ ops[o].current_phase_idx \in Nat /\ Len(ops[o].phases) \in Nat
             /\ ops[o].current_phase_idx <= Len(ops[o].phases)
  <2>1. ops[o] \in SoundOperation
    BY <1>1, ElementOfSeq
  <2> QED BY <2>1, OperationIs
<1> QED BY <1>1, <1>2, <1>3 DEF Indexes, Lengths

LEMMA InAllIs == Isa88Inv => InAll = SumSeq(Lengths(recipe.operations))
<1> SUFFICES ASSUME Isa88Inv PROVE InAll = SumSeq(Lengths(recipe.operations))
  OBVIOUS
<1>1. DOMAIN recipe.operations = 1 .. Len(recipe.operations)
  BY OperationsAre
<1>2. [o \in 1 .. Len(recipe.operations) |-> Len(recipe.operations[o].phases)]
        = Lengths(recipe.operations)
  BY <1>1 DEF Lengths
<1> QED BY <1>2, AllPhasesAre DEF InAll

LEMMA InAllIsAgain == (Isa88Inv => InAll = SumSeq(Lengths(recipe.operations)))'
BY InAllIs, PTL

LEMMA PlaceBelowSize == Isa88Inv => Completed \in Nat /\ InAll \in Nat /\ Completed <= InAll
<1> SUFFICES ASSUME Isa88Inv PROVE Completed \in Nat /\ InAll \in Nat /\ Completed <= InAll
  OBVIOUS
<1> DEFINE ops == recipe.operations
<1>1. ops \in Seq(SoundOperation)
  BY OperationsAre
<1>2. SumSeq(Indexes(ops)) \in Nat /\ SumSeq(Lengths(ops)) \in Nat
      /\ SumSeq(Indexes(ops)) <= SumSeq(Lengths(ops))
  <2> HIDE DEF ops
  <2> QED BY <1>1, ColumnsAre, SumSeqCompare
<1> QED BY <1>2, InAllIs DEF Completed

LEMMA PlaceBelowSizeAgain ==
  (Isa88Inv => Completed \in Nat /\ InAll \in Nat /\ Completed <= InAll)'
BY PlaceBelowSize, PTL

(* What the steps do to place and size. *)
LEMMA PlaceAtStart ==
  ASSUME Isa88Inv, recipe.batch_state = "IDLE" PROVE Completed = 0
<1> DEFINE ops == recipe.operations
<1>1. ops \in Seq(SoundOperation)
  BY OperationsAre
<1>2. IsFiniteSet(DOMAIN ops) /\ \A o \in DOMAIN ops : ops[o].current_phase_idx = 0
  <2>1. IsFiniteSet(DOMAIN ops) /\ DOMAIN ops = 1 .. Len(ops)
    <3> HIDE DEF ops
    <3> QED BY <1>1, ColumnsAre
  <2> QED BY <2>1 DEF Isa88Inv
<1>3. Indexes(ops) = [o \in DOMAIN ops |-> 0]
  BY <1>2 DEF Indexes
<1>4. SumSeq([o \in DOMAIN ops |-> 0]) = 0
  <2> HIDE DEF ops
  <2> QED BY <1>2, SumSeqOfZeros
<1> QED BY <1>3, <1>4 DEF Completed

LEMMA PlaceAtEnd ==
  ASSUME Isa88Inv, incomplete(recipe.operations) = {} PROVE Completed = InAll
<1> DEFINE ops == recipe.operations
<1>1. ops \in Seq(SoundOperation)
  BY OperationsAre
<1>2. ASSUME NEW o \in DOMAIN ops PROVE ops[o].current_phase_idx = Len(ops[o].phases)
  <2>1. ops[o] \in SoundOperation /\ ops[o].is_complete
    <3>1. ops[o].is_complete
      BY DEF incomplete
    <3>2. ops[o] \in SoundOperation
      <4> HIDE DEF ops
      <4> QED BY <1>1, LenProperties, ElementOfSeq
    <3> QED BY <3>1, <3>2
  <2> HIDE DEF ops
  <2> QED BY <2>1, OperationIs
<1>3. Indexes(ops) = Lengths(ops)
  <2> HIDE DEF ops
  <2> QED BY <1>2 DEF Indexes, Lengths
<1> QED BY <1>3, InAllIs DEF Completed

LEMMA SameSums ==
  ASSUME Isa88Inv, Isa88Inv', recipe'.operations = recipe.operations
  PROVE  Completed' = Completed /\ InAll' = InAll
<1>1. InAll = SumSeq(Lengths(recipe.operations)) /\ InAll' = SumSeq(Lengths(recipe'.operations))
  BY InAllIs, InAllIsAgain
<1>2. Completed = SumSeq(Indexes(recipe.operations))
      /\ Completed' = SumSeq(Indexes(recipe'.operations))
  BY DEF Completed
<1> QED BY <1>1, <1>2

LEMMA ReplacedSums ==
  ASSUME Isa88Inv, Isa88Inv', NEW o, NEW op, Replaces(o, op),
         Len(op.phases) = Len(recipe.operations[o].phases)
  PROVE  /\ InAll' = InAll
         /\ op.current_phase_idx = recipe.operations[o].current_phase_idx => Completed' = Completed
         /\ op.current_phase_idx = recipe.operations[o].current_phase_idx + 1
              => Completed' = Completed + 1
<1> DEFINE ops == recipe.operations
           new == [ops EXCEPT ![o] = op]
           D   == DOMAIN ops
<1>1. /\ ops \in Seq(SoundOperation) /\ D = 1 .. Len(ops)
      /\ recipe = [batch_state |-> recipe.batch_state, operations |-> ops]
  BY OperationsAre
<1>2. o \in D /\ op \in SoundOperation /\ recipe'.operations = new
  BY <1>1 DEF Replaces
<1> HIDE DEF ops, D
<1>3. /\ new \in Seq(SoundOperation) /\ DOMAIN new = D
      /\ \A q \in D : new[q] = IF q = o THEN op ELSE ops[q]
  <2>1. new \in Seq(SoundOperation)
    <3>1. o \in 1 .. Len(ops)
      BY <1>1, <1>2
    <3> QED BY <1>1, <1>2, <3>1, ExceptSeq
  <2> QED BY <2>1 DEF D
<1> HIDE DEF new
<1>4. /\ Indexes(ops) \in [D -> Int] /\ Indexes(new) \in [D -> Int] /\ IsFiniteSet(D)
      /\ \A q \in D : /\ Indexes(ops)[q] = ops[q].current_phase_idx
                      /\ Indexes(new)[q] = new[q].current_phase_idx
                      /\ Lengths(ops)[q] = Len(ops[q].phases)
                      /\ Lengths(new)[q] = Len(new[q].phases)
  <2>1. IsFiniteSet(D)
    BY <1>1, ColumnsAre DEF D
  <2> QED BY <1>1, <1>3, <2>1, ColumnsAre DEF D
<1>5. Len(op.phases) = Len(ops[o].phases)
  BY DEF ops
<1>6. Lengths(new) = Lengths(ops)
  BY <1>3, <1>5 DEF Lengths, D
<1>7. InAll' = InAll
  <2>1. InAll = SumSeq(Lengths(ops)) /\ InAll' = SumSeq(Lengths(new))
    BY <1>2, InAllIs, InAllIsAgain DEF ops
  <2> QED BY <1>6, <2>1
<1>8. Completed = SumSeq(Indexes(ops)) /\ Completed' = SumSeq(Indexes(new))
  BY <1>2 DEF Completed, ops
<1>9. ASSUME op.current_phase_idx = ops[o].current_phase_idx PROVE Completed' = Completed
  <2>1. Indexes(new) = Indexes(ops)
    BY <1>3, <1>9 DEF Indexes, D
  <2> QED BY <1>8, <2>1
<1>10. ASSUME op.current_phase_idx = ops[o].current_phase_idx + 1
       PROVE  Completed' = Completed + 1
  <2>1. /\ \A q \in D : q # o => Indexes(ops)[q] = Indexes(new)[q]
        /\ Indexes(new)[o] = Indexes(ops)[o] + 1
    BY SMTT(30), <1>2, <1>3, <1>4, <1>10
  <2>2. SumSeq(Indexes(new)) = SumSeq(Indexes(ops)) + 1
    BY <1>2, <1>4, <2>1, SumSeqChanged
  <2> QED BY <1>8, <2>2
<1> QED BY <1>7, <1>9, <1>10 DEF ops

LEMMA ExtendedSums ==
  ASSUME Isa88Inv, Isa88Inv', NEW op, Extends(op)
  PROVE  Completed' = Completed /\ InAll' > InAll
<1> DEFINE ops == recipe.operations
           new == Append(ops, op)
           n   == Len(ops)
<1>1. ops \in Seq(SoundOperation) /\ n \in Nat /\ DOMAIN ops = 1 .. n
      /\ recipe = [batch_state |-> recipe.batch_state, operations |-> ops]
  BY OperationsAre
<1>2. op \in SoundOperation /\ op.current_phase_idx = 0 /\ recipe'.operations = new
  BY <1>1 DEF Extends
<1> HIDE DEF ops
<1>3. /\ new \in Seq(SoundOperation) /\ Len(new) = n + 1
      /\ \A q \in 1 .. n : new[q] = ops[q]
      /\ new[n + 1] = op
  BY <1>1, <1>2, AppendProperties
<1>4. DOMAIN new = 1 .. n + 1
  BY <1>3, LenProperties
<1> HIDE DEF new, n
<1>5. /\ Indexes(new) \in [1 .. n + 1 -> Int] /\ Lengths(new) \in [1 .. n + 1 -> Int]
      /\ \A q \in 1 .. n + 1 : /\ Indexes(new)[q] = new[q].current_phase_idx
                               /\ Lengths(new)[q] = Len(new[q].phases)
  BY <1>3, <1>4, ColumnsAre
<1>6. [q \in 1 .. n |-> Indexes(new)[q]] = Indexes(ops)
      /\ [q \in 1 .. n |-> Lengths(new)[q]] = Lengths(ops)
  <2>1. \A q \in 1 .. n : q \in 1 .. n + 1
    BY <1>1
  <2>2. \A q \in 1 .. n : Indexes(new)[q] = ops[q].current_phase_idx
                          /\ Lengths(new)[q] = Len(ops[q].phases)
    BY <1>3, <1>5, <2>1
  <2> QED BY <1>1, <2>2 DEF Indexes, Lengths
<1>7. n + 1 \in 1 .. n + 1
  BY <1>1
<1>8. /\ SumSeq(Indexes(new)) = SumSeq(Indexes(ops)) + Indexes(new)[n + 1]
      /\ SumSeq(Lengths(new)) = SumSeq(Lengths(ops)) + Lengths(new)[n + 1]
  BY <1>1, <1>5, <1>6, SumSeqAppended
<1>9. Indexes(new)[n + 1] = 0 /\ Lengths(new)[n + 1] = Len(op.phases)
  BY <1>2, <1>3, <1>5, <1>7
<1>10. Len(op.phases) \in Nat /\ Len(op.phases) > 0
  BY <1>2, OperationIs
<1>11. Completed = SumSeq(Indexes(ops)) /\ Completed' = SumSeq(Indexes(new))
  BY <1>2 DEF Completed, ops
<1>12. InAll = SumSeq(Lengths(ops)) /\ InAll' = SumSeq(Lengths(new))
  BY <1>2, InAllIs, InAllIsAgain DEF ops
<1>13. Completed \in Nat /\ InAll \in Nat
  BY PlaceBelowSize
<1> QED BY <1>8, <1>9, <1>10, <1>11, <1>12, <1>13

LEMMA PromiseStarts == Isa88Init => Promise!Init
<1> SUFFICES ASSUME Isa88Init PROVE Promise!Init
  OBVIOUS
<1>1. Isa88Inv /\ recipe.batch_state = "IDLE"
  BY Isa88Starts DEF Isa88Init, isa88_recipe_init
<1>2. Completed = 0 /\ InAll \in Nat
  BY <1>1, PlaceAtStart, PlaceBelowSize
<1>3. AbstractState = "IDLE"
  BY <1>1 DEF AbstractState
<1> QED BY <1>2, <1>3 DEF Promise!Init, Completed, Indexes, InAll

(* The four ways in which a command moves the promised state. *)
LEMMA CommandPromised ==
  ASSUME Isa88Inv, Isa88Inv', NEW c \in DOMAIN transition_table,
         Moves(transition_table[c], commanded[c])
  PROVE  Promise!Next \/ UNCHANGED Promise!batch
<1>1. /\ recipe.batch_state \in transition_table[c] /\ recipe'.batch_state = commanded[c]
      /\ recipe'.operations = recipe.operations
  <2>1. recipe = [batch_state |-> recipe.batch_state, operations |-> recipe.operations]
    BY OperationsAre
  <2> QED BY <2>1 DEF Moves
<1>2. Completed' = Completed /\ InAll' = InAll
  BY <1>1, SameSums
<1>3. c \in {"START", "HOLD", "STOP", "ABORT", "RESTART"}
  BY DEF transition_table
<1>4. CASE c = "START"
  <2>1. recipe.batch_state = "IDLE" /\ recipe'.batch_state = "RUNNING"
    BY <1>1, <1>4 DEF transition_table, commanded
  <2>2. AbstractState' = "RUNNING" /\ Completed' = 0
    BY <1>2, <2>1, PlaceAtStart DEF AbstractState
  <2>3. Promise!Start
    BY <1>2, <2>2 DEF Promise!Start, Completed, Indexes, InAll
  <2> QED BY <2>3 DEF Promise!Next
<1>5. CASE c = "HOLD" \/ c = "STOP"
  <2>1. recipe.batch_state \in {"RUNNING", "HELD"} /\ recipe'.batch_state \in {"HELD", "STOPPED"}
    BY <1>1, <1>5 DEF transition_table, commanded
  <2>2. AbstractState \in {"RUNNING", "PAUSED"} /\ AbstractState' = "PAUSED"
    BY <2>1 DEF AbstractState
  <2>3. Promise!Pause \/ UNCHANGED Promise!batch
    BY <1>2, <2>2 DEF Promise!Pause, Promise!batch, Completed, Indexes, InAll
  <2> QED BY <2>3 DEF Promise!Next
<1>6. CASE c = "ABORT"
  <2>1. recipe.batch_state \in Isa88BatchState \ {"ABORTED"} /\ recipe'.batch_state = "ABORTED"
    BY <1>1, <1>6 DEF transition_table, commanded
  <2>2. AbstractState # "ABORTED" /\ AbstractState' = "ABORTED"
    BY <2>1 DEF AbstractState
  <2>3. Promise!Abort
    BY <1>2, <2>2 DEF Promise!Abort, Completed, Indexes, InAll
  <2> QED BY <2>3 DEF Promise!Next
<1>7. CASE c = "RESTART"
  <2>1. recipe.batch_state \in {"HELD", "STOPPED"} /\ recipe'.batch_state = "RUNNING"
    BY <1>1, <1>7 DEF transition_table, commanded
  <2>2. AbstractState = "PAUSED" /\ AbstractState' = "RUNNING"
    BY <2>1 DEF AbstractState
  <2>3. Promise!Resume
    BY <1>2, <2>2 DEF Promise!Resume, Completed, Indexes, InAll
  <2> QED BY <2>3 DEF Promise!Next
<1> QED BY <1>3, <1>4, <1>5, <1>6, <1>7

LEMMA StepPromised ==
  ASSUME Isa88Inv, Isa88Inv', Stepped
  PROVE  Promise!Next \/ UNCHANGED Promise!batch
<1>0. recipe = [batch_state |-> recipe.batch_state, operations |-> recipe.operations]
  BY OperationsAre
<1>1. CASE \E c \in DOMAIN transition_table : Moves(transition_table[c], commanded[c])
  BY <1>1, CommandPromised
<1>2. CASE incomplete(recipe.operations) = {} /\ Moves({"RUNNING"}, "COMPLETE")
  <2>1. /\ recipe.batch_state = "RUNNING" /\ recipe'.batch_state = "COMPLETE"
        /\ recipe'.operations = recipe.operations
    BY <1>0, <1>2 DEF Moves
  <2>2. AbstractState = "RUNNING" /\ AbstractState' = "COMPLETE"
    BY <2>1 DEF AbstractState
  <2>3. Completed = InAll /\ Completed' = Completed /\ InAll' = InAll
    BY <1>2, <2>1, PlaceAtEnd, SameSums
  <2>4. Promise!Finish
    BY <2>2, <2>3 DEF Promise!Finish, Completed, Indexes, InAll
  <2> QED BY <2>4 DEF Promise!Next
<1>3. ASSUME NEW o, NEW op, Replaces(o, op),
             Len(op.phases) = Len(recipe.operations[o].phases),
             \/ op.current_phase_idx = recipe.operations[o].current_phase_idx
             \/ /\ recipe.batch_state = "RUNNING" /\ ~recipe.operations[o].is_complete
                /\ op.current_phase_idx = recipe.operations[o].current_phase_idx + 1
      PROVE  Promise!Next \/ UNCHANGED Promise!batch
  <2>1. recipe'.batch_state = recipe.batch_state
    BY <1>0, <1>3 DEF Replaces
  <2>2. AbstractState' = AbstractState /\ InAll' = InAll
    BY <1>3, <2>1, ReplacedSums DEF AbstractState
  <2>3. CASE op.current_phase_idx = recipe.operations[o].current_phase_idx
    <3>1. Completed' = Completed
      BY <1>3, <2>3, ReplacedSums
    <3> QED BY <2>2, <3>1 DEF Promise!batch, Completed, Indexes, InAll
  <2>4. CASE recipe.batch_state = "RUNNING"
             /\ op.current_phase_idx = recipe.operations[o].current_phase_idx + 1
    <3>1. Completed' = Completed + 1
      BY <1>3, <2>4, ReplacedSums
    <3>2. AbstractState = "RUNNING"
      BY <2>4 DEF AbstractState
    <3>3. Completed < InAll
      <4>1. Completed \in Nat /\ InAll \in Nat /\ Completed' <= InAll'
        BY PlaceBelowSize, PlaceBelowSizeAgain
      <4> QED BY <2>2, <3>1, <4>1
    <3>4. Promise!Advance
      BY <2>2, <3>1, <3>2, <3>3 DEF Promise!Advance, Completed, Indexes, InAll
    <3> QED BY <3>4 DEF Promise!Next
  <2> QED BY <1>3, <2>3, <2>4
<1>4. CASE \E op : Extends(op)
  <2>1. PICK op : Extends(op)
    BY <1>4
  <2>2. recipe'.batch_state = recipe.batch_state
    BY <1>0, <2>1 DEF Extends
  <2>3. AbstractState' = AbstractState
    BY <2>2 DEF AbstractState
  <2>4. Completed' = Completed /\ InAll' > InAll /\ InAll' \in Nat
    BY <2>1, ExtendedSums, PlaceBelowSizeAgain
  <2>5. Promise!Extend
    BY <2>3, <2>4 DEF Promise!Extend, Completed, Indexes, InAll
  <2> QED BY <2>5 DEF Promise!Next
<1> QED BY <1>1, <1>2, <1>3, <1>4 DEF Stepped

LEMMA PromiseKept ==
  ASSUME Isa88Inv, Isa88Inv', Isa88Next \/ UNCHANGED isa88
  PROVE  [Promise!Next]_(Promise!batch)
<1>1. CASE Stepped
  BY <1>1, StepPromised
<1>2. CASE UNCHANGED recipe
  BY <1>2 DEF Promise!batch, AbstractState, AllPhases
<1>3. Stepped \/ UNCHANGED recipe
  BY Isa88Steps DEF isa88
<1> QED BY <1>1, <1>2, <1>3

-----------------------------------------------------------------------------
(* Worse parts never make a better safety function. *)

LEMMA MillionIs == Million \in Nat \ {0}
BY DEF Million

LEMMA CappedIs ==
  ASSUME NEW x \in Nat
  PROVE  Capped(x) = IF x <= Million THEN x ELSE Million
BY MillionIs, MinOfTwo DEF Capped

LEMMA CappedGrows ==
  ASSUME NEW x \in Nat, NEW y \in Nat, x <= y
  PROVE  Capped(x) \in Nat /\ Capped(y) \in Nat /\ Capped(x) <= Capped(y)
BY MillionIs, CappedIs

(* The terms of the formulas. *)
Common(x, beta) == (beta * x) \div 200
Double(x)       == (x * x) \div (3 * Million)
Triple(x)       == (x * x) \div Million

LEMMA TermsAre ==
  ASSUME NEW x \in Nat, NEW b \in Nat
  PROVE  Common(x, b) \in Nat /\ Double(x) \in Nat /\ Triple(x) \in Nat /\ x \div 2 \in Nat
<1>1. b * x \in Nat /\ x * x \in Nat /\ 3 * Million \in Nat \ {0} /\ 200 \in Nat \ {0}
  BY MillionIs
<1>2. \A m \in Nat : \A d \in Nat \ {0} : m \div d \in Nat
  BY QuotientIsNat
<1> QED BY <1>1, <1>2, MillionIs DEF Common, Double, Triple

LEMMA SquareGrows ==
  ASSUME NEW x \in Nat, NEW y \in Nat, x <= y
  PROVE  x * x \in Nat /\ y * y \in Nat /\ x * x <= y * y
<1>1. x * x <= x * y /\ x * y <= y * y /\ x * x \in Nat /\ x * y \in Nat /\ y * y \in Nat
  OBVIOUS
<1> QED BY <1>1

LEMMA TermsGrow ==
  ASSUME NEW x \in Nat, NEW y \in Nat, NEW b \in Nat, NEW c \in Nat, x <= y, b <= c
  PROVE  /\ Common(x, b) <= Common(y, c) /\ Double(x) <= Double(y) /\ Triple(x) <= Triple(y)
         /\ x \div 2 <= y \div 2
<1>1. x * x \in Nat /\ y * y \in Nat /\ x * x <= y * y
  BY SquareGrows
<1>2. b * x \in Nat /\ c * y \in Nat /\ b * x <= c * y
  <2>1. b * x <= c * x /\ c * x <= c * y /\ b * x \in Nat /\ c * x \in Nat /\ c * y \in Nat
    OBVIOUS
  <2> QED BY <2>1
<1>3. 3 * Million \in Nat \ {0} /\ 200 \in Nat \ {0} /\ Million \in Nat \ {0} /\ 2 \in Nat \ {0}
  BY MillionIs
<1>4. Common(x, b) <= Common(y, c)
  BY <1>2, <1>3, QuotientGrows DEF Common
<1>5. Double(x) <= Double(y) /\ Triple(x) <= Triple(y)
  BY <1>1, <1>3, QuotientGrows DEF Double, Triple
<1>6. x \div 2 <= y \div 2
  BY <1>3, QuotientGrows
<1> QED BY <1>4, <1>5, <1>6

LEMMA PfdIs ==
  ASSUME NEW x, NEW b
  PROVE  /\ dcs_subsystem_pfd(x, "1oo1", b) = Capped(x \div 2)
         /\ dcs_subsystem_pfd(x, "1oo2", b) = Capped(Double(x) + Common(x, b))
         /\ dcs_subsystem_pfd(x, "1oo2D", b) = Capped(Double(x) + Common(x, b))
         /\ dcs_subsystem_pfd(x, "2oo3", b) = Capped(Triple(x) + Common(x, b))
         /\ dcs_subsystem_pfd(x, "2oo2", b) = Capped(x + Common(x, b))
BY Zenon DEF dcs_subsystem_pfd, dcs_pfd_1oo1, dcs_pfd_1oo2, dcs_pfd_2oo3, dcs_pfd_2oo2, Double, Triple, Common

LEMMA PfdGrows ==
  ASSUME NEW x \in Nat, NEW y \in Nat, NEW b \in Nat, NEW c \in Nat, x <= y, b <= c,
         NEW a \in Architectures
  PROVE  /\ dcs_subsystem_pfd(x, a, b) \in Nat /\ dcs_subsystem_pfd(y, a, c) \in Nat
         /\ dcs_subsystem_pfd(x, a, b) <= dcs_subsystem_pfd(y, a, c)
<1>1. /\ Common(x, b) \in Nat /\ Double(x) \in Nat /\ Triple(x) \in Nat /\ x \div 2 \in Nat
      /\ Common(y, c) \in Nat /\ Double(y) \in Nat /\ Triple(y) \in Nat /\ y \div 2 \in Nat
  BY TermsAre
<1>2. /\ Common(x, b) <= Common(y, c) /\ Double(x) <= Double(y) /\ Triple(x) <= Triple(y)
      /\ x \div 2 <= y \div 2
  BY TermsGrow
<1> DEFINE h == x \div 2  k == y \div 2
<1>3. h \in Nat /\ k \in Nat /\ h <= k
  BY <1>1, <1>2
<1>4. /\ dcs_subsystem_pfd(x, "1oo1", b) = Capped(h)
      /\ dcs_subsystem_pfd(y, "1oo1", c) = Capped(k)
  BY PfdIs
<1> HIDE DEF h, k
<1>5. CASE a = "1oo1"
  BY <1>3, <1>4, <1>5, CappedGrows
<1>6. CASE a \in {"1oo2", "1oo2D"}
  <2>1. /\ Double(x) + Common(x, b) \in Nat /\ Double(y) + Common(y, c) \in Nat
        /\ Double(x) + Common(x, b) <= Double(y) + Common(y, c)
    BY <1>1, <1>2
  <2> QED BY <1>6, <2>1, PfdIs, CappedGrows
<1>7. CASE a = "2oo3"
  <2>1. /\ Triple(x) + Common(x, b) \in Nat /\ Triple(y) + Common(y, c) \in Nat
        /\ Triple(x) + Common(x, b) <= Triple(y) + Common(y, c)
    BY <1>1, <1>2
  <2> QED BY <1>7, <2>1, PfdIs, CappedGrows
<1>8. CASE a = "2oo2"
  <2>1. /\ x + Common(x, b) \in Nat /\ y + Common(y, c) \in Nat
        /\ x + Common(x, b) <= y + Common(y, c)
    BY <1>1, <1>2
  <2> QED BY <1>8, <2>1, PfdIs, CappedGrows
<1> QED BY <1>5, <1>6, <1>7, <1>8 DEF Architectures

(* Two terms stand in a fixed relation to the exposure. *)
LEMMA DoubleIsBelow ==
  ASSUME NEW x \in Nat
  PROVE  Double(x) <= Triple(x)
<1>1. x * x \in Nat /\ Million \in Nat \ {0} /\ 3 * Million \in Nat \ {0}
  BY MillionIs
<1> DEFINE s == x * x  q == s \div Million
<1>2. q \in Nat /\ s \in Nat /\ s < q * Million + Million
  BY <1>1
<1> HIDE DEF s, q
<1>3. \A m \in Nat : m * (3 * Million) <= s => m <= q
  <2> SUFFICES ASSUME NEW m \in Nat, m * (3 * Million) <= s, m > q PROVE FALSE
    BY <1>2
  <2>1. m * Million >= (q + 1) * Million
    BY <1>1, <1>2
  <2>2. (q + 1) * Million = q * Million + Million /\ m * (3 * Million) = 3 * (m * Million)
        /\ m * Million \in Nat /\ q * Million \in Nat
    BY <1>1, <1>2
  <2> QED BY <1>1, <1>2, <2>1, <2>2
<1> DEFINE d == s \div (3 * Million)
<1>4. d \in Nat /\ d * (3 * Million) <= s
  BY <1>1, <1>2
<1> HIDE DEF d
<1>5. d <= q
  BY <1>3, <1>4
<1> QED BY <1>5 DEF d, q, s, Double, Triple

LEMMA TripleIsBelow ==
  ASSUME NEW x \in Nat, x <= Million
  PROVE  Triple(x) <= x
<1>1. x * x \in Nat /\ x * x <= x * Million
  BY MillionIs
<1> QED BY <1>1, MillionIs, QuotientBelow DEF Triple

LEMMA DoubleIsAThird ==
  ASSUME NEW x \in Nat, x <= Million
  PROVE  3 * Double(x) <= x
<1>1. x * x \in Nat /\ x * x <= x * Million /\ Million \in Nat \ {0} /\ 3 * Million \in Nat \ {0}
  BY MillionIs
<1> DEFINE s == x * x  d == s \div (3 * Million)
<1>2. s \in Nat /\ s <= x * Million
  BY <1>1
<1> HIDE DEF s
<1>3. d \in Nat /\ d * (3 * Million) <= s
  BY <1>1, <1>2
<1> HIDE DEF d
<1>4. (3 * d) * Million <= x * Million
  <2>1. (3 * d) * Million = d * (3 * Million) /\ x * Million \in Nat
    BY <1>1, <1>3
  <2>2. d * (3 * Million) \in Nat
    BY <1>1, <1>3
  <2> QED BY <1>2, <1>3, <2>1, <2>2
<1>5. ASSUME 3 * d >= x + 1 PROVE FALSE
  <2>1. (3 * d) * Million >= (x + 1) * Million
    BY <1>1, <1>3, <1>5
  <2>2. (x + 1) * Million = x * Million + Million /\ x * Million \in Nat /\ (3 * d) * Million \in Nat
    BY <1>1, <1>3
  <2> QED BY <1>1, <1>4, <2>1, <2>2
<1>6. 3 * d <= x
  BY <1>3, <1>5
<1> QED BY <1>6 DEF d, s, Double

LEMMA CommonIsAThird ==
  ASSUME NEW x \in Nat, NEW b \in Nat, b <= 33
  PROVE  200 * Common(x, b) <= 33 * x
<1> DEFINE s == b * x  d == s \div 200
<1>1. s \in Nat /\ s <= 33 * x
  OBVIOUS
<1> HIDE DEF s
<1>2. d \in Nat /\ 200 * d <= s
  BY <1>1
<1> HIDE DEF d
<1>3. 200 * d <= 33 * x
  BY <1>1, <1>2
<1> QED BY <1>3 DEF d, s, Common

LEMMA WeakerIsWorse ==
  ASSUME NEW x \in Nat, NEW b \in Nat, NEW a \in Architectures, NEW w \in Architectures,
         \/ a \in {"1oo2", "1oo2D"} /\ w \in {"2oo3", "2oo2"}
         \/ a \in {"1oo2", "1oo2D"} /\ w = "1oo1" /\ b <= 33 /\ x <= Million
         \/ a \in {"2oo3", "1oo1"} /\ w = "2oo2"
  PROVE  dcs_subsystem_pfd(x, a, b) <= dcs_subsystem_pfd(x, w, b)
<1>1. Common(x, b) \in Nat /\ Double(x) \in Nat /\ Triple(x) \in Nat /\ x \div 2 \in Nat
  BY TermsAre
<1> DEFINE h == x \div 2
<1>2. h \in Nat /\ h <= x /\ (\A m \in Nat : 2 * m <= x => m <= h)
      /\ dcs_subsystem_pfd(x, "1oo1", b) = Capped(h)
  BY PfdIs
<1> HIDE DEF h
<1>3. ASSUME NEW m \in Nat, x > Million, m <= Million
      PROVE  m <= dcs_subsystem_pfd(x, "2oo2", b)
  BY <1>1, <1>3, MillionIs, CappedIs, PfdIs
<1>4. \A m \in Nat : Capped(m) \in Nat /\ Capped(m) <= Million
  BY CappedIs, MillionIs
<1>5. CASE a \in {"1oo2", "1oo2D"} /\ w = "2oo3"
  <2>1. /\ Double(x) + Common(x, b) \in Nat /\ Triple(x) + Common(x, b) \in Nat
        /\ Double(x) + Common(x, b) <= Triple(x) + Common(x, b)
    BY <1>1, DoubleIsBelow
  <2> QED BY <1>5, <2>1, PfdIs, CappedGrows
<1>6. CASE a \in {"1oo2", "1oo2D"} /\ w = "2oo2"
  <2>1. CASE x <= Million
    <3>1. /\ Double(x) + Common(x, b) \in Nat /\ x + Common(x, b) \in Nat
          /\ Double(x) + Common(x, b) <= x + Common(x, b)
      BY <1>1, <2>1, DoubleIsBelow, TripleIsBelow
    <3> QED BY <1>6, <3>1, PfdIs, CappedGrows
  <2>2. CASE x > Million
    <3>1. Double(x) + Common(x, b) \in Nat
      BY <1>1
    <3> QED BY <1>3, <1>4, <1>6, <2>2, <3>1, PfdIs
  <2> QED BY <2>1, <2>2, MillionIs
<1>7. CASE a = "2oo3" /\ w = "2oo2"
  <2>1. CASE x <= Million
    <3>1. /\ Triple(x) + Common(x, b) \in Nat /\ x + Common(x, b) \in Nat
          /\ Triple(x) + Common(x, b) <= x + Common(x, b)
      BY <1>1, <2>1, TripleIsBelow
    <3> QED BY <1>7, <3>1, PfdIs, CappedGrows
  <2>2. CASE x > Million
    <3>1. Triple(x) + Common(x, b) \in Nat
      BY <1>1
    <3> QED BY <1>3, <1>4, <1>7, <2>2, <3>1, PfdIs
  <2> QED BY <2>1, <2>2, MillionIs
<1>8. CASE a = "1oo1" /\ w = "2oo2"
  <2>1. x + Common(x, b) \in Nat /\ h <= x + Common(x, b)
    BY <1>1, <1>2
  <2> QED BY <1>2, <1>8, <2>1, PfdIs, CappedGrows
<1>9. CASE a \in {"1oo2", "1oo2D"} /\ w = "1oo1" /\ b <= 33 /\ x <= Million
  <2>1. 3 * Double(x) <= x /\ 200 * Common(x, b) <= 33 * x
    BY <1>9, DoubleIsAThird, CommonIsAThird
  <2>2. Double(x) + Common(x, b) \in Nat /\ 2 * (Double(x) + Common(x, b)) <= x
    BY <1>1, <2>1
  <2>3. Double(x) + Common(x, b) <= h
    BY <1>2, <2>2
  <2> QED BY <1>2, <1>9, <2>2, <2>3, PfdIs, CappedGrows
<1> QED BY <1>5, <1>6, <1>7, <1>8, <1>9

BetaOf(s)    == Max({s.beta[p] : p \in Parts})
PfdOf(s, p)  == dcs_subsystem_pfd(s.rate[p] * s.interval, s.arch[p], BetaOf(s))
SafetyFunctions    == [arch : [Parts -> Architectures], rate : [Parts -> Rates],
                 beta : [Parts -> Betas], interval : Intervals, target_sil : Targets,
                 required_rrf : Reductions]

LEMMA FiguresAre ==
  /\ Rates \subseteq Nat /\ Intervals \subseteq Nat /\ Betas \subseteq Nat
  /\ Targets \subseteq Nat /\ Reductions \subseteq Nat
<1>1. Betas \subseteq Nat
  BY SafetyAssumption
<1>2. Targets \subseteq Nat
  BY SafetyAssumption
<1>3. Rates \subseteq Nat /\ Intervals \subseteq Nat /\ Reductions \subseteq Nat
  BY Zenon, SafetyAssumption
<1> QED BY <1>1, <1>2, <1>3

LEMMA BetaIs ==
  ASSUME NEW s \in SafetyFunctions
  PROVE  /\ BetaOf(s) \in Nat /\ \A p \in Parts : s.beta[p] <= BetaOf(s)
         /\ \E p \in Parts : BetaOf(s) = s.beta[p]
<1> DEFINE T == {s.beta[p] : p \in Parts}  top == 100
<1>1. Betas \subseteq 0 .. top
  BY Zenon, SafetyAssumption
<1>2. top \in Nat
  OBVIOUS
<1> HIDE DEF top
<1>3. T \subseteq Betas /\ T # {}
  BY DEF SafetyFunctions, Parts
<1>4. Max(T) \in T /\ \A y \in T : y <= Max(T)
  <2>1. T \subseteq 0 .. top
    BY <1>1, <1>3, Zenon
  <2> HIDE DEF T
  <2> QED BY <1>2, <1>3, <2>1, MaxOfSome
<1>5. Max(T) \in Nat
  <2> HIDE DEF T
  <2> QED BY <1>3, <1>4, FiguresAre
<1> QED BY <1>4, <1>5 DEF BetaOf

LEMMA BetaGrows ==
  ASSUME NEW s \in SafetyFunctions, NEW t \in SafetyFunctions, \A p \in Parts : s.beta[p] <= t.beta[p]
  PROVE  BetaOf(s) <= BetaOf(t)
<1>1. PICK p \in Parts : BetaOf(s) = s.beta[p]
  BY BetaIs
<1>2. t.beta[p] <= BetaOf(t) /\ t.beta[p] \in Nat /\ s.beta[p] <= t.beta[p]
  BY BetaIs, FiguresAre DEF SafetyFunctions
<1> QED BY <1>1, <1>2, BetaIs

LEMMA ExposureIs ==
  ASSUME NEW s \in SafetyFunctions, NEW p \in Parts
  PROVE  /\ s.rate[p] \in Nat /\ s.interval \in Nat /\ s.rate[p] * s.interval \in Nat
         /\ s.arch[p] \in Architectures /\ s.required_rrf \in Nat /\ s.target_sil \in Nat
<1>1. s.rate[p] \in Rates /\ s.interval \in Intervals /\ s.arch[p] \in Architectures
      /\ s.required_rrf \in Reductions /\ s.target_sil \in Targets
  BY DEF SafetyFunctions
<1>2. s.rate[p] \in Nat /\ s.interval \in Nat /\ s.required_rrf \in Nat /\ s.target_sil \in Nat
  BY <1>1, FiguresAre
<1> QED BY <1>1, <1>2

LEMMA PfdOfIs ==
  ASSUME NEW s \in SafetyFunctions, NEW p \in Parts
  PROVE  PfdOf(s, p) \in Nat
<1> DEFINE x == s.rate[p] * s.interval
<1>1. x \in Nat /\ BetaOf(s) \in Nat /\ s.arch[p] \in Architectures
  BY ExposureIs, BetaIs
<1> HIDE DEF x
<1>2. dcs_subsystem_pfd(x, s.arch[p], BetaOf(s)) \in Nat
  BY <1>1, PfdGrows
<1> QED BY <1>2 DEF PfdOf, x

(* The whole function: parts that are no better make it no better. *)
LEMMA VerifyGrows ==
  ASSUME NEW s \in SafetyFunctions, NEW t \in SafetyFunctions,
         s.target_sil = t.target_sil, s.required_rrf = t.required_rrf, s.interval <= t.interval,
         \A p \in Parts : PfdOf(s, p) <= PfdOf(t, p),
         dcs_sif_verify(t)
  PROVE  dcs_sif_verify(s)
<1> DEFINE sum(u) == PfdOf(u, "sensor") + PfdOf(u, "logic") + PfdOf(u, "actuator")
           all(u) == (sum(u) * 11) \div 10
           a == all(s)  b == all(t)
<1>1. sum(s) \in Nat /\ sum(t) \in Nat /\ sum(s) <= sum(t)
  BY PfdOfIs DEF Parts
<1>2. a \in Nat /\ b \in Nat /\ a <= b
  <2> DEFINE c == sum(s) * 11  d == sum(t) * 11
  <2> HIDE DEF sum
  <2>1. c \in Nat /\ d \in Nat /\ c <= d /\ 10 \in Nat \ {0}
    BY <1>1
  <2>2. a = c \div 10 /\ b = d \div 10
    OBVIOUS
  <2> HIDE DEF a, b, all, c, d
  <2> QED BY <2>1, <2>2, QuotientGrows, QuotientIsNat
<1>3. dcs_sif_calculate_pfd(s) = Capped(a) /\ dcs_sif_calculate_pfd(t) = Capped(b)
  BY Zenon DEF dcs_sif_calculate_pfd, PfdOf, BetaOf
<1> HIDE DEF a, b, all, sum
<1> DEFINE c == dcs_sif_calculate_pfd(s)  d == dcs_sif_calculate_pfd(t)
<1>4. c \in Nat /\ d \in Nat /\ c <= d
  BY <1>2, <1>3, CappedGrows
<1>5. /\ SilByPfd(d) >= t.target_sil /\ t.interval <= 87600
      /\ t.required_rrf > 0 /\ d > 0 => Million >= t.required_rrf * d
  BY DEF dcs_sif_verify
<1>6. s.interval \in Nat /\ t.interval \in Nat /\ s.required_rrf \in Nat /\ s.target_sil \in Nat
  BY ExposureIs DEF Parts
<1> HIDE DEF c, d
<1>7. SilByPfd(c) \in Nat /\ SilByPfd(d) \in Nat /\ SilByPfd(c) >= SilByPfd(d)
  BY <1>4 DEF SilByPfd
<1>8. s.required_rrf > 0 /\ c > 0 => Million >= s.required_rrf * c
  <2> SUFFICES ASSUME s.required_rrf > 0, c > 0 PROVE Million >= s.required_rrf * c
    OBVIOUS
  <2> DEFINE r == s.required_rrf
  <2>1. r \in Nat /\ Million >= r * d
    BY <1>4, <1>5, <1>6
  <2> HIDE DEF r
  <2>2. r * c <= r * d /\ r * c \in Nat /\ r * d \in Nat
    BY <1>4, <2>1
  <2>3. Million >= r * c
    BY <2>1, <2>2, MillionIs
  <2> QED BY <2>3 DEF r
<1>9. SilByPfd(c) >= s.target_sil
  BY <1>5, <1>6, <1>7
<1>10. s.interval <= 87600
  BY <1>5, <1>6
<1> QED BY <1>8, <1>9, <1>10 DEF dcs_sif_verify, c

(* One decision: what becomes worse does not become accepted. *)
NotWorse(s, t) ==
  /\ t.interval <= s.interval
  /\ \A p \in Parts : /\ t.rate[p] <= s.rate[p]
                      /\ t.beta[p] <= s.beta[p]
                      /\ t.arch[p] \notin Weaker(s, p)

LEMMA SameIsNotWeaker ==
  ASSUME NEW s, NEW p
  PROVE  s.arch[p] \notin Weaker(s, p)
BY DEF Weaker

LEMMA WeakerRatesWorse ==
  ASSUME NEW s \in SafetyFunctions, NEW p \in Parts, NEW w \in Architectures, w \in Weaker(s, p)
  PROVE  PfdOf(s, p) <= dcs_subsystem_pfd(s.rate[p] * s.interval, w, BetaOf(s))
<1> DEFINE x == s.rate[p] * s.interval  a == s.arch[p]  b == BetaOf(s)
<1>1. x \in Nat /\ b \in Nat /\ a \in Architectures
  BY ExposureIs, BetaIs
<1>2. \/ a \in {"1oo2", "1oo2D"} /\ w \in {"2oo3", "2oo2"}
      \/ a \in {"1oo2", "1oo2D"} /\ w = "1oo1" /\ b <= 33 /\ x <= Million
      \/ a \in {"2oo3", "1oo1"} /\ w = "2oo2"
  BY DEF Weaker, OneIsWorse, BetaOf
<1>3. PfdOf(s, p) = dcs_subsystem_pfd(x, a, b)
  BY DEF PfdOf
<1> HIDE DEF x, a, b
<1>4. dcs_subsystem_pfd(x, a, b) <= dcs_subsystem_pfd(x, w, b)
  BY <1>1, <1>2, WeakerIsWorse
<1> QED BY <1>3, <1>4 DEF x, b

LEMMA ArchitectureChosen ==
  ASSUME NEW s \in SafetyFunctions, NEW p \in Parts, NEW a \in Architectures, NEW t,
         t = [s EXCEPT !.arch[p] = a], dcs_sif_verify(t), ~dcs_sif_verify(s)
  PROVE  NotWorse(s, t)
<1>1. t \in SafetyFunctions
  BY DEF SafetyFunctions
<1>2. /\ t.interval = s.interval /\ t.rate = s.rate /\ t.beta = s.beta
      /\ t.target_sil = s.target_sil /\ t.required_rrf = s.required_rrf
      /\ t.arch[p] = a /\ \A q \in Parts : q # p => t.arch[q] = s.arch[q]
  BY DEF SafetyFunctions
<1>3. BetaOf(t) = BetaOf(s)
  BY <1>2 DEF BetaOf
<1>4. \A q \in Parts : s.rate[q] \in Nat /\ s.beta[q] \in Nat /\ s.interval \in Nat
  BY ExposureIs, FiguresAre DEF SafetyFunctions
<1>5. ASSUME a \in Weaker(s, p) PROVE FALSE
  <2>1. PfdOf(t, p) = dcs_subsystem_pfd(s.rate[p] * s.interval, a, BetaOf(s))
    BY <1>2, <1>3 DEF PfdOf
  <2>2. PfdOf(s, p) <= PfdOf(t, p)
    BY <1>5, <2>1, WeakerRatesWorse
  <2>3. \A q \in Parts : q # p => PfdOf(t, q) = PfdOf(s, q)
    BY <1>2, <1>3 DEF PfdOf
  <2>4. \A q \in Parts : PfdOf(s, q) <= PfdOf(t, q)
    BY <2>2, <2>3, PfdOfIs
  <2>5. s.interval <= t.interval
    BY <1>2, <1>4
  <2> QED BY <1>1, <1>2, <2>4, <2>5, VerifyGrows
<1>6. \A q \in Parts : t.arch[q] \notin Weaker(s, q)
  BY <1>2, <1>5, SameIsNotWeaker
<1> QED BY <1>2, <1>4, <1>6 DEF NotWorse

(* Rates, factors and intervals: where all of them are at most those of t, *)
(* under the same architectures, s is accepted if t is. *)
LEMMA FiguresGrow ==
  ASSUME NEW s \in SafetyFunctions, NEW t \in SafetyFunctions,
         s.target_sil = t.target_sil, s.required_rrf = t.required_rrf, s.arch = t.arch,
         s.interval <= t.interval,
         \A p \in Parts : s.rate[p] <= t.rate[p] /\ s.beta[p] <= t.beta[p],
         dcs_sif_verify(t)
  PROVE  dcs_sif_verify(s)
<1>1. BetaOf(s) \in Nat /\ BetaOf(t) \in Nat /\ BetaOf(s) <= BetaOf(t)
  BY BetaIs, BetaGrows
<1>2. ASSUME NEW p \in Parts PROVE PfdOf(s, p) <= PfdOf(t, p)
  <2> DEFINE r == s.rate[p]  u == t.rate[p]  i == s.interval  j == t.interval
  <2>1. r \in Nat /\ u \in Nat /\ i \in Nat /\ j \in Nat /\ r <= u /\ i <= j
        /\ s.arch[p] \in Architectures
    BY ExposureIs
  <2>2. PfdOf(s, p) = dcs_subsystem_pfd(r * i, s.arch[p], BetaOf(s))
        /\ PfdOf(t, p) = dcs_subsystem_pfd(u * j, s.arch[p], BetaOf(t))
    BY DEF PfdOf
  <2> HIDE DEF r, u, i, j
  <2> DEFINE x == r * i  y == u * j
  <2>3. x \in Nat /\ y \in Nat /\ x <= y
    <3>1. r * i <= u * i /\ u * i <= u * j /\ r * i \in Nat /\ u * i \in Nat /\ u * j \in Nat
      BY <2>1
    <3> QED BY <3>1
  <2> HIDE DEF x, y
  <2>4. dcs_subsystem_pfd(x, s.arch[p], BetaOf(s)) <= dcs_subsystem_pfd(y, s.arch[p], BetaOf(t))
    BY <1>1, <2>1, <2>3, PfdGrows
  <2> QED BY <2>2, <2>4 DEF x, y
<1> QED BY <1>2, VerifyGrows

LEMMA WorseIsRejected ==
  ASSUME SafetyTypeOK, SafetyNext, dcs_sif_verify(sif)', ~dcs_sif_verify(sif)
  PROVE  NotWorse(sif, sif')
<1>1. sif \in SafetyFunctions /\ sif' \in SafetyFunctions
  BY SafetyKept DEF SafetyTypeOK, SafetyFunctions
<1>2. dcs_sif_verify(sif')
  BY DEF dcs_sif_verify
<1>3. \A p \in Parts : /\ sif.rate[p] \in Nat /\ sif'.rate[p] \in Nat
                       /\ sif.beta[p] \in Nat /\ sif'.beta[p] \in Nat
                       /\ sif.interval \in Nat /\ sif'.interval \in Nat
  <2>1. \A s \in SafetyFunctions : \A p \in Parts :
          s.rate[p] \in Nat /\ s.beta[p] \in Nat /\ s.interval \in Nat
    BY FiguresAre DEF SafetyFunctions
  <2> QED BY <1>1, <2>1
<1>4. ASSUME NEW p \in Parts, NEW a \in Architectures, sif' = [sif EXCEPT !.arch[p] = a]
      PROVE  NotWorse(sif, sif')
  BY <1>1, <1>2, <1>4, ArchitectureChosen
<1>5. ASSUME sif'.target_sil = sif.target_sil, sif'.required_rrf = sif.required_rrf,
             sif'.arch = sif.arch,
             ~(/\ sif'.interval <= sif.interval
               /\ \A p \in Parts : sif'.rate[p] <= sif.rate[p] /\ sif'.beta[p] <= sif.beta[p]),
             \/ sif'.rate = sif.rate /\ sif'.beta = sif.beta
             \/ /\ sif'.interval = sif.interval /\ sif'.beta = sif.beta
                /\ \E p \in Parts : \A q \in Parts : q # p => sif'.rate[q] = sif.rate[q]
             \/ /\ sif'.interval = sif.interval /\ sif'.rate = sif.rate
                /\ \E p \in Parts : \A q \in Parts : q # p => sif'.beta[q] = sif.beta[q]
      PROVE  FALSE
  <2>1. sif.interval <= sif'.interval
        /\ \A p \in Parts : sif.rate[p] <= sif'.rate[p] /\ sif.beta[p] <= sif'.beta[p]
    <3>1. CASE sif'.rate = sif.rate /\ sif'.beta = sif.beta
      <4>1. \A p \in Parts : /\ sif'.rate[p] <= sif.rate[p] /\ sif.rate[p] <= sif'.rate[p]
                              /\ sif'.beta[p] <= sif.beta[p] /\ sif.beta[p] <= sif'.beta[p]
        BY <1>3, <3>1
      <4>2. sif.interval \in Nat /\ sif'.interval \in Nat
        BY <1>3 DEF Parts
      <4> QED BY <1>5, <4>1, <4>2
    <3>2. CASE /\ sif'.interval = sif.interval /\ sif'.beta = sif.beta
               /\ \E p \in Parts : \A q \in Parts : q # p => sif'.rate[q] = sif.rate[q]
      BY <1>3, <1>5, <3>2
    <3>3. CASE /\ sif'.interval = sif.interval /\ sif'.rate = sif.rate
               /\ \E p \in Parts : \A q \in Parts : q # p => sif'.beta[q] = sif.beta[q]
      BY <1>3, <1>5, <3>3
    <3> QED BY <1>5, <3>1, <3>2, <3>3
  <2> QED BY <1>1, <1>2, <1>5, <2>1, FiguresGrow
<1>6. ASSUME sif'.arch = sif.arch, sif'.interval <= sif.interval,
             \A p \in Parts : sif'.rate[p] <= sif.rate[p] /\ sif'.beta[p] <= sif.beta[p]
      PROVE  NotWorse(sif, sif')
  BY <1>6, SameIsNotWeaker DEF NotWorse
<1>7. ASSUME NEW p \in Parts, NEW r \in Rates, sif' = [sif EXCEPT !.rate[p] = r]
      PROVE  NotWorse(sif, sif')
  <2>1. /\ sif'.target_sil = sif.target_sil /\ sif'.required_rrf = sif.required_rrf
        /\ sif'.arch = sif.arch /\ sif'.interval = sif.interval /\ sif'.beta = sif.beta
        /\ \A q \in Parts : q # p => sif'.rate[q] = sif.rate[q]
    BY <1>1, <1>7 DEF SafetyFunctions
  <2> QED BY <1>5, <1>6, <2>1
<1>8. ASSUME NEW b \in Betas, sif' = [sif EXCEPT !.beta["sensor"] = b]
      PROVE  NotWorse(sif, sif')
  <2>1. /\ sif'.target_sil = sif.target_sil /\ sif'.required_rrf = sif.required_rrf
        /\ sif'.arch = sif.arch /\ sif'.interval = sif.interval /\ sif'.rate = sif.rate
        /\ \A q \in Parts : q # "sensor" => sif'.beta[q] = sif.beta[q]
        /\ "sensor" \in Parts
    BY <1>1, <1>8 DEF SafetyFunctions, Parts
  <2> QED BY <1>5, <1>6, <2>1
<1>9. ASSUME NEW i \in Intervals, sif' = [sif EXCEPT !.interval = i]
      PROVE  NotWorse(sif, sif')
  <2>1. /\ sif'.target_sil = sif.target_sil /\ sif'.required_rrf = sif.required_rrf
        /\ sif'.arch = sif.arch /\ sif'.rate = sif.rate /\ sif'.beta = sif.beta
    BY <1>1, <1>9 DEF SafetyFunctions
  <2> QED BY <1>5, <1>6, <2>1
<1> QED BY <1>4, <1>7, <1>8, <1>9 DEF SafetyNext

-----------------------------------------------------------------------------
(* The parts together. *)

DcsInv ==
  /\ Isa88Inv /\ PairInv /\ DbInv /\ ScanInv /\ StateInv /\ FilterInv /\ BurstInv
  /\ SafetyTypeOK /\ DesignTypeOK

LEMMA DcsFrame ==
  ASSUME [DcsFieldNext]_dcsFieldVars
  PROVE  /\ Isa88Next \/ UNCHANGED isa88
         /\ DcsPairNext \/ UNCHANGED dcsPair
         /\ DcsDbNext \/ UNCHANGED dcsDb
         /\ WatchdogNext \/ WindowNext \/ ScheduleNext \/ UNCHANGED scanCycle
         /\ StateNext \/ FilterNext \/ BurstNext \/ UNCHANGED dcsAlarm
         /\ SafetyNext \/ UNCHANGED sif
         /\ DesignNext \/ UNCHANGED plan
BY Zenon DEF DcsFieldNext, dcsFieldVars, dcsVars, DcsStep, FieldStep, DcsBatchStep, DcsPairStep,
   DatabaseStep, ScanStep, DcsAlarmStep, DesignStep

LEMMA AlarmFrames ==
  /\ StateNext => UNCHANGED <<filter, own, users, burst>>
  /\ FilterNext => UNCHANGED <<alarm, raised, owed, dropped, burst>>
  /\ BurstNext => UNCHANGED <<alarm, raised, owed, dropped, filter, own, users>>
BY Zenon DEF StateNext, FilterNext, BurstNext, dcs_alarm_process, dcs_alarm_acknowledge,
   dcs_alarm_shelve, dcs_alarm_check_unshelve, Service, dcs_alarm_evaluate_with_hysteresis, Arrives

LEMMA DcsStarts == DcsFieldInit => DcsInv
<1> SUFFICES ASSUME DcsFieldInit PROVE DcsInv
  OBVIOUS
<1>1. DbInv
  <2>1. 0 \in 0 .. MaxOptimised
    BY DbNumbers
  <2> QED BY <2>1, DbStarts DEF DcsFieldInit, DcsDbInit
<1>2. StateInv /\ FilterInv /\ BurstInv
  BY AlarmsStart DEF DcsFieldInit
<1>3. Isa88Inv /\ PairInv /\ ScanInv /\ SafetyTypeOK /\ DesignTypeOK
  BY Isa88Starts, PairStarts, ScanStarts, SafetyStarts, DesignStarts DEF DcsFieldInit
<1> QED BY <1>1, <1>2, <1>3 DEF DcsInv

LEMMA DcsKept ==
  ASSUME DcsInv, [DcsFieldNext]_dcsFieldVars
  PROVE  DcsInv'
<1>1. Isa88Inv'
  <2>1. CASE UNCHANGED isa88
    BY <2>1 DEF DcsInv, Isa88Inv, isa88
  <2> QED BY <2>1, DcsFrame, Isa88Kept DEF DcsInv
<1>2. PairInv'
  <2>1. CASE UNCHANGED dcsPair
    BY <2>1 DEF DcsInv, PairInv, DcsPairTypeOK, FlagMeansResynced, dcsPair
  <2> QED BY <2>1, DcsFrame, PairKept DEF DcsInv
<1>3. DbInv'
  <2>1. CASE UNCHANGED dcsDb
    <3>1. DbInv /\ db' = db /\ assigned' = assigned /\ optimised' = optimised
      BY <2>1 DEF DcsInv, dcsDb
    <3>2. /\ \A p \in 1 .. 5 : PhaseIsCounted(p)'
          /\ assigned' \subseteq {m.id : m \in ToSet(db'.modules)}
      BY <3>1, PhasesCarryOver
    <3>3. DcsDbTypeOK'
      BY <3>1 DEF DbInv, DcsDbTypeOK
    <3>4. TablesApart' /\ Len(db'.tags) <= Capacity.tags
      BY <3>1 DEF DbInv, TablesApart, TagsApart
    <3> QED BY <3>2, <3>3, <3>4 DEF DbInv
  <2> QED BY <2>1, DcsFrame, DbKept DEF DcsInv
<1>4. ScanInv'
  <2>1. CASE UNCHANGED scanCycle
    BY <2>1 DEF DcsInv, ScanInv, ScanTypeOK, scanCycle
  <2> QED BY <2>1, DcsFrame, WatchdogKept, WindowKept, ScheduleKept DEF DcsInv
<1>5. StateInv'
  <2>1. CASE UNCHANGED <<alarm, raised, owed, dropped>>
    BY <2>1 DEF DcsInv, StateInv
  <2>2. CASE UNCHANGED dcsAlarm
    BY <2>1, <2>2 DEF dcsAlarm
  <2> QED BY <2>1, <2>2, DcsFrame, AlarmFrames, StateKept DEF DcsInv
<1>6. FilterInv'
  <2>1. CASE UNCHANGED <<filter, own, users>>
    BY <2>1 DEF DcsInv, FilterInv
  <2>2. CASE UNCHANGED dcsAlarm
    BY <2>1, <2>2 DEF dcsAlarm
  <2> QED BY <2>1, <2>2, DcsFrame, AlarmFrames, FilterKept DEF DcsInv
<1>7. BurstInv'
  <2>1. CASE UNCHANGED burst
    BY <2>1 DEF DcsInv, BurstInv
  <2>2. CASE UNCHANGED dcsAlarm
    BY <2>1, <2>2 DEF dcsAlarm
  <2> QED BY <2>1, <2>2, DcsFrame, AlarmFrames, BurstKept DEF DcsInv
<1>8. SafetyTypeOK'
  <2>1. CASE UNCHANGED sif
    BY <2>1 DEF DcsInv, SafetyTypeOK
  <2> QED BY <2>1, DcsFrame, SafetyKept DEF DcsInv
<1>9. DesignTypeOK'
  <2>1. CASE UNCHANGED plan
    BY <2>1 DEF DcsInv, DesignTypeOK
  <2> QED BY <2>1, DcsFrame, DesignKept DEF DcsInv
<1> QED BY <1>1, <1>2, <1>3, <1>4, <1>5, <1>6, <1>7, <1>8, <1>9 DEF DcsInv

LEMMA DcsInvSuffices ==
  ASSUME DcsInv
  PROVE  DcsSound
<1>1. Isa88TypeOK /\ Isa88InOrder
  BY Isa88Typed, OrderFollows DEF DcsInv
<1>2. DcsPairTypeOK /\ FlagMeansResynced
  BY DEF DcsInv, PairInv
<1>3. DcsDbTypeOK /\ TablesHaveNoDuplicates /\ FittingPhasesFit
  BY TablesFollow, PhasesFollow DEF DcsInv, DbInv
<1>4. ScanTypeOK /\ WatchdogBites
  BY ScanInvSuffices DEF DcsInv
<1>5. DcsAlarmTypeOK /\ OwedIsShown /\ FloodIsExact
  BY AlarmsInvSuffices DEF DcsInv, AlarmsInv
<1>6. SafetyTypeOK /\ DesignTypeOK /\ RecommendedIsVerified
  BY RecommendedFollows DEF DcsInv
<1> QED BY <1>1, <1>2, <1>3, <1>4, <1>5, <1>6 DEF DcsSound

LEMMA DcsInvHolds == DcsFieldSpec => []DcsInv
<1>1. DcsFieldInit => DcsInv
  BY DcsStarts
<1>2. DcsInv /\ [DcsFieldNext]_dcsFieldVars => DcsInv'
  BY DcsKept
<1> QED BY <1>1, <1>2, PTL DEF DcsFieldSpec

(* Phases run in the order of their recipe; the flag that promises a *)
(* bumpless transfer is up only for a synchronised pair; no table holds a *)
(* thing twice and what is said to fit a scan phase fits; a watchdog bites *)
(* when, and only when, its time is up; an alarm nobody answered is shown; *)
(* a flood has the alarms it is said to have; what is recommended is *)
(* verified: for any recipe, tables, times, alarms and figures. *)
THEOREM DcsIsSound == DcsFieldSpec => []DcsSound
<1>1. DcsInv => DcsSound
  BY DcsInvSuffices
<1> QED BY <1>1, DcsInvHolds, PTL

(* The batch of an ISA-88 recipe is the sequential batch: its place only *)
(* moves forward, one phase at a time and only while it runs. *)
THEOREM Isa88ImplementsSequential == DcsFieldSpec => Isa88IsSequential
<1>1. DcsFieldInit => Promise!Init
  BY PromiseStarts DEF DcsFieldInit
<1>2. DcsInv /\ DcsInv' /\ [DcsFieldNext]_dcsFieldVars => [Promise!Next]_(Promise!batch)
  <2> SUFFICES ASSUME DcsInv, DcsInv', [DcsFieldNext]_dcsFieldVars
               PROVE  [Promise!Next]_(Promise!batch)
    OBVIOUS
  <2>1. Isa88Inv /\ Isa88Inv' /\ (Isa88Next \/ UNCHANGED isa88)
    BY DcsFrame DEF DcsInv
  <2> QED BY <2>1, PromiseKept
<1> QED BY <1>1, <1>2, DcsInvHolds, PTL DEF DcsFieldSpec, Isa88IsSequential, Promise!Spec

(* The output never jumps on its way to a target: it moves by at most a *)
(* step of the ramp, towards the target and not past it. *)
THEOREM RampIsBumplessHolds == DcsFieldSpec => RampIsBumpless
<1>1. DcsInv /\ [DcsFieldNext]_dcsFieldVars => [RampStep]_ramp
  <2> SUFFICES ASSUME DcsInv, [DcsFieldNext]_dcsFieldVars, ramp' # ramp
               PROVE  RampStep
    OBVIOUS
  <2>1. PairInv /\ DcsPairNext
    BY DcsFrame DEF DcsInv, dcsPair
  <2> QED BY <2>1, RampIsKept
<1>2. RampIsBumpless <=> [][RampStep]_ramp
  BY DEF RampIsBumpless, RampStep
<1> QED BY <1>1, <1>2, DcsInvHolds, PTL DEF DcsFieldSpec

DelayStep ==
  \A a \in DcsAlarms :
    users' = {a} /\ filter'.was_active /\ ~filter.was_active => own'[a] >= OnDelay[a]

(* An alarm that has the filter to itself becomes active only after its *)
(* delay. *)
THEOREM ActivationTakesDelayHolds == DcsFieldSpec => ActivationTakesDelay
<1>1. DcsInv /\ [DcsFieldNext]_dcsFieldVars => [DelayStep]_<<filter, own, users>>
  <2> SUFFICES ASSUME DcsInv, [DcsFieldNext]_dcsFieldVars, ~ UNCHANGED <<filter, own, users>>
               PROVE  DelayStep
    OBVIOUS
  <2>1. FilterInv /\ FilterNext
    BY DcsFrame, AlarmFrames DEF DcsInv, dcsAlarm
  <2> QED BY <2>1, FilterKept DEF DelayStep
<1>2. ActivationTakesDelay <=> [][DelayStep]_<<filter, own, users>>
  BY DEF ActivationTakesDelay, DelayStep
<1> QED BY <1>1, <1>2, DcsInvHolds, PTL DEF DcsFieldSpec

WorseStep == dcs_sif_verify(sif)' /\ ~dcs_sif_verify(sif) => NotWorse(sif, sif')

(* No decision that makes a safety function worse has it accepted, for any *)
(* rates, intervals and factors. *)
THEOREM WorseIsNotAcceptedHolds == DcsFieldSpec => WorseIsNotAccepted
<1>1. DcsInv /\ [DcsFieldNext]_dcsFieldVars => [WorseStep]_sif
  <2> SUFFICES ASSUME DcsInv, [DcsFieldNext]_dcsFieldVars, sif' # sif,
                      dcs_sif_verify(sif)', ~dcs_sif_verify(sif)
               PROVE  NotWorse(sif, sif')
    BY DEF WorseStep
  <2>1. SafetyTypeOK /\ SafetyNext
    BY DcsFrame DEF DcsInv
  <2> QED BY <2>1, WorseIsRejected
<1>2. WorseIsNotAccepted <=> [][WorseStep]_sif
  BY DEF WorseIsNotAccepted, WorseStep, NotWorse
<1> QED BY <1>1, <1>2, DcsInvHolds, PTL DEF DcsFieldSpec

(* The seven promises about steps, together. *)
THEOREM StepsAreSound == DcsFieldSpec => StepsSound
BY RampIsBumplessHolds, WorseIsNotAcceptedHolds, ActivationTakesDelayHolds, NothingComesBackHolds,
   TransferIsBumplessHolds, CycleStaysInsideHolds, MoreIsNotBetterHolds DEF StepsSound
=============================================================================
