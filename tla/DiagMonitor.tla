----------------------------- MODULE DiagMonitor ------------------------------
(***************************************************************************)
(* The diagnostic monitor of a redundant controller (diagnostic_monitor.c):*)
(* a fault log that fills up, the checks that write to it, the timing of *)
(* the control cycle, the errors of the link and the ring of trend samples *)
(* with the statistics computed from its newest entries. *)
(* *)
(* `reported`, `timed` and `recorded` are not in the program: they are the *)
(* faults that were reported, the cycle times since the first overrun and *)
(* the trend samples, newest first.  Left out: the smoothed cycle time, *)
(* the stored checksum and the time of the last kick, which nothing reads, *)
(* the watchdog (the count of timeouts that diag_watchdog_expired compares *)
(* is never written) and the detection probability, an exponential. *)
(***************************************************************************)
EXTENDS Integers, Sequences, FiniteSets, FiniteSetsExt, SequencesExt

CONSTANTS
  FaultTypes,      \* the types of fault other parts of the controller report
  MaxFaultLog,     \* DIAG_MAX_FAULT_LOG
  CycleTimes,      \* cycle times that are measured
  WatchdogPeriod,  \* watchdog_period_ms, in the unit of the cycle times
  TrendValues,     \* values of the trend
  TrendPoints,     \* DIAG_MAX_TREND_POINTS
  MaxReports       \* bound: faults of one type, and errors of the link

ASSUME DiagAssumption ==
  /\ MaxFaultLog \in Nat /\ TrendPoints \in Nat \ {0} /\ MaxReports \in Nat
  /\ CycleTimes \subseteq Nat /\ WatchdogPeriod \in Nat /\ TrendValues \subseteq Int

VARIABLES
  diag,      \* the fault log, the memory test and the cycle times
  link,      \* crc_errors, sequence_gaps and timeout_events
  trend,     \* the ring: data, index, count
  reported, timed, recorded

diagVars  == <<diag, reported, timed>>
trendVars == <<trend, recorded>>
monitorVars == <<diagVars, trendVars, link>>

FaultType == FaultTypes \cup {"ROM_CHECKSUM", "TIMING_OVERRUN"}

NoTrend == [data |-> [k \in 0 .. TrendPoints - 1 |-> 0], index |-> 0, count |-> 0]

diag_init ==
  /\ diag = [fault_log |-> << >>, counts |-> [t \in FaultType |-> 0],
             memory_test_pass |-> TRUE, min |-> 0, max |-> 0, overruns |-> 0]
  /\ link = [crc_errors |-> 0, sequence_gaps |-> 0, timeout_events |-> 0]
  /\ trend = NoTrend
  /\ reported = [t \in FaultType |-> 0] /\ timed = {} /\ recorded = << >>

-----------------------------------------------------------------------------
(* The fault log. *)

diag_log_fault(d, type) ==
  IF Len(d.fault_log) >= MaxFaultLog THEN d
  ELSE [d EXCEPT !.fault_log = Append(@, type), !.counts[type] = @ + 1]

Report(type) == /\ reported[type] < MaxReports
                /\ reported' = [reported EXCEPT ![type] = @ + 1]

ReportFault(type) ==
  /\ Report(type)
  /\ diag' = diag_log_fault(diag, type)
  /\ UNCHANGED timed

diag_rom_verify(matches) ==
  /\ IF matches THEN UNCHANGED reported ELSE Report("ROM_CHECKSUM")
  /\ LET tested == [diag EXCEPT !.memory_test_pass = matches]
     IN  diag' = IF matches THEN tested ELSE diag_log_fault(tested, "ROM_CHECKSUM")
  /\ UNCHANGED timed

(* The self test passes the memory whatever the last check of the ROM was. *)
diag_run_bist ==
  /\ diag' = [diag EXCEPT !.memory_test_pass = TRUE]
  /\ UNCHANGED <<reported, timed>>

(* Until the first overrun both extremes are the last cycle time. *)
Extremes(d, time) ==
  IF d.overruns = 0 THEN [d EXCEPT !.min = time, !.max = time]
  ELSE [d EXCEPT !.min = Min({@, time}), !.max = Max({@, time})]

diag_update_cycle_time(time) ==
  LET seen    == Extremes(diag, time)
      overrun == time > WatchdogPeriod IN
  /\ IF overrun THEN Report("TIMING_OVERRUN") ELSE UNCHANGED reported
  /\ diag' = IF overrun THEN diag_log_fault([seen EXCEPT !.overruns = @ + 1], "TIMING_OVERRUN")
             ELSE seen
  /\ timed' = IF overrun \/ diag.overruns > 0 THEN timed \cup {time} ELSE {}

DiagNext ==
  /\ \/ \E t \in FaultTypes : ReportFault(t)
     \/ \E matches \in BOOLEAN : diag_rom_verify(matches)
     \/ diag_run_bist
     \/ \E time \in CycleTimes : diag_update_cycle_time(time)
  /\ UNCHANGED <<link, trendVars>>

(* Every error counts as a timeout as well. *)
diag_record_comm_error(crc) ==
  /\ link.timeout_events < MaxReports
  /\ link' = [link EXCEPT !.crc_errors = @ + (IF crc THEN 1 ELSE 0),
                          !.sequence_gaps = @ + (IF crc THEN 0 ELSE 1),
                          !.timeout_events = @ + 1]
  /\ UNCHANGED <<diagVars, trendVars>>

-----------------------------------------------------------------------------
(* The trend. *)

diag_record_trend(x) ==
  /\ trend' = [data |-> [trend.data EXCEPT ![trend.index] = x],
               index |-> (trend.index + 1) % TrendPoints,
               count |-> Min({trend.count + 1, TrendPoints})]
  /\ recorded' = SubSeq(<<x>> \o recorded, 1, Min({Len(recorded) + 1, TrendPoints}))
  /\ UNCHANGED <<diagVars, link>>

(* The newest n samples, newest first. *)
Window(n) ==
  [k \in 1 .. Min({n, trend.count}) |-> trend.data[(trend.index + TrendPoints - k) % TrendPoints]]

Total(s) ==
  LET sum[k \in 0 .. Len(s)] == IF k = 0 THEN 0 ELSE sum[k - 1] + s[k]
  IN  sum[Len(s)]

(* Sum and number of the averaged samples. *)
diag_trend_moving_average(n) ==
  IF trend.count = 0 \/ n = 0 THEN <<0, 1>> ELSE <<Total(Window(n)), Len(Window(n))>>

(* Numerator and denominator of the regression line, time going backwards. *)
diag_trend_slope(n) ==
  LET w     == Window(n)
      size  == Len(w)
      xs    == [k \in 1 .. size |-> k - 1]
      xys   == [k \in 1 .. size |-> (k - 1) * w[k]]
      x2s   == [k \in 1 .. size |-> (k - 1) * (k - 1)] IN
  IF trend.count < 2 \/ n < 2 THEN <<0, 1>>
  ELSE <<-(size * Total(xys) - Total(xs) * Total(w)),
         size * Total(x2s) - Total(xs) * Total(xs)>>

(* How many of the newest n samples are more than z standard deviations *)
(* off their mean, in integers: deviations times the number of samples. *)
diag_detect_anomalies(n, z) ==
  LET w      == Window(n)
      size   == Len(w)
      off(k) == size * w[k] - Total(w)
      spread == Total([k \in 1 .. size |-> off(k) * off(k)]) IN
  IF trend.count < 3 \/ n < 3 \/ spread = 0 THEN 0
  ELSE Cardinality({k \in 1 .. size : (size - 1) * off(k) * off(k) > z * z * spread})

TrendNext == \E x \in TrendValues : diag_record_trend(x)

LinkNext == \E crc \in BOOLEAN : diag_record_comm_error(crc)

-----------------------------------------------------------------------------
(* Coverage, in percent. *)

(* The failure rate split by diag_init: detected, undetected, safe; the *)
(* unit is a two-hundredth of the total. *)
SplitRate(coverage) == [dd |-> 2 * coverage, du |-> 100 - coverage, s |-> 100 - coverage]

diag_coverage_factor(dd, du) ==
  IF dd + du = 0 THEN 0 ELSE (200 * dd + dd + du) \div (2 * (dd + du))

diag_coverage_class(percent) ==
  CASE percent < 60 -> "None" [] percent \in 60 .. 89 -> "Low"
    [] percent \in 90 .. 98 -> "Medium" [] OTHER -> "High"

-----------------------------------------------------------------------------
(* Properties. *)

DiagTypeOK ==
  /\ diag.fault_log \in Seq(FaultType) /\ diag.counts \in [FaultType -> 0 .. MaxReports]
  /\ diag.memory_test_pass \in BOOLEAN /\ diag.overruns \in 0 .. MaxReports
  /\ trend.index \in 0 .. TrendPoints - 1 /\ trend.count \in 0 .. TrendPoints

(* The counters of the fault types are the census of the log, and until *)
(* the log is full nothing that was reported is missing from it, whichever *)
(* of the checks reported it. *)
LogIsCensus ==
  /\ \A t \in FaultType :
       diag.counts[t] = Cardinality({k \in DOMAIN diag.fault_log : diag.fault_log[k] = t})
  /\ Len(diag.fault_log) < MaxFaultLog => diag.counts = reported

(* From the first overrun on the extremes are those of the cycles measured *)
(* since, and an overrun stays visible in the maximum. *)
ExtremesAreReached ==
  diag.overruns > 0 =>
    diag.min = Min(timed) /\ diag.max = Max(timed) /\ diag.max > WatchdogPeriod

(* However often the ring has wrapped, the window is the newest samples, *)
(* and what is computed from it fits them: the average lies between them, *)
(* a rising trend has a positive slope, a falling one a negative slope, *)
(* and no more samples are anomalous than the deviation allows. *)
TrendIsOfTheNewest ==
  \A n \in 2 .. TrendPoints + 1 :
    LET w   == Window(n)
        avg == diag_trend_moving_average(n)
        up(s) == \A k \in 1 .. Len(s) - 1 : s[k] > s[k + 1]
        dn(s) == \A k \in 1 .. Len(s) - 1 : s[k] < s[k + 1] IN
    /\ w = SubSeq(recorded, 1, Min({n, Len(recorded)}))
    /\ w # << >> => Min(ToSet(w)) * avg[2] <= avg[1] /\ avg[1] <= Max(ToSet(w)) * avg[2]
    /\ Len(w) >= 2 => /\ diag_trend_slope(n)[2] > 0
                      /\ up(w) => diag_trend_slope(n)[1] > 0
                      /\ dn(w) => diag_trend_slope(n)[1] < 0
    /\ \A z \in 1 .. 2 : diag_detect_anomalies(n, z) * z * z < Max({Len(w), 1})
=============================================================================
