------------------------------ MODULE ScanCycle -----------------------------
(***************************************************************************)
(* The scan of a controller in mini-dcs-system-architecture *)
(* (dcs_scan_cycle.c): its watchdog, what a window of measured scan times *)
(* says of it, and whether a set of control modules may be scheduled.  The *)
(* watchdog is always enabled: nothing switches it off. *)
(* *)
(* Milliseconds and microseconds are whole.  Left out: the standard *)
(* deviation and the probability of an overrun, which nothing else reads. *)
(***************************************************************************)
EXTENDS Integers, Sequences, FiniteSetsExt, Functions

CONSTANTS
  Timeout,     \* timeout_ms of the watchdog
  Ticks,       \* dt_ms of a tick
  MaxQuiet,    \* bound: milliseconds counted since the last reset
  ScanPeriod,  \* scan_period_ms
  ScanTimes,   \* times that a scan takes
  MaxWindow,   \* bound: scans of a window
  TaskTimes,   \* exec_times_us
  TaskPeriods, \* periods_us
  MaxTasks     \* bound: control modules of a schedule

ASSUME ScanAssumption ==
  /\ Timeout \in Nat \ {0} /\ Ticks \subseteq Nat /\ MaxQuiet \in Nat
  /\ ScanPeriod \in Nat \ {0} /\ ScanTimes \subseteq Nat /\ MaxWindow \in Nat
  /\ TaskTimes \subseteq Nat \ {0} /\ TaskPeriods \subseteq Nat /\ MaxTasks \in Nat

VARIABLES
  wd,     \* dcs_watchdog_t
  quiet,  \* (model) milliseconds since the watchdog was last reset, as counted outside
  window, \* scan_times_ms
  tasks   \* execution time and period of the modules, in the order of their priority

scanCycle == <<wd, quiet, window, tasks>>

Task == [exec_time : TaskTimes, period : TaskPeriods]

ScanTypeOK ==
  /\ wd \in [elapsed : Nat, expired : BOOLEAN]
  /\ quiet \in Nat
  /\ window \in Seq(ScanTimes) /\ tasks \in Seq(Task)

dcs_watchdog_init == [elapsed |-> 0, expired |-> FALSE]

ScanInit ==
  /\ wd = dcs_watchdog_init /\ quiet = 0
  /\ window = << >> /\ tasks = << >>

-----------------------------------------------------------------------------
(* The watchdog. *)

dcs_watchdog_reset ==
  /\ ~wd.expired
  /\ wd' = [wd EXCEPT !.elapsed = 0]
  /\ quiet' = 0 /\ UNCHANGED <<window, tasks>>

TimedOut(elapsed) == elapsed >= Timeout

dcs_watchdog_tick(dt) ==
  /\ quiet + dt <= MaxQuiet
  /\ quiet' = quiet + dt
  /\ wd' = [wd EXCEPT !.elapsed = @ + dt,
                     !.expired = @ \/ TimedOut(wd.elapsed + dt)]
  /\ UNCHANGED <<window, tasks>>

-----------------------------------------------------------------------------
(* Scan times.  1, 2 and 3 are warning, alarm and critical. *)

dcs_detect_scan_overrun(time, period) ==
  IF period = 0 \/ time <= period THEN 0
  ELSE IF 2 * time >= 3 * period THEN 3
  ELSE IF 10 * time >= 13 * period THEN 2
  ELSE 1

overrun_count == Cardinality({i \in DOMAIN window : window[i] > ScanPeriod})

jitter == Max(Range(window)) - Min(Range(window))

(* Less than 5 per cent jitter, and fewer than one scan in a thousand *)
(* over its period. *)
scan_healthy == 20 * jitter < ScanPeriod /\ 1000 * overrun_count < Len(window)

Measured(time) ==
  /\ Len(window) < MaxWindow
  /\ window' = Append(window, time)
  /\ UNCHANGED <<wd, quiet, tasks>>

standard_periods == {50, 100, 200, 250, 500, 1000, 2000, 5000}

(* A tenth of the time constant (ms), at least 50, rounded up to a *)
(* standard period; the longest beyond 2000. *)
dcs_recommend_scan_period(constant) ==
  IF constant = 0 THEN 250
  ELSE Min({p \in standard_periods : constant <= 10 * p \/ p = 5000})

(* The loops that fit into a share (per cent) of the scan, less a fifth. *)
dcs_max_pid_loops_per_scan(period_ms, share, t_per_pid) ==
  IF period_ms = 0 \/ t_per_pid = 0 THEN 0
  ELSE LET pct == IF share \in 1 .. 100 THEN share ELSE 30
       IN  (((period_ms * 10 * pct) \div t_per_pid) * 4) \div 5

-----------------------------------------------------------------------------
(* Schedules. *)

AddTask(t) ==
  /\ Len(tasks) < MaxTasks
  /\ tasks' = Append(tasks, t)
  /\ UNCHANGED <<wd, quiet, window>>

(* Mutant: what an earliest deadline first scheduler could bear. *)
within_full_bound(total, whole, n) == total <= whole

(* A part of the whole is at most 70 per cent of it and at most the bound *)
(* n * (2^(1/n) - 1) of Liu and Layland, which is lower from 36 tasks on. *)
within_dcs_bound(total, whole, n) ==
  IF n <= 35 THEN 100 * total <= 70 * whole
  ELSE (total + n * whole)^n <= 2 * (n * whole)^n

Hyper == FoldFunctionOnSet(LAMBDA p, q : p * q, 1, [t \in DOMAIN tasks |-> tasks[t].period], DOMAIN tasks)

(* Utilisation times the product of the periods, to stay with integers. *)
total_utilization ==
  FoldFunction(+, 0, [t \in DOMAIN tasks |->
    tasks[t].exec_time * (Hyper \div tasks[t].period)])

dcs_verify_deterministic_schedule ==
  /\ \A t \in DOMAIN tasks : tasks[t].period > 0
  /\ within_dcs_bound(total_utilization, Hyper, Len(tasks))

WatchdogNext == dcs_watchdog_reset \/ \E dt \in Ticks : dcs_watchdog_tick(dt)

WindowNext == \E time \in ScanTimes : Measured(time)

ScheduleNext == \E t \in Task : AddTask(t)

-----------------------------------------------------------------------------
(* Properties. *)

(* A watchdog that was not reset for its timeout has expired; it is not *)
(* revived by a reset that comes too late.  Scan times that are healthy *)
(* have no overrun among them, in any window of up to a thousand. *)
WatchdogBites ==
  /\ quiet >= Timeout => wd.expired
  /\ wd.expired => wd.elapsed >= Timeout
  /\ window # << >> /\ Len(window) <= 1000 /\ scan_healthy => Max(Range(window)) <= ScanPeriod

(* The time by which every module of the schedule has run when all are *)
(* released together, with the shorter period first: the least window that *)
(* its own and the more urgent modules' work fills. *)
Urgent(t) == {u \in DOMAIN tasks : tasks[u].period <= tasks[t].period}

Work(t, w) ==
  FoldFunctionOnSet(+, 0, [u \in DOMAIN tasks |->
    tasks[u].exec_time * ((w + tasks[u].period - 1) \div tasks[u].period)], Urgent(t))

(* A schedule accepted by its utilisation meets every deadline, by the *)
(* response times of rate monotonic scheduling. *)
AcceptedSchedulesMeetDeadlines ==
  dcs_verify_deterministic_schedule =>
    \A t \in DOMAIN tasks : \E w \in 1 .. tasks[t].period : Work(t, w) <= w
=============================================================================
