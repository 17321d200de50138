-------------------------- MODULE ExperionController --------------------------
(***************************************************************************)
(* An Experion controller.  Its control execution environment *)
(* (cee_execution.c): phases and tasks, the execution of frames, the *)
(* emergency stop, and the two tests of a schedule, the bound of Liu and *)
(* Layland and the response time analysis.  Its inputs and outputs *)
(* (c300_controller.c): slots, channels, the filter, the scan, analog *)
(* outputs and peer subscriptions. *)
(* *)
(* Times are in milliseconds; the code has microseconds for the durations. *)
(* A first order filter puts its value somewhere between the old one and *)
(* the raw one: where exactly is left open.  Left out: offsets and classes *)
(* of phases, which no code reads, the moving average of the load, timing *)
(* metrics, which no code fills, and the force mode, which does nothing. *)
(***************************************************************************)
EXTENDS Integers, Sequences, FiniteSets, FiniteSetsExt, SequencesExt, TLC

CONSTANTS
  FramePeriod,   \* frame_period_ms
  Durations,     \* durations of the phases that are added
  CeeTaskKinds,  \* tasks that are created: phase, period, priority and wcet
  MaxPhases,     \* CEE_MAX_PHASES
  MaxCeeTasks,   \* CEE_MAX_TASKS_PER_PHASE
  MaxTaskBlocks, \* CEE_MAX_BLOCKS_PER_TASK
  MaxRegistry,   \* CEE_MAX_OVERALL_BLOCKS
  MaxFrames      \* bound of the model on frame_number

ASSUME CeeAssumption ==
  /\ FramePeriod \in Nat \ {0} /\ Durations \subseteq Nat
  /\ CeeTaskKinds \subseteq [phase_id : Nat, period : Nat, priority : Nat, wcet : Nat]
  /\ {MaxPhases, MaxCeeTasks, MaxTaskBlocks, MaxRegistry, MaxFrames} \subseteq Nat

VARIABLES
  cee,     \* the execution manager
  born     \* frame_number at which each task was created (history)

ceeVars == <<cee, born>>

CeePhase == [duration : Nat, task_count : Nat, overrun_detected : BOOLEAN]

CeeTask ==
  [phase_id : Nat, period : Nat, priority : Nat, wcet : Nat, enabled : BOOLEAN,
   block_count : Nat, execution_count : Nat, current_duration : Nat]

CeeManager ==
  [phases : Seq(CeePhase), tasks : Seq(CeeTask), frame_number : Nat, overrun_count : Nat,
   registered_blocks : Nat, idle_time : Nat, schedule_valid : BOOLEAN,
   emergency_stop : BOOLEAN, trapped : BOOLEAN]

CeeTypeOK == cee \in CeeManager /\ born \in Seq(Nat) /\ Len(born) = Len(cee.tasks)

(* trapped: the processor stopped the program at a division by zero. *)
cee_init ==
  /\ cee = [phases |-> << >>, tasks |-> << >>, frame_number |-> 0, overrun_count |-> 0,
            registered_blocks |-> 0, idle_time |-> 0, schedule_valid |-> FALSE,
            emergency_stop |-> FALSE, trapped |-> FALSE]
  /\ born = << >>

-----------------------------------------------------------------------------
(* Configuration *)

cee_add_phase(duration) ==
  /\ Len(cee.phases) < MaxPhases
  /\ cee' = [cee EXCEPT !.phases =
               Append(@, [duration |-> duration, task_count |-> 0, overrun_detected |-> FALSE])]
  /\ UNCHANGED born

NewTask(kind) ==
  [phase_id |-> kind.phase_id, period |-> kind.period, priority |-> kind.priority,
   wcet |-> kind.wcet, enabled |-> TRUE, block_count |-> 0, execution_count |-> 0,
   current_duration |-> 0]

cee_create_task(kind) ==
  /\ Len(cee.tasks) < MaxCeeTasks
  /\ kind.phase_id \in DOMAIN cee.phases
  /\ cee' = [cee EXCEPT
               !.tasks = Append(@, NewTask(kind)),
               !.phases[kind.phase_id].task_count = @ + 1]
  /\ born' = Append(born, cee.frame_number)

(* A full registry is no reason to refuse. *)
cee_assign_block_to_task(t) ==
  /\ t \in DOMAIN cee.tasks /\ cee.tasks[t].block_count < MaxTaskBlocks
  /\ cee' = [cee EXCEPT !.tasks[t].block_count = @ + 1,
                        !.registered_blocks = IF @ < MaxRegistry THEN @ + 1 ELSE @]
  /\ UNCHANGED born

-----------------------------------------------------------------------------
(* Schedulability *)

Unit == 10000

(* n (2^(1/n) - 1), in ten-thousandths. *)
cee_rms_bound(n) ==
  CASE n <= 0 -> 0
    [] n = 1  -> Unit
    [] n = 2  -> 8284
    [] n = 3  -> 7797
    [] OTHER  -> 6931

Analysed(tasks) == {t \in DOMAIN tasks : tasks[t].enabled /\ tasks[t].period # 0}

(* The sum of wcet / period, in ten-thousandths, over a common denominator. *)
Utilization(tasks) ==
  LET product == FoldLeft(LAMBDA p, t : p * (IF t.period = 0 THEN 1 ELSE t.period), 1, tasks)
  IN  (MapThenSumSet(LAMBDA t : (tasks[t].wcet * product) \div tasks[t].period,
                     Analysed(tasks)) * Unit) \div product

rms_schedulable(tasks) ==
  Utilization(tasks) <= cee_rms_bound(Cardinality(Analysed(tasks)))

cee_analyze_schedulability ==
  /\ cee' = [cee EXCEPT !.schedule_valid = rms_schedulable(cee.tasks)]
  /\ UNCHANGED born

(* Strictly more urgent: tasks of the same priority are not counted. *)
MoreUrgent(tasks, i) == {j \in Analysed(tasks) : tasks[j].priority < tasks[i].priority}

(* The demand of task i and of what is more urgent within R. *)
Demand(tasks, i, R) ==
  tasks[i].wcet +
  MapThenSumSet(LAMBDA j : ((R + tasks[j].period - 1) \div tasks[j].period) * tasks[j].wcet,
                MoreUrgent(tasks, i))

(* The iteration reaches a fixed point within the deadline, before its *)
(* hundredth step. *)
cee_response_time_analysis(tasks, i) ==
  LET accepted[R \in Nat, left \in Nat] ==
        LET next == Demand(tasks, i, R) IN
        /\ next <= tasks[i].period /\ left > 1
        /\ next = R \/ accepted[next, left - 1]
  IN  tasks[i].enabled /\ tasks[i].period # 0 /\ accepted[tasks[i].wcet, 100]

-----------------------------------------------------------------------------
(* Execution *)

(* The frames from one execution to the next; zero for a period below that *)
(* of the frame. *)
Divisor(task) == task.period \div FramePeriod

Due(task, frame) == task.period = 0 \/ frame % Divisor(task) = 0

(* Mutant: the frame counter is read before it is incremented. *)
RunsBefore(task, frame) ==
  task.enabled /\ (task.period = 0 \/ (frame - 1) % Divisor(task) = 0)

Runs(task, frame) == task.enabled /\ Due(task, frame)

Traps(task) == task.enabled /\ task.period # 0 /\ Divisor(task) = 0

TimeOf(tasks, T) == MapThenSumSet(LAMBDA t : tasks[t].current_duration, T)

(* idle_time counts the last duration of tasks that did not run, too. *)
cee_execute_frame ==
  /\ ~cee.emergency_stop /\ cee.frame_number < MaxFrames
  /\ LET frame == cee.frame_number + 1
         ran   == {t \in DOMAIN cee.tasks : Runs(cee.tasks[t], frame)}
         after == [t \in DOMAIN cee.tasks |->
                     IF t \in ran
                     THEN [cee.tasks[t] EXCEPT !.current_duration = cee.tasks[t].wcet,
                                               !.execution_count = @ + 1]
                     ELSE cee.tasks[t]]
         over  == {p \in DOMAIN cee.phases :
                     TimeOf(after, {t \in ran : after[t].phase_id = p}) > cee.phases[p].duration}
         total == TimeOf(after, DOMAIN after)
     IN  IF \E t \in DOMAIN cee.tasks : Traps(cee.tasks[t])
         THEN cee' = [cee EXCEPT !.trapped = TRUE]
         ELSE cee' = [cee EXCEPT
                !.frame_number = frame,
                !.tasks = after,
                !.phases = [p \in DOMAIN cee.phases |->
                              [cee.phases[p] EXCEPT
                                 !.overrun_detected = @ \/ p \in over]],
                !.overrun_count = @ + Cardinality(over),
                !.idle_time = IF total < FramePeriod THEN FramePeriod - total ELSE 0]
  /\ UNCHANGED born

(* Stops the tasks there are; the ones created later are enabled. *)
cee_emergency_stop ==
  /\ cee' = [cee EXCEPT !.emergency_stop = TRUE,
                        !.tasks = [t \in DOMAIN @ |-> [@[t] EXCEPT !.enabled = FALSE]]]
  /\ UNCHANGED born

(* The sorted list of the phase is thrown away: the order stays. *)
cee_reorder_by_priority(phase) ==
  /\ phase \in DOMAIN cee.phases
  /\ UNCHANGED ceeVars

CeeNext ==
  /\ ~cee.trapped
  /\ \/ \E d \in Durations : cee_add_phase(d)
     \/ \E kind \in CeeTaskKinds : cee_create_task(kind)
     \/ \E t \in 1 .. MaxCeeTasks : cee_assign_block_to_task(t)
     \/ cee_analyze_schedulability
     \/ cee_execute_frame
     \/ cee_emergency_stop
     \/ \E p \in 1 .. MaxPhases : cee_reorder_by_priority(p)

-----------------------------------------------------------------------------
(* A task ran as often as its period fell due since it was created, however*)
(* phases, tasks, frames and the emergency stop are interleaved. *)
NoFrameMissed ==
  \A t \in DOMAIN cee.tasks :
    LET task == cee.tasks[t]
        d    == IF task.period = 0 THEN 1 ELSE Divisor(task)
    IN  d # 0 => task.execution_count = (cee.frame_number \div d) - (born[t] \div d)

(* Priorities follow the rates, as the bound of Liu and Layland assumes. *)
RateMonotonic(tasks) ==
  \A i, j \in Analysed(tasks) :
    i # j => \/ tasks[i].priority < tasks[j].priority /\ tasks[i].period <= tasks[j].period
             \/ tasks[j].priority < tasks[i].priority /\ tasks[j].period <= tasks[i].period

(* What task i and the more urgent tasks release in the first w fits in w. *)
Fits(tasks, i, w) ==
  w >= tasks[i].wcet + MapThenSumSet(
         LAMBDA j : tasks[j].wcet * Cardinality({k \in 0 .. w : k * tasks[j].period < w}),
         {j \in DOMAIN tasks : /\ tasks[j].enabled /\ tasks[j].period # 0
                               /\ tasks[j].priority < tasks[i].priority})

(* What the bound accepts of rate monotonic tasks, the response time *)
(* analysis accepts of each; and it accepts a task exactly when some prefix*)
(* of the period has room for all that is released in it. *)
TestsAgree(tasks) ==
  \A i \in Analysed(tasks) :
    LET accepted == cee_response_time_analysis(tasks, i) IN
    /\ rms_schedulable(tasks) /\ RateMonotonic(tasks) => accepted
    /\ accepted <=> \E w \in 1 .. tasks[i].period : Fits(tasks, i, w)

-----------------------------------------------------------------------------
(* Inputs and outputs. *)

CONSTANTS
  Slots,        \* slots of the rack
  Channels,     \* channel numbers looked at
  ModuleTypes,  \* types of modules that are plugged in
  Signals,      \* values of inputs and outputs
  Ranges,       \* engineering ranges of channels
  PeerPeriods,  \* update periods asked for by peers
  ExecPeriod,   \* execution_period_ms
  MaxPeers      \* C300_MAX_PEER_CONNECTIONS

ASSUME C300Assumption ==
  /\ Channels \subseteq Nat /\ "none" \notin ModuleTypes /\ Signals \subseteq Nat
  /\ Ranges \subseteq Nat \X Nat /\ PeerPeriods \subseteq Nat /\ {ExecPeriod, MaxPeers} \subseteq Nat

VARIABLES
  c300,      \* the controller
  written    \* last value each output was written, within its range (history)

c300Vars == <<c300, written>>

(* No signal or limit is negative. *)
NoValue == -1
NoModule == "none"

Channel ==
  [tagged : BOOLEAN, quality : {"BAD_CONFIG", "GOOD"}, eu : Ranges \cup {<<0, 0>>},
   raw : Int, filtered : Int, filtering : BOOLEAN, scan_disabled : BOOLEAN]

Unconfigured ==
  [tagged |-> FALSE, quality |-> "BAD_CONFIG", eu |-> <<0, 0>>, raw |-> 0, filtered |-> 0,
   filtering |-> FALSE, scan_disabled |-> FALSE]

C300TypeOK ==
  /\ c300.online \in BOOLEAN
  /\ c300.module \in [Slots -> ModuleTypes \cup {NoModule}]
  /\ c300.channel \in [Slots \X Channels -> Channel]
  /\ c300.peers \subseteq PeerPeriods

c300_init ==
  /\ c300 = [online |-> FALSE, module |-> [s \in Slots |-> NoModule],
             channel |-> [sc \in Slots \X Channels |-> Unconfigured],
             peers |-> {}]
  /\ written = [sc \in Slots \X Channels |-> NoValue]

channel_count(type) ==
  CASE type \in {"AI_TC", "AI_RTD", "AO_420MA"}                          -> 8
    [] type = "AO_PULSE"                                                 -> 4
    [] type \in {"AI_420MA", "DI_SOE", "DO_SSR", "MIXED_IO", "FF"}       -> 16
    [] type \in {"DI_24VDC", "DO_RELAY", "HART_MUX", "PROFIBUS_DP"}      -> 32
    [] OTHER                                                             -> 0

AnalogOutput == {"AO_420MA", "AO_PULSE"}

Exists(s, c) == c300.module[s] # NoModule /\ c < channel_count(c300.module[s])

At(s, c) == c300.channel[<<s, c>>]

SetChannel(s, c, new) == c300' = [c300 EXCEPT !.channel[<<s, c>>] = new]

-----------------------------------------------------------------------------
c300_configure_io_slot(s, type) ==
  /\ c300.module[s] = NoModule
  /\ c300' = [c300 EXCEPT
                !.module[s] = type,
                !.channel = [sc \in DOMAIN @ |->
                               IF sc[1] = s /\ sc[2] < channel_count(type)
                               THEN Unconfigured ELSE @[sc]]]
  /\ UNCHANGED written

c300_configure_channel(s, c, range) ==
  /\ Exists(s, c)
  /\ SetChannel(s, c, [At(s, c) EXCEPT !.tagged = TRUE, !.eu = range, !.quality = "GOOD",
                                       !.scan_disabled = FALSE])
  /\ UNCHANGED written

Blend(old, raw) == Min({old, raw}) .. Max({old, raw})

(* One step of the filter; a short filter time switches it off. *)
c300_apply_filter(s, c, long) ==
  /\ Exists(s, c)
  /\ \E f \in IF long THEN Blend(At(s, c).filtered, At(s, c).raw) ELSE {At(s, c).raw} :
       SetChannel(s, c, [At(s, c) EXCEPT !.filtered = f, !.filtering = long])
  /\ UNCHANGED written

Clamped(value, eu) == IF value < eu[1] THEN eu[1]
                      ELSE IF value > eu[2] THEN eu[2] ELSE value

Output(s, c, value) ==
  [At(s, c) EXCEPT !.raw = Clamped(value, At(s, c).eu),
                   !.filtered = Clamped(value, At(s, c).eu)]

c300_write_analog_output(s, c, value) ==
  /\ Exists(s, c) /\ ~At(s, c).scan_disabled
  /\ c300.module[s] \in AnalogOutput
  /\ SetChannel(s, c, Output(s, c, value))
  /\ written' = [written EXCEPT ![<<s, c>>] = Clamped(value, At(s, c).eu)]

c300_read_analog_input(s, c) ==
  IF Exists(s, c) /\ ~At(s, c).scan_disabled THEN At(s, c).filtered ELSE NoValue

(* The input processing of a scan; its other phases touch no state. *)
Processed(ch, f) ==
  [ch EXCEPT !.filtered = IF ch.filtering THEN f ELSE ch.raw,
             !.quality = IF ch.tagged THEN "GOOD" ELSE @]

c300_execute_scan ==
  /\ c300.online
  /\ \E f \in [{sc \in Slots \X Channels : Exists(sc[1], sc[2])} -> Signals \cup {0}] :
       /\ \A sc \in DOMAIN f :
            f[sc] \in Blend(c300.channel[sc].filtered, c300.channel[sc].raw)
       /\ c300' = [c300 EXCEPT !.channel =
                     [sc \in DOMAIN @ |->
                        IF sc \in DOMAIN f /\ ~@[sc].scan_disabled
                        THEN Processed(@[sc], f[sc]) ELSE @[sc]]]
  /\ UNCHANGED written

(* stale_timeout_ms is three periods; no code compares it with anything. *)
c300_add_peer_subscription(period) ==
  /\ Cardinality(c300.peers) < MaxPeers /\ period >= ExecPeriod
  /\ c300' = [c300 EXCEPT !.peers = @ \cup {period}]
  /\ UNCHANGED written

(* The field changes an input; the application goes online, or takes a *)
(* channel out of the scan. *)
FieldSignal(s, c, value) ==
  /\ Exists(s, c) /\ c300.module[s] \notin AnalogOutput
  /\ SetChannel(s, c, [At(s, c) EXCEPT !.raw = value])
  /\ UNCHANGED written

GoOnline == c300' = [c300 EXCEPT !.online = TRUE] /\ UNCHANGED written

DisableScan(s, c) ==
  Exists(s, c) /\ SetChannel(s, c, [At(s, c) EXCEPT !.scan_disabled = TRUE]) /\ UNCHANGED written

C300Next ==
  \/ \E s \in Slots, type \in ModuleTypes : c300_configure_io_slot(s, type)
  \/ \E s \in Slots, c \in Channels :
       \/ \E range \in Ranges : c300_configure_channel(s, c, range)
       \/ \E long \in BOOLEAN : c300_apply_filter(s, c, long)
       \/ \E value \in Signals : \/ c300_write_analog_output(s, c, value)
                                 \/ FieldSignal(s, c, value)
       \/ DisableScan(s, c)
  \/ \E period \in PeerPeriods : c300_add_peer_subscription(period)
  \/ c300_execute_scan
  \/ GoOnline

-----------------------------------------------------------------------------
(* Functions *)

(* evaluate_alarms: the alarms of value pv, of a filter that is roc behind.*)
c300_evaluate_alarms(limits, pv, roc) ==
  (IF limits.lo < limits.hi /\ pv < limits.lo THEN {"LO"} ELSE {})
  \cup (IF limits.lolo < limits.lo /\ pv < limits.lolo THEN {"LOLO"} ELSE {})
  \cup (IF limits.hi > limits.lo /\ pv > limits.hi THEN {"HI"} ELSE {})
  \cup (IF limits.hihi > limits.hi /\ pv > limits.hihi THEN {"HIHI"} ELSE {})
  \cup (IF limits.roc > 0 /\ roc > limits.roc THEN {"ROC"} ELSE {})

c300_scale_to_eu(raw, from, eu) ==
  IF from[1] = from[2] THEN eu[1]
  ELSE eu[1] + ((Clamped(raw, from) - from[1]) * (eu[2] - eu[1])) \div (from[2] - from[1])

-----------------------------------------------------------------------------
(* What was written to an output, cut to its range, is what is read back, *)
(* whatever scans, filters and configurations come in between; a channel *)
(* is of good quality exactly when it was configured. *)
OutputsHold ==
  \A s \in Slots, c \in Channels :
    LET value == c300_read_analog_input(s, c) IN
    /\ value # NoValue /\ written[<<s, c>>] # NoValue => value = written[<<s, c>>]
    /\ Exists(s, c) => (At(s, c).quality = "GOOD" <=> At(s, c).tagged)
===============================================================================
