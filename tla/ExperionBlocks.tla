---------------------------- MODULE ExperionBlocks ----------------------------
(***************************************************************************)
(* The control blocks of Experion (control_blocks.c): the PID block with *)
(* its modes, its position and velocity forms and its transfers; the table *)
(* of a signal characterizer; and the blocks that are functions of their *)
(* inputs.  Then custom algorithm blocks and bulk engineering *)
(* (experion_cab_bulk.c): the life of a block, the library of filters that *)
(* blocks are written with, the workbook of points and its validation. *)
(* *)
(* Gains and times are such that all values are integers: ti and td count *)
(* execution periods, and ti = 1.  Left out: the filters of the process *)
(* value and of the derivative, which are off unless an application writes *)
(* their parameters, and the terms kept for display. *)
(***************************************************************************)
EXTENDS Integers, Sequences, FiniteSets, FiniteSetsExt, SequencesExt

CONSTANTS
  Tunings,      \* what pid_set_tuning is given: kc, ti, td
  OpLimits,     \* what pid_set_limits is given: the output limits
  PVs,          \* process values and remote setpoints
  Ops,          \* outputs set by hand, tracked or transferred
  Windup,       \* windup_limit_lo and windup_limit_hi
  RateLimit,    \* op_rate_limit, zero for none
  Deadband,     \* deadband, zero for none
  Points,       \* breakpoints added to a characterizer
  MaxPoints     \* CHAR_MAX_BREAKPOINTS

ASSUME BlocksAssumption ==
  /\ Tunings \subseteq [kc : Int, ti : Nat, td : Nat]
  /\ OpLimits \subseteq Int \X Int /\ Windup \in Int \X Int
  /\ PVs \subseteq Int /\ Ops \subseteq Int /\ {RateLimit, Deadband, MaxPoints} \subseteq Nat
  /\ Points \subseteq [x : Int, y : Int]

VARIABLES
  pid,      \* parameters and state of a PID block
  handed,   \* what a transfer to AUTO handed over, until the next execution (history)
  table     \* breakpoints of a signal characterizer

blockVars == <<pid, handed, table>>

PIDMode == {"MANUAL", "AUTO", "CASCADE", "REMOTE_OUT", "INITIALIZE", "EMERGENCY"}

NotHanded == [waiting |-> FALSE, op |-> 0, pv |-> 0]

BlockTypeOK ==
  /\ pid.mode \in PIDMode /\ pid.tuning \in Tunings /\ pid.limits \in OpLimits
  /\ \A field \in {"pv", "sp", "remote_sp", "op", "track_op", "prev_error", "prev2_error",
                   "integral", "prev_op"} : pid[field] \in Int
  /\ handed \in [waiting : BOOLEAN, op : Int, pv : Int]
  /\ table \in Seq(Points) /\ Len(table) <= MaxPoints

pid_block_init ==
  /\ \E tuning \in Tunings, limits \in OpLimits :
       pid = [mode |-> "MANUAL", tuning |-> tuning, limits |-> limits, pv |-> 0, sp |-> 0,
              remote_sp |-> 0, op |-> 0, track_op |-> 0, prev_error |-> 0, prev2_error |-> 0,
              integral |-> 0, prev_op |-> 0]
  /\ handed = NotHanded /\ table = << >>

-----------------------------------------------------------------------------
(* The PID block *)

pid_set_tuning(tuning) ==
  /\ pid' = [pid EXCEPT !.tuning = tuning]
  /\ UNCHANGED <<handed, table>>

(* The output is not brought within the new limits. *)
pid_set_limits(limits) ==
  /\ limits[1] < limits[2]
  /\ pid' = [pid EXCEPT !.limits = limits]
  /\ UNCHANGED <<handed, table>>

(* Mutant: the integral is left as it is. *)
ModeKeepingIntegral(mode) ==
  CASE mode = "AUTO" /\ pid.mode = "MANUAL" -> [pid EXCEPT !.mode = mode, !.sp = pid.pv]
    [] mode = "CASCADE"    -> [pid EXCEPT !.mode = mode, !.sp = pid.remote_sp]
    [] mode = "INITIALIZE" -> [pid EXCEPT !.mode = mode, !.op = pid.track_op]
    [] OTHER               -> [pid EXCEPT !.mode = mode]

InPidMode(mode) ==
  CASE mode = "AUTO" /\ pid.mode = "MANUAL" ->
         [pid EXCEPT !.mode = mode, !.sp = pid.pv, !.integral = pid.op]
    [] mode = "CASCADE"    -> [pid EXCEPT !.mode = mode, !.sp = pid.remote_sp]
    [] mode = "INITIALIZE" -> [pid EXCEPT !.mode = mode, !.op = pid.track_op,
                                          !.integral = pid.track_op]
    [] OTHER               -> [pid EXCEPT !.mode = mode]

pid_set_mode(mode) ==
  /\ pid' = InPidMode(mode)
  /\ handed' = [waiting |-> mode = "AUTO" /\ pid.mode = "MANUAL", op |-> pid.op, pv |-> pid.pv]
  /\ UNCHANGED table

Within(value, limits) == IF value > limits[2] THEN limits[2]
                         ELSE IF value < limits[1] THEN limits[1] ELSE value

Limited(change) ==
  IF RateLimit = 0 THEN change ELSE Within(change, <<-RateLimit, RateLimit>>)

(* For the REVERSE action, which pid_params_init chooses. *)
ErrorOf(pv) ==
  LET error == pid.sp - pv IN
  IF Deadband > 0 /\ -Deadband < error /\ error < Deadband THEN 0 ELSE error

(* Anti-windup stops the integral that would leave the limits, which it is *)
(* cut to besides. *)
Integral(error) ==
  LET increment == pid.tuning.kc * error
      projected == pid.integral + increment + pid.tuning.kc * error
      stopped   == \/ projected > Windup[2] /\ increment > 0
                   \/ projected < Windup[1] /\ increment < 0
  IN  IF pid.tuning.ti = 0 THEN pid.integral
      ELSE Within(pid.integral + (IF stopped THEN 0 ELSE increment), Windup)

(* The rate limit comes after the output limits. *)
Position(error) ==
  LET raw == Within(pid.tuning.kc * error + Integral(error)
                      + pid.tuning.kc * pid.tuning.td * (error - pid.prev_error), pid.limits)
  IN  pid.op + Limited(raw - pid.op)

ByHand == {"MANUAL", "INITIALIZE", "EMERGENCY"}

pid_execute(pv) ==
  /\ LET error == ErrorOf(pv) IN
     pid' = IF pid.mode \in ByHand THEN [pid EXCEPT !.pv = pv]
            ELSE [pid EXCEPT !.pv = pv, !.integral = Integral(error), !.prev_error = error,
                             !.op = Position(error), !.prev_op = Position(error)]
  /\ handed' = NotHanded
  /\ UNCHANGED table

(* Runs in every mode; without an integral time it divides by zero. *)
pid_execute_velocity(pv) ==
  /\ pid.tuning.ti > 0
  /\ LET error == pid.sp - pv
         d2e   == error - 2 * pid.prev_error + pid.prev2_error
         delta == Limited(pid.tuning.kc * (error - pid.prev_error + error + pid.tuning.td * d2e))
         op    == Within(pid.prev_op + delta, pid.limits)
     IN  pid' = [pid EXCEPT !.pv = pv, !.prev2_error = pid.prev_error, !.prev_error = error,
                            !.prev_op = op, !.op = op]
  /\ handed' = NotHanded
  /\ UNCHANGED table

pid_bumpless_transfer(op) ==
  /\ pid' = [pid EXCEPT !.op = op, !.prev_op = op, !.integral = op, !.sp = pid.pv,
                        !.prev_error = 0, !.prev2_error = 0]
  /\ handed' = NotHanded
  /\ UNCHANGED table

(* An application writes the output of a block in MANUAL, the output to *)
(* track, the remote setpoint. *)
SetByHand(op) ==
  /\ pid' = [pid EXCEPT !.op = IF pid.mode = "MANUAL" THEN op ELSE @,
                        !.track_op = IF pid.mode = "MANUAL" THEN @ ELSE op]
  /\ UNCHANGED <<handed, table>>

SetRemote(sp) ==
  /\ pid' = [pid EXCEPT !.remote_sp = sp]
  /\ UNCHANGED <<handed, table>>

PidNext ==
  \/ \E tuning \in Tunings : pid_set_tuning(tuning)
  \/ \E limits \in OpLimits : pid_set_limits(limits)
  \/ \E mode \in PIDMode : pid_set_mode(mode)
  \/ \E pv \in PVs : pid_execute(pv) \/ pid_execute_velocity(pv) \/ SetRemote(pv)
  \/ \E op \in Ops : pid_bumpless_transfer(op) \/ SetByHand(op)

-----------------------------------------------------------------------------
(* The signal characterizer *)

(* Sorted by x; an x that is there already is refused. *)
signal_char_add_point(point) ==
  /\ Len(table) < MaxPoints
  /\ \A i \in DOMAIN table : table[i].x # point.x
  /\ table' = LET below == {i \in DOMAIN table : table[i].x < point.x}
              IN  InsertAt(table, Cardinality(below) + 1, point)
  /\ UNCHANGED <<pid, handed>>

(* The value of the characterizer, times the width of its segment. *)
signal_char_evaluate(x) ==
  LET n    == Len(table)
      last == table[n]
      i    == Min({k \in 1 .. n - 1 : table[k].x <= x /\ x <= table[k + 1].x})
      dx   == table[i + 1].x - table[i].x
  IN  CASE x <= table[1].x -> [value |-> table[1].y, width |-> 1]
        [] x >= last.x     -> [value |-> last.y, width |-> 1]
        [] OTHER -> [value |-> table[i].y * dx + (x - table[i].x) * (table[i + 1].y - table[i].y),
                     width |-> dx]

TableNext == \E point \in Points : signal_char_add_point(point)

-----------------------------------------------------------------------------
(* Blocks that are functions of their inputs *)

(* CascadePair: nothing while the cascade is open. *)
cascade_calculate_sp(link, master_op) ==
  IF link.active THEN {master_op * link.ratio + link.bias} ELSE {}

(* One step of a lead and a lag, as leadlag_execute and the dynamic *)
(* feedforward compute it, times the denominator. *)
LeadLagDenominator(ts, lag) == 2 * lag + ts

leadlag_step(gain, lead, lag, ts, input, prev_input, prev_output) ==
  gain * (2 * lead + ts) * input + gain * (ts - 2 * lead) * prev_input
    - (ts - 2 * lag) * prev_output

ratio_execute(ratio, wild_flow, bias) == Within(ratio, <<0, 10>>) * wild_flow + bias

(* The output of one range, in percent of it. *)
split_range_execute(range, output) ==
  CASE output < range.start -> 0
    [] output > range.end   -> 100
    [] OTHER -> IF range.end > range.start
                THEN ((output - range.start) * 100) \div (range.end - range.start) ELSE 0

(* The median is that of the first three inputs, or the first of two. *)
override_selector_execute(type, inputs) ==
  LET best == CASE type = "HIGH" -> Max(ToSet(inputs))
                [] type = "LOW"  -> Min(ToSet(inputs))
                [] OTHER -> IF Len(inputs) < 3 THEN inputs[1]
                            ELSE Max({Min({inputs[1], inputs[2]}), Min({inputs[2], inputs[3]}),
                                      Min({inputs[1], inputs[3]})})
  IN  [value |-> best, index |-> Min({i \in DOMAIN inputs : inputs[i] = best})]

-----------------------------------------------------------------------------
(* The comment at control_blocks.c:120 says that the transfer initialises *)
(* the integral so that the output does not jump.  So it is of a block *)
(* without derivative action: the first execution after the transfer that *)
(* finds the process where it was leaves an output within the limits alone.*)
Allowed(op) == Within(op, Windup) = op /\ Within(op, pid.limits) = op

TransferIsSmooth ==
  [][handed.waiting /\ pid_execute(handed.pv) /\ Allowed(handed.op) /\ pid.tuning.td = 0
     => pid'.op = handed.op]_blockVars

(* The breakpoints stay sorted without duplicates, and the characterizer *)
(* passes through each. *)
CharacterizerHits ==
  /\ \A i, j \in DOMAIN table : i < j => table[i].x < table[j].x
  /\ Len(table) > 1 => \A i \in DOMAIN table :
                         LET at == signal_char_evaluate(table[i].x)
                         IN  at.value = table[i].y * at.width

-----------------------------------------------------------------------------
(* Custom algorithm blocks and the workbook. *)

CONSTANTS
  CabValues,     \* values of terminals, samples and inputs
  WindowSizes,   \* windows of the moving average
  MaxSamples,    \* bound of the model on the samples between two resets
  DeadbandWidth, \* deadband
  Hysteresis,    \* hysteresis
  RiseRate,      \* max_rise_rate
  FallRate,      \* max_fall_rate
  MaxClock,      \* bound of the model on the clock of the rate limiter
  WorkbookRows,  \* points that are added to the workbook
  MaxRows,       \* number of points a workbook holds, 100
  Controllers,   \* controllers that points are assigned to
  MaxControllers \* length of controller_ids, 16

WorkbookRow ==
  [tag : {row.tag : row \in WorkbookRows}, lo : Int, hi : Int, alarm_lo : Int, alarm_hi : Int,
   controller : Controllers \cup {0}]

ASSUME CabAssumption ==
  /\ CabValues \subseteq Int /\ WindowSizes \subseteq Nat \ {0}
  /\ {MaxSamples, DeadbandWidth, Hysteresis, RiseRate, FallRate, MaxClock, MaxRows} \subseteq Nat
  /\ WorkbookRows \subseteq WorkbookRow /\ MaxControllers \in Nat

VARIABLES
  cab,      \* a custom algorithm block
  ma,       \* a moving average
  seen,     \* its samples since the last reset (history)
  band,     \* a deadband
  rate,     \* a rate limiter
  book      \* the workbook

cabVars == <<cab, ma, seen, band, rate, book>>

CABState == {"IDLE", "INITIALIZED", "RUNNING", "ERROR", "DISABLED"}

CabTypeOK ==
  /\ cab.state \in CABState /\ cab.runs \in Nat
  /\ cab.inputs \in Seq(CabValues \cup {0}) /\ cab.outputs \in Seq(CabValues \cup {0})
  /\ ma.window \in WindowSizes /\ ma.index \in 0 .. ma.window - 1 /\ ma.count \in 0 .. ma.window
  /\ band.rising \in BOOLEAN /\ rate.initialized \in BOOLEAN
  /\ book.ready \in BOOLEAN /\ Len(book.rows) <= MaxRows

CabInit ==
  /\ cab = [state |-> "IDLE", inputs |-> << >>, outputs |-> << >>, runs |-> 0]
  /\ \E w \in WindowSizes :
       ma = [window |-> w, buffer |-> [i \in 0 .. w - 1 |-> 0], index |-> 0, sum |-> 0, count |-> 0]
  /\ seen = << >>
  /\ band = [last_output |-> 0, rising |-> TRUE]
  /\ rate = [last_output |-> 0, last_time |-> 0, now |-> 0, initialized |-> FALSE]
  /\ book = [rows |-> << >>, controllers |-> {}, ready |-> FALSE, touched |-> TRUE]

-----------------------------------------------------------------------------
(* The block *)

Terminals == 2

cab_add_input ==
  /\ Len(cab.inputs) < Terminals
  /\ cab' = [cab EXCEPT !.inputs = Append(@, 0)]
  /\ UNCHANGED <<ma, seen, band, rate, book>>

cab_add_output ==
  /\ Len(cab.outputs) < Terminals
  /\ cab' = [cab EXCEPT !.outputs = Append(@, 0)]
  /\ UNCHANGED <<ma, seen, band, rate, book>>

(* The control strategy drives an input. *)
DriveInput(i, value) ==
  /\ i \in DOMAIN cab.inputs
  /\ cab' = [cab EXCEPT !.inputs[i] = value]
  /\ UNCHANGED <<ma, seen, band, rate, book>>

(* Copied one by one, as far as there are inputs. *)
cab_execute ==
  /\ cab.state = "RUNNING"
  /\ cab' = [cab EXCEPT !.runs = IF @ < 2 THEN @ + 1 ELSE @,
                        !.outputs = [i \in DOMAIN @ |-> IF i \in DOMAIN cab.inputs
                                                        THEN cab.inputs[i] ELSE @[i]]]
  /\ UNCHANGED <<ma, seen, band, rate, book>>

(* Any state may follow any. *)
cab_set_state(state) ==
  /\ cab' = [cab EXCEPT !.state = state]
  /\ UNCHANGED <<ma, seen, band, rate, book>>

(* A build always succeeds and warns of a block without terminals. *)
cab_build(inputs, outputs, params) ==
  [code_size |-> 1024 + inputs * 64 + outputs * 64 + params * 128,
   warnings  |-> IF inputs = 0 /\ outputs = 0 THEN 1 ELSE 0,
   success   |-> TRUE]

CabNext ==
  \/ cab_add_input \/ cab_add_output \/ cab_execute
  \/ \E i \in 1 .. Terminals, value \in CabValues : DriveInput(i, value)
  \/ \E state \in CABState : cab_set_state(state)

-----------------------------------------------------------------------------
(* The library *)

(* Mutant: the oldest sample is looked for from the next position. *)
oldest_after_index == (ma.index + 1) % ma.window

oldest_idx == (ma.index + ma.window - ma.count + ma.window) % ma.window

cab_moving_average_update(sample) ==
  /\ Len(seen) < MaxSamples
  /\ LET full == ma.count >= ma.window IN
     ma' = [ma EXCEPT !.sum = @ + sample - (IF full THEN ma.buffer[oldest_idx] ELSE 0),
                      !.count = IF full THEN @ ELSE @ + 1,
                      !.buffer[ma.index] = sample,
                      !.index = (@ + 1) % ma.window]
  /\ seen' = Append(seen, sample)
  /\ UNCHANGED <<cab, band, rate, book>>

cab_moving_average_reset ==
  /\ ma' = [ma EXCEPT !.buffer = [i \in DOMAIN @ |-> 0], !.index = 0, !.sum = 0, !.count = 0]
  /\ seen' = << >>
  /\ UNCHANGED <<cab, band, rate, book>>

cab_deadband_update(input) ==
  /\ LET diff   == input - band.last_output
         passes == IF band.rising THEN diff > DeadbandWidth + Hysteresis
                   ELSE diff < -DeadbandWidth
     IN  band' = IF passes
                 THEN [last_output |-> input, rising |-> ~band.rising] ELSE band
  /\ UNCHANGED <<cab, ma, seen, rate, book>>

(* The clock is that of the caller and may stand still. *)
cab_rate_limiter_update(target, now) ==
  /\ now \in rate.now .. MaxClock
  /\ LET dt     == now - rate.last_time
         change == target - rate.last_output
         limit  == IF change >= 0 THEN RiseRate * dt ELSE FallRate * dt
         size   == IF change >= 0 THEN change ELSE -change
         output == IF size <= limit THEN target
                   ELSE IF change >= 0 THEN rate.last_output + limit ELSE rate.last_output - limit
     IN  rate' = IF ~rate.initialized
                 THEN [last_output |-> target, last_time |-> now, now |-> now,
                       initialized |-> TRUE]
                 ELSE IF dt <= 0 THEN [rate EXCEPT !.now = now]
                 ELSE [rate EXCEPT !.last_output = output, !.last_time = now, !.now = now]
  /\ UNCHANGED <<cab, ma, seen, band, book>>

AverageNext ==
  \/ \E value \in CabValues : cab_moving_average_update(value)
  \/ cab_moving_average_reset

BandNext == \E value \in CabValues : cab_deadband_update(value)

RateNext == \E value \in CabValues, now \in 0 .. MaxClock : cab_rate_limiter_update(value, now)

(* Horner's scheme, of an input cut to the range of the polynomial. *)
cab_polynomial_eval(coeffs, range, x) ==
  LET cut == IF x < range[1] THEN range[1] ELSE IF x > range[2] THEN range[2] ELSE x
  IN  FoldRight(LAMBDA c, y : y * cut + c, coeffs, 0)

-----------------------------------------------------------------------------
(* The workbook.  A row: tag, range and alarm limits. *)

bulk_add_point(row) ==
  /\ Len(book.rows) < MaxRows
  /\ book' = [book EXCEPT !.rows = Append(@, row), !.touched = TRUE]
  /\ UNCHANGED <<cab, ma, seen, band, rate>>

HasError(rows, i) ==
  \/ rows[i].lo >= rows[i].hi
  \/ rows[i].alarm_lo < rows[i].lo \/ rows[i].alarm_lo > rows[i].hi
  \/ rows[i].alarm_hi < rows[i].lo \/ rows[i].alarm_hi > rows[i].hi
  \/ \E j \in 1 .. i - 1 : rows[j].tag = rows[i].tag

bulk_validate ==
  /\ book' = [book EXCEPT !.ready = \A i \in DOMAIN book.rows : ~HasError(book.rows, i),
                          !.touched = FALSE]
  /\ UNCHANGED <<cab, ma, seen, band, rate>>

(* A controller beyond the length of the list is forgotten. *)
bulk_assign_controller(i, c) ==
  /\ i \in DOMAIN book.rows
  /\ book' = [book EXCEPT !.rows[i].controller = c,
                          !.controllers = IF Cardinality(@) < MaxControllers
                                          THEN @ \cup {c} ELSE @]
  /\ UNCHANGED <<cab, ma, seen, band, rate>>

BulkNext ==
  \/ \E row \in WorkbookRows : bulk_add_point(row)
  \/ bulk_validate
  \/ \E i \in 1 .. MaxRows, c \in Controllers : bulk_assign_controller(i, c)

(* -1, 0 or 1 for versions <<major, minor, build>>. *)
cab_version_compare(a, b) ==
  LET differ == {i \in 1 .. 3 : a[i] # b[i]} IN
  IF differ = {} THEN 0 ELSE IF a[Min(differ)] < b[Min(differ)] THEN -1 ELSE 1

cab_version_increment(v) == [v EXCEPT ![3] = @ + 1]

-----------------------------------------------------------------------------
(* The running sum is the sum of the last samples, across the wrap of the *)
(* buffer and a reset. *)
AverageIsExact ==
  LET n == Len(seen) IN
  /\ ma.count = Min({n, ma.window})
  /\ ma.sum = FoldLeft(LAMBDA a, b : a + b, 0, SubSeq(seen, n - ma.count + 1, n))

(* A workbook that was not changed since it was found ready has proper *)
(* ranges, alarms inside them and no tag twice. *)
ReadyMeansSound ==
  book.ready /\ ~book.touched =>
    /\ Cardinality({book.rows[i].tag : i \in DOMAIN book.rows}) = Len(book.rows)
    /\ \A i \in DOMAIN book.rows :
         LET row == book.rows[i] IN
         row.lo < row.hi /\ {row.alarm_lo, row.alarm_hi} \subseteq row.lo .. row.hi

(* The output moves no faster than the rates allow, over the time between *)
(* two updates. *)
RateIsKept ==
  [][rate.initialized =>
       LET dt == rate'.last_time - rate.last_time IN
       rate'.last_output - rate.last_output \in -(FallRate * dt) .. RiseRate * dt]_cabVars

(* What passes the deadband is a change larger than the band, and changes *)
(* go up and down in turn.  (A comment, experion_cab_bulk.c:306-307, lets *)
(* every far input pass; the code waits for the other direction.) *)
BandAlternates ==
  [][band'.last_output # band.last_output =>
       /\ (band'.last_output > band.last_output) = band.rising
       /\ band'.last_output - band.last_output \notin -DeadbandWidth .. DeadbandWidth]_band
=============================================================================
