---------------------------- MODULE DeltaVControl ---------------------------
(***************************************************************************)
(* The control blocks of DeltaV (delta_v_control.c) and the checks of its *)
(* messages (delta_v_communication.c). *)
(* *)
(* A scan takes one unit of time.  The PID keeps its integral in units of *)
(* the output, gain * integral / reset, so that all its terms are integers.*)
(***************************************************************************)
EXTENDS Integers, Sequences, FiniteSets, FiniteSetsExt, SequencesExt

CONSTANTS Form,                          \* of the PID: "SERIES", "STANDARD" or "PARALLEL"
          DvGain, DvGainOverReset, DvGainTimesRate,
          DvOutLo, DvOutHi, DvOutChange, \* limits of the output and of its change
          DvPvs, DvSps, DvFeeds, Manuals, MaxIntegral,
          DvSteps, DvTimes,              \* the sequence, and what an execution takes
          VoteInputs, DeviationLimit

ASSUME DeltaVControlAssumption ==
  /\ Form \in {"SERIES", "STANDARD", "PARALLEL"}
  /\ {DvGain, DvGainOverReset, DvGainTimesRate, DvOutLo, DvOutHi, DvOutChange, MaxIntegral,
      DeviationLimit} \subseteq Nat
  /\ DvGain > 0 /\ DvOutChange > 0 /\ DvOutLo < DvOutHi
  /\ DvPvs \union DvSps \union DvFeeds \union Manuals \union VoteInputs \subseteq Int
  /\ DvTimes \subseteq Nat
  /\ DvSteps \in Seq([type : {"SET", "WAIT", "IF"}, param : Nat, next : Nat])

VARIABLES dvPid,      \* delta_v_pid_block_t, and whether it was transferred since the last scan
          dvSeq,      \* delta_v_sequence_block_t, and how long the step left last was executed
          dvVote      \* delta_v_2oo3_voting_t; the output in sixths

dvControlVars == <<dvPid, dvSeq, dvVote>>

Modes == {"MAN", "AUT", "CAS"}

-----------------------------------------------------------------------------
(* The PID.  pid->action is never read: a block is always direct. *)
pid_init == [mode |-> "MAN", out |-> 0, integral |-> 0, last_error |-> 0, last_pv |-> 0,
             pv |-> 0, sp |-> 0, saturated |-> FALSE, transferred |-> FALSE]

Error(p) == p.sp - p.pv

bumpless_transfer(p) ==
  [p EXCEPT !.integral = p.out - DvGain * Error(p),
            !.last_error = Error(p), !.last_pv = p.pv, !.transferred = TRUE]

set_mode(p, mode) ==
  LET q == IF (p.mode = "MAN" /\ mode = "AUT") \/ (p.mode = "AUT" /\ mode = "CAS")
           THEN bumpless_transfer(p) ELSE [p EXCEPT !.transferred = FALSE]
  IN [q EXCEPT !.mode = mode]

Clamped(x) == IF x > DvOutHi THEN DvOutHi ELSE IF x < DvOutLo THEN DvOutLo ELSE x

Limited(x, was) ==
  IF x - was > DvOutChange THEN was + DvOutChange
  ELSE IF was - x > DvOutChange THEN was - DvOutChange ELSE x

(* delta_v_pid_block_calculate, in every mode but MAN. *)
Unlimited(p, feed) ==
  DvGain * Error(p) + p.integral + DvGainOverReset * Error(p) + feed
  + DvGainTimesRate * (IF Form = "SERIES" THEN p.last_pv - p.pv ELSE Error(p) - p.last_error)

calculate(p, feed) ==
  LET out == Limited(Unlimited(p, feed), p.out)
  IN [p EXCEPT !.out = Clamped(out), !.integral = @ + DvGainOverReset * Error(p),
               !.saturated = Clamped(out) # out,
               !.last_error = Error(p), !.last_pv = p.pv, !.transferred = FALSE]

(* Called between a transfer and its first scan it costs the bumplessness. *)
anti_windup(p) ==
  IF p.out >= DvOutHi \/ p.out <= DvOutLo
  THEN [p EXCEPT !.integral = Max({0, @}), !.transferred = FALSE] ELSE p

SetMode    == \E mode \in Modes \ {dvPid.mode} : dvPid' = set_mode(dvPid, mode)
Calculate  == /\ dvPid.mode # "MAN"
              /\ \E feed \in DvFeeds : dvPid' = calculate(dvPid, feed)
              /\ dvPid'.integral \in -MaxIntegral .. MaxIntegral
AntiWindup == dvPid' = anti_windup(dvPid)
SetLimits  == dvPid' = [dvPid EXCEPT !.out = Clamped(@)]
ByHand     == dvPid.mode = "MAN" /\ \E out \in Manuals : dvPid' = [dvPid EXCEPT !.out = out]
DvMeasured   == \E pv \in DvPvs, sp \in DvSps :
                dvPid' = [dvPid EXCEPT !.pv = pv, !.sp = sp, !.transferred = FALSE]

DvPidNext == SetMode \/ Calculate \/ AntiWindup \/ SetLimits \/ ByHand \/ DvMeasured

check_alarm(p, high, low, deviation) ==
  p.pv > high \/ p.pv < low \/ Max({Error(p), -Error(p)}) > deviation

-----------------------------------------------------------------------------
(* The sequence.  A step of type IF waits until its condition holds: the *)
(* branch for a false one is never taken. *)
Start == /\ dvSeq' = [dvSeq EXCEPT !.running = TRUE, !.step = 0, !.time = 0, !.since = 0]

Hold   == dvSeq.running /\ dvSeq' = [dvSeq EXCEPT !.held = TRUE]
Resume == dvSeq.held /\ dvSeq' = [dvSeq EXCEPT !.held = FALSE]

MayLeave(step, time, condition) ==
  CASE step.type = "WAIT" -> time >= step.param
    [] step.type = "IF"   -> condition
    [] OTHER              -> TRUE

Advanced(s, dt) ==
  [s EXCEPT !.step = DvSteps[s.step + 1].next, !.time = 0, !.since = 0,
            !.left = [step |-> s.step, time |-> s.since + dt]]

(* delta_v_sequence_execute.  Starting again does not clear completed, so *)
(* that a completed sequence never executes another step. *)
Execute ==
  /\ dvSeq.running /\ ~dvSeq.held /\ ~dvSeq.completed
  /\ IF dvSeq.step >= Len(DvSteps)
     THEN dvSeq' = [dvSeq EXCEPT !.completed = TRUE, !.running = FALSE]
     ELSE \E dt \in DvTimes, condition \in BOOLEAN :
            LET step == DvSteps[dvSeq.step + 1]
            IN dvSeq' = IF MayLeave(step, dvSeq.time + dt, condition) THEN Advanced(dvSeq, dt)
                        ELSE [dvSeq EXCEPT !.time = Min({@ + dt, step.param}),
                                           !.since = Min({@ + dt, step.param})]

DvSequenceNext == Start \/ Hold \/ Resume \/ Execute

-----------------------------------------------------------------------------
(* Two out of three: what two inputs within the deviation limit agree on. *)
(* The alarm of a disagreement is never cleared. *)
Near(x, y) == x - y \in -DeviationLimit .. DeviationLimit

Voted(v, in) ==
  LET valid == {i \in 1 .. 3 : in[i].valid}
      sum(s) == MapThenSumSet(LAMBDA i : in[i].value, s)
      agree(s) == \A i, j \in s : Near(in[i].value, in[j].value)
  IN IF Cardinality(valid) < 2 THEN [v EXCEPT !.valid = FALSE]
     ELSE IF Cardinality(valid) = 2 THEN [v EXCEPT !.output = 3 * sum(valid), !.valid = agree(valid)]
     ELSE IF agree(valid) THEN [v EXCEPT !.output = 2 * sum(valid), !.valid = TRUE]
     ELSE IF agree({1, 2}) THEN [v EXCEPT !.output = 3 * sum({1, 2}), !.valid = TRUE]
     ELSE IF agree({1, 3}) THEN [v EXCEPT !.output = 3 * sum({1, 3}), !.valid = TRUE]
     ELSE IF agree({2, 3}) THEN [v EXCEPT !.output = 3 * sum({2, 3}), !.valid = TRUE]
     ELSE [v EXCEPT !.valid = FALSE, !.alarm = TRUE]

(* One transmitter changes from a vote to the next. *)
DvVoteNext ==
  \E i \in 1 .. 3, x \in [value : VoteInputs, valid : BOOLEAN] :
    LET in == [dvVote.inputs EXCEPT ![i] = x]
    IN dvVote' = [Voted(dvVote, in) EXCEPT !.inputs = in]

-----------------------------------------------------------------------------
(* Blocks without a memory.  Percentages are rounded down. *)
split_range(mode, point, input) ==
  IF mode = "SEQUENTIAL"
  THEN IF input <= point THEN <<(100 * input) \div point, 0>>
       ELSE <<100, (100 * (input - point)) \div (100 - point)>>
  ELSE << Min({100, Max({0, (100 * input) \div point})}),
          Min({100, Max({0, (100 * (input - point)) \div (100 - point)})}) >>

ratio(gain, bias, wild, low, high) ==
  LET r == gain * wild + bias IN IF r > high THEN high ELSE IF r < low THEN low ELSE r

(* Points are pairs <<x, y>>; the first interval that holds x is used. *)
interpolate(points, x) ==
  LET n == Len(points)
      hit == {i \in 1 .. n - 1 : points[i][1] <= x /\ x <= points[i + 1][1]}
  IN IF n < 2 THEN x
     ELSE IF x <= points[1][1] THEN points[1][2]
     ELSE IF x >= points[n][1] THEN points[n][2]
     ELSE IF hit = {} THEN x
     ELSE LET i == Min(hit)
              d == points[i + 1][1] - points[i][1]
          IN IF d = 0 THEN points[i][2]
             ELSE points[i][2] + ((points[i + 1][2] - points[i][2]) * (x - points[i][1])) \div d
monotonic(points) == \A i \in 1 .. Len(points) - 1 : points[i][1] < points[i + 1][1]

(* The model predictive controller looks at the step response at the low *)
(* limits; model is a function <<cv, mv>> -> gain of the step looked at. *)
CvError(m, cv) == m.setpoint[cv] - MapThenSumSet(LAMBDA mv : m.model[cv, mv] * m.low[mv], DOMAIN m.low)
mpc_objective(m) ==
  MapThenSumSet(LAMBDA cv : m.weight[cv] * CvError(m, cv) * CvError(m, cv), DOMAIN m.setpoint)
mpc_solve(m) == DOMAIN m.low # {} /\ DOMAIN m.setpoint # {} /\ mpc_objective(m) < 1000

(* A move is a fraction <<numerator, denominator>>. *)
mpc_move(m, mv, rate) ==
  LET num == MapThenSumSet(LAMBDA cv : m.weight[cv] * CvError(m, cv), DOMAIN m.setpoint)
      den == m.suppression
             + MapThenSumSet(LAMBDA cv : m.weight[cv] * m.model[cv, mv] * m.model[cv, mv], DOMAIN m.setpoint)
  IN IF den = 0 THEN <<0, 1>>
     ELSE IF num > rate * den THEN <<rate, 1>>
     ELSE IF -num > rate * den THEN <<-rate, 1>> ELSE <<num, den>>

(* A control horizon as long as the prediction becomes 10, whatever that is*)
mpc_horizons(pred, ctrl) ==
  <<IF pred > 0 THEN pred ELSE 60, IF ctrl > 0 /\ ctrl < pred THEN ctrl ELSE 10>>

interlock_evaluate(il, condition) ==
  IF ~il.enabled THEN il ELSE [il EXCEPT !.tripped = condition, !.output = ~condition]
calc_divide(a, b, bias) == IF b = 0 THEN 0 ELSE a \div b + bias

-----------------------------------------------------------------------------
(* Messages.  A checksum is the set of its bits, a message their sequence, *)
(* least significant first for the reflected ones. *)
ShiftRight(crc, polynomial) ==
  LET down == {b - 1 : b \in crc \ {0}} IN IF 0 \in crc THEN SymDiff(down, polynomial) ELSE down
ShiftLeft16(crc, polynomial) ==
  LET up == {b + 1 : b \in crc \ {15}} IN IF 15 \in crc THEN SymDiff(up, polynomial) ELSE up

CrcFrom(start, message, width, reflected, polynomial) ==
  LET entry == IF reflected THEN 0 ELSE width - 1
      crc[n \in 0 .. Len(message)] ==
        IF n = 0 THEN start
        ELSE LET was == crc[n - 1]
                 with == IF message[n] = 1 THEN SymDiff(was, {entry}) ELSE was
             IN IF reflected THEN ShiftRight(with, polynomial) ELSE ShiftLeft16(with, polynomial)
  IN crc[Len(message)]

(* All three start from ones; acn_crc32 inverts the result. *)
Crc32From(start, m)  == CrcFrom(start, m, 32, TRUE,     \* 0xEDB88320
                                {5, 8, 9, 15, 19, 20, 21, 23, 24, 26, 27, 29, 30, 31})
ModbusFrom(start, m) == CrcFrom(start, m, 16, TRUE, {0, 13, 15})   \* 0xA001
CcittFrom(start, m)  == CrcFrom(start, m, 16, FALSE, {0, 5, 12})   \* 0x1021

acn_crc32(m)    == (0 .. 31) \ Crc32From(0 .. 31, m)
modbus_crc16(m) == ModbusFrom(0 .. 15, m)
crc16_ccitt(m)  == CcittFrom(0 .. 15, m)

packet_validate(source, dest, length, max) == source # 0 /\ dest # 0 /\ length <= max
opc_tag_read(active, quality) == active /\ quality \notin {"BAD", "BAD_COMM_FAIL", "BAD_OUT_OF_SVC"}
build_request(start, quantity) == <<start \div 256, start % 256, quantity \div 256, quantity % 256>>
parse_response(error, length) == [ok |-> ~error, length |-> Min({length, 252})]
poll_success_rate(ok, failed) == IF ok + failed = 0 THEN 0 ELSE (100 * ok) \div (ok + failed)
diagnose_device(active, ok, failed, timeouts) ==
  active /\ 100 * ok > 95 * (ok + failed) /\ timeouts < 100
eip_diagnose(connected, packets, timeouts) == connected /\ (packets = 0 \/ 100 * timeouts < packets)
macrocycle(devices) ==
  LET sum == MapThenSumSet(LAMBDA i : IF devices[i].active THEN devices[i].time ELSE 0, DOMAIN devices)
  IN sum + (sum * 20) \div 100

-----------------------------------------------------------------------------
DvControlInit ==
  /\ dvPid = pid_init
  /\ dvSeq = [step |-> 0, time |-> 0, since |-> 0, running |-> FALSE, held |-> FALSE,
              completed |-> FALSE, left |-> [step |-> -1, time |-> 0]]
  /\ dvVote = [output |-> 0, valid |-> FALSE, alarm |-> FALSE,
               inputs |-> [i \in 1 .. 3 |-> [value |-> 0, valid |-> FALSE]]]

DvControlTypeOK ==
  /\ dvPid \in [mode : Modes, out : Int, integral : Int, last_error : Int, last_pv : Int,
                pv : Int, sp : Int, saturated : BOOLEAN, transferred : BOOLEAN]
  /\ dvSeq \in [step : Nat, time : Nat, since : Nat, running : BOOLEAN, held : BOOLEAN,
                completed : BOOLEAN, left : [step : Int, time : Nat]]
  /\ dvVote \in [output : Int, valid : BOOLEAN, alarm : BOOLEAN,
                 inputs : [1 .. 3 -> [value : VoteInputs \union {0}, valid : BOOLEAN]]]

(* The first scan after a transfer, with the measurement it saw, moves the *)
(* output by one integral step (and the feedforward) at most, from where *)
(* the limits allow; no scan moves it further than the limit of change. *)
(* (What was entered by hand may lie outside the limits until then.) *)
TransferIsBumpless ==
  [][LET change == dvPid'.out - Clamped(dvPid.out)
         e == DvGainOverReset * Error(dvPid)
     IN dvPid.mode # "MAN" /\ dvPid'.mode = dvPid.mode /\ dvPid'.out # dvPid.out =>
          /\ change \in -DvOutChange .. DvOutChange
          /\ dvPid.transferred /\ ~dvPid'.transferred /\ dvPid'.pv = dvPid.pv /\ dvPid'.sp = dvPid.sp =>
               \E feed \in DvFeeds \union {0} :
                 change \in -Max({e + feed, -e - feed}) .. Max({e + feed, -e - feed})]_dvPid

(* A step that waits is executed for its time before it is left, whatever *)
(* was held, resumed and started again; and a vote that counts lies *)
(* between two valid inputs that are near each other. *)
WaitsAndVotes ==
  /\ dvSeq.left.step \in 0 .. Len(DvSteps) - 1 =>
       LET step == DvSteps[dvSeq.left.step + 1]
       IN step.type = "WAIT" => dvSeq.left.time >= step.param
  /\ dvVote.valid =>
       \E i, j \in 1 .. 3 :
         LET x == dvVote.inputs[i]
             y == dvVote.inputs[j]
         IN /\ i # j /\ x.valid /\ y.valid /\ Near(x.value, y.value)
            /\ 6 * x.value <= dvVote.output /\ dvVote.output <= 6 * y.value
=============================================================================
