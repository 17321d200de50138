---------------------------- MODULE CentumControl ---------------------------
(***************************************************************************)
(* The function blocks of a CENTUM VP control station *)
(* (centum_vp_control.c): the PID block, the sequence block, the LC64 *)
(* logic block, and the signal selector, split range and ratio. *)
(* *)
(* Values are integers, quotients are rounded down; the tuning constants *)
(* are integers such that kp / ti and kp * td are integers too. *)
(***************************************************************************)
EXTENDS Integers, Sequences, FiniteSets, FiniteSetsExt, SequencesExt

CONSTANTS Kp, KpOverTi, KpTd,    \* kp, kp / ti and kp * td; 0: term disabled
          MvLow, MvHigh, MvChange,  \* limits of MV and of its change
          PvSet, SvSet,          \* process values and setpoints that occur
          MaxSum,                \* bound on |integral|
          SequenceSteps,         \* condition_count of each step
          Elements,              \* LC64 elements: <<type, input1, input2>>
          LogicInputs            \* bits of the input mask that are wired

ASSUME CentumControlAssumption ==
  /\ {Kp, KpOverTi, KpTd, MvChange} \subseteq Nat /\ PvSet \union SvSet \subseteq Int
  /\ MvLow \in Int /\ MvHigh \in Int /\ MvLow <= MvHigh
  /\ SequenceSteps \in Seq(Nat)
  /\ Elements \in Seq({"AND", "OR", "NOT", "XOR", "SR", "RS", "TON"} \X LogicInputs \X LogicInputs)

VARIABLES cpid,    \* centum_pid_block_t
          cseq,    \* centum_sequence_block_t
          lc64,    \* centum_lc64_block_t
          signal   \* the inputs of the stateless blocks

centumControlVars == <<cpid, cseq, lc64, signal>>

PidMode == {"MAN", "AUT", "CAS", "PRCAS", "IMAN", "ROUT", "RCAS"}
CPid ==
  [mode : PidMode, velocity : BOOLEAN, direct : BOOLEAN, sv : Int, pv : Int, mv : Int,
   integral : Int, lastError : Int, lastPv : Int, tracking : Int, windup : BOOLEAN]
SeqState == {"IDLE", "RUNNING", "HOLDING", "ABORTING", "ABORTED", "STOPPED", "COMPLETED"}
CSeq == [state : SeqState, step : Nat, hold : BOOLEAN, abort : BOOLEAN]
Lc64 == [states : [DOMAIN Elements -> BOOLEAN], mask : SUBSET DOMAIN Elements,
         inputs : SUBSET LogicInputs]

Within(x, lo, hi) == IF x > hi THEN hi ELSE IF x < lo THEN lo ELSE x
Size(x) == IF x < 0 THEN -x ELSE x

-----------------------------------------------------------------------------
(* centum_pid_block_execute. *)
Error(b, pv) == IF b.direct THEN pv - b.sv ELSE b.sv - pv

VelocityChange(b, pv, dt) ==
  LET e == Error(b, pv)
  IN Kp * (e - b.lastError) + KpOverTi * dt * e + (KpTd * (b.lastPv - pv)) \div dt

PositionalSum(b, pv, dt) ==
  IF KpOverTi > 0 THEN b.integral + Error(b, pv) * dt ELSE b.integral

PositionalChange(b, pv, dt) ==
  LET e == Error(b, pv)
  IN Kp * e + KpOverTi * PositionalSum(b, pv, dt)
       + (KpTd * (e - b.lastError)) \div dt - b.mv

(* Mutant: the limit is doubled when the valve opens. *)
LimitedOneWay(change, dt) == Within(change, -(MvChange * dt), 2 * MvChange * dt)
Limited(change, dt) ==
  IF MvChange > 0 THEN Within(change, -(MvChange * dt), MvChange * dt) ELSE change

anti_windup_clamp(b) ==
  [b EXCEPT !.mv = Within(@, MvLow, MvHigh), !.windup = ~(b.mv \in MvLow .. MvHigh)]

Executed(b, pv, dt) ==
  IF b.mode = "MAN"
  THEN [b EXCEPT !.pv = pv, !.mv = b.tracking, !.integral = 0, !.lastError = 0, !.lastPv = pv]
  ELSE LET change == IF b.velocity THEN VelocityChange(b, pv, dt) ELSE PositionalChange(b, pv, dt)
           sum == IF b.velocity THEN b.integral + KpOverTi * dt * Error(b, pv)
                  ELSE PositionalSum(b, pv, dt)
       IN anti_windup_clamp([b EXCEPT !.pv = pv, !.mv = @ + Limited(change, dt),
                                      !.integral = sum, !.lastError = Error(b, pv),
                                      !.lastPv = pv])

pid_block_execute ==
  /\ \E pv \in PvSet, dt \in 1 .. 2 :
       /\ cpid' = Executed(cpid, pv, dt)
       /\ Size(cpid'.integral) <= MaxSum
  /\ UNCHANGED <<cseq, lc64, signal>>

set_mode(b, mode) ==
  [b EXCEPT !.mode = mode,
            !.integral = IF mode = "AUT" /\ b.mode = "MAN" THEN b.mv - Kp * (b.sv - b.pv) ELSE @]

bumpless_transfer(b, mv) == [b EXCEPT !.tracking = mv, !.mv = mv, !.integral = 0]

(* The operator; a manual value is given in manual mode. *)
pid_operate ==
  /\ \/ \E mode \in {"MAN", "AUT", "CAS"} : cpid' = set_mode(cpid, mode)
     \/ \E sv \in SvSet : cpid' = [cpid EXCEPT !.sv = sv]
     \/ /\ cpid.mode = "MAN"
        /\ \E mv \in {MvLow, MvHigh + 1} : cpid' = bumpless_transfer(cpid, mv)
  /\ Size(cpid'.integral) <= MaxSum
  /\ UNCHANGED <<cseq, lc64, signal>>

(* The alarms of a block that has just executed, for limits of 1 on the *)
(* deviation and on the velocity: last_pv is pv by then. *)
handle_alarms(b) ==
  (IF b.pv - b.sv > 1 THEN {"DV_HI"} ELSE {}) \union (IF b.pv - b.sv < -1 THEN {"DV_LO"} ELSE {})
    \union (IF Size(b.pv - b.lastPv) > 1 THEN {"VEL"} ELSE {})
    \union (IF b.mv >= MvHigh THEN {"MH"} ELSE {}) \union (IF b.mv <= MvLow THEN {"ML"} ELSE {})

PidBlockInit ==
  \E velocity, direct \in BOOLEAN :
    cpid = [mode |-> "MAN", velocity |-> velocity, direct |-> direct, sv |-> 0, pv |-> 0,
            mv |-> 0, integral |-> 0, lastError |-> 0, lastPv |-> 0, tracking |-> 0,
            windup |-> FALSE]

-----------------------------------------------------------------------------
(* The sequence block.  A step without conditions passes at once. *)
SequenceInit == cseq = [state |-> "IDLE", step |-> 0, hold |-> FALSE, abort |-> FALSE]

Stepped(s, holds) ==
  IF s.step >= Len(SequenceSteps) THEN [s EXCEPT !.state = "COMPLETED"]
  ELSE IF s.abort THEN [s EXCEPT !.state = "ABORTING"]
  ELSE IF s.hold THEN [s EXCEPT !.state = "HOLDING"]
  ELSE IF ~holds THEN s
  ELSE [s EXCEPT !.step = @ + 1,
                 !.state = IF s.step + 1 >= Len(SequenceSteps) THEN "COMPLETED" ELSE @]

sequence_execute ==
  /\ cseq.state = "RUNNING"
  /\ \E conditions \in [1 .. (IF cseq.step < Len(SequenceSteps)
                              THEN SequenceSteps[cseq.step + 1] ELSE 0) -> BOOLEAN] :
       cseq' = Stepped(cseq, \A i \in DOMAIN conditions : conditions[i])
  /\ UNCHANGED <<cpid, lc64, signal>>

sequence_hold ==
  /\ cseq.state = "RUNNING"
  /\ cseq' = [cseq EXCEPT !.hold = TRUE]
  /\ UNCHANGED <<cpid, lc64, signal>>

sequence_abort ==
  /\ cseq' = [cseq EXCEPT !.abort = TRUE, !.state = "ABORTED"]
  /\ UNCHANGED <<cpid, lc64, signal>>

sequence_reset ==
  /\ cseq' = [state |-> "IDLE", step |-> 0, hold |-> FALSE, abort |-> FALSE]
  /\ UNCHANGED <<cpid, lc64, signal>>

(* The application starts the block, or starts it again, by its state. *)
sequence_run ==
  /\ cseq' = [cseq EXCEPT !.state = "RUNNING"]
  /\ UNCHANGED <<cpid, lc64, signal>>

-----------------------------------------------------------------------------
(* centum_lc64_execute: every element reads the inputs, none the outputs, *)
(* since an input number of 64 or more is refused when it is added. *)
LogicInit ==
  lc64 = [states |-> [i \in DOMAIN Elements |-> FALSE], mask |-> {}, inputs |-> {}]

Element(type, v1, v2, old) ==
  CASE type = "AND" -> v1 /\ v2
    [] type = "OR"  -> v1 \/ v2
    [] type = "NOT" -> ~v1
    [] type = "XOR" -> v1 # v2
    [] type = "SR"  -> v1 \/ (old /\ ~v2)
    [] type = "RS"  -> ~v1 /\ (v2 \/ old)
    [] OTHER -> FALSE

lc64_execute ==
  /\ \E inputs \in SUBSET LogicInputs :
       LET states == [i \in DOMAIN Elements |->
                        Element(Elements[i][1], Elements[i][2] \in inputs,
                                Elements[i][3] \in inputs, lc64.states[i])]
       IN lc64' = [states |-> states, inputs |-> inputs,
                   mask |-> {i \in DOMAIN Elements : states[i]}]
  /\ UNCHANGED <<cpid, cseq, signal>>

-----------------------------------------------------------------------------
(* centum_selector_block_evaluate: the exchange sort of select_mid. *)
Exchanged(v, pair) ==
  IF v[pair[1]] > v[pair[2]]
  THEN [v EXCEPT ![pair[1]] = v[pair[2]], ![pair[2]] = v[pair[1]]] ELSE v

PairsInOrder == << <<1, 2>>, <<1, 3>>, <<1, 4>>, <<2, 3>>, <<2, 4>>, <<3, 4>> >>
Exchanges(v) ==
  LET after[n \in 0 .. Len(PairsInOrder)] ==
        IF n = 0 THEN v ELSE Exchanged(after[n - 1], PairsInOrder[n])
  IN after[Len(PairsInOrder)]

selector(v, kind) ==
  CASE kind = "high" -> Max(ToSet(v))
    [] kind = "low" -> Min(ToSet(v))
    [] kind = "mid" -> Exchanges(v)[2]
    [] kind = "avg" -> (v[1] + v[2] + v[3] + v[4]) \div 4
    [] OTHER -> v[1]

(* centum_split_range_calculate for two valves of 0 .. 100 and a split. *)
Percent(n, d) == Within((100 * n) \div d, 0, 100)
split_range(input, split, locked) ==
  LET outs == IF input <= split THEN <<Percent(input, split), 0>>
              ELSE <<100, Percent(input - split, 100 - split)>>
  IN [i \in 1 .. 2 |-> IF i \in locked THEN 0 ELSE outs[i]]

ratio_block(flow, ratio, bias) == IF flow * ratio + bias < 0 THEN 0 ELSE flow * ratio + bias

SignalInit == signal = [inputs |-> [i \in 1 .. 4 |-> 0], from |-> 0, to |-> 0, locked |-> {}]
SignalsChange ==
  /\ signal' \in [inputs : [1 .. 4 -> 0 .. 3], from : {0}, to : {0}, locked : {{}}]
        \union [inputs : {[i \in 1 .. 4 |-> 0]}, from : {-10, 0, 20, 39, 40, 41, 70, 100},
                to : {0, 21, 40, 90, 110}, locked : SUBSET {1, 2}]
  /\ UNCHANGED <<cpid, cseq, lc64>>

-----------------------------------------------------------------------------
PidBlockNext == pid_block_execute \/ pid_operate
BlocksNext ==
  \/ sequence_execute \/ sequence_hold \/ sequence_abort \/ sequence_reset \/ sequence_run
  \/ lc64_execute
CentumControlInit == PidBlockInit /\ SequenceInit /\ LogicInit /\ SignalInit

(* The blocks are well formed. *)
CentumControlTypeOK ==
  /\ cpid \in CPid /\ cseq \in CSeq /\ lc64 \in Lc64
  /\ handle_alarms(cpid) \subseteq {"DV_HI", "DV_LO", "VEL", "MH", "ML"}
  /\ lc64.mask = {i \in DOMAIN Elements : lc64.states[i]}

(* In any mode but manual an execution leaves the output within its limits *)
(* and moves it at most by the configured change per second, whatever the *)
(* error, the integral left from another mode or the reversal of action. *)
(* Only an output that a manual value took out of the limits jumps back. *)
ValveMovesSlowly ==
  [][(cpid.mode # "MAN" /\ cpid'.mode # "MAN" /\ cpid'.mv # cpid.mv
      /\ cpid'.tracking = cpid.tracking)
     => /\ cpid'.mv \in MvLow .. MvHigh
        /\ cpid.mv \in MvLow .. MvHigh /\ MvChange > 0
             => Size(cpid'.mv - cpid.mv) <= 2 * MvChange]_centumControlVars

(* A sequence that was told to hold or to abort takes no further step until*)
(* it is reset, even if the application sets it running again. *)
RequestsStick ==
  [][(cseq.hold \/ cseq.abort) => cseq'.step \in {cseq.step, 0}]_centumControlVars

(* Reference for the stateless blocks: the middle of four signals has two *)
(* signals on either side, counting itself; the split range opens the *)
(* second valve only when the first is fully open, and neither closes when *)
(* the input rises. *)
BlocksAgree ==
  /\ LET v == signal.inputs
         m == selector(v, "mid")
     IN /\ Cardinality({i \in 1 .. 4 : v[i] <= m}) >= 2
        /\ Cardinality({i \in 1 .. 4 : v[i] >= m}) >= 3
        /\ \A i \in 1 .. 4 : selector(v, "low") <= v[i] /\ v[i] <= selector(v, "high")
        /\ selector(v, "avg") \in selector(v, "low") .. selector(v, "high")
  /\ LET a == split_range(signal.from, 40, signal.locked)
         b == split_range(signal.to, 40, signal.locked)
     IN /\ b[2] > 0 /\ 1 \notin signal.locked => b[1] = 100
        /\ signal.from <= signal.to => \A i \in 1 .. 2 : a[i] <= b[i]
=============================================================================
