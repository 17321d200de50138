---------------------------- MODULE CentumBatch -----------------------------
(***************************************************************************)
(* The batch manager of mini-yokogawa-centum-vp (centum_vp_batch.c): one *)
(* active batch that a scan drives through procedures, unit procedures, *)
(* operations and phases, while an operator commands it and acknowledges *)
(* phases.  The four tables are filled before the first batch; their *)
(* entries refer to one another by index and may dangle. *)
(* *)
(* Indices start at 1.  Left out: names, formula and parameters, time *)
(* stamps, reports, and the states of procedures, unit procedures and *)
(* operations, which no code assigns. *)
(***************************************************************************)
EXTENDS Integers, Sequences, FiniteSets

CONSTANTS
  Procedures,   \* unit_proc_indices of each procedure
  UnitProcs,    \* operation_indices of each unit procedure
  Operations,   \* phase_indices of each operation
  Phases,       \* max_duration_sec and requires_acknowledgment of each phase
  ScanTimes,    \* whole seconds of the dt_sec the scan may pass
  MaxBatches    \* bound: batches started

Index == Nat \ {0}

ASSUME TablesAssumption ==
  /\ \A t \in {Procedures, UnitProcs, Operations} : t \in Seq(Seq(Index))
  /\ Phases \in Seq([max_duration_sec : Nat, requires_acknowledgment : BOOLEAN])
  /\ ScanTimes \subseteq Nat /\ MaxBatches \in Nat

BatchState ==
  {"IDLE", "RUNNING", "HOLDING", "HELD", "RESTARTING", "STOPPING", "STOPPED",
   "ABORTED", "COMPLETE"}

VARIABLES
  state,    \* active_batch.state
  pending,  \* active_batch.pending_command; memset makes it START
  cursor,   \* the four active indices
  done,     \* progress_percent, as the number of phases counted complete
  phase,    \* elapsed_sec, completion and acknowledgement of each phase
  passed,   \* (model) places where this batch has completed a phase
  batches   \* (model) batches started

vars == <<state, pending, cursor, done, phase, passed, batches>>

Place == [procedure : Index, unit_proc : Index, operation : Index, phase : Index]

FirstPlace == [procedure |-> 1, unit_proc |-> 1, operation |-> 1, phase |-> 1]

BatchTypeOK ==
  /\ state \in BatchState
  /\ pending \in {"START", "HOLD", "STOP", "ABORT", "RESTART"}
  /\ cursor \in Place
  /\ done \in 0 .. Len(Phases)
  /\ phase \in [DOMAIN Phases -> [elapsed_sec : Nat, complete : BOOLEAN,
                                  acknowledged : BOOLEAN]]
  /\ passed \subseteq Place
  /\ batches \in 0 .. MaxBatches

Init ==
  /\ state = "IDLE" /\ pending = "START"
  /\ cursor = FirstPlace /\ done = 0
  /\ phase = [i \in DOMAIN Phases |->
                [elapsed_sec |-> 0, complete |-> FALSE, acknowledged |-> FALSE]]
  /\ passed = {} /\ batches = 0

-----------------------------------------------------------------------------
(* centum_batch_start clears the batch and none of the phases, and does *)
(* not ask whether a batch is active. *)
Start ==
  /\ batches < MaxBatches
  /\ state' = "RUNNING" /\ pending' = "START"
  /\ cursor' = FirstPlace /\ done' = 0
  /\ passed' = {} /\ batches' = batches + 1
  /\ UNCHANGED phase

CommandFrom ==
  [HOLD    |-> {"RUNNING", "RESTARTING"},
   STOP    |-> {"RUNNING", "HELD"},
   ABORT   |-> BatchState \ {"IDLE", "COMPLETE"},
   RESTART |-> {"HELD"}]

CommandTo ==
  [HOLD |-> "HOLDING", STOP |-> "STOPPING", ABORT |-> "ABORTED",
   RESTART |-> "RESTARTING"]

Command(cmd) ==
  /\ state \in CommandFrom[cmd]
  /\ state' = CommandTo[cmd] /\ pending' = cmd
  /\ UNCHANGED <<cursor, done, phase, passed, batches>>

Reset ==
  /\ state \in {"COMPLETE", "ABORTED", "STOPPED"}
  /\ state' = "IDLE" /\ done' = 0
  /\ UNCHANGED <<pending, cursor, phase, passed, batches>>

(* The station sets the acknowledged flag of a phase that waits for it. *)
Acknowledge(i) ==
  /\ Phases[i].requires_acknowledgment
  /\ state = "RUNNING"
  /\ phase' = [phase EXCEPT ![i].acknowledged = TRUE]
  /\ UNCHANGED <<state, pending, cursor, done, passed, batches>>

-----------------------------------------------------------------------------
(* centum_batch_execute. *)

next_procedure(c) == [FirstPlace EXCEPT !.procedure = c.procedure + 1]

next_unit_proc(c) ==
  [c EXCEPT !.unit_proc = @ + 1, !.operation = 1, !.phase = 1]

(* Mutant: a finished operation keeps the phase index. *)
next_operation_keeping(c) == [c EXCEPT !.operation = @ + 1]

next_operation(c) == [c EXCEPT !.operation = @ + 1, !.phase = 1]

(* Where one scan moves the indices when they do not name a phase: at the *)
(* end of a list to the next entry above, past an index that dangles.  A *)
(* place that names a phase is left where it is. *)
moved(c) ==
  LET ups == Procedures[c.procedure]
      ops == UnitProcs[ups[c.unit_proc]]
      phs == Operations[ops[c.operation]]
  IN  IF c.unit_proc > Len(ups)                   THEN next_procedure(c)
      ELSE IF ups[c.unit_proc] > Len(UnitProcs)   THEN [c EXCEPT !.unit_proc = @ + 1]
      ELSE IF c.operation > Len(ops)              THEN next_unit_proc(c)
      ELSE IF ops[c.operation] > Len(Operations)  THEN [c EXCEPT !.operation = @ + 1]
      ELSE IF c.phase > Len(phs)                  THEN next_operation(c)
      ELSE IF phs[c.phase] > Len(Phases)          THEN [c EXCEPT !.phase = @ + 1]
      ELSE c

phase_at(c) ==
  Operations[UnitProcs[Procedures[c.procedure][c.unit_proc]][c.operation]][c.phase]

Least(m, n) == IF m < n THEN m ELSE n

(* Mutant: a phase is not held up for its acknowledgement. *)
completes_unacknowledged(i, elapsed) ==
  Phases[i].max_duration_sec > 0 /\ elapsed >= Phases[i].max_duration_sec

(* Mutant: the duration must be passed, not reached. *)
completes_late(i, elapsed) ==
  /\ Phases[i].max_duration_sec > 0 /\ elapsed > Phases[i].max_duration_sec
  /\ Phases[i].requires_acknowledgment => phase[i].acknowledged

(* A phase without a duration never completes. *)
completes(i, elapsed) ==
  /\ Phases[i].max_duration_sec > 0 /\ elapsed >= Phases[i].max_duration_sec
  /\ Phases[i].requires_acknowledgment => phase[i].acknowledged

progress_of(phases) == Cardinality({j \in DOMAIN Phases : phases[j].complete})

(* Seconds are counted up to the duration, the only value compared. *)
RunPhase(dt) ==
  LET i       == phase_at(cursor)
      limit   == Phases[i].max_duration_sec
      elapsed == Least(phase[i].elapsed_sec + dt, limit)
      over    == completes(i, elapsed)
  IN  /\ phase' = [phase EXCEPT ![i].elapsed_sec = elapsed,
                                ![i].complete = @ \/ over]
      /\ cursor' = IF over THEN [cursor EXCEPT !.phase = @ + 1] ELSE cursor
      /\ passed' = IF over THEN passed \cup {cursor} ELSE passed
      /\ done' = progress_of(phase')
      /\ UNCHANGED state

Scan(dt) ==
  IF cursor.procedure > Len(Procedures)
  THEN /\ state' = "COMPLETE" /\ done' = Len(Phases)
       /\ UNCHANGED <<cursor, phase, passed>>
  ELSE IF moved(cursor) # cursor
  THEN /\ cursor' = moved(cursor)
       /\ UNCHANGED <<state, done, phase, passed>>
  ELSE RunPhase(dt)

Execute(dt) ==
  /\ state \in {"RUNNING", "RESTARTING"}
  /\ IF pending = "HOLD"
     THEN state' = "HELD" /\ UNCHANGED <<cursor, done, phase, passed>>
     ELSE Scan(dt)
  /\ UNCHANGED <<pending, batches>>

Next ==
  \/ Start \/ Reset
  \/ \E cmd \in DOMAIN CommandFrom : Command(cmd)
  \/ \E i \in DOMAIN Phases : Acknowledge(i)
  \/ \E dt \in ScanTimes : Execute(dt)

Spec == Init /\ [][Next]_vars

(* The scan goes on and takes time, and the operator acknowledges; nobody *)
(* has to hold, stop, abort, reset or start a batch. *)
FairSpec ==
  /\ Spec
  /\ WF_vars(\E dt \in ScanTimes \ {0} : Execute(dt))
  /\ \A i \in DOMAIN Phases : WF_vars(Acknowledge(i))

-----------------------------------------------------------------------------
(* Properties. *)

Before(c, d) ==
  \/ c.procedure < d.procedure
  \/ /\ c.procedure = d.procedure
     /\ \/ c.unit_proc < d.unit_proc
        \/ /\ c.unit_proc = d.unit_proc
           /\ \/ c.operation < d.operation
              \/ c.operation = d.operation /\ c.phase < d.phase

(* The places that name a phase, level by level. *)
Entries(list, table) == {i \in DOMAIN list : list[i] \in DOMAIN table}

AllPlaces ==
  UNION {UNION {UNION {
    {[procedure |-> p, unit_proc |-> u, operation |-> o, phase |-> f] :
       f \in Entries(Operations[UnitProcs[Procedures[p][u]][o]], Phases)} :
       o \in Entries(UnitProcs[Procedures[p][u]], Operations)} :
       u \in Entries(Procedures[p], UnitProcs)} :
       p \in DOMAIN Procedures}

(* "Execution advances sequentially through phases within an operation, *)
(* operations within a unit procedure, and unit procedures within a *)
(* procedure": the places a batch has completed are exactly those before *)
(* the indices, so that none is skipped or repeated, dangling references, *)
(* empty lists, holds and earlier batches notwithstanding. *)
SequentialExecution == passed = {c \in AllPlaces : Before(c, cursor)}

(* No phase that asks for an acknowledgement is passed before it has been *)
(* acknowledged at least once.  In the first batch that is an answer to *)
(* this batch, as centum_vp_batch.c:368 says; Start clears no phase, so a *)
(* later batch may pass on the answer an earlier one was given. *)
AcknowledgedOnce ==
  \A c \in passed : Phases[phase_at(c)].requires_acknowledgment
                      => phase[phase_at(c)].acknowledged

(* A running batch does not run for ever, when every phase has a duration *)
(* and is acknowledged if it has to be. *)
BatchEnds == state = "RUNNING" ~> state # "RUNNING"

(* "HOLD: pause execution gracefully (complete current phase)": a batch *)
(* that was told to hold does not stay on its way to the hold. *)
HoldTakesEffect == state = "HOLDING" ~> state # "HOLDING"

(* The manager is a SequentialBatch: between its states of control it only *)
(* pauses, and it is complete when every place has been passed. *)
ControlState ==
  CASE state \in {"RUNNING", "RESTARTING"} -> "RUNNING"
    [] state \in {"HOLDING", "HELD", "STOPPING", "STOPPED"} -> "PAUSED"
    [] OTHER -> state

Sequential ==
  INSTANCE SequentialBatch WITH state <- ControlState, place <- Cardinality(passed),
                                size <- Cardinality(AllPlaces)

BatchIsSequential == Sequential!Spec
=============================================================================
