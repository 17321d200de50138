----------------------------- MODULE Isa88Batch -----------------------------
(***************************************************************************)
(* The ISA-88 batch of mini-dcs-system-architecture (dcs_isa88_batch.c): a *)
(* control recipe of operations, each a list of phases, that a scan drives *)
(* one phase at a time while an operator commands it, and the choice of *)
(* the unit that runs it. *)
(* *)
(* Minutes are whole.  Left out: names, parameters and failed allocations. *)
(* Holding and restarting one phase is what the equipment does to a phase; *)
(* no function of the module does it. *)
(***************************************************************************)
EXTENDS Integers, Sequences, SequencesExt, FiniteSetsExt

CONSTANTS
  OperationKinds,  \* the lists of durations (minutes) that may be added
  MaxOperations,   \* bound: operations of the recipe
  Steps,           \* dt_min that one scan may pass
  MaxElapsed,      \* bound: minutes counted for a phase
  UnitCapacities   \* max_capacity of each unit, in the order of the table

ASSUME Isa88Assumption ==
  /\ OperationKinds \subseteq Seq(Nat) /\ << >> \notin OperationKinds
  /\ Steps \subseteq Nat /\ UnitCapacities \in Seq(Nat)
  /\ MaxOperations \in Nat /\ MaxElapsed \in Nat

Isa88BatchState == {"IDLE", "RUNNING", "COMPLETE", "HELD", "STOPPED", "ABORTED"}
Isa88PhaseState == Isa88BatchState \cup {"RESTARTING"}

VARIABLES
  recipe,   \* batch_state and, for each operation, its phases and its place in them
  units     \* state of each unit

isa88 == <<recipe, units>>

Isa88UnitState == {"IDLE", "BUSY", "HELD", "CLEANING", "MAINTENANCE"}

RecipePhase == [state : Isa88PhaseState, duration : Nat, elapsed : Nat]

RecipeOperation ==
  [phases : Seq(RecipePhase), current_phase_idx : Nat, is_complete : BOOLEAN]

Isa88TypeOK ==
  /\ recipe \in [batch_state : Isa88BatchState, operations : Seq(RecipeOperation)]
  /\ units \in [DOMAIN UnitCapacities -> Isa88UnitState]

isa88_recipe_init == [batch_state |-> "IDLE", operations |-> << >>]

Isa88Init ==
  /\ recipe = isa88_recipe_init
  /\ units = [u \in DOMAIN UnitCapacities |-> "IDLE"]

-----------------------------------------------------------------------------
(* An operation may be added in any state of the batch. *)
isa88_recipe_add_operation(durations) ==
  /\ Len(recipe.operations) < MaxOperations
  /\ recipe' = [recipe EXCEPT !.operations = Append(@,
       [phases |-> [p \in DOMAIN durations |->
                      [state |-> "IDLE", duration |-> durations[p], elapsed |-> 0]],
        current_phase_idx |-> 0, is_complete |-> FALSE])]
  /\ UNCHANGED units

transition_table ==
  [START   |-> {"IDLE"},
   HOLD    |-> {"RUNNING"},
   STOP    |-> {"RUNNING", "HELD"},
   ABORT   |-> Isa88BatchState \ {"ABORTED"},
   RESTART |-> {"HELD", "STOPPED"}]

commanded ==
  [START |-> "RUNNING", HOLD |-> "HELD", STOP |-> "STOPPED",
   ABORT |-> "ABORTED", RESTART |-> "RUNNING"]

isa88_batch_command(command) ==
  /\ recipe.batch_state \in transition_table[command]
  /\ recipe' = [recipe EXCEPT !.batch_state = commanded[command]]
  /\ UNCHANGED units

(* A phase without a duration runs on; one that is not running, restarting *)
(* or idle stays as it is.  Minutes are counted up to MaxElapsed. *)
isa88_phase_execute(phase, dt) ==
  LET minutes == Min({phase.elapsed + dt, MaxElapsed})
  IN  CASE phase.state = "IDLE"       -> [phase EXCEPT !.state = "RUNNING", !.elapsed = 0]
        [] phase.state = "RESTARTING" -> [phase EXCEPT !.state = "RUNNING"]
        [] phase.state = "RUNNING"    ->
             [phase EXCEPT !.elapsed = minutes,
                           !.state = IF phase.duration > 0 /\ minutes >= phase.duration
                                     THEN "COMPLETE" ELSE @]
        [] OTHER                      -> phase

WithPhase(op, phase) ==
  LET next == op.current_phase_idx + 1 IN
  [op EXCEPT !.phases[next] = phase,
             !.current_phase_idx = IF phase.state = "COMPLETE" THEN next ELSE @,
             !.is_complete = phase.state = "COMPLETE" /\ next >= Len(op.phases)]

(* Mutant: the batch is complete as soon as its last operation is. *)
incomplete_last(operations) ==
  {o \in DOMAIN operations : o = Len(operations) /\ ~operations[o].is_complete}

incomplete(operations) == {o \in DOMAIN operations : ~operations[o].is_complete}

isa88_batch_execute_step(dt) ==
  LET todo == incomplete(recipe.operations)
      op   == recipe.operations[Min(todo)]
  IN  /\ recipe.batch_state = "RUNNING"
      /\ recipe' =
           IF todo = {}
           THEN [recipe EXCEPT !.batch_state = "COMPLETE"]
           ELSE [recipe EXCEPT !.operations[Min(todo)] =
                   WithPhase(op, isa88_phase_execute(op.phases[op.current_phase_idx + 1], dt))]
      /\ UNCHANGED units

(* The equipment holds a running phase and restarts a held one. *)
Equipment(o, p) ==
  LET state == recipe.operations[o].phases[p].state
      To(s) == recipe' = [recipe EXCEPT !.operations[o].phases[p].state = s]
  IN  /\ \/ state = "RUNNING" /\ To("HELD")
         \/ state = "HELD" /\ To("RESTARTING")
      /\ UNCHANGED units

(* The first idle unit of the table that is large enough.  The function *)
(* only reads the units; the caller marks the one it is given BUSY and *)
(* frees it when the batch is over. *)
isa88_allocate_unit(capacity) ==
  {u \in DOMAIN UnitCapacities :
     /\ units[u] = "IDLE" /\ UnitCapacities[u] >= capacity
     /\ \A v \in 1 .. u - 1 : units[v] # "IDLE" \/ UnitCapacities[v] < capacity}

OccupyUnit(capacity) ==
  /\ \E u \in isa88_allocate_unit(capacity) : units' = [units EXCEPT ![u] = "BUSY"]
  /\ UNCHANGED recipe

FreeUnit(u) ==
  /\ units[u] = "BUSY"
  /\ units' = [units EXCEPT ![u] = "IDLE"]
  /\ UNCHANGED recipe

Isa88Scan == \E dt \in Steps \ {0} : isa88_batch_execute_step(dt)

Isa88Next ==
  \/ \E d \in OperationKinds : isa88_recipe_add_operation(d)
  \/ \E c \in DOMAIN transition_table : isa88_batch_command(c)
  \/ \E dt \in Steps : isa88_batch_execute_step(dt)
  \/ \E o \in DOMAIN recipe.operations :
       \E p \in DOMAIN recipe.operations[o].phases : Equipment(o, p)
  \/ \E c \in {UnitCapacities[u] : u \in DOMAIN UnitCapacities} : OccupyUnit(c)
  \/ \E u \in DOMAIN UnitCapacities : FreeUnit(u)

-----------------------------------------------------------------------------
(* Durations and progress, as the display computes them. *)

SumSeq(s) == FoldFunction(+, 0, s)

AllPhases == FlattenSeq([o \in DOMAIN recipe.operations |-> recipe.operations[o].phases])

isa88_calculate_batch_duration ==
  SumSeq([p \in DOMAIN AllPhases |-> AllPhases[p].duration])

completed_minutes(phase) ==
  CASE phase.state = "COMPLETE" -> phase.duration
    [] phase.state = "RUNNING"  -> phase.elapsed
    [] OTHER                    -> 0

(* In hundredths of the whole, rounded down. *)
isa88_calculate_batch_progress ==
  LET total == isa88_calculate_batch_duration
  IN  IF total = 0 THEN 0
      ELSE (SumSeq([p \in DOMAIN AllPhases |-> completed_minutes(AllPhases[p])]) * 100)
             \div total

-----------------------------------------------------------------------------
(* Properties. *)

AbstractState ==
  CASE recipe.batch_state \in {"HELD", "STOPPED"} -> "PAUSED"
    [] OTHER                                      -> recipe.batch_state

Promise == INSTANCE SequentialBatch WITH
  state <- AbstractState,
  place <- SumSeq([o \in DOMAIN recipe.operations |-> recipe.operations[o].current_phase_idx]),
  size  <- Len(AllPhases)

(* isa88_batch_execute_step implements the sequential batch: phases are *)
(* completed one at a time, only in a RUNNING batch, whatever the operator *)
(* and the equipment do, and the batch is COMPLETE only after the last. *)
Isa88IsSequential == Promise!Spec

(* Within an operation the phases before current_phase_idx are complete *)
(* and those after it untouched; while every phase has a duration the *)
(* progress shown is at most 100 per cent. *)
Isa88InOrder ==
  /\ \A o \in DOMAIN recipe.operations :
       LET op == recipe.operations[o] IN
       \A p \in DOMAIN op.phases :
         /\ p <= op.current_phase_idx <=> op.phases[p].state = "COMPLETE"
         /\ p > op.current_phase_idx + 1 => op.phases[p].state = "IDLE"
  /\ (\A p \in DOMAIN AllPhases : AllPhases[p].duration > 0)
       => isa88_calculate_batch_progress <= 100

(* A running batch ends, is paused or aborted, unless a phase is held or *)
(* has no duration. *)
Isa88Ends ==
  recipe.batch_state = "RUNNING"
    ~> \/ recipe.batch_state # "RUNNING"
       \/ \E p \in DOMAIN AllPhases :
            AllPhases[p].state = "HELD" \/ AllPhases[p].duration = 0
=============================================================================
