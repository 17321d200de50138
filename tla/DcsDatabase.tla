----------------------------- MODULE DcsDatabase ----------------------------
(***************************************************************************)
(* The system database of mini-dcs-system-architecture (dcs_system_db.c): *)
(* tables of tags, controllers, I/O points and control modules filled one *)
(* entry at a time, their validation, the load of a controller and the *)
(* assignment of control modules to the five scan phases. *)
(* *)
(* Times are microseconds.  Left out: failed allocations and the fields *)
(* that no function of the module reads. *)
(***************************************************************************)
EXTENDS Integers, Sequences, SequencesExt, FiniteSetsExt

CONSTANTS
  Tags,         \* tags that may be added: id, name, eu_min, eu_max, area
  Controllers,  \* controllers that may be added: id, scan_period
  IoPoints,     \* ids of I/O points that may be added
  Modules,      \* control modules that may be added
  Capacity,     \* max_tags, max_controllers, max_io, max_modules
  MaxOptimised  \* bound: calls of the optimisation

ModuleTypes ==
  << {"SAFETY", "INTERLOCK"}, {"PID", "AI", "AO"},
     {"CASCADE", "RATIO", "FFWD", "SELECT"}, {"CALC", "LOGIC", "TOTAL"}, {"OTHER"} >>

ASSUME DcsDatabaseAssumption ==
  /\ Tags \subseteq [id : Nat, name : STRING, eu_min : Int, eu_max : Int, area : STRING]
  /\ Controllers \subseteq [id : Nat, scan_period : Nat]
  /\ IoPoints \subseteq Nat
  /\ \A m \in Modules : /\ m.id \in Nat /\ m.controller \in Nat /\ m.execution_time \in Nat
                        /\ m.type \in UNION {ModuleTypes[i] : i \in 1 .. 5}
                        /\ m.enabled \in BOOLEAN
                        /\ m.inputs \in Seq(Nat) /\ m.outputs \in Seq(Nat)
  /\ Capacity \in [tags : Nat, controllers : Nat, io : Nat, modules : Nat]
  /\ MaxOptimised \in Nat

VARIABLES
  db,         \* the four tables and the scan phases
  assigned,   \* ids of the modules that have been given a scan phase
  optimised   \* (model) calls of dcs_db_optimize_scan_phases

dcsDb == <<db, assigned, optimised>>

ScanPhase ==
  [allocated_time : Nat, actual_time : Nat, num_modules : Nat, is_complete : BOOLEAN]

DcsDbTypeOK ==
  /\ db \in [tags : Seq(Tags), controllers : Seq(Controllers), io : Seq(IoPoints),
             modules : Seq(Modules), scan_phases : [1 .. 5 -> ScanPhase]]
  /\ assigned \subseteq {m.id : m \in Modules}
  /\ optimised \in 0 .. MaxOptimised

(* Shares of a scan: when the database is made, and when it is optimised. *)
phase_budgets    == <<10, 30, 20, 20, 20>>
budget_fractions == <<10, 30, 20, 20, 15>>

dcs_db_init ==
  [tags |-> << >>, controllers |-> << >>, io |-> << >>, modules |-> << >>,
   scan_phases |-> [p \in 1 .. 5 |-> [allocated_time |-> phase_budgets[p] * 2500,
                                      actual_time |-> 0, num_modules |-> 0,
                                      is_complete |-> TRUE]]]

DcsDbInit == db = dcs_db_init /\ assigned = {} /\ optimised = 0

-----------------------------------------------------------------------------
(* dcs_db_free and a new database with the same capacities. *)
dcs_db_free ==
  db' = dcs_db_init /\ assigned' = {} /\ UNCHANGED optimised

TagFree(tag) == \A t \in ToSet(db.tags) : t.id # tag.id /\ t.name # tag.name

dcs_db_add_tag(tag) ==
  /\ Len(db.tags) < Capacity.tags /\ TagFree(tag)
  /\ db' = [db EXCEPT !.tags = Append(@, tag)]
  /\ UNCHANGED <<assigned, optimised>>

dcs_db_add_controller(c) ==
  /\ Len(db.controllers) < Capacity.controllers
  /\ \A d \in ToSet(db.controllers) : d.id # c.id
  /\ db' = [db EXCEPT !.controllers = Append(@, c)]
  /\ UNCHANGED <<assigned, optimised>>

dcs_db_add_io_point(i) ==
  /\ Len(db.io) < Capacity.io /\ i \notin ToSet(db.io)
  /\ db' = [db EXCEPT !.io = Append(@, i)]
  /\ UNCHANGED <<assigned, optimised>>

(* What a module refers to is not looked at before the validation. *)
dcs_db_add_control_module(m) ==
  /\ Len(db.modules) < Capacity.modules
  /\ \A n \in ToSet(db.modules) : n.id # m.id
  /\ db' = [db EXCEPT !.modules = Append(@, m)]
  /\ UNCHANGED <<assigned, optimised>>

(* A reference to tag 0 is an unused place. *)
Dangling(refs) ==
  {r \in DOMAIN refs : refs[r] # 0 /\ refs[r] \notin {t.id : t \in ToSet(db.tags)}}

(* Pairs of equal entries of a column. *)
Duplicates(column) ==
  Cardinality({p \in (DOMAIN column) \X (DOMAIN column) :
                 p[1] < p[2] /\ column[p[1]] = column[p[2]]})

Column(table, field) == [i \in DOMAIN table |-> table[i][field]]

(* The number of errors; the database is valid when there is none. *)
dcs_db_validate ==
    Duplicates(Column(db.tags, "name"))
  + Duplicates(Column(db.controllers, "id"))
  + Duplicates(db.io)
  + FoldFunction(+, 0, [m \in DOMAIN db.modules |->
      LET n == db.modules[m]
      IN  Cardinality(Dangling(n.inputs)) + Cardinality(Dangling(n.outputs))])
  + Cardinality({c \in DOMAIN db.controllers :
                   db.controllers[c].scan_period \notin 50000 .. 1000000})
  + Cardinality({t \in DOMAIN db.tags : db.tags[t].eu_min >= db.tags[t].eu_max})

NoTag == "UINT32_MAX"

dcs_db_find_tag_by_name(name) ==
  LET found == {t \in ToSet(db.tags) : t.name = name}
  IN  IF found = {} THEN NoTag ELSE (CHOOSE t \in found : TRUE).id

ModulesOf(c) == {m \in ToSet(db.modules) : m.controller = c.id /\ m.enabled}

TimeOf(modules) == MapThenSumSet(LAMBDA m : m.execution_time, modules)

(* The load with 15 per cent overhead, in per cent rounded up and capped; *)
(* 70 per cent is accepted. *)
LoadOf(c) ==
  IF c.scan_period = 0 THEN 0
  ELSE Min({100, (TimeOf(ModulesOf(c)) * 115 + c.scan_period - 1) \div c.scan_period})

dcs_db_analyze_controller_load(c) == LoadOf(c) <= 70

PhaseOf(m) == CHOOSE p \in 1 .. 5 : m.type \in ModuleTypes[p]

LoadedPhase(p, c) ==
  LET mine == {m \in ModulesOf(c) : PhaseOf(m) = p}
      was  == db.scan_phases[p]
      time == was.actual_time + TimeOf(mine)
      part == (c.scan_period * budget_fractions[p]) \div 100
  IN  [allocated_time |-> part, actual_time |-> time,
       num_modules |-> was.num_modules + Cardinality(mine),
       is_complete |-> time <= part]

dcs_db_optimize_scan_phases(c) ==
  /\ optimised < MaxOptimised
  /\ db' = [db EXCEPT !.scan_phases = [p \in 1 .. 5 |-> LoadedPhase(p, c)]]
  /\ assigned' = assigned \cup {m.id : m \in ModulesOf(c)}
  /\ optimised' = optimised + 1

(* Tags per area, an untold area not counting; and the free share of the *)
(* tag table in per cent. *)
num_areas == Max({1, Cardinality({t.area : t \in ToSet(db.tags)} \ {""})})

growth_margin_pct ==
  IF Capacity.tags > 0
  THEN ((Capacity.tags - Len(db.tags)) * 100) \div Capacity.tags ELSE 0

DcsDbNext ==
  \/ dcs_db_free
  \/ \E t \in Tags : dcs_db_add_tag(t)
  \/ \E c \in Controllers : dcs_db_add_controller(c)
  \/ \E i \in IoPoints : dcs_db_add_io_point(i)
  \/ \E m \in Modules : dcs_db_add_control_module(m)
  \/ \E c \in ToSet(db.controllers) : dcs_db_optimize_scan_phases(c)

-----------------------------------------------------------------------------
(* Properties. *)

(* Whatever the order in which the tables are filled, what a validation *)
(* can still complain of is a dangling reference, a scan period or a range *)
(* - never a duplicate - and every tag is found under its own name. *)
TablesHaveNoDuplicates ==
  /\ Duplicates(Column(db.tags, "id")) = 0 /\ Duplicates(Column(db.tags, "name")) = 0
  /\ Duplicates(Column(db.controllers, "id")) = 0 /\ Duplicates(db.io) = 0
  /\ \A t \in ToSet(db.tags) : dcs_db_find_tag_by_name(t.name) = t.id
  /\ growth_margin_pct \in 0 .. 100 /\ num_areas <= Max({1, Len(db.tags)})

(* A scan phase that is shown to fit its share really has time for all the *)
(* modules assigned to it, of whichever controller: the repeated counting *)
(* of dcs_db_optimize_scan_phases errs on the safe side only.  A controller *)
(* whose load is accepted has a third of its scan to spare, unless it has *)
(* no scan period, which only the validation refuses. *)
FittingPhasesFit ==
  /\ \A p \in 1 .. 5 :
       db.scan_phases[p].is_complete =>
         TimeOf({m \in ToSet(db.modules) : m.id \in assigned /\ PhaseOf(m) = p})
           <= db.scan_phases[p].allocated_time
  /\ \A c \in ToSet(db.controllers) :
       dcs_db_analyze_controller_load(c) /\ c.scan_period > 0
         => TimeOf(ModulesOf(c)) * 3 <= c.scan_period * 2
=============================================================================
