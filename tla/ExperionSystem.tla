---------------------------- MODULE ExperionSystem ----------------------------
(***************************************************************************)
(* The Experion system record (experion_system.c): its nodes, its mode and *)
(* its activation; and what dcs_redundancy.c keeps beside the managers of *)
(* ExperionPair: the ring of failover events, the four FTE paths, the *)
(* bumpless ramp and the safety level of an average failure probability. *)
(***************************************************************************)
EXTENDS Integers, Sequences, FiniteSets, FiniteSetsExt

CONSTANTS
  NodeIds,      \* node ids that are registered
  NodeTypes,    \* their types
  MaxSysNodes,  \* EXN_MAX_DOMAIN_NODES
  HistorySize,  \* RED_MAX_FAILOVER_HISTORY
  MaxFailovers, \* bound of the model on failover_count
  Scores,       \* load scores of the FTE paths
  OutputValues, \* outputs before and after a transfer
  RampSteps     \* control steps in transfer_time_sec

ASSUME SystemAssumption ==
  /\ NodeIds \subseteq Nat /\ MaxSysNodes \in Nat
  /\ HistorySize \in Nat \ {0} /\ MaxFailovers \in Nat
  /\ Scores \subseteq Nat /\ OutputValues \subseteq Int /\ RampSteps \in Nat \ {0}

VARIABLES
  system,    \* mode, nodes, primary server
  stopped,   \* no maintenance since the last emergency stop (history)
  history,   \* failover_history, failover_count and last_failover_index
  fte,       \* the FTE paths and their summary
  ramp       \* the bumpless transfer

systemVars == <<system, stopped, history, fte, ramp>>

SystemMode == {"INITIALIZING", "RUN", "HOLD", "SHUTDOWN", "FAILOVER", "EMERGENCY_STOP",
               "MAINTENANCE", "SIMULATION"}

FTEPath == 0 .. 3

Paths(network) == {p \in FTEPath : network.up[p]}

SystemTypeOK ==
  /\ system.mode \in SystemMode /\ system.primary \in NodeIds \cup {0}
  /\ system.nodes \in Seq([id : NodeIds, type : NodeTypes])
  /\ stopped \in BOOLEAN
  /\ history.count \in Nat /\ history.index \in 0 .. HistorySize - 1
  /\ fte.up \in [FTEPath -> BOOLEAN] /\ fte.active \in 0 .. 4 /\ fte.healthy \in BOOLEAN
  /\ ramp.step \in 0 .. RampSteps /\ ramp.in_transition \in BOOLEAN

experion_system_init ==
  /\ system = [mode |-> "INITIALIZING", nodes |-> << >>, primary |-> 0,
               redundancy_active |-> FALSE]
  /\ stopped = FALSE
  /\ history = [ring |-> [i \in 0 .. HistorySize - 1 |-> -1], count |-> 0, index |-> 0]
  /\ fte \in {[up |-> [p \in FTEPath |-> FALSE], score |-> score, active |-> 0, healthy |-> FALSE]
                : score \in [FTEPath -> Scores]}
  /\ ramp = [step |-> 0, tracked |-> 0, computed |-> 0, transition |-> 0, in_transition |-> FALSE]

-----------------------------------------------------------------------------
(* Nodes and modes *)

experion_system_register_node(id, type) ==
  /\ Len(system.nodes) < MaxSysNodes
  /\ \A i \in DOMAIN system.nodes : system.nodes[i].id # id
  /\ system' = [system EXCEPT !.nodes = Append(@, [id |-> id, type |-> type])]
  /\ UNCHANGED <<stopped, history, fte, ramp>>

mode_transition_allowed(current) ==
  CASE current = "INITIALIZING"   -> {"RUN", "MAINTENANCE", "SIMULATION"}
    [] current = "RUN"            -> {"HOLD", "SHUTDOWN", "FAILOVER", "EMERGENCY_STOP"}
    [] current = "HOLD"           -> {"RUN", "SHUTDOWN", "EMERGENCY_STOP", "MAINTENANCE"}
    [] current = "SHUTDOWN"       -> {"INITIALIZING"}
    [] current = "FAILOVER"       -> {"RUN", "EMERGENCY_STOP"}
    [] current = "EMERGENCY_STOP" -> {"MAINTENANCE"}
    [] current = "MAINTENANCE"    -> {"INITIALIZING", "RUN"}
    [] current = "SIMULATION"     -> {"INITIALIZING"}

(* sys, with its mode changed if that is allowed. *)
InMode(sys, mode) ==
  IF mode \notin mode_transition_allowed(sys.mode) THEN sys
  ELSE [sys EXCEPT !.mode = mode,
                   !.redundancy_active = @ /\ mode # "EMERGENCY_STOP"]

experion_system_set_mode(mode) ==
  /\ system' = InMode(system, mode)
  /\ stopped' = \/ system'.mode = "EMERGENCY_STOP"
                \/ stopped /\ system'.mode # "MAINTENANCE"
  /\ UNCHANGED <<history, fte, ramp>>

Servers(nodes) == {i \in DOMAIN nodes : nodes[i].type \in {"ESVT", "ESVT_REDUNDANT"}}

(* The first server that has an id other than zero. *)
primary_esvt(sys) ==
  LET named == {i \in Servers(sys.nodes) : sys.nodes[i].id # 0} IN
  IF sys.primary # 0 \/ named = {} THEN sys.primary ELSE sys.nodes[Min(named)].id

(* The primary server is chosen before the change of the mode is refused. *)
experion_system_activate ==
  /\ Servers(system.nodes) # {}
  /\ system' = InMode([system EXCEPT !.primary = primary_esvt(system)], "RUN")
  /\ UNCHANGED <<stopped, history, fte, ramp>>

(* backup_esvt_id and nodes_online keep their zeros. *)
experion_system_health_check ==
  system.mode \notin {"EMERGENCY_STOP", "SHUTDOWN"} /\ system.primary # 0

(* An application sets redundancy_active. *)
UseRedundancy ==
  /\ system' = [system EXCEPT !.redundancy_active = TRUE]
  /\ UNCHANGED <<stopped, history, fte, ramp>>

(* Shutting down is a change of mode; the hours it adds nobody reads. *)
experion_system_shutdown == experion_system_set_mode("SHUTDOWN")

SystemNext ==
  \/ \E id \in NodeIds, type \in NodeTypes : experion_system_register_node(id, type)
  \/ \E mode \in SystemMode : experion_system_set_mode(mode)
  \/ experion_system_activate
  \/ UseRedundancy

(* What is too large stands for INT64_MAX. *)
TooLarge == 1000000

experion_clock_offset_ns(t1, t2, t3, t4) ==
  IF t1 <= 0 \/ t2 <= 0 \/ t3 <= 0 \/ t4 <= 0 \/ t2 < t1 \/ t4 < t3 THEN TooLarge
  ELSE LET d == (t2 - t1) - (t4 - t3)
       IN  IF d < 0 THEN -((-d) \div 2) ELSE d \div 2

-----------------------------------------------------------------------------
(* The failover log: an event is its event_id. *)

redundancy_log_failover ==
  /\ history.count < MaxFailovers
  /\ history' = [ring |-> [history.ring EXCEPT ![history.index] = history.count],
                 count |-> history.count + 1,
                 index |-> (history.index + 1) % HistorySize]
  /\ UNCHANGED <<system, stopped, fte, ramp>>

redundancy_get_last_failover ==
  IF history.count = 0 THEN -1
  ELSE history.ring[IF history.index > 0 THEN history.index - 1 ELSE HistorySize - 1]

-----------------------------------------------------------------------------
(* The FTE network *)

fte_status_update(p, link_up) ==
  /\ LET up == [fte.up EXCEPT ![p] = link_up]
         n  == Cardinality({q \in FTEPath : up[q]})
     IN  fte' = [fte EXCEPT !.up = up, !.active = n, !.healthy = n >= 2]
  /\ UNCHANGED <<system, stopped, history, ramp>>

(* The first of the best paths that are up; path A when none is. *)
fte_best_path ==
  LET best == {p \in Paths(fte) : \A q \in Paths(fte) : fte.score[p] <= fte.score[q]}
  IN  IF best = {} THEN 0 ELSE Min(best)

-----------------------------------------------------------------------------
(* The ramp from the tracked output to the computed one.  transition is *)
(* the output times RampSteps. *)

bumpless_transfer_start(tracked, computed) ==
  /\ ramp' = [step |-> 0, tracked |-> tracked, computed |-> computed,
              transition |-> tracked * RampSteps, in_transition |-> TRUE]
  /\ UNCHANGED <<system, stopped, history, fte>>

bumpless_transfer_update(computed) ==
  /\ ramp.in_transition
  /\ LET k == ramp.step + 1 IN
     ramp' = [ramp EXCEPT !.step = k, !.computed = computed,
                          !.in_transition = k < RampSteps,
                          !.transition = ramp.tracked * RampSteps + (computed - ramp.tracked) * k]
  /\ UNCHANGED <<system, stopped, history, fte>>

NetworkNext == \E p \in FTEPath, up \in BOOLEAN : fte_status_update(p, up)

RampNext ==
  \/ \E from, to \in OutputValues : bumpless_transfer_start(from, to)
  \/ \E to \in OutputValues : bumpless_transfer_update(to)

-----------------------------------------------------------------------------
(* Safety integrity of two channels with a common cause: x is the failure *)
(* rate times half the proof test interval, in thousandths, beta in *)
(* percent.  The average failure probability, in ten-millionths. *)
sil_calculate_pfdavg(x, beta) ==
  LET independent == (100 - beta) * x IN
  (independent * independent) \div 1000 + 100 * beta * x

SafetyLevel(pfd) ==
  CASE pfd < 1000    -> 4
    [] pfd < 10000   -> 3
    [] pfd < 100000  -> 2
    [] pfd < 1000000 -> 1
    [] OTHER         -> 0

required_hft(level) == CASE level = 4 -> 2 [] level \in {2, 3} -> 1 [] OTHER -> 0

-----------------------------------------------------------------------------
(* The primary server is a registered server, so that a system that calls *)
(* itself healthy has one. *)
PrimaryIsServer ==
  /\ system.primary # 0 =>
       \E i \in Servers(system.nodes) : system.nodes[i].id = system.primary
  /\ experion_system_health_check => Servers(system.nodes) # {}

(* After an emergency stop nothing runs before maintenance. *)
StopIsFinal == stopped => system.mode = "EMERGENCY_STOP"

(* The log keeps the last HistorySize failovers and finds the last one. *)
LogKeepsTheLast ==
  /\ redundancy_get_last_failover = history.count - 1
  /\ {history.ring[i] : i \in DOMAIN history.ring} \ {-1}
       = {k \in 0 .. history.count - 1 : k >= history.count - HistorySize}

(* The network calls itself redundant exactly with two links up, and a path*)
(* that is up is preferred to one that is down or slower. *)
NetworkIsTrue ==
  /\ fte.healthy <=> \E p, q \in Paths(fte) : p # q
  /\ Paths(fte) # {} => /\ fte_best_path \in Paths(fte)
                        /\ \A q \in Paths(fte) : fte.score[fte_best_path] <= fte.score[q]

(* The output stays between the tracked and the computed value and is the *)
(* computed one when the transfer ends. *)
RampBetween ==
  LET ends == {ramp.tracked * RampSteps, ramp.computed * RampSteps} IN
  /\ Min(ends) <= ramp.transition /\ ramp.transition <= Max(ends)
  /\ ~ramp.in_transition => ramp.transition = ramp.computed * RampSteps
=============================================================================
