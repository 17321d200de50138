----------------------------- MODULE AlarmCore ------------------------------
(***************************************************************************)
(* The operators of the ISA-18.2 alarm engine: alarm_engine.c (condition *)
(* checks, the five-state machine, the flood detector) and the rules of *)
(* alarm_shelving_suppression.c. *)
(* *)
(* Process values are integers near the set-point and the code NaN.  Left *)
(* out: tag names, messages, event records (only their number is kept), *)
(* operator names and the time stamps no guard reads. *)
(***************************************************************************)
EXTENDS Integers, Sequences, SequencesExt

CONSTANTS
  NAlarms,          \* total_alarms
  Config,           \* per alarm: type, setpoint, deadband, deviation_limit,
                    \* on_delay_ms, priority, plant_state_mask
  MaxShelve,        \* ISA18_MAX_SHELVE_DURATION_SEC
  MaxTotalShelve,   \* 259200 s, the 72 hours of isa18_extend_shelve
  MaxShelved,       \* max_shelved
  MaxEvents,        \* ISA18_ANNUNCIATOR_MAX_ITEMS
  FloodWindow,      \* 600 s
  FloodThreshold    \* ISA18_OVERMANAGEABLE_PEAK_10MIN

Alarm == 1 .. NAlarms

State == {"NORMAL", "ACTIVE_UNACK", "ACTIVE_ACK", "RTN_UNACK", "CLEARED"}

Active == {"ACTIVE_UNACK", "ACTIVE_ACK"}   \* isa18_alarm_state_is_active

NaN == 999

MaxExtensions == 3

NoApprover == "none"      \* the empty name
NullApprover == "NULL"    \* no name passed: what is stored stays

copied(old, text) == IF text = NullApprover THEN old ELSE text

-----------------------------------------------------------------------------
(* Conditions.  The deadband is a parameter of the limit checks in the *)
(* code, and none of them reads it. *)

check_high_alarm(pv, sp) == pv # NaN /\ pv >= sp

check_low_alarm(pv, sp) == pv # NaN /\ pv <= sp

Distance(x, y) == IF x < y THEN y - x ELSE x - y

check_deviation_alarm(pv, target, limit) ==
  pv # NaN /\ limit > 0 /\ Distance(pv, target) >= limit

condition_of(a, pv) ==
  LET c == Config[a] IN
  CASE c.type \in {"HIGH", "HI_HI"} -> check_high_alarm(pv, c.setpoint)
    [] c.type \in {"LOW", "LO_LO"}  -> check_low_alarm(pv, c.setpoint)
    [] c.type = "DEVIATION" ->
         check_deviation_alarm(pv, c.setpoint, c.deviation_limit)
    [] c.type = "BAD_MEASUREMENT" -> pv = NaN
    [] OTHER -> pv # NaN /\ pv >= c.setpoint

compute_on_delay_expiry(t, ms) == t + ms \div 1000

(* Mutant: the delay is not tested for zero and the expiry not reached. *)
OnDelayAlways(a, st, now) ==
  st = "NORMAL" /\ now <= compute_on_delay_expiry(now, Config[a].on_delay_ms)

(* The on-delay of a NORMAL alarm, started afresh at every scan. *)
OnDelayRunning(a, st, now) ==
  /\ Config[a].on_delay_ms > 0 /\ st = "NORMAL"
  /\ now < compute_on_delay_expiry(now, Config[a].on_delay_ms)

-----------------------------------------------------------------------------
(* isa18_alarm_state_transition.  In ACTIVE_ACK the branch for an *)
(* acknowledgement without the condition follows one that takes every *)
(* state without the condition, so it is never reached. *)

(* Mutant: a return to normal that nobody has acknowledged clears itself. *)
transition_auto_clear(st, condition, ack, suppressed, shelved) ==
  CASE st = "NORMAL"       -> IF condition /\ ~ suppressed /\ ~ shelved
                              THEN "ACTIVE_UNACK" ELSE st
    [] st = "ACTIVE_UNACK" -> IF ack /\ condition THEN "ACTIVE_ACK"
                              ELSE IF ~ condition THEN "RTN_UNACK" ELSE st
    [] st = "ACTIVE_ACK"   -> IF ~ condition THEN "RTN_UNACK" ELSE st
    [] st = "RTN_UNACK"    -> IF condition THEN "ACTIVE_UNACK" ELSE "CLEARED"
    [] st = "CLEARED"      -> "NORMAL"

alarm_state_transition(st, condition, ack, suppressed, shelved) ==
  CASE st = "NORMAL"       -> IF condition /\ ~ suppressed /\ ~ shelved
                              THEN "ACTIVE_UNACK" ELSE st
    [] st = "ACTIVE_UNACK" -> IF ack /\ condition THEN "ACTIVE_ACK"
                              ELSE IF ~ condition THEN "RTN_UNACK" ELSE st
    [] st = "ACTIVE_ACK"   -> IF ~ condition THEN "RTN_UNACK" ELSE st
    [] st = "RTN_UNACK"    -> IF ack THEN "CLEARED"
                              ELSE IF condition THEN "ACTIVE_UNACK" ELSE st
    [] st = "CLEARED"      -> "NORMAL"

-----------------------------------------------------------------------------
(* The flood detector.  alarms_in_window is compared with the threshold *)
(* only, so it is kept up to the threshold. *)

flood_detector_update(f, t) ==
  LET fresh == t - f.window_start >= FloodWindow \/ f.window_start = 0
      count == IF fresh THEN 1
               ELSE IF f.alarms_in_window < FloodThreshold
                    THEN f.alarms_in_window + 1 ELSE FloodThreshold
  IN  [window_start     |-> IF fresh THEN t ELSE f.window_start,
       alarms_in_window |-> count,
       is_flood_active  |-> f.is_flood_active \/ count >= FloodThreshold]

(* The window is emptied before its count is tested, so a flood ends *)
(* whenever its window is over. *)
flood_detector_check(f, t) ==
  IF f.is_flood_active /\ t - f.window_start >= FloodWindow
  THEN [window_start |-> t, alarms_in_window |-> 0, is_flood_active |-> FALSE]
  ELSE f

-----------------------------------------------------------------------------
(* Shelving and suppression. *)

suppression_by_plant_state(mask, plant) == mask \cap plant # {}

(* Mutant: HIGH alarms shelved without approval. *)
validate_without_approval(a, st, is_shelved, count, duration, approver) ==
  /\ duration \in 1 .. MaxShelve
  /\ Config[a].priority # "CRITICAL"
  /\ count < MaxShelved
  /\ ~ is_shelved
  /\ st \in Active

validate_shelve(a, st, is_shelved, count, duration, approver) ==
  /\ duration \in 1 .. MaxShelve
  /\ Config[a].priority # "CRITICAL"
  /\ Config[a].priority = "HIGH" => approver \notin {NoApprover, NullApprover}
  /\ count < MaxShelved
  /\ ~ is_shelved
  /\ st \in Active

ActiveRecords(recs, a) ==
  {i \in DOMAIN recs : recs[i].alarm_id = a /\ recs[i].is_active}

(* Mutant: the compaction starts at the head of the array. *)
drop_previous_record(recs, a) ==
  IF ActiveRecords(recs, a) = {} THEN recs
  ELSE RemoveAt(recs, 1)

(* The first active record of the alarm is taken out and the rest moved up. *)
drop_record(recs, a) ==
  IF ActiveRecords(recs, a) = {} THEN recs
  ELSE RemoveAt(recs, CHOOSE i \in ActiveRecords(recs, a) :
                        \A j \in ActiveRecords(recs, a) : i <= j)

(* Identifiers continue from the last record in the array. *)
next_shelve_id(recs) ==
  IF recs = << >> THEN 1 ELSE recs[Len(recs)].shelve_id + 1
=============================================================================
