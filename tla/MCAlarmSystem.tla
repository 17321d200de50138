--------------------------- MODULE MCAlarmSystem ----------------------------
(* Alarm configurations for TLC, and the alarms joined with the records *)
(* kept about them: a behaviour moves the part it has chosen. *)
EXTENDS AlarmSystem, AlarmRecords

CONSTANT Parts

ASSUME PartsAssumption ==
  Parts \subseteq {"alarms", "audit", "counts", "chatter", "history", "database"}

VARIABLE part

alarmsVars == <<vars, recordVars, part>>

AlarmsInit ==
  /\ Init /\ RecordsInit
  /\ part \in Parts
  /\ part # "alarms" => pv = [a \in Alarm |-> CHOOSE v \in Values : TRUE]

RecordsNext ==
  \/ part = "audit"   /\ AuditNext   /\ UNCHANGED <<kpi, chatter, rolling, mad>>
  \/ /\ part = "counts"
     /\ \E a \in DOMAIN KpiPriority : Transition(a)
     /\ UNCHANGED <<audit, chatter, rolling, mad>>
  \/ /\ part = "chatter"
     /\ ChatterReset \/ \E gap \in Gaps : ChatterTransition(gap)
     /\ UNCHANGED <<audit, kpi, rolling, mad>>
  \/ /\ part = "history"
     /\ \E a \in Alarm, gap \in Gaps : Record(a, gap)
     /\ UNCHANGED <<audit, kpi, chatter, mad>>
  \/ part = "database" /\ MadNext /\ UNCHANGED <<audit, kpi, chatter, rolling>>

AlarmsNext ==
  /\ \/ part = "alarms" /\ Next /\ UNCHANGED recordVars
     \/ RecordsNext /\ UNCHANGED vars
  /\ UNCHANGED part

AlarmsSpec == AlarmsInit /\ [][AlarmsNext]_alarmsVars

AlarmsFairSpec == AlarmsSpec /\ ControlLoop

(* Shelving records, flags and the count of active alarms agree, and have *)
(* their types: see the conjuncts. *)
RecordsAgree ==
  part = "alarms" => AlarmTypeOK /\ RecordPerShelvedAlarm /\ ActiveCountCovers

(* The audit trail, the indicators and the master alarm database are true *)
(* to what was reported to them: see the six invariants. *)
RecordsAreTrue ==
  CASE part = "alarms"   -> TRUE
    [] part = "audit"    -> TrailIsTrue /\ ComplianceIsFair
    [] part = "counts"   -> CountsCover
    [] part = "chatter"  -> ChatterIsSeen
    [] part = "history"  -> HistoryIsTheDay
    [] part = "database" -> DatabaseIsSound

-----------------------------------------------------------------------------
(* Instances. *)

HighAlarm ==
  [type |-> "HIGH", setpoint |-> 3, deadband |-> 2, deviation_limit |-> 0,
   on_delay_ms |-> 0, priority |-> "LOW", plant_state_mask |-> {"startup"}]

DelayedAlarm == [HighAlarm EXCEPT !.on_delay_ms = 1000]

LowAlarm ==
  [type |-> "LOW", setpoint |-> 1, deadband |-> 1, deviation_limit |-> 0,
   on_delay_ms |-> 0, priority |-> "HIGH", plant_state_mask |-> {}]

DeviationAlarm ==
  [HighAlarm EXCEPT !.type = "DEVIATION", !.deviation_limit = 2,
                    !.priority = "MEDIUM"]

Delayed       == <<DelayedAlarm>>
HighAndLow    == <<HighAlarm, LowAlarm>>
DeviationOnly == <<DeviationAlarm>>

Startup == {{}, {"startup"}}

(* An acknowledgement, a shelving with a reason and one that says nothing *)
(* about who and why, and a change requested while the clock is set back. *)
SomeRequests ==
  {[actor |-> "anna", action |-> "ACKNOWLEDGE", target |-> 1, reason |-> "",
    step |-> 1],
   [actor |-> "anna", action |-> "SHELVE", target |-> 1, reason |-> "noise",
    step |-> 0],
   [actor |-> "NULL", action |-> "SHELVE", target |-> 2, reason |-> "NULL",
    step |-> 1],
   [actor |-> "bert", action |-> "MOC_CREATE", target |-> 2,
    reason |-> "NULL", step |-> 0 - 1]}

TwoPriorities == <<"CRITICAL", "LOW">>

SomeGauges ==
  {[stale_24h_count |-> 0, chattering_alarms |-> 0,
    avg_response_time_sec |-> 30, coverage |-> 100],
   [stale_24h_count |-> 6, chattering_alarms |-> 31,
    avg_response_time_sec |-> 180, coverage |-> 60]}

SomeMadConfigs ==
  {[tag |-> "t1", priority |-> "HIGH", is_rationalized |-> FALSE],
   [tag |-> "t2", priority |-> "CRITICAL", is_rationalized |-> TRUE],
   [tag |-> "t3", priority |-> "LOW", is_rationalized |-> TRUE]}

SomeAssessments ==
  {[severity |-> 1, urgency |-> 0, consequence |-> TRUE,
    corrective_action |-> TRUE, time_to_respond |-> 60,
    can_be_eliminated |-> FALSE],
   [severity |-> 0, urgency |-> 1, consequence |-> TRUE,
    corrective_action |-> TRUE, time_to_respond |-> 59,
    can_be_eliminated |-> FALSE]}
=============================================================================
