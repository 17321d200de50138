------------------------------- MODULE DcsAlarm -----------------------------
(***************************************************************************)
(* The alarms of mini-dcs-system-architecture (dcs_alarm.c): the state of *)
(* each alarm as its values are processed and the operator acknowledges *)
(* and shelves it, the filter with hysteresis and delays, the flood *)
(* detection and the figures shown of the system. *)
(* *)
(* A value is only compared with a limit: it is above it or not, and for *)
(* the filter above the upper, below the lower or between the thresholds. *)
(* Left out: texts and the time stamps, which are all written as 0. *)
(***************************************************************************)
EXTENDS Integers, Sequences, FiniteSets, FiniteSetsExt

CONSTANTS
  DcsAlarms,     \* the alarm configurations
  Priority,      \* priority of each
  OnDelay,       \* on_delay_s of each
  OffDelay,      \* off_delay_s of each
  MaxSeconds,    \* bound: seconds the filter counts
  MaxTime,       \* bound: time stamps of the flood detection
  MaxBurst,      \* bound: alarms looked at by the flood detection
  FloodWindow,   \* window_min
  FloodThreshold \* threshold

ASSUME DcsAlarmAssumption ==
  /\ IsFiniteSet(DcsAlarms)
  /\ Priority \in [DcsAlarms -> 1 .. 5]
  /\ OnDelay \in [DcsAlarms -> Nat] /\ OffDelay \in [DcsAlarms -> Nat]
  /\ MaxSeconds \in Nat /\ MaxTime \in Nat /\ MaxBurst \in Nat
  /\ FloodWindow \in Nat \ {0} /\ FloodThreshold \in Nat \ {0}

VARIABLES
  alarm,   \* current_state of each alarm
  raised,  \* (model) whether the last value of each alarm was beyond its limit
  owed,    \* (model) alarms not acknowledged since they became active
  dropped, \* (model) those of them that left the shelf and were not raised since
  filter,  \* the static variables of the filter
  own,     \* (model) for each alarm, the seconds its own value has been above
  users,   \* (model) the alarms the filter was used for
  burst    \* alarm_timestamps, sorted

dcsAlarm == <<alarm, raised, owed, dropped, filter, own, users, burst>>

DcsAlarmState ==
  {"NORMAL", "UNACK_ACTIVE", "ACK_ACTIVE", "UNACK_CLEAR", "ACK_CLEAR", "SHELVED",
   "SUPPRESSED", "OUT_OF_SVC"}

DcsAlarmTypeOK ==
  /\ alarm \in [DcsAlarms -> DcsAlarmState]
  /\ raised \in [DcsAlarms -> BOOLEAN] /\ owed \subseteq DcsAlarms /\ dropped \subseteq owed
  /\ filter \in [above : 0 .. MaxSeconds, below : 0 .. MaxSeconds, was_active : BOOLEAN]
  /\ own \in [DcsAlarms -> 0 .. MaxSeconds] /\ users \subseteq DcsAlarms
  /\ burst \in Seq(0 .. MaxTime)

DcsAlarmInit ==
  /\ alarm = [a \in DcsAlarms |-> "NORMAL"]
  /\ raised = [a \in DcsAlarms |-> FALSE] /\ owed = {} /\ dropped = {}
  /\ filter = [above |-> 0, below |-> 0, was_active |-> FALSE]
  /\ own = [a \in DcsAlarms |-> 0] /\ users = {}
  /\ burst = << >>

-----------------------------------------------------------------------------
(* The state of an alarm. *)

AfterValue(state, active) ==
  CASE state \in {"NORMAL", "ACK_CLEAR", "UNACK_CLEAR"} /\ active -> "UNACK_ACTIVE"
    [] state \in {"UNACK_ACTIVE", "ACK_ACTIVE"} /\ ~active        -> "UNACK_CLEAR"
    [] OTHER                                                      -> state

dcs_alarm_process(a, active) ==
  /\ alarm[a] # "OUT_OF_SVC"
  /\ alarm' = [alarm EXCEPT ![a] = AfterValue(@, active)]
  /\ raised' = [raised EXCEPT ![a] = active]
  /\ IF alarm'[a] = "UNACK_ACTIVE"
     THEN owed' = owed \cup {a} /\ dropped' = dropped \ {a}
     ELSE UNCHANGED <<owed, dropped>>
  /\ UNCHANGED <<filter, own, users, burst>>

(* Mutant: one acknowledgement is enough for the alarm and its return. *)
AcknowledgedFromAny ==
  [UNACK_ACTIVE |-> "ACK_CLEAR", UNACK_CLEAR |-> "ACK_CLEAR"]

Acknowledged == [UNACK_ACTIVE |-> "ACK_ACTIVE", UNACK_CLEAR |-> "ACK_CLEAR"]

dcs_alarm_acknowledge(a) ==
  /\ alarm[a] \in DOMAIN Acknowledged
  /\ alarm' = [alarm EXCEPT ![a] = Acknowledged[@]]
  /\ owed' = owed \ {a}
  /\ UNCHANGED <<raised, dropped, filter, own, users, burst>>

(* The duration asked for is not kept, nor the state; an alarm that was not*)
(* acknowledged is shelved, too. *)
dcs_alarm_shelve(a) ==
  /\ alarm[a] \in {"ACK_ACTIVE", "UNACK_ACTIVE"}
  /\ alarm' = [alarm EXCEPT ![a] = "SHELVED"]
  /\ UNCHANGED <<raised, owed, dropped, filter, own, users, burst>>

(* After 60 minutes, whatever the state was before. *)
dcs_alarm_check_unshelve(a) ==
  /\ alarm[a] = "SHELVED"
  /\ alarm' = [alarm EXCEPT ![a] = "NORMAL"]
  /\ dropped' = dropped \cup ({a} \cap owed)
  /\ UNCHANGED <<raised, owed, filter, own, users, burst>>

(* The plant's logic suppresses an alarm or takes it out of service, and *)
(* puts it back. *)
Service(a) ==
  /\ \/ /\ alarm[a] = "NORMAL"
        /\ \E s \in {"SUPPRESSED", "OUT_OF_SVC"} : alarm' = [alarm EXCEPT ![a] = s]
     \/ /\ alarm[a] \in {"SUPPRESSED", "OUT_OF_SVC"}
        /\ alarm' = [alarm EXCEPT ![a] = "NORMAL"]
  /\ UNCHANGED <<raised, owed, dropped, filter, own, users, burst>>

StateNext ==
  \E a \in DcsAlarms :
    \/ \E active \in BOOLEAN : dcs_alarm_process(a, active)
    \/ dcs_alarm_acknowledge(a) \/ dcs_alarm_shelve(a)
    \/ dcs_alarm_check_unshelve(a) \/ Service(a)

-----------------------------------------------------------------------------
(* The filter. *)

Counted(seconds) == Min({seconds, MaxSeconds})

(* One second of value.  Between the thresholds nothing is counted and *)
(* nothing forgotten; all alarms share the variables. *)
Filtered(a, value) ==
  CASE value = "above" ->
         LET t == Counted(filter.above + 1)
         IN  [above |-> t, below |-> 0,
              was_active |-> filter.was_active \/ t >= OnDelay[a]]
    [] value = "below" ->
         LET t == Counted(filter.below + 1)
         IN  [above |-> 0, below |-> t,
              was_active |-> filter.was_active /\ t < OffDelay[a]]
    [] OTHER -> filter

dcs_alarm_evaluate_with_hysteresis(a, value) ==
  /\ filter' = Filtered(a, value)
  /\ own' = [own EXCEPT ![a] = CASE value = "above" -> Counted(@ + 1)
                                 [] value = "below" -> 0
                                 [] OTHER           -> @]
  /\ users' = users \cup {a}
  /\ UNCHANGED <<alarm, raised, owed, dropped, burst>>

FilterNext ==
  \E a \in DcsAlarms, value \in {"above", "between", "below"} :
    dcs_alarm_evaluate_with_hysteresis(a, value)

-----------------------------------------------------------------------------
(* Floods and figures. *)

Arrives(time) ==
  /\ Len(burst) < MaxBurst
  /\ burst # << >> => time >= burst[Len(burst)]
  /\ burst' = Append(burst, time)
  /\ UNCHANGED <<alarm, raised, owed, dropped, filter, own, users>>

BurstNext == \E time \in 0 .. MaxTime : Arrives(time)

InWindow(i) == {j \in i .. Len(burst) : burst[j] <= burst[i] + FloodWindow}

(* The first alarm that starts a flood and how many belong to it, or no *)
(* start. *)
dcs_alarm_detect_flood ==
  LET starts == {i \in DOMAIN burst : Cardinality(InWindow(i)) >= FloodThreshold}
  IN  IF starts = {} THEN [flood |-> FALSE, start |-> 0, count |-> 0]
      ELSE [flood |-> TRUE, start |-> Min(starts), count |-> Cardinality(InWindow(Min(starts)))]

(* activation_timestamp is 0 in every alarm, so that no alarm is stale. *)
dcs_alarm_calculate_kpi ==
  LET active == {a \in DcsAlarms : alarm[a] \in {"UNACK_ACTIVE", "ACK_ACTIVE"}}
      stirred == {a \in DcsAlarms :
                    alarm[a] \in {"UNACK_ACTIVE", "ACK_ACTIVE", "UNACK_CLEAR", "ACK_CLEAR"}}
  IN  [standing |-> Cardinality(active), activations |-> Cardinality(stirred),
       of_priority |-> [p \in 1 .. 5 |-> Cardinality({a \in DcsAlarms : Priority[a] = p})],
       acceptable |-> Cardinality(stirred) <= 6 * 24 /\ Cardinality(active) <= 10]

(* An alarm is justified when it has a description, an action of the *)
(* operator and a time to respond. *)
dcs_alarm_rationalize(a, described, action, responseTime) ==
  LET justified == described /\ action /\ responseTime > 0
  IN  [is_justified |-> justified, is_rationalized |-> justified,
       has_safety_consequence |-> justified /\ Priority[a] \in {1, 2}]

(* In thousandths: four times the noise, two per cent of the setpoint. *)
dcs_alarm_recommend_hysteresis(setpoint, noise) ==
  LET span == IF setpoint < 0 THEN -setpoint ELSE setpoint
  IN  Max({4 * noise, (span * 20) \div 1000, span \div 1000})

-----------------------------------------------------------------------------
(* Properties. *)

(* An alarm that became active is shown as unacknowledged until somebody *)
(* acknowledges or shelves it, and an alarm shown as acknowledged has been.*)
(* The shelf loses it: an alarm that leaves it is NORMAL, whatever it was *)
(* before (against dcs_alarm.c:234), and stays unseen until a value raises *)
(* it again. *)
OwedIsShown ==
  \A a \in DcsAlarms :
    /\ a \in owed \ dropped => alarm[a] \in {"UNACK_ACTIVE", "UNACK_CLEAR", "SHELVED"}
    /\ a \in dropped => alarm[a] \in {"NORMAL", "SUPPRESSED", "OUT_OF_SVC"}
    /\ alarm[a] \in {"ACK_ACTIVE", "ACK_CLEAR"} => a \notin owed
    /\ alarm[a] = "ACK_CLEAR" => ~raised[a]
    /\ dcs_alarm_calculate_kpi.standing <= dcs_alarm_calculate_kpi.activations

(* A condition that lasts, its value being processed, is announced again *)
(* whatever was acknowledged or cleared before. *)
Reannounced ==
  \A a \in DcsAlarms :
    raised[a] ~> ~raised[a] \/ alarm[a] \in {"UNACK_ACTIVE", "ACK_ACTIVE", "SHELVED", "SUPPRESSED", "OUT_OF_SVC"}

(* A flood is reported exactly when threshold alarms arrived within a *)
(* window, and it starts at the first alarm of the first such window. *)
FloodIsExact ==
  dcs_alarm_detect_flood.flood
    <=> \E S \in SUBSET DOMAIN burst :
          /\ Cardinality(S) = FloodThreshold
          /\ \A i, j \in S : burst[i] - burst[j] <= FloodWindow

(* "Activation: PV > setpoint + hysteresis/2 for on_delay_s seconds" *)
(* (dcs_alarm.c:138): an evaluation that switches the filter on is one of *)
(* an alarm whose own value has been above for its delay.  This is so as *)
(* long as one alarm alone uses the filter: its timers are static, and two *)
(* alarms evaluated in turn share them. *)
ActivationTakesDelay ==
  [][\A a \in DcsAlarms :
       users' = {a} /\ filter'.was_active /\ ~filter.was_active
         => own'[a] >= OnDelay[a]]_<<filter, own, users>>
=============================================================================
