---------------------------- MODULE AlarmSystem -----------------------------
(***************************************************************************)
(* The ISA-18.2 alarm system at run time: scans of the alarm engine, *)
(* operators who acknowledge, shelve, extend and unshelve, the periodic *)
(* automatic unshelving and flood check, and a plant that moves.  The *)
(* alarms are shared by all of them; every call is atomic, and any order *)
(* of calls is possible. *)
(***************************************************************************)
EXTENDS AlarmCore, FiniteSets

CONSTANTS
  Horizon,      \* last instant of the model
  Values,       \* process values the plant may show
  Plants,       \* plant states, each a set of state bits
  Durations,    \* durations asked for when shelving or extending
  Approvers,    \* approvers named; NoApprover, the empty name, among them
  MaxShelveId,  \* bound: shelvings stop before the identifiers pass it,
  MaxActive     \* and once active_alarms has drifted this far

ASSUME AlarmAssumption ==
  /\ NAlarms \in Nat \ {0} /\ Horizon \in Nat \ {0}
  /\ MaxShelve \in Nat /\ MaxTotalShelve \in Nat /\ MaxShelved \in Nat
  /\ MaxShelve <= MaxTotalShelve
  /\ FloodWindow \in Nat \ {0} /\ FloodThreshold \in Nat \ {0}
  /\ MaxEvents \in Nat /\ Durations \subseteq Nat \ {0}
  /\ NoApprover \in Approvers

VARIABLES
  now,             \* the caller's clock
  pv,              \* process_values
  state,           \* current_state of each alarm
  is_suppressed,
  is_shelved,
  shelve_expiry,
  shelved,         \* the shelving records, in the order of the array
  active_alarms,
  event_count,     \* recent_events in use
  flood            \* flood_detector

vars == <<now, pv, state, is_suppressed, is_shelved, shelve_expiry, shelved,
          active_alarms, event_count, flood>>

engine   == <<active_alarms, event_count, flood>>
shelving == <<is_shelved, shelve_expiry, shelved>>

(* What a caller may pass as the approver. *)
Approvals == Approvers \cup {NullApprover}

(* The clock starts at 1: a window_start of 0 means that none is open. *)
Time == 1 .. Horizon

ShelveRecord ==
  [shelve_id : Nat, alarm_id : Alarm, shelve_start : Time, shelve_end : Nat,
   approver_id : Approvers, is_approved : BOOLEAN, is_active : BOOLEAN,
   extension_count : 0 .. MaxExtensions]

AlarmTypeOK ==
  /\ now \in Time
  /\ pv \in [Alarm -> Values]
  /\ state \in [Alarm -> State]
  /\ is_suppressed \in [Alarm -> BOOLEAN]
  /\ is_shelved \in [Alarm -> BOOLEAN]
  /\ shelve_expiry \in [Alarm -> Nat]
  /\ shelved \in Seq(ShelveRecord) /\ Len(shelved) <= MaxShelved
  /\ active_alarms \in Nat
  /\ event_count \in 0 .. MaxEvents
  /\ flood \in [window_start : Time, alarms_in_window : 0 .. FloodThreshold,
                is_flood_active : BOOLEAN]

Init ==
  /\ now = 1
  /\ pv \in [Alarm -> Values]
  /\ state = [a \in Alarm |-> "NORMAL"]
  /\ is_suppressed = [a \in Alarm |-> FALSE]
  /\ is_shelved = [a \in Alarm |-> FALSE]
  /\ shelve_expiry = [a \in Alarm |-> 0]
  /\ shelved = << >>
  /\ active_alarms = 0
  /\ event_count = 0
  /\ flood = [window_start |-> 1, alarms_in_window |-> 0,
              is_flood_active |-> FALSE]

-----------------------------------------------------------------------------
(* The environment. *)

Tick ==
  /\ now < Horizon
  /\ now' = now + 1
  /\ UNCHANGED <<pv, state, is_suppressed, shelving, engine>>

ProcessMoves(a, v) ==
  /\ pv' = [pv EXCEPT ![a] = v]
  /\ UNCHANGED <<now, state, is_suppressed, shelving, engine>>

(* The plant changes state and the caller applies the suppression masks. *)
PlantChanges(p) ==
  /\ is_suppressed' =
       [a \in Alarm |->
          suppression_by_plant_state(Config[a].plant_state_mask, p)]
  /\ UNCHANGED <<now, pv, state, shelving, engine>>

-----------------------------------------------------------------------------
(* isa18_engine_scan. *)

Activates(from, to) == to = "ACTIVE_UNACK" /\ from # to

Deactivates(from, to) ==
  from \in Active /\ to \in {"RTN_UNACK", "CLEARED", "NORMAL"}

(* Once recent_events is full, further events are dropped. *)
log_event(n) == IF n < MaxEvents THEN n + 1 ELSE n

(* One turn of the loop: s holds the alarm states and what alarms share. *)
scan_alarm(s, a) ==
  LET from == s.state[a]
      raw  == condition_of(a, pv[a])
      cond == raw /\ ~ OnDelayRunning(a, from, now)
      to   == alarm_state_transition(from, cond, FALSE, is_suppressed[a],
                                     is_shelved[a])
      up   == Activates(from, to)
  IN  [state  |-> [s.state EXCEPT ![a] = to],
       active |-> IF up THEN s.active + 1
                  ELSE IF Deactivates(from, to) /\ s.active > 0
                       THEN s.active - 1 ELSE s.active,
       events |-> IF to # from THEN log_event(s.events) ELSE s.events,
       flood  |-> IF up THEN flood_detector_update(s.flood, now) ELSE s.flood]

scanned ==
  LET start == [state |-> state, active |-> active_alarms,
                events |-> event_count, flood |-> flood]
      after[a \in 0 .. NAlarms] ==
        IF a = 0 THEN start ELSE scan_alarm(after[a - 1], a)
  IN  after[NAlarms]

Scan ==
  LET s == scanned IN
  /\ state' = s.state
  /\ active_alarms' = s.active
  /\ event_count' = s.events
  /\ flood' = s.flood
  /\ UNCHANGED <<now, pv, is_suppressed, shelving>>

(* isa18_flood_detector_check, which the caller polls. *)
FloodCheck ==
  /\ flood' = flood_detector_check(flood, now)
  /\ UNCHANGED <<now, pv, state, is_suppressed, shelving, active_alarms,
                 event_count>>

-----------------------------------------------------------------------------
(* Operators. *)

(* isa18_engine_acknowledge takes the condition from the state. *)
Acknowledge(a) ==
  /\ state[a] \in {"ACTIVE_UNACK", "RTN_UNACK"}
  /\ state' = [state EXCEPT ![a] =
       alarm_state_transition(@, @ = "ACTIVE_UNACK", TRUE, FALSE, FALSE)]
  /\ UNCHANGED <<now, pv, is_suppressed, shelving, engine>>

Shelve(a, duration, approver) ==
  /\ now + duration <= Horizon
  /\ next_shelve_id(shelved) <= MaxShelveId /\ active_alarms < MaxActive
  /\ validate_shelve(a, state[a], is_shelved[a], Len(shelved), duration,
                     approver)
  /\ shelved' = Append(shelved,
       [shelve_id |-> next_shelve_id(shelved), alarm_id |-> a,
        shelve_start |-> now, shelve_end |-> now + duration,
        approver_id |-> copied(NoApprover, approver),
        is_approved |-> approver \notin {NoApprover, NullApprover},
        is_active |-> TRUE, extension_count |-> 0])
  /\ is_shelved' = [is_shelved EXCEPT ![a] = TRUE]
  /\ shelve_expiry' = [shelve_expiry EXCEPT ![a] = now + duration]
  /\ UNCHANGED <<now, pv, state, is_suppressed, engine>>

Unshelve(a) ==
  /\ is_shelved[a] /\ ActiveRecords(shelved, a) # {}
  /\ shelved' = drop_record(shelved, a)
  /\ is_shelved' = [is_shelved EXCEPT ![a] = FALSE]
  /\ shelve_expiry' = [shelve_expiry EXCEPT ![a] = 0]
  /\ state' = [state EXCEPT ![a] = "NORMAL"]
  /\ UNCHANGED <<now, pv, is_suppressed, engine>>

(* Mutant: an alarm is unshelved the instant after its expiry. *)
ExpiredBefore(a) == is_shelved[a] /\ shelve_expiry[a] < now

Expired(a) == is_shelved[a] /\ shelve_expiry[a] <= now

(* isa18_auto_unshelve_expired, alarm after alarm. *)
AutoUnshelve ==
  LET kept[a \in 0 .. NAlarms] ==
        IF a = 0 THEN shelved
        ELSE IF Expired(a) THEN drop_record(kept[a - 1], a) ELSE kept[a - 1]
  IN  /\ shelved' = kept[NAlarms]
      /\ is_shelved' = [a \in Alarm |-> is_shelved[a] /\ ~ Expired(a)]
      /\ shelve_expiry' =
           [a \in Alarm |-> IF Expired(a) THEN 0 ELSE shelve_expiry[a]]
      /\ state' = [a \in Alarm |-> IF Expired(a) THEN "NORMAL" ELSE state[a]]
      /\ UNCHANGED <<now, pv, is_suppressed, engine>>

(* Only the record is extended: shelve_expiry, which AutoUnshelve reads, *)
(* belongs to the alarm and keeps its value.  An approver who is passed *)
(* replaces the one stored, an empty name too; either way the record is *)
(* marked as approved. *)
Extend(i, more, approver) ==
  LET r == shelved[i] IN
  /\ r.is_active /\ r.extension_count < MaxExtensions
  /\ r.shelve_end + more - r.shelve_start <= MaxTotalShelve
  /\ shelved' = [shelved EXCEPT ![i] =
       [r EXCEPT !.shelve_end      = @ + more,
                 !.extension_count = @ + 1,
                 !.approver_id     = copied(@, approver),
                 !.is_approved     = TRUE]]
  /\ UNCHANGED <<now, pv, state, is_suppressed, is_shelved, shelve_expiry,
                 engine>>

Next ==
  \/ Tick
  \/ \E a \in Alarm, v \in Values : ProcessMoves(a, v)
  \/ \E p \in Plants : PlantChanges(p)
  \/ Scan
  \/ FloodCheck
  \/ \E a \in Alarm : Acknowledge(a)
  \/ \E a \in Alarm, d \in Durations, who \in Approvals : Shelve(a, d, who)
  \/ \E a \in Alarm : Unshelve(a)
  \/ AutoUnshelve
  \/ \E i \in DOMAIN shelved, d \in Durations, who \in Approvals :
       Extend(i, d, who)

Spec == Init /\ [][Next]_vars

(* The control loop scans, polls the automatic unshelving and the clock *)
(* advances; operators and the plant do what they like. *)
ControlLoop == WF_vars(Tick) /\ WF_vars(Scan) /\ WF_vars(AutoUnshelve)

FairSpec == Spec /\ ControlLoop

-----------------------------------------------------------------------------
(* Properties. *)

(* The shelved flag of an alarm and the array of records agree: one record *)
(* for a shelved alarm and none for another, whatever was compacted away, *)
(* with identifiers in the order of shelving. *)
RecordPerShelvedAlarm ==
  /\ \A a \in Alarm :
       Cardinality(ActiveRecords(shelved, a)) = IF is_shelved[a] THEN 1 ELSE 0
  /\ \A i, j \in DOMAIN shelved :
       i < j => shelved[i].shelve_id < shelved[j].shelve_id

(* What becomes of a shelving and of the two ends it has, whatever is *)
(* shelved, extended, unshelved and compacted.  Nobody shelves a CRITICAL *)
(* alarm, and a HIGH one only with an approver, whose name lasts until the *)
(* first extension: every extended record counts as approved, named or *)
(* not.  Extensions move the end in the record alone, within the total *)
(* allowed: the alarm comes back when its first duration is over, at most *)
(* MaxShelve after its shelving. *)
ShelvePolicy ==
  \A i \in DOMAIN shelved :
    LET r == shelved[i]
        a == r.alarm_id
    IN  /\ Config[a].priority # "CRITICAL"
        /\ r.is_approved <=> r.extension_count > 0 \/ r.approver_id # NoApprover
        /\ Config[a].priority = "HIGH" => r.is_approved
        /\ r.shelve_end - r.shelve_start <= MaxTotalShelve
        /\ shelve_expiry[a] - r.shelve_start \in 1 .. MaxShelve
        /\ shelve_expiry[a] <= r.shelve_end
        /\ shelve_expiry[a] = r.shelve_end <=> r.extension_count = 0

(* An alarm that nobody has acknowledged is not lost: it goes back to *)
(* NORMAL or CLEARED only through an acknowledgement or an unshelving. *)
UnackNotLost ==
  [][\A a \in Alarm :
       /\ state[a] \in {"ACTIVE_UNACK", "RTN_UNACK"}
       /\ state'[a] \in {"NORMAL", "CLEARED"}
       => Acknowledge(a) \/ (is_shelved[a] /\ ~ is_shelved'[a])]_vars

(* The counter the displays read never misses an active alarm. *)
ActiveCountCovers ==
  active_alarms >= Cardinality({a \in Alarm : state[a] \in Active})

(* An alarm without an on-delay whose condition lasts, and which is *)
(* neither shelved nor suppressed meanwhile, is announced. *)
ConditionAnnounced ==
  \A a \in Alarm :
    Config[a].on_delay_ms = 0 =>
      (/\ condition_of(a, pv[a]) /\ ~ is_suppressed[a] /\ ~ is_shelved[a])
      ~> (\/ state[a] \in Active \/ ~ condition_of(a, pv[a])
          \/ is_suppressed[a] \/ is_shelved[a])

(* No shelving lasts for ever, however often it is extended. *)
ShelvesEnd == \A a \in Alarm : is_shelved[a] ~> ~ is_shelved[a]

-----------------------------------------------------------------------------
(* What the comments of the code promise and the code does not keep. *)

(* "condition_active AND !suppressed AND !shelved AND on_delay expired": *)
(* an alarm with an on-delay whose condition lasts is announced. *)
DelayedConditionAnnounced ==
  \A a \in Alarm :
    Config[a].on_delay_ms > 0 =>
      ~ <>[](/\ condition_of(a, pv[a]) /\ ~ is_suppressed[a]
             /\ ~ is_shelved[a] /\ state[a] = "NORMAL")
=============================================================================
