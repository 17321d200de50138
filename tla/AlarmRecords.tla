---------------------------- MODULE AlarmRecords ----------------------------
(***************************************************************************)
(* What the ISA-18.2 library keeps about the alarms besides running them: *)
(* the audit trail (alarm_audit_trail.c), a ring of entries that carry the *)
(* hash of the entry before; the indicators (alarm_kpi_metrics.c), counts, *)
(* the chattering detector and the rolling history of a day; the master *)
(* alarm database and its rationalization (alarm_rationalization.c). *)
(* *)
(* Left out: the texts of reports, the CSV export, workstations, old and *)
(* new values, alarm classes.  Times are whole seconds of a small clock. *)
(***************************************************************************)
EXTENDS AlarmCore, FiniteSets

CONSTANTS
  RingSize,       \* ISA18_AUDIT_RING_BUFFER_SIZE
  Requests,       \* calls to log: [actor, action, target, reason, step]
  MaxLogged,      \* bound: entries logged, past the size of the ring
  QueryMax,       \* max_results
  KpiPriority,    \* per alarm of the indicators: its priority
  NumOperators,   \* number_of_operators
  KpiPeriods,     \* seconds since period_start
  Gauges,         \* counts and averages the caller writes into the indicators
  MaxKpiEvents,   \* bound: activations counted
  ChatterThreshold, ChatterWindow,   \* ISA18_CHATTER_*
  Gaps,           \* seconds between two transitions
  MaxTransitions, \* bound: transitions fed to the detector
  Day,            \* 86400 s, the age of the rolling history
  MaxHistory,     \* max_entries of the rolling history
  MaxRecorded,    \* bound: events offered to the rolling history
  MadConfigs,     \* alarms offered: [tag, priority, is_rationalized]
  MadCapacity,    \* ISA18_MAX_ALARM_POINTS
  CountRange,     \* rationalized_count is an unsigned modulo this
  Assessments,    \* what a team finds out about an alarm
  Members,        \* names of the team
  MaxFlips        \* bound: changes of is_rationalized by apply_to_alarm

Priority == {"CRITICAL", "HIGH", "MEDIUM", "LOW"}

NoText == "NULL"

Ruined == 9     \* what a damaged entry names as its target

(* Sizes and times as the code declares them; a clock set back goes back *)
(* by a second; no request is for the target damage leaves behind. *)
ASSUME RecordsAssumption ==
  /\ RingSize \in Nat \ {0, 1} /\ MaxHistory \in Nat \ {0}
  /\ ChatterThreshold \in Nat \ {0} /\ NumOperators \in Nat \ {0}
  /\ MaxLogged \in Nat /\ QueryMax \in Nat
  /\ Requests \subseteq [actor : STRING, action : STRING, target : Nat \ {Ruined},
                         reason : STRING, step : {0 - 1, 0, 1}]
  /\ KpiPriority \in Seq(Priority) /\ KpiPeriods \subseteq Nat
  /\ ChatterWindow \in Nat /\ Gaps \subseteq Nat /\ Day \in Nat
  /\ MadConfigs \subseteq [tag : STRING, priority : Priority, is_rationalized : BOOLEAN]
  /\ MadCapacity \in Nat /\ CountRange \in Nat \ {0} /\ MaxFlips \in Nat
  /\ Assessments \subseteq
       [severity : 0 .. 3, urgency : 0 .. 3, consequence : BOOLEAN,
        corrective_action : BOOLEAN, time_to_respond : Nat,
        can_be_eliminated : BOOLEAN]

VARIABLES
  audit,      \* isa18_audit_system_t; logged, changes and damage: history
  kpi,        \* isa18_kpi_counts_t and the states of its alarms
  chatter,    \* isa18_chattering_detector_t; since, calls:
              \* history
  rolling,    \* the history array and its clock; offered: history
  mad         \* isa18_master_alarm_database_t and the record being filled;
              \* flips, gap: history

recordVars == <<audit, kpi, chatter, rolling, mad>>

-----------------------------------------------------------------------------
(* The audit trail. *)

AuditInit ==
  audit =
    [entries |-> [i \in 0 .. RingSize - 1 |->
                    [entry_id |-> 0, timestamp |-> 0, actor |-> "",
                     action |-> "", target |-> 0, reason |-> "",
                     previous_entry_hash |-> << >>]],
     ring_pos |-> 0, entry_count |-> 0, next_entry_id |-> 1,
     clock |-> MaxLogged + 1, logged |-> << >>, changes |-> {},
     damage |-> [id |-> 0, sealed |-> FALSE]]

(* A null argument leaves what the overwritten entry held. *)
Written(old, new) == IF new = NoText THEN old ELSE new

(* FNV-1a over the entry, its link included: without collisions. *)
compute_entry_hash(e) ==
  <<e.entry_id, e.timestamp, e.actor, e.action, e.target, e.reason,
    e.previous_entry_hash>>

(* Mutant: the link of the first slot is taken from the slot itself. *)
PreviousNotWrapped(pos) == IF pos = 0 THEN 0 ELSE pos - 1

Previous(pos) == IF pos = 0 THEN RingSize - 1 ELSE pos - 1

audit_log_event(t, actor, action, target, reason, time) ==
  LET old == t.entries[t.ring_pos]
      entry ==
        [entry_id |-> t.next_entry_id, timestamp |-> time,
         actor |-> Written(old.actor, actor), action |-> action,
         target |-> target, reason |-> Written(old.reason, reason),
         previous_entry_hash |->
           IF t.entry_count > 0
           THEN compute_entry_hash(t.entries[Previous(t.ring_pos)])
           ELSE << >>]
  IN  [t EXCEPT !.entries[t.ring_pos] = entry,
                !.ring_pos            = (@ + 1) % RingSize,
                !.entry_count         = @ + 1,
                !.next_entry_id       = @ + 1]

(* The entries kept, the oldest first, as every reader walks the ring. *)
read_order(t) ==
  LET total == IF t.entry_count < RingSize THEN t.entry_count ELSE RingSize
  IN  [i \in 1 .. total |->
         t.entries[IF t.entry_count > RingSize
                   THEN (t.ring_pos + i - 1) % RingSize ELSE i - 1]]

(* What a loop over s collects that takes the entries at the places in I. *)
Gathered(s, I) ==
  LET taken[i \in 0 .. Len(s)] ==
        IF i = 0 THEN << >>
        ELSE IF i \in I THEN Append(taken[i - 1], s[i]) ELSE taken[i - 1]
  IN  taken[Len(s)]

Oldest(s, n) == IF Len(s) > n THEN SubSeq(s, 1, n) ELSE s

query_by_time(t, from, to) ==
  LET ring == read_order(t) IN
  Oldest(Gathered(ring, {i \in DOMAIN ring : ring[i].timestamp \in from .. to}),
         QueryMax)

query_by_alarm(t, alarm) ==
  LET ring == read_order(t) IN
  Oldest(Gathered(ring, {i \in DOMAIN ring : ring[i].target = alarm}), QueryMax)

query_by_operator(t, actor) ==
  LET ring == read_order(t) IN
  Oldest(Gathered(ring, {i \in DOMAIN ring : ring[i].actor = actor}), QueryMax)

(* The checksum of an entry is stored and compared with nothing. *)
verify_chain(t) ==
  LET ring == read_order(t) IN
  \A i \in 2 .. Len(ring) :
    ring[i].previous_entry_hash = compute_entry_hash(ring[i - 1])

InTimeOrder(s) ==
  \A i \in 2 .. Len(s) : s[i - 1].timestamp <= s[i].timestamp

compliance_check(t) ==
  LET ring == read_order(t) IN
  /\ InTimeOrder(ring)
  /\ \A i \in DOMAIN ring : ring[i].actor # ""
  /\ verify_chain(t)
  /\ \A i \in DOMAIN ring : ring[i].entry_id = ring[1].entry_id + i - 1
  /\ \A i \in DOMAIN ring : ring[i].action = "SHELVE" => ring[i].reason # ""

(* MOC Records in Period, of the regulatory report. *)
moc_count(t, from, to) ==
  LET ring == read_order(t) IN
  Cardinality({i \in DOMAIN ring : /\ ring[i].action = "MOC_CREATE"
                                   /\ ring[i].timestamp \in from .. to})

(* The response time of an acknowledgement is counted from whatever the *)
(* operator did before. *)
shift_summary(t, operator, from, to) ==
  LET ring == read_order(t)
      own  == Gathered(ring, {i \in DOMAIN ring : /\ ring[i].actor = operator
                                                  /\ ring[i].timestamp \in from .. to})
      acks == {i \in DOMAIN own : own[i].action = "ACKNOWLEDGE"}
  IN  [total_acks |-> Cardinality(acks),
       total_response_time |->
         MapThenSumSet(LAMBDA i : own[i].timestamp - own[i - 1].timestamp,
                       acks \ {1})]

(* A call to isa18_audit_log_event or, for a management of change, to *)
(* isa18_audit_moc_record, by a caller whose clock may be set back. *)
LogEvent(r) ==
  /\ audit.entry_count < MaxLogged
  /\ LET moc    == r.action = "MOC_CREATE"
         reason == IF moc /\ r.reason = NoText THEN "" ELSE r.reason
         time   == audit.clock + r.step
     IN  audit' = [audit_log_event(audit, r.actor, r.action, r.target, reason,
                                   time) EXCEPT
           !.clock   = time,
           !.logged  = Append(@, [r EXCEPT !.step = time]),
           !.changes = IF moc THEN @ \cup {[moc_id   |-> audit.next_entry_id,
                                            alarm_id |-> r.target]}
                       ELSE @]

(* Somebody changes an entry in memory; sealed: its successor exists. *)
DamageEntry(i) ==
  /\ audit.damage.id = 0 /\ audit.entries[i].entry_id # 0
  /\ audit' = [audit EXCEPT
       !.entries[i].target = Ruined,
       !.damage = [id     |-> audit.entries[i].entry_id,
                   sealed |-> audit.entries[i].entry_id < audit.entry_count]]

AuditNext ==
  \/ \E r \in Requests : LogEvent(r)
  \/ \E i \in 0 .. RingSize - 1 : DamageEntry(i)

-----------------------------------------------------------------------------
(* The counts of the indicators, fed with the transitions of the state *)
(* machine and with alarms set to NORMAL when they are unshelved. *)

KpiInit ==
  kpi = [state |-> [a \in DOMAIN KpiPriority |-> "NORMAL"],
         alarms_per_day |-> 0, critical_per_day |-> 0,
         active_alarm_count |-> 0, peak_10min_rate |-> 0]

LeavesCount(from, to) == from \in Active /\ to \in {"CLEARED", "NORMAL"}

(* A return to normal does not lower active_alarm_count, and a come-back *)
(* raises it again. *)
update_with_event(k, a, from, to) ==
  LET new    == from = "NORMAL" /\ to = "ACTIVE_UNACK"
      active == IF to = "ACTIVE_UNACK" THEN k.active_alarm_count + 1
                ELSE IF LeavesCount(from, to) /\ k.active_alarm_count > 0
                     THEN k.active_alarm_count - 1
                     ELSE k.active_alarm_count
  IN  [k EXCEPT
        !.alarms_per_day     = IF new THEN @ + 1 ELSE @,
        !.critical_per_day   = IF new /\ KpiPriority[a] = "CRITICAL"
                               THEN @ + 1 ELSE @,
        !.active_alarm_count = active,
        !.peak_10min_rate    = IF to = "ACTIVE_UNACK" /\ active > @
                               THEN active ELSE @,
        !.state[a]           = to]

Transition(a) ==
  /\ kpi.active_alarm_count < MaxKpiEvents /\ kpi.alarms_per_day < MaxKpiEvents
  /\ \E condition, ack, unshelved \in BOOLEAN :
       LET from == kpi.state[a]
           to   == IF unshelved THEN "NORMAL"
                   ELSE alarm_state_transition(from, condition, ack, FALSE,
                                               FALSE)
       IN  to # from /\ kpi' = update_with_event(kpi, a, from, to)

(* isa18_kpi_calc_alarms_per_day of the period reaches the limit. *)
per_day_reaches(k, period, limit) ==
  period > 0 /\ k.alarms_per_day * 86400 >= limit * period * NumOperators

(* isa18_kpi_calc_priority_distribution: critical alarms above pct. *)
critical_above(k, pct) ==
  k.alarms_per_day > 0 /\ 100 * k.critical_per_day > pct * k.alarms_per_day

eemua_scores(k, period, g) ==
  LET Above(x, limits) == Cardinality({l \in limits : x > l}) IN
  <<4 - Cardinality({l \in {75, 150, 300, 600} : per_day_reaches(k, period, l)}),
    4 - Above(k.peak_10min_rate, {5, 10, 30, 50}),
    4 - Above(g.stale_24h_count, {0, 5, 20, 50}),
    4 - Cardinality({l \in {5, 10, 20, 30} : critical_above(k, l)}),
    4 - Above(g.chattering_alarms, {0, 3, 10, 30}),
    4 - Cardinality({l \in {60, 180, 300, 600} : g.avg_response_time_sec >= l}),
    Cardinality({l \in {50, 80, 95, 100} : g.coverage >= l})>>

(* In hundredths of the weights and quarters of the scores, of 400.  The *)
(* distribution of the priorities has no weight. *)
overall_health(k, period, g) ==
  LET s == eemua_scores(k, period, g) IN
  25 * s[1] + 25 * s[2] + 15 * s[3] + 0 * s[4] + 10 * s[5] + 15 * s[6] + 10 * s[7]

-----------------------------------------------------------------------------
(* The chattering detector: a ring of ChatterThreshold + 2 times of which *)
(* all but the last slot are looked at. *)

ChatterInit ==
  chatter = [transition_times |-> [i \in 0 .. ChatterThreshold + 1 |-> 0],
             transition_count |-> 0, is_chattering |-> FALSE,
             total_chattering_events |-> 0, clock |-> 1, since |-> << >>, calls |-> 0]

detect_chattering(d, time) ==
  LET times == [d.transition_times EXCEPT
                  ![d.transition_count % (ChatterThreshold + 2)] = time]
      count == d.transition_count + 1
      check == IF count > ChatterThreshold + 1 THEN ChatterThreshold + 1
               ELSE count
      in_window == Cardinality({i \in 0 .. check - 1 :
                                  time - times[i] \in 0 .. ChatterWindow})
      flag == IF count < ChatterThreshold THEN d.is_chattering
              ELSE in_window >= ChatterThreshold
  IN  [d EXCEPT !.transition_times = times, !.transition_count = count,
                !.is_chattering = flag,
                !.total_chattering_events =
                  IF flag /\ ~ d.is_chattering THEN @ + 1 ELSE @]

ChatterTransition(gap) ==
  /\ chatter.calls < MaxTransitions
  /\ LET time == chatter.clock + gap IN
     chatter' = [detect_chattering(chatter, time) EXCEPT
                   !.clock = time, !.since = Append(@, time), !.calls = @ + 1]

ChatterReset ==
  /\ chatter.transition_count > 0
  /\ chatter' = [chatter EXCEPT
       !.transition_times = [i \in DOMAIN @ |-> 0], !.transition_count = 0,
       !.is_chattering = FALSE, !.since = << >>]

-----------------------------------------------------------------------------
(* The rolling history of a day. *)

RollingInit == rolling = [history |-> << >>, clock |-> 1, offered |-> << >>]

Young(h, time) == Gathered(h, {i \in DOMAIN h : h[i].timestamp >= time - Day})

rolling_window_update(h, e, time) ==
  IF Len(Young(h, time)) < MaxHistory THEN Append(Young(h, time), e)
  ELSE Young(h, time)

Record(alarm, gap) ==
  /\ Len(rolling.offered) < MaxRecorded
  /\ LET time == rolling.clock + gap
         e    == [alarm_id |-> alarm, timestamp |-> time]
         h    == rolling_window_update(rolling.history, e, time)
     IN  rolling' = [history |-> h, clock |-> time,
                     offered |-> Append(rolling.offered,
                       [event |-> e,
                        kept  |-> Len(h) > Len(Young(rolling.history, time))])]

(* Two ends move over the history, which is sorted. *)
calc_peak_rate(h, window) ==
  LET at[r \in 0 .. Len(h)] ==
        IF r = 0 THEN [left |-> 1, peak |-> 0]
        ELSE LET before == at[r - 1]
                 left == CHOOSE l \in before.left .. r :
                   /\ l = r \/ h[r].timestamp - h[l].timestamp <= window
                   /\ \A m \in before.left .. l - 1 :
                        h[r].timestamp - h[m].timestamp > window
             IN  [left |-> left,
                  peak |-> IF r - left + 1 > before.peak THEN r - left + 1
                           ELSE before.peak]
  IN  at[Len(h)].peak

(* The alarms by their number of entries, the first seen before its equals.*)
top_n_frequent(h, n) ==
  LET ids == {h[i].alarm_id : i \in DOMAIN h}
      Places(a) == {i \in DOMAIN h : h[i].alarm_id = a}
      First(a) == CHOOSE i \in Places(a) : \A j \in Places(a) : i <= j
      Before(a, b) ==
        \/ Cardinality(Places(a)) > Cardinality(Places(b))
        \/ Cardinality(Places(a)) = Cardinality(Places(b)) /\ First(a) < First(b)
      Ranked(i) == CHOOSE a \in ids : Cardinality({b \in ids : Before(b, a)}) = i - 1
      k == Cardinality(ids)
  IN  [i \in 1 .. (IF k < n THEN k ELSE n) |->
         [alarm_id |-> Ranked(i),
          occurrence_count |-> Cardinality(Places(Ranked(i)))]]

-----------------------------------------------------------------------------
(* The master alarm database and the record of a rationalization. *)

BlankRecord == [priority |-> "LOW", is_justified |-> FALSE, team |-> << >>]

MadInit == mad = [alarms |-> << >>, rationalized_count |-> 0,
                  record |-> BlankRecord, flips |-> 0, gap |-> FALSE]

(* By severity, the worst first, and urgency, the most urgent first. *)
assign_priority_matrix(severity, urgency) ==
  <<<<"CRITICAL", "CRITICAL", "HIGH", "MEDIUM">>,
    <<"CRITICAL", "HIGH", "MEDIUM", "LOW">>,
    <<"HIGH", "MEDIUM", "MEDIUM", "LOW">>,
    <<"MEDIUM", "LOW", "LOW", "LOW">>>>[severity + 1][urgency + 1]

check_alarm_justified(x) ==
  x.consequence /\ x.corrective_action /\ x.time_to_respond >= 60
  /\ ~ x.can_be_eliminated

(* isa18_rationalization_init_record *)
NewRecord ==
  mad.record # BlankRecord /\ mad' = [mad EXCEPT !.record = BlankRecord]

team_add_member(m) ==
  /\ Len(mad.record.team) < 10
  /\ \A i \in DOMAIN mad.record.team : mad.record.team[i] # m
  /\ mad' = [mad EXCEPT !.record.team = Append(@, m)]

(* isa18_rationalization_set_outcome with the two assessments above. *)
set_outcome(x) ==
  mad' = [mad EXCEPT
    !.record.priority     = assign_priority_matrix(x.severity, x.urgency),
    !.record.is_justified = check_alarm_justified(x)]

BoolToInt(b) == IF b THEN 1 ELSE 0

(* rationalized_count is left alone. *)
apply_to_alarm(i) ==
  LET r    == mad.record
      flip == BoolToInt(r.is_justified) - BoolToInt(mad.alarms[i].is_rationalized)
  IN  /\ mad.flips + flip \in (0 - MaxFlips) .. MaxFlips
      /\ mad' = [mad EXCEPT
           !.alarms[i].priority        = r.priority,
           !.alarms[i].is_rationalized = r.is_justified,
           !.alarms[i].has_consequence = @ \/ r.is_justified,
           !.flips = @ + flip]

mad_add_alarm(c) ==
  /\ Len(mad.alarms) < MadCapacity
  /\ \A i \in DOMAIN mad.alarms : mad.alarms[i].tag # c.tag
  /\ mad' = [mad EXCEPT
       !.alarms = Append(@, [alarm_id |-> Len(mad.alarms) + 1, tag |-> c.tag,
                             priority |-> c.priority,
                             is_rationalized |-> c.is_rationalized,
                             has_consequence |-> c.is_rationalized]),
       !.rationalized_count = (@ + BoolToInt(c.is_rationalized)) % CountRange]

(* isa18_mad_find_by_id and the removal: the first of equal identifiers. *)
find_by_id(alarms, id) ==
  LET hits == {i \in DOMAIN alarms : alarms[i].alarm_id = id} IN
  IF hits = {} THEN 0 ELSE CHOOSE i \in hits : \A j \in hits : i <= j

mad_remove_alarm(id) ==
  LET i == find_by_id(mad.alarms, id) IN
  /\ i # 0
  /\ mad' = [mad EXCEPT
       !.alarms = RemoveAt(@, i),
       !.rationalized_count =
         (@ - BoolToInt(mad.alarms[i].is_rationalized)) % CountRange,
       !.gap = @ \/ i < Len(mad.alarms)]

(* The errors isa18_mad_validate counts. *)
mad_validate(m) ==
  LET n == Len(m.alarms) IN
  Cardinality({p \in (1 .. n) \X (1 .. n) :
                 p[1] < p[2] /\ m.alarms[p[1]].tag = m.alarms[p[2]].tag})
  + BoolToInt(n > 0 /\ m.rationalized_count = 0)
  + Cardinality({i \in 1 .. n : /\ m.alarms[i].priority \in {"CRITICAL", "HIGH"}
                                /\ ~ m.alarms[i].has_consequence})

get_unrationalized_count(m) ==
  Cardinality({i \in DOMAIN m.alarms : ~ m.alarms[i].is_rationalized})

MadNext ==
  \/ NewRecord
  \/ \E m \in Members : team_add_member(m)
  \/ \E x \in Assessments : set_outcome(x)
  \/ \E i \in DOMAIN mad.alarms : apply_to_alarm(i)
  \/ \E c \in MadConfigs : mad_add_alarm(c)
  \/ \E id \in 1 .. MadCapacity : mad_remove_alarm(id)

RecordsInit == AuditInit /\ KpiInit /\ ChatterInit /\ RollingInit /\ MadInit

-----------------------------------------------------------------------------
(* Properties. *)

(* No clock of the audit trail is past this. *)
Latest == 2 * MaxLogged + 1

(* The ring gives back the last entries logged, in their order and without *)
(* a gap, however often it has wrapped; a change to an entry is seen as *)
(* long as the entry is kept, if its successor had been logged before (the *)
(* newest entry is vouched for by nothing); every management of change *)
(* that is kept is found under its moc_id and counted by the report. *)
TrailIsTrue ==
  LET ring == read_order(audit)
      n    == Len(ring)
      tail == SubSeq(audit.logged, audit.entry_count - n + 1, audit.entry_count)
      Whole(i) == ring[i].entry_id # audit.damage.id
      Given(stored, text) == text # NoText => stored = text
  IN  /\ \A i \in 1 .. n :
           /\ ring[i].entry_id = audit.entry_count - n + i
           /\ Whole(i) => /\ ring[i].timestamp = tail[i].step
                          /\ ring[i].action = tail[i].action
                          /\ ring[i].target = tail[i].target
                          /\ Given(ring[i].actor, tail[i].actor)
      /\ ~ verify_chain(audit) <=>
           audit.damage.sealed /\ \E i \in 1 .. n : ~ Whole(i)
      /\ LET kept == {c \in audit.changes : c.moc_id > audit.entry_count - n} IN
         /\ \A c \in kept : \E i \in 1 .. n :
              /\ ring[i].entry_id = c.moc_id /\ ring[i].action = "MOC_CREATE"
              /\ Whole(i) => ring[i].target = c.alarm_id
         /\ moc_count(audit, 0, Latest) = Cardinality(kept)

(* A trail that passes the compliance check has its times in order and, *)
(* while the ring has not wrapped, an actor in every request; one whose *)
(* requests all name actor and reason, in order and undamaged, passes.  A *)
(* query that is not cut short misses no entry. *)
ComplianceIsFair ==
  LET ring  == read_order(audit)
      n     == Len(ring)
      tail  == SubSeq(audit.logged, audit.entry_count - n + 1, audit.entry_count)
      sorted == \A i \in 2 .. n : tail[i - 1].step <= tail[i].step
      Named(r) == r.actor \notin {"", NoText}
      Explained(r) == r.action = "SHELVE" => r.reason \notin {"", NoText}
      AnswersAll(answer, wanted) ==
        Len(answer) < QueryMax => Len(answer) = Cardinality(wanted)
  IN  /\ compliance_check(audit) =>
           /\ sorted
           /\ audit.entry_count <= RingSize => \A i \in 1 .. n : Named(tail[i])
      /\ /\ sorted /\ audit.damage.id = 0
         /\ \A i \in 1 .. n : Named(tail[i]) /\ Explained(tail[i])
         => compliance_check(audit)
      /\ \A x \in {r.target : r \in Requests} :
           audit.damage.id = 0 =>
             AnswersAll(query_by_alarm(audit, x),
                        {i \in 1 .. n : tail[i].target = x})
      /\ \A who \in {r.actor : r \in Requests} \ {"", NoText} :
           LET own == query_by_operator(audit, who)
               s   == shift_summary(audit, who, 0, Latest)
           IN  /\ \A i \in 1 .. n : tail[i].actor = who /\ Len(own) < QueryMax =>
                    \E j \in DOMAIN own : own[j].entry_id = ring[i].entry_id
               /\ sorted /\ n > 0 =>
                    s.total_response_time \in 0 .. tail[n].step - tail[1].step
      /\ AnswersAll(query_by_time(audit, audit.clock, audit.clock),
                    {i \in 1 .. n : tail[i].step = audit.clock})

(* No active alarm is missing from active_alarm_count, whatever returned *)
(* and came back, and the peak is never below it; one more activation *)
(* never improves the health score. *)
CountsCover ==
  LET active == {a \in DOMAIN kpi.state : kpi.state[a] \in Active} IN
  /\ kpi.active_alarm_count >= Cardinality(active)
  /\ kpi.peak_10min_rate >= kpi.active_alarm_count
  /\ \A a \in DOMAIN kpi.state, p \in KpiPeriods, g \in Gauges :
       LET worse == update_with_event(kpi, a, "NORMAL", "ACTIVE_UNACK") IN
       overall_health(worse, p, g) <= overall_health(kpi, p, g)

(* The flag of the detector stands for at least ChatterThreshold *)
(* transitions in the window, and one more than the threshold always *)
(* raises it, although one slot of the ring is not looked at. *)
ChatterIsSeen ==
  LET recent == Cardinality({i \in DOMAIN chatter.since :
                   chatter.clock - chatter.since[i] <= ChatterWindow})
  IN  /\ chatter.is_chattering => recent >= ChatterThreshold
      /\ recent > ChatterThreshold => chatter.is_chattering

(* The history holds the accepted events of the last day in their order; *)
(* an event was refused only when a whole array of them was of its day; *)
(* the peak found with two moving ends is the peak over every window. *)
HistoryIsTheDay ==
  LET kept == Gathered(rolling.offered, {i \in DOMAIN rolling.offered :
                /\ rolling.offered[i].kept
                /\ rolling.offered[i].event.timestamp >= rolling.clock - Day})
      h    == rolling.history
      Burst(i) == Cardinality({j \in DOMAIN h : h[j].timestamp - h[i].timestamp
                                                \in 0 .. ChatterWindow})
      top  == top_n_frequent(h, 1)
  IN  /\ h = [i \in DOMAIN kept |-> kept[i].event]
      /\ \A i \in DOMAIN rolling.offered : ~ rolling.offered[i].kept =>
           Cardinality({j \in 1 .. i - 1 :
             /\ rolling.offered[j].kept
             /\ rolling.offered[j].event.timestamp >=
                  rolling.offered[i].event.timestamp - Day}) = MaxHistory
      /\ \A i \in DOMAIN h : Burst(i) <= calc_peak_rate(h, ChatterWindow)
      /\ h # << >> => /\ \E i \in DOMAIN h : Burst(i) = calc_peak_rate(h, ChatterWindow)
                      /\ top[1].occurrence_count * Cardinality({h[i].alarm_id :
                           i \in DOMAIN h}) >= Len(h)

(* Tags stay unique; while no alarm but the last has been removed, an *)
(* identifier finds its alarm; rationalized_count is what the flags say *)
(* but for the changes by apply_to_alarm; validation finds fault only with *)
(* alarms that are not rationalized, and with a count of zero. *)
DatabaseIsSound ==
  LET n       == Len(mad.alarms)
      flagged == n - get_unrationalized_count(mad)
  IN  /\ \A i, j \in 1 .. n : mad.alarms[i].tag = mad.alarms[j].tag => i = j
      /\ ~ mad.gap =>
           \A i \in 1 .. n : find_by_id(mad.alarms, mad.alarms[i].alarm_id) = i
      /\ mad.rationalized_count = (flagged - mad.flips) % CountRange
      /\ mad_validate(mad) <= get_unrationalized_count(mad)
                              + BoolToInt(mad.rationalized_count = 0)
=============================================================================
