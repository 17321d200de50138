----------------------------- MODULE AlarmProofs -----------------------------
(***************************************************************************)
(* Theorems about MCAlarmSystem, for any number of alarms, any *)
(* configuration of them and any shelving limits: the shelving records and *)
(* the flags of the alarms agree, the count of active alarms covers them, *)
(* the shelving policy outlives every extension, and an alarm that nobody *)
(* has acknowledged does not disappear.  And about the records kept of *)
(* them, for every size of the ring, the histories and the database: the *)
(* audit trail, the indicators, the chattering detector, the rolling *)
(* history and the master alarm database are true to what was reported. *)
(***************************************************************************)
EXTENDS MCAlarmSystem, InductionLemmas, SequenceTheorems, FiniteSetTheorems, TLAPS

-----------------------------------------------------------------------------
(* The array of records. *)

(* Identifiers go up along the array. *)
Ascending(recs) ==
  \A i, j \in DOMAIN recs : i < j => recs[i].shelve_id < recs[j].shelve_id

(* One active record for every alarm that is flagged, none for another. *)
OnePer(recs, flag) ==
  \A a \in Alarm :
    /\ flag[a] => ActiveRecords(recs, a) # {}
    /\ ~ flag[a] => ActiveRecords(recs, a) = {}
    /\ \A i, j \in ActiveRecords(recs, a) : i = j

(* Counting records is the same as having one and no two. *)
LEMMA CountIsOnePer ==
  ASSUME NEW recs \in Seq(ShelveRecord), NEW flag \in [Alarm -> BOOLEAN]
  PROVE  (\A a \in Alarm :
            Cardinality(ActiveRecords(recs, a)) = IF flag[a] THEN 1 ELSE 0)
         <=> OnePer(recs, flag)
<1>1. ASSUME NEW a \in Alarm
      PROVE  Cardinality(ActiveRecords(recs, a)) = (IF flag[a] THEN 1 ELSE 0)
             <=> /\ flag[a] => ActiveRecords(recs, a) # {}
                 /\ ~ flag[a] => ActiveRecords(recs, a) = {}
                 /\ \A i, j \in ActiveRecords(recs, a) : i = j
  <2> DEFINE S == ActiveRecords(recs, a)
  <2>1. IsFiniteSet(S)
    <3>1. IsFiniteSet(1 .. Len(recs)) /\ S \in SUBSET (1 .. Len(recs))
      BY FS_Interval DEF ActiveRecords
    <3> HIDE DEF S
    <3> QED BY <3>1, FS_Subset
  <2>2. Cardinality(S) = 0 <=> S = {}
    <3> HIDE DEF S
    <3> QED BY <2>1, FS_EmptySet
  <2>3. Cardinality(S) = 1 <=> S # {} /\ \A i, j \in S : i = j
    <3> HIDE DEF S
    <3>1. Cardinality(S) = 1 <=> \E x : S = {x}
      BY <2>1, FS_Singleton
    <3>2. ASSUME NEW x \in S, \A i, j \in S : i = j
          PROVE  S = {x}
      BY <3>2
    <3> QED BY <3>1, <3>2
  <2> HIDE DEF S
  <2>4. CASE flag[a]
    <3>1. (IF flag[a] THEN 1 ELSE 0) = 1
      BY <2>4
    <3> QED BY <2>3, <2>4, <3>1, Zenon DEF S
  <2>5. CASE ~ flag[a]
    <3>1. (IF flag[a] THEN 1 ELSE 0) = 0
      BY <2>5
    <3> QED BY <2>2, <2>5, <3>1, Zenon DEF S
  <2> QED BY <2>4, <2>5
<1> QED BY <1>1 DEF OnePer

(* Taking a record out moves the ones behind it up by one. *)
LEMMA RemoveAtIs ==
  ASSUME NEW S, NEW s \in Seq(S), NEW k \in 1 .. Len(s)
  PROVE  /\ RemoveAt(s, k) \in Seq(S)
         /\ Len(RemoveAt(s, k)) = Len(s) - 1
         /\ \A i \in 1 .. Len(s) - 1 :
              RemoveAt(s, k)[i] = IF i < k THEN s[i] ELSE s[i + 1]
<1>1. k \in DOMAIN s /\ Len(s) - 1 \in Nat
  BY LenProperties
<1>2. /\ RemoveAt(s, k) \in Seq(S) /\ DOMAIN RemoveAt(s, k) = 1 .. Len(s) - 1
      /\ \A i \in 1 .. Len(s) - 1 : RemoveAt(s, k)[i] = s[IF i < k THEN i ELSE i + 1]
  BY <1>1, RemovedIs
<1> QED BY <1>1, <1>2, LenProperties

(* The records of one array are among those of another. *)
From(new, old) == \A i \in DOMAIN new : \E j \in DOMAIN old : new[i] = old[j]

(* The record that is taken out is an active one of the alarm. *)
LEMMA DropTakesOne ==
  ASSUME NEW recs \in Seq(ShelveRecord), NEW a \in Alarm, ActiveRecords(recs, a) # {}
  PROVE  \E k \in ActiveRecords(recs, a) :
           k \in 1 .. Len(recs) /\ drop_record(recs, a) = RemoveAt(recs, k)
<1> DEFINE S == ActiveRecords(recs, a)
           k == CHOOSE i \in S : \A j \in S : i <= j
<1>1. S \subseteq 1 .. Len(recs)
  BY DEF ActiveRecords
<1>2. \E i \in S : \A j \in S : i <= j
  <2> HIDE DEF S
  <2>1. S \subseteq Nat /\ S # {}
    BY <1>1 DEF S
  <2> QED BY <2>1, LeastNat
<1>3. k \in S
  <2> HIDE DEF S
  <2> QED BY <1>2
<1>4. drop_record(recs, a) = RemoveAt(recs, k)
  BY DEF drop_record
<1> QED BY <1>1, <1>3, <1>4

(* Whatever the array holds, taking a record out leaves records of it. *)
LEMMA DropKeepsType ==
  ASSUME NEW recs \in Seq(ShelveRecord), NEW a \in Alarm
  PROVE  /\ drop_record(recs, a) \in Seq(ShelveRecord)
         /\ Len(drop_record(recs, a)) <= Len(recs)
         /\ From(drop_record(recs, a), recs)
<1>1. CASE ActiveRecords(recs, a) = {}
  <2>1. drop_record(recs, a) = recs
    BY <1>1 DEF drop_record
  <2> QED BY <2>1 DEF From
<1>2. CASE ActiveRecords(recs, a) # {}
  <2>1. PICK k \in 1 .. Len(recs) : drop_record(recs, a) = RemoveAt(recs, k)
    BY <1>2, DropTakesOne
  <2> DEFINE out == RemoveAt(recs, k)
  <2>2. /\ out \in Seq(ShelveRecord) /\ Len(out) = Len(recs) - 1
        /\ \A i \in 1 .. Len(recs) - 1 : out[i] = IF i < k THEN recs[i] ELSE recs[i + 1]
    BY RemoveAtIs
  <2> HIDE DEF out
  <2>3. From(out, recs)
    BY <2>2 DEF From
  <2> QED BY <2>1, <2>2, <2>3 DEF out
<1> QED BY <1>1, <1>2

(* Where every flagged alarm has one record, the compaction takes out that *)
(* of the alarm and of no other. *)
LEMMA DropUnflags ==
  ASSUME NEW recs \in Seq(ShelveRecord), NEW flag \in [Alarm -> BOOLEAN],
         NEW a \in Alarm, OnePer(recs, flag), Ascending(recs)
  PROVE  /\ OnePer(drop_record(recs, a), [flag EXCEPT ![a] = FALSE])
         /\ Ascending(drop_record(recs, a))
<1> DEFINE less == [flag EXCEPT ![a] = FALSE]
<1>0. ~ less[a] /\ \A b \in Alarm : b # a => less[b] = flag[b]
  OBVIOUS
<1>1. CASE ActiveRecords(recs, a) = {}
  <2>1. drop_record(recs, a) = recs
    BY <1>1 DEF drop_record
  <2> HIDE DEF less
  <2>2. OnePer(recs, less)
    <3> SUFFICES ASSUME NEW b \in Alarm
                 PROVE  /\ less[b] => ActiveRecords(recs, b) # {}
                        /\ ~ less[b] => ActiveRecords(recs, b) = {}
                        /\ \A i, j \in ActiveRecords(recs, b) : i = j
      BY DEF OnePer
    <3>1. CASE b = a
      BY <1>0, <1>1, <3>1
    <3>2. CASE b # a
      BY <1>0, <3>2 DEF OnePer
    <3> QED BY <3>1, <3>2
  <2> QED BY <2>1, <2>2 DEF less
<1>2. CASE ActiveRecords(recs, a) # {}
  <2>1. PICK k \in ActiveRecords(recs, a) :
          k \in 1 .. Len(recs) /\ drop_record(recs, a) = RemoveAt(recs, k)
    BY <1>2, DropTakesOne
  <2> DEFINE out == RemoveAt(recs, k)
             was(i) == IF i < k THEN i ELSE i + 1
  <2>2. /\ out \in Seq(ShelveRecord) /\ Len(out) = Len(recs) - 1 /\ Len(recs) \in Nat
        /\ \A i \in 1 .. Len(recs) - 1 : out[i] = IF i < k THEN recs[i] ELSE recs[i + 1]
    BY <2>1, RemoveAtIs
  <2> HIDE DEF out
  <2>3. /\ DOMAIN out = 1 .. Len(recs) - 1 /\ DOMAIN recs = 1 .. Len(recs)
        /\ \A i \in DOMAIN out : was(i) \in DOMAIN recs /\ was(i) # k /\ out[i] = recs[was(i)]
        /\ \A i, j \in DOMAIN out : i < j => was(i) < was(j)
        /\ \A i, j \in DOMAIN out : was(i) = was(j) => i = j
        /\ \A j \in DOMAIN recs : j # k => \E i \in DOMAIN out : was(i) = j
    <3>1. DOMAIN out = 1 .. Len(recs) - 1 /\ DOMAIN recs = 1 .. Len(recs)
      BY <2>2
    <3>2. \A i \in DOMAIN out : was(i) \in DOMAIN recs /\ was(i) # k /\ out[i] = recs[was(i)]
      BY <2>1, <2>2, <3>1
    <3>3. \A i, j \in DOMAIN out : (i < j => was(i) < was(j)) /\ (was(i) = was(j) => i = j)
      BY <2>1, <2>2, <3>1
    <3>4. ASSUME NEW j \in DOMAIN recs, j # k
          PROVE  \E i \in DOMAIN out : was(i) = j
      <4>1. CASE j < k
        BY <2>1, <3>1, <4>1
      <4>2. CASE j > k
        <5>1. j - 1 \in DOMAIN out /\ was(j - 1) = j
          BY <2>1, <2>2, <3>1, <4>2
        <5> QED BY <5>1
      <4> QED BY <2>1, <3>1, <3>4, <4>1, <4>2
    <3> QED BY <3>1, <3>2, <3>3, <3>4
  <2> HIDE DEF was
  <2>4. \A i \in DOMAIN out, b \in Alarm :
          i \in ActiveRecords(out, b) <=> was(i) \in ActiveRecords(recs, b)
    BY <2>3 DEF ActiveRecords
  <2>5. \A b \in Alarm : ActiveRecords(out, b) \subseteq DOMAIN out
                         /\ ActiveRecords(recs, b) \subseteq DOMAIN recs
    BY DEF ActiveRecords
  <2>6. Ascending(out)
    BY <2>3 DEF Ascending
  <2>7. OnePer(out, less)
    <3> HIDE DEF less
    <3> SUFFICES ASSUME NEW b \in Alarm
                 PROVE  /\ less[b] => ActiveRecords(out, b) # {}
                        /\ ~ less[b] => ActiveRecords(out, b) = {}
                        /\ \A i, j \in ActiveRecords(out, b) : i = j
      BY DEF OnePer
    <3>1. CASE b = a
      <4>1. ActiveRecords(out, a) = {}
        BY <2>1, <2>3, <2>4, <2>5 DEF OnePer
      <4> QED BY <1>0, <3>1, <4>1
    <3>2. CASE b # a
      <4>1. k \notin ActiveRecords(recs, b)
        BY <2>1, <3>2 DEF ActiveRecords
      <4>2. ASSUME flag[b]
            PROVE  ActiveRecords(out, b) # {}
        <5>1. PICK j \in ActiveRecords(recs, b) : TRUE
          BY <4>2 DEF OnePer
        <5>2. PICK i \in DOMAIN out : was(i) = j
          BY <2>3, <2>5, <4>1, <5>1
        <5> QED BY <2>4, <5>1, <5>2
      <4>3. ASSUME ~ flag[b]
            PROVE  ActiveRecords(out, b) = {}
        BY <2>4, <2>5, <4>3 DEF OnePer
      <4>4. \A i, j \in ActiveRecords(out, b) : i = j
        BY <2>3, <2>4, <2>5 DEF OnePer
      <4>5. less[b] = flag[b]
        BY <1>0, <3>2
      <4> QED BY <4>2, <4>3, <4>4, <4>5
    <3> QED BY <3>1, <3>2
  <2> QED BY <2>1, <2>6, <2>7 DEF out
<1> QED BY <1>1, <1>2

-----------------------------------------------------------------------------
(* The scan. *)

Unacknowledged == {"ACTIVE_UNACK", "RTN_UNACK"}

Flood == [window_start : Time, alarms_in_window : 0 .. FloodThreshold,
          is_flood_active : BOOLEAN]

(* What a turn of the scan works on. *)
ScanState == [state : [Alarm -> State], active : Nat, events : 0 .. MaxEvents,
              flood : Flood]

ActiveOf(st) == {a \in Alarm : st[a] \in Active}

(* Without an acknowledgement a state stays one of the five, nothing *)
(* becomes ACTIVE_ACK, and what waits for an acknowledgement still does. *)
LEMMA TransitionIs ==
  ASSUME NEW st \in State, NEW c \in BOOLEAN, NEW sup \in BOOLEAN, NEW sh \in BOOLEAN
  PROVE  LET to == alarm_state_transition(st, c, FALSE, sup, sh) IN
         /\ to \in State
         /\ to = "ACTIVE_ACK" => st = "ACTIVE_ACK"
         /\ st \in Unacknowledged => to \in Unacknowledged
BY DEF State, Unacknowledged, alarm_state_transition

LEMMA FloodUpdateIs ==
  ASSUME NEW f \in Flood, NEW t \in Time
  PROVE  /\ flood_detector_update(f, t) \in Flood
         /\ flood_detector_check(f, t) \in Flood
<1>1. Time \subseteq Nat /\ FloodThreshold \in Nat \ {0}
  BY AlarmAssumption DEF Time
<1>2. flood_detector_check(f, t) \in Flood
  BY <1>1 DEF flood_detector_check, Flood
<1>3. flood_detector_update(f, t) \in Flood
  <2> DEFINE fresh == t - f.window_start >= FloodWindow \/ f.window_start = 0
             count == IF fresh THEN 1
                      ELSE IF f.alarms_in_window < FloodThreshold
                           THEN f.alarms_in_window + 1 ELSE FloodThreshold
  <2>1. count \in 0 .. FloodThreshold
    BY <1>1 DEF Flood
  <2>2. (IF fresh THEN t ELSE f.window_start) \in Time
    BY DEF Flood
  <2>3. flood_detector_update(f, t)
          = [window_start     |-> IF fresh THEN t ELSE f.window_start,
             alarms_in_window |-> count,
             is_flood_active  |-> f.is_flood_active \/ count >= FloodThreshold]
    BY DEF flood_detector_update
  <2> HIDE DEF fresh, count
  <2> QED BY <2>1, <2>2, <2>3 DEF Flood
<1> QED BY <1>2, <1>3

(* Moving one alarm changes the number of active ones as its state says. *)
LEMMA ActiveOfOne ==
  ASSUME NEW st \in [Alarm -> State], NEW a \in Alarm, NEW to \in State
  PROVE  LET new == ActiveOf([st EXCEPT ![a] = to])
             old == ActiveOf(st)
         IN  /\ Cardinality(old) \in Nat /\ Cardinality(new) \in Nat
             /\ (a \notin old /\ to \in Active) => Cardinality(new) = Cardinality(old) + 1
             /\ (a \in old /\ to \notin Active) =>
                  /\ Cardinality(new) = Cardinality(old) - 1
                  /\ Cardinality(old) > 0
             /\ ((a \in old) <=> (to \in Active)) => Cardinality(new) = Cardinality(old)
<1> DEFINE new == ActiveOf([st EXCEPT ![a] = to])
           old == ActiveOf(st)
<1>1. IsFiniteSet(Alarm)
  BY FS_Interval, AlarmAssumption DEF Alarm
<1>2. IsFiniteSet(old) /\ IsFiniteSet(new)
  BY <1>1, FS_Subset DEF ActiveOf
<1>3. new = IF to \in Active THEN old \cup {a} ELSE old \ {a}
  BY DEF ActiveOf
<1> HIDE DEF new, old
<1>4. Cardinality(old) \in Nat /\ Cardinality(new) \in Nat
  BY <1>2, FS_CardinalityType
<1>5. /\ Cardinality(old \cup {a}) = IF a \in old THEN Cardinality(old) ELSE Cardinality(old) + 1
      /\ Cardinality(old \ {a}) = IF a \in old THEN Cardinality(old) - 1 ELSE Cardinality(old)
  BY <1>2, FS_AddElement, FS_RemoveElement
<1>6. a \in old => Cardinality(old) > 0
  BY <1>2, <1>4, FS_EmptySet
<1> QED BY <1>3, <1>4, <1>5, <1>6 DEF new, old

(* One turn of the loop keeps the types, and the counter of active alarms *)
(* goes up with every alarm that becomes active. *)
LEMMA ScanTurn ==
  ASSUME AlarmTypeOK, NEW s \in ScanState, NEW a \in Alarm
  PROVE  /\ scan_alarm(s, a) \in ScanState
         /\ s.active >= Cardinality(ActiveOf(s.state)) =>
              scan_alarm(s, a).active >= Cardinality(ActiveOf(scan_alarm(s, a).state))
         /\ \A b \in Alarm : s.state[b] \in Unacknowledged =>
              scan_alarm(s, a).state[b] \in Unacknowledged
<1> DEFINE from == s.state[a]
           cond == condition_of(a, pv[a]) /\ ~ OnDelayRunning(a, from, now)
           to == alarm_state_transition(from, cond, FALSE, is_suppressed[a], is_shelved[a])
           up == Activates(from, to)
           act == IF up THEN s.active + 1
                  ELSE IF Deactivates(from, to) /\ s.active > 0
                       THEN s.active - 1 ELSE s.active
           ev == IF to # from THEN log_event(s.events) ELSE s.events
           fl == IF up THEN flood_detector_update(s.flood, now) ELSE s.flood
<1>1. scan_alarm(s, a) = [state |-> [s.state EXCEPT ![a] = to], active |-> act,
                          events |-> ev, flood |-> fl]
  BY DEF scan_alarm
<1>2. from \in State /\ cond \in BOOLEAN /\ is_suppressed[a] \in BOOLEAN /\ is_shelved[a] \in BOOLEAN
  BY DEF ScanState, AlarmTypeOK
<1>3. /\ to \in State /\ (to = "ACTIVE_ACK" => from = "ACTIVE_ACK")
      /\ from \in Unacknowledged => to \in Unacknowledged
  <2> HIDE DEF from, cond
  <2> QED BY <1>2, TransitionIs
<1>4. ev \in 0 .. MaxEvents
  <2> HIDE DEF to, from
  <2> QED BY AlarmAssumption DEF log_event, ScanState
<1>5. fl \in Flood
  <2> HIDE DEF up
  <2> QED BY FloodUpdateIs DEF ScanState, AlarmTypeOK
<1>6. act \in Nat
  <2> HIDE DEF to, from
  <2> QED BY DEF ScanState
<1>7. s.active >= Cardinality(ActiveOf(s.state)) =>
        act >= Cardinality(ActiveOf([s.state EXCEPT ![a] = to]))
  <2> DEFINE new == ActiveOf([s.state EXCEPT ![a] = to])
             old == ActiveOf(s.state)
  <2>1. /\ Cardinality(old) \in Nat /\ Cardinality(new) \in Nat
        /\ (a \notin old /\ to \in Active) => Cardinality(new) = Cardinality(old) + 1
        /\ (a \in old /\ to \notin Active) => Cardinality(new) = Cardinality(old) - 1 /\ Cardinality(old) > 0
        /\ ((a \in old) <=> (to \in Active)) => Cardinality(new) = Cardinality(old)
    <3>1. s.state \in [Alarm -> State]
      BY DEF ScanState
    <3> HIDE DEF to
    <3> QED BY <1>3, <3>1, ActiveOfOne
  <2>2. a \in old <=> from \in Active
    BY DEF ActiveOf
  <2>3. s.active \in Nat
    BY DEF ScanState
  <2>4. (from \notin Active /\ to \in Active) => up
    <3> HIDE DEF to, from
    <3> QED BY <1>3 DEF Activates, Active
  <2>5. (from \in Active /\ to \notin Active) => ~ up /\ Deactivates(from, to)
    <3> HIDE DEF to, from
    <3> QED BY <1>2, <1>3 DEF Activates, Deactivates, Active, State
  <2>6. to \in Active => ~ Deactivates(from, to)
    <3> HIDE DEF to, from
    <3> QED BY DEF Deactivates, Active
  <2>7. up => to \in Active
    <3> HIDE DEF to, from
    <3> QED BY DEF Activates, Active
  <2> HIDE DEF new, old, to, from, up
  <2>8. (from \notin Active /\ to \notin Active) => ~ Deactivates(from, to)
    BY DEF Deactivates
  <2>9. s.active >= Cardinality(old) => act >= Cardinality(new)
    BY <2>1, <2>2, <2>3, <2>4, <2>5, <2>6, <2>7, <2>8
  <2> QED BY <2>9 DEF new, old
<1> HIDE DEF to, act, ev, fl, up, cond
<1>8. scan_alarm(s, a) \in ScanState
  BY <1>1, <1>3, <1>4, <1>5, <1>6 DEF ScanState
<1>9. \A b \in Alarm : s.state[b] \in Unacknowledged =>
         scan_alarm(s, a).state[b] \in Unacknowledged
  BY <1>1, <1>3 DEF ScanState
<1> QED BY <1>1, <1>7, <1>8, <1>9

(* What a whole scan computes. *)
LEMMA ScanIs ==
  ASSUME AlarmTypeOK, ActiveCountCovers
  PROVE  /\ scanned \in ScanState
         /\ scanned.active >= Cardinality(ActiveOf(scanned.state))
         /\ \A b \in Alarm : state[b] \in Unacknowledged => scanned.state[b] \in Unacknowledged
<1> DEFINE n == NAlarms
           start == [state |-> state, active |-> active_alarms,
                     events |-> event_count, flood |-> flood]
           after == CHOOSE f : f = [a \in 0 .. n |->
                      IF a = 0 THEN start ELSE scan_alarm(f[a - 1], a)]
           Good(s) == /\ s \in ScanState
                      /\ s.active >= Cardinality(ActiveOf(s.state))
                      /\ \A b \in Alarm : state[b] \in Unacknowledged => s.state[b] \in Unacknowledged
<1>1. n \in Nat /\ Alarm = 1 .. n
  BY AlarmAssumption DEF Alarm
<1>2. scanned = after[n]
  BY DEF scanned
<1>3. start \in ScanState
  BY DEF ScanState, AlarmTypeOK, Flood
<1>4. PICK g \in [0 .. n -> ScanState] :
        g[0] = start /\ \A a \in 1 .. n : g[a] = scan_alarm(g[a - 1], a)
  <2> DEFINE F == [a \in 1 .. n |-> [s \in ScanState |-> scan_alarm(s, a)]]
  <2> HIDE DEF start, n
  <2>1. F \in [1 .. n -> [ScanState -> ScanState]]
    BY <1>1, ScanTurn
  <2> HIDE DEF F
  <2>2. PICK g \in Courses(n, ScanState, start, F) : TRUE
    BY <1>1, <1>3, <2>1, Iteration
  <2>3. \A a \in 1 .. n : g[a] = scan_alarm(g[a - 1], a)
    <3> TAKE a \in 1 .. n
    <3>1. a - 1 \in 0 .. n
      BY <1>1
    <3>2. g[a] = F[a][g[a - 1]] /\ g[a - 1] \in ScanState
      BY <2>2, <3>1 DEF Courses
    <3> QED BY <3>2 DEF F
  <2>4. g \in [0 .. n -> ScanState] /\ g[0] = start
    BY <2>2 DEF Courses
  <2> QED BY <2>3, <2>4
<1>5. after = [a \in 0 .. n |-> IF a = 0 THEN start ELSE scan_alarm(after[a - 1], a)]
  <2> HIDE DEF start, n
  <2>1. g = [a \in 0 .. n |-> IF a = 0 THEN start ELSE scan_alarm(g[a - 1], a)]
    BY <1>1, <1>4
  <2> QED BY <2>1, Zenon
<1> HIDE DEF after
<1>6. Good(after[0])
  <2>1. after[0] = start
    <3> HIDE DEF start
    <3> QED BY <1>1, <1>5
  <2>2. start.state = state /\ start.active = active_alarms
    OBVIOUS
  <2> HIDE DEF start
  <2> QED BY <1>3, <2>1, <2>2 DEF ActiveCountCovers, ActiveOf
<1>7. ASSUME NEW k \in 0 .. n - 1, Good(after[k])
      PROVE  Good(after[k + 1])
  <2>1. k + 1 \in Alarm /\ k + 1 \in 0 .. n /\ k + 1 # 0 /\ (k + 1) - 1 = k
    BY <1>1
  <2> HIDE DEF start, n
  <2>2. after[k + 1] = scan_alarm(after[k], k + 1)
    BY <1>5, <2>1
  <2> QED BY <1>7, <2>1, <2>2, ScanTurn
<1>8. Good(after[n])
  <2> DEFINE T == {k \in 0 .. n : Good(after[k])}
  <2> HIDE DEF Good, n
  <2>1. 0 \in T /\ \A k \in 0 .. n - 1 : k \in T => k + 1 \in T
    BY <1>1, <1>6, <1>7
  <2>2. 0 .. n \subseteq T
    <3> HIDE DEF T
    <3> QED BY <1>1, <2>1, SetInduction
  <2> QED BY <1>1, <2>2
<1> QED BY <1>2, <1>8

-----------------------------------------------------------------------------
(* The automatic unshelving. *)

(* The array that the loop over the alarms leaves: records of the array it *)
(* started from, one for every alarm whose shelving has not expired. *)
LEMMA UnshelvedIs ==
  ASSUME AlarmTypeOK, OnePer(shelved, is_shelved), Ascending(shelved), AutoUnshelve
  PROVE  /\ shelved' \in Seq(ShelveRecord) /\ Len(shelved') <= Len(shelved)
         /\ From(shelved', shelved)
         /\ Ascending(shelved')
         /\ OnePer(shelved', is_shelved')
<1> DEFINE n == NAlarms
           Turn(recs, a) == IF Expired(a) THEN drop_record(recs, a) ELSE recs
           kept == CHOOSE f : f = [a \in 0 .. n |->
                     IF a = 0 THEN shelved ELSE Turn(f[a - 1], a)]
           flags(k) == [a \in Alarm |-> is_shelved[a] /\ ~ (Expired(a) /\ a <= k)]
           Good(recs, k) ==
             /\ recs \in Seq(ShelveRecord) /\ Len(recs) <= Len(shelved)
             /\ From(recs, shelved) /\ Ascending(recs) /\ OnePer(recs, flags(k))
<1>1. n \in Nat /\ Alarm = 1 .. n
  BY AlarmAssumption DEF Alarm
<1>2. shelved' = kept[n]
  BY DEF AutoUnshelve
<1>3. shelved \in Seq(ShelveRecord)
  BY DEF AlarmTypeOK
<1>4. PICK g \in [0 .. n -> Seq(ShelveRecord)] :
        g[0] = shelved /\ \A a \in 1 .. n : g[a] = Turn(g[a - 1], a)
  <2> DEFINE F == [a \in 1 .. n |-> [recs \in Seq(ShelveRecord) |-> Turn(recs, a)]]
  <2>1. F \in [1 .. n -> [Seq(ShelveRecord) -> Seq(ShelveRecord)]]
    <3> HIDE DEF n
    <3> QED BY <1>1, DropKeepsType
  <2> HIDE DEF F, Turn, n
  <2>2. PICK g \in Courses(n, Seq(ShelveRecord), shelved, F) : TRUE
    BY <1>1, <1>3, <2>1, Iteration
  <2>3. \A a \in 1 .. n : g[a] = Turn(g[a - 1], a)
    <3> TAKE a \in 1 .. n
    <3>1. a - 1 \in 0 .. n
      BY <1>1
    <3>2. g[a] = F[a][g[a - 1]] /\ g[a - 1] \in Seq(ShelveRecord)
      BY <2>2, <3>1 DEF Courses
    <3> QED BY <3>2 DEF F
  <2>4. g \in [0 .. n -> Seq(ShelveRecord)] /\ g[0] = shelved
    BY <2>2 DEF Courses
  <2> QED BY <2>3, <2>4
<1>5. kept = [a \in 0 .. n |-> IF a = 0 THEN shelved ELSE Turn(kept[a - 1], a)]
  <2> HIDE DEF Turn, n
  <2>1. g = [a \in 0 .. n |-> IF a = 0 THEN shelved ELSE Turn(g[a - 1], a)]
    BY <1>1, <1>4
  <2> QED BY <2>1, Zenon
<1> HIDE DEF kept
<1>6. Good(kept[0], 0)
  <2>1. kept[0] = shelved
    <3> HIDE DEF Turn, n
    <3> QED BY <1>1, <1>5
  <2>2. flags(0) = is_shelved
    <3>1. \A a \in Alarm : ~ (a <= 0)
      BY <1>1
    <3> QED BY <3>1 DEF AlarmTypeOK
  <2> HIDE DEF flags
  <2> QED BY <1>3, <2>1, <2>2 DEF From
<1>7. ASSUME NEW k \in 0 .. n - 1, Good(kept[k], k)
      PROVE  Good(kept[k + 1], k + 1)
  <2> DEFINE a == k + 1
             recs == kept[k]
  <2>1. a \in Alarm /\ a \in 0 .. n /\ a # 0 /\ a - 1 = k
    BY <1>1
  <2>2. kept[a] = Turn(recs, a)
    <3> HIDE DEF n, Turn
    <3> QED BY <1>5, <2>1
  <2>3. flags(k) \in [Alarm -> BOOLEAN] /\ flags(a) \in [Alarm -> BOOLEAN]
    BY DEF AlarmTypeOK, Expired
  <2>4. CASE ~ Expired(a)
    <3>1. flags(a) = flags(k)
      <4>1. \A b \in Alarm : b <= a <=> (b <= k \/ b = a)
        BY <1>1
      <4> QED BY <2>4, <4>1
    <3> HIDE DEF flags
    <3> QED BY <1>7, <2>2, <2>4, <3>1
  <2>5. CASE Expired(a)
    <3>1. flags(a) = [flags(k) EXCEPT ![a] = FALSE]
      <4>1. \A b \in Alarm : b <= a <=> (b <= k \/ b = a)
        BY <1>1
      <4> HIDE DEF a
      <4> QED BY <2>1, <2>5, <4>1
    <3>2. kept[a] = drop_record(recs, a)
      BY <2>2, <2>5
    <3> HIDE DEF flags, a, recs
    <3>3. /\ drop_record(recs, a) \in Seq(ShelveRecord)
          /\ Len(drop_record(recs, a)) <= Len(recs)
          /\ From(drop_record(recs, a), recs)
      BY <1>7, <2>1, DropKeepsType DEF recs
    <3>4. OnePer(drop_record(recs, a), [flags(k) EXCEPT ![a] = FALSE])
          /\ Ascending(drop_record(recs, a))
      BY <1>7, <2>1, <2>3, DropUnflags DEF recs
    <3>5. Len(drop_record(recs, a)) <= Len(shelved) /\ From(drop_record(recs, a), shelved)
      BY <1>3, <1>7, <3>3 DEF From, recs
    <3> QED BY <3>1, <3>2, <3>3, <3>4, <3>5 DEF a
  <2> QED BY <2>4, <2>5
<1>8. Good(kept[n], n)
  <2> DEFINE T == {k \in 0 .. n : Good(kept[k], k)}
  <2> HIDE DEF Good, n
  <2>1. 0 \in T /\ \A k \in 0 .. n - 1 : k \in T => k + 1 \in T
    BY <1>1, <1>6, <1>7
  <2>2. 0 .. n \subseteq T
    <3> HIDE DEF T
    <3> QED BY <1>1, <2>1, SetInduction
  <2> QED BY <1>1, <2>2
<1>9. flags(n) = is_shelved'
  <2>1. \A a \in Alarm : a <= n
    BY <1>1
  <2> QED BY <2>1 DEF AutoUnshelve
<1> HIDE DEF flags
<1> QED BY <1>2, <1>8, <1>9

-----------------------------------------------------------------------------
(* The invariant and its steps. *)

AlarmInv ==
  /\ AlarmTypeOK
  /\ OnePer(shelved, is_shelved) /\ Ascending(shelved)
  /\ ActiveCountCovers

(* What the invariant says of the array is what the property counts. *)
LEMMA InvCounts == AlarmTypeOK => (RecordPerShelvedAlarm <=> OnePer(shelved, is_shelved) /\ Ascending(shelved))
BY CountIsOnePer DEF AlarmTypeOK, RecordPerShelvedAlarm, Ascending

LEMMA AlarmInvInit == Init => AlarmInv
<1> SUFFICES ASSUME Init PROVE AlarmInv
  OBVIOUS
<1>1. 1 \in Time
  BY AlarmAssumption DEF Time
<1>2. AlarmTypeOK
  BY <1>1, AlarmAssumption DEF Init, AlarmTypeOK, State
<1>3. \A a \in Alarm : ActiveRecords(shelved, a) = {}
  BY DEF Init, ActiveRecords
<1>4. OnePer(shelved, is_shelved) /\ Ascending(shelved)
  BY <1>3 DEF Init, OnePer, Ascending
<1>5. ActiveOf(state) = {}
  BY DEF Init, ActiveOf, Active
<1>6. ActiveCountCovers
  <2>1. Cardinality(ActiveOf(state)) = 0
    BY <1>5, FS_EmptySet
  <2>2. ActiveCountCovers <=> active_alarms >= Cardinality(ActiveOf(state))
    BY DEF ActiveCountCovers, ActiveOf
  <2> QED BY <2>1, <2>2 DEF Init
<1> QED BY <1>2, <1>4, <1>6 DEF AlarmInv

(* Fewer alarms are active, and the counter covers them still. *)
LEMMA FewerActive ==
  ASSUME ActiveCountCovers, NEW st, ActiveOf(st) \subseteq ActiveOf(state)
  PROVE  active_alarms \in Nat => active_alarms >= Cardinality(ActiveOf(st))
<1>1. IsFiniteSet(ActiveOf(state))
  <2>1. IsFiniteSet(Alarm)
    BY FS_Interval, AlarmAssumption DEF Alarm
  <2>2. ActiveOf(state) \in SUBSET Alarm
    BY DEF ActiveOf
  <2> QED BY <2>1, <2>2, FS_Subset
<1>2. /\ IsFiniteSet(ActiveOf(st))
      /\ Cardinality(ActiveOf(st)) <= Cardinality(ActiveOf(state))
  BY <1>1, FS_Subset
<1>3. Cardinality(ActiveOf(st)) \in Nat /\ Cardinality(ActiveOf(state)) \in Nat
  BY <1>1, <1>2, FS_CardinalityType
<1> QED BY <1>2, <1>3 DEF ActiveCountCovers, ActiveOf

LEMMA ScanStep == ASSUME AlarmInv, Scan PROVE AlarmInv'
<1>1. /\ scanned \in ScanState
      /\ scanned.active >= Cardinality(ActiveOf(scanned.state))
  BY ScanIs DEF AlarmInv
<1>2. /\ state' = scanned.state /\ active_alarms' = scanned.active
      /\ event_count' = scanned.events /\ flood' = scanned.flood
      /\ UNCHANGED <<now, pv, is_suppressed, is_shelved, shelve_expiry, shelved>>
  BY DEF Scan, shelving
<1>3. AlarmTypeOK'
  BY <1>1, <1>2 DEF AlarmInv, AlarmTypeOK, ScanState, Flood, Time
<1>4. ActiveCountCovers'
  BY <1>1, <1>2 DEF ActiveCountCovers, ActiveOf
<1> QED BY <1>2, <1>3, <1>4 DEF AlarmInv, OnePer, Ascending, ActiveRecords

LEMMA AcknowledgeStep == ASSUME AlarmInv, NEW a \in Alarm, Acknowledge(a) PROVE AlarmInv'
<1> DEFINE to == alarm_state_transition(state[a], state[a] = "ACTIVE_UNACK", TRUE, FALSE, FALSE)
<1>1. state' = [state EXCEPT ![a] = to] /\ state[a] \in {"ACTIVE_UNACK", "RTN_UNACK"}
      /\ UNCHANGED <<now, pv, is_suppressed, is_shelved, shelve_expiry, shelved,
                     active_alarms, event_count, flood>>
  BY DEF Acknowledge, shelving, engine
<1>2. to \in State /\ (to \in Active => state[a] \in Active)
  BY <1>1 DEF alarm_state_transition, State, Active
<1> HIDE DEF to
<1>3. AlarmTypeOK'
  BY <1>1, <1>2 DEF AlarmInv, AlarmTypeOK, Time
<1>4. ActiveOf(state') \subseteq ActiveOf(state)
  BY <1>1, <1>2 DEF AlarmInv, AlarmTypeOK, ActiveOf
<1>5. ActiveCountCovers'
  BY <1>1, <1>4, FewerActive DEF AlarmInv, AlarmTypeOK, ActiveCountCovers, ActiveOf
<1> QED BY <1>1, <1>3, <1>5 DEF AlarmInv, OnePer, Ascending, ActiveRecords

(* An alarm that comes back from shelving is NORMAL. *)
LEMMA UnshelveStep == ASSUME AlarmInv, NEW a \in Alarm, Unshelve(a) PROVE AlarmInv'
<1>1. /\ shelved' = drop_record(shelved, a)
      /\ is_shelved' = [is_shelved EXCEPT ![a] = FALSE]
      /\ shelve_expiry' = [shelve_expiry EXCEPT ![a] = 0]
      /\ state' = [state EXCEPT ![a] = "NORMAL"]
      /\ UNCHANGED <<now, pv, is_suppressed, active_alarms, event_count, flood>>
  BY DEF Unshelve, engine
<1>2. /\ shelved' \in Seq(ShelveRecord) /\ Len(shelved') <= Len(shelved)
      /\ Ascending(shelved') /\ OnePer(shelved', is_shelved')
  BY <1>1, DropKeepsType, DropUnflags DEF AlarmInv, AlarmTypeOK
<1>3. AlarmTypeOK'
  BY <1>1, <1>2, AlarmAssumption DEF AlarmInv, AlarmTypeOK, Time, State
<1>4. ActiveOf(state') \subseteq ActiveOf(state)
  BY <1>1 DEF AlarmInv, AlarmTypeOK, ActiveOf, Active
<1>5. ActiveCountCovers'
  BY <1>1, <1>4, FewerActive DEF AlarmInv, AlarmTypeOK, ActiveCountCovers, ActiveOf
<1> QED BY <1>2, <1>3, <1>5 DEF AlarmInv, OnePer, Ascending, ActiveRecords

LEMMA AutoUnshelveStep == ASSUME AlarmInv, AutoUnshelve PROVE AlarmInv'
<1>1. /\ is_shelved' = [a \in Alarm |-> is_shelved[a] /\ ~ Expired(a)]
      /\ shelve_expiry' = [a \in Alarm |-> IF Expired(a) THEN 0 ELSE shelve_expiry[a]]
      /\ state' = [a \in Alarm |-> IF Expired(a) THEN "NORMAL" ELSE state[a]]
      /\ UNCHANGED <<now, pv, is_suppressed, active_alarms, event_count, flood>>
  BY DEF AutoUnshelve, engine
<1>2. /\ shelved' \in Seq(ShelveRecord) /\ Len(shelved') <= Len(shelved)
      /\ Ascending(shelved') /\ OnePer(shelved', is_shelved')
  BY UnshelvedIs DEF AlarmInv
<1>3. AlarmTypeOK'
  <2>1. is_shelved' \in [Alarm -> BOOLEAN]
    BY <1>1
  <2>2. shelve_expiry' \in [Alarm -> Nat] /\ state' \in [Alarm -> State]
    BY <1>1 DEF AlarmInv, AlarmTypeOK, State
  <2> QED BY <1>1, <1>2, <2>1, <2>2, AlarmAssumption DEF AlarmInv, AlarmTypeOK, Time
<1>4. ActiveOf(state') \subseteq ActiveOf(state)
  BY <1>1 DEF AlarmInv, AlarmTypeOK, ActiveOf, Active
<1>5. ActiveCountCovers'
  BY <1>1, <1>4, FewerActive DEF AlarmInv, AlarmTypeOK, ActiveCountCovers, ActiveOf
<1> QED BY <1>2, <1>3, <1>5 DEF AlarmInv, OnePer, Ascending, ActiveRecords

(* A new record goes to the end of the array, with the next identifier. *)
LEMMA ShelveStep ==
  ASSUME AlarmInv, NEW a \in Alarm, NEW d \in Durations, NEW who \in Approvals, Shelve(a, d, who)
  PROVE  AlarmInv'
<1> DEFINE n == Len(shelved)
           r == [shelve_id |-> next_shelve_id(shelved), alarm_id |-> a,
                 shelve_start |-> now, shelve_end |-> now + d,
                 approver_id |-> copied(NoApprover, who),
                 is_approved |-> who \notin {NoApprover, NullApprover},
                 is_active |-> TRUE, extension_count |-> 0]
<1>1. /\ shelved' = Append(shelved, r)
      /\ is_shelved' = [is_shelved EXCEPT ![a] = TRUE]
      /\ shelve_expiry' = [shelve_expiry EXCEPT ![a] = now + d]
      /\ UNCHANGED <<now, pv, state, is_suppressed, active_alarms, event_count, flood>>
      /\ n < MaxShelved /\ ~ is_shelved[a]
  BY DEF Shelve, engine, validate_shelve
<1>2. shelved \in Seq(ShelveRecord) /\ n \in Nat /\ DOMAIN shelved = 1 .. n
  BY DEF AlarmInv, AlarmTypeOK
<1>3. now \in Nat /\ d \in Nat /\ now \in Time
  BY AlarmAssumption DEF AlarmInv, AlarmTypeOK, Time
<1>4. next_shelve_id(shelved) \in Nat /\ \A i \in 1 .. n : shelved[i].shelve_id < next_shelve_id(shelved)
  <2>1. CASE n = 0
    <3>1. shelved = << >>
      BY <1>2, <2>1
    <3> QED BY <2>1, <3>1 DEF next_shelve_id
  <2>2. CASE n # 0
    <3>1. /\ shelved # << >> /\ n \in 1 .. n
          /\ \A i \in 1 .. n : shelved[i].shelve_id \in Nat
      <4>1. shelved # << >> /\ n \in 1 .. n
        BY <1>2, <2>2
      <4>2. \A i \in 1 .. n : shelved[i] \in ShelveRecord
        BY <1>2
      <4> HIDE DEF n
      <4> QED BY <4>1, <4>2 DEF ShelveRecord
    <3>2. \A i \in 1 .. n : i # n => shelved[i].shelve_id < shelved[n].shelve_id
      <4> HIDE DEF n
      <4> SUFFICES ASSUME NEW i \in 1 .. n, i # n
                   PROVE  shelved[i].shelve_id < shelved[n].shelve_id
        OBVIOUS
      <4>1. i < n
        BY <1>2
      <4> QED BY <1>2, <3>1, <4>1 DEF AlarmInv, Ascending
    <3>3. next_shelve_id(shelved) = shelved[n].shelve_id + 1
      BY <3>1 DEF next_shelve_id
    <3> QED BY <3>1, <3>2, <3>3
  <2> QED BY <2>1, <2>2
<1>5. r \in ShelveRecord /\ r.alarm_id = a /\ r.is_active /\ r.shelve_id = next_shelve_id(shelved)
  <2>1. now + d \in Nat /\ 0 \in 0 .. MaxExtensions
    BY <1>3 DEF MaxExtensions
  <2>2. copied(NoApprover, who) \in Approvers
    BY AlarmAssumption DEF copied, Approvals
  <2> QED BY <1>3, <1>4, <2>1, <2>2 DEF ShelveRecord
<1> HIDE DEF r
<1>6. /\ shelved' \in Seq(ShelveRecord) /\ Len(shelved') = n + 1 /\ DOMAIN shelved' = 1 .. n + 1
      /\ \A i \in 1 .. n : shelved'[i] = shelved[i]
      /\ shelved'[n + 1] = r
  BY <1>1, <1>2, <1>5
<1> HIDE DEF n
<1>7. Ascending(shelved')
  <2> SUFFICES ASSUME NEW i \in 1 .. n + 1, NEW j \in 1 .. n + 1, i < j
               PROVE  shelved'[i].shelve_id < shelved'[j].shelve_id
    BY <1>6 DEF Ascending
  <2>1. i \in 1 .. n /\ (j \in 1 .. n \/ j = n + 1)
    BY <1>2
  <2>2. CASE j \in 1 .. n
    BY <1>2, <1>6, <2>1, <2>2 DEF AlarmInv, Ascending
  <2>3. CASE j = n + 1
    BY <1>4, <1>5, <1>6, <2>1, <2>3
  <2> QED BY <2>1, <2>2, <2>3
<1>8. ActiveRecords(shelved, a) = {}
  BY <1>1 DEF AlarmInv, OnePer
<1>9. \A b \in Alarm : ActiveRecords(shelved', b)
        = IF b = a THEN {n + 1} ELSE ActiveRecords(shelved, b)
  <2> TAKE b \in Alarm
  <2>1. \A i \in 1 .. n : i \in ActiveRecords(shelved', b) <=> i \in ActiveRecords(shelved, b)
    BY <1>2, <1>6 DEF ActiveRecords
  <2>2. n + 1 \in ActiveRecords(shelved', b) <=> b = a
    BY <1>2, <1>5, <1>6 DEF ActiveRecords
  <2>3. ActiveRecords(shelved', b) \subseteq 1 .. n + 1 /\ ActiveRecords(shelved, b) \subseteq 1 .. n
    BY <1>2, <1>6 DEF ActiveRecords
  <2>4. \A i \in 1 .. n + 1 : i \in 1 .. n \/ i = n + 1
    BY <1>2
  <2>5. CASE b = a
    BY <1>2, <1>8, <2>1, <2>2, <2>3, <2>4, <2>5
  <2>6. CASE b # a
    <3>1. ActiveRecords(shelved', b) \subseteq 1 .. n
      BY <2>2, <2>3, <2>4, <2>6
    <3>2. ActiveRecords(shelved', b) = ActiveRecords(shelved, b)
      BY <2>1, <2>3, <3>1, Zenon
    <3> QED BY <2>6, <3>2
  <2> QED BY <2>5, <2>6
<1>10. OnePer(shelved', is_shelved')
  <2> SUFFICES ASSUME NEW b \in Alarm
               PROVE  /\ is_shelved'[b] => ActiveRecords(shelved', b) # {}
                      /\ ~ is_shelved'[b] => ActiveRecords(shelved', b) = {}
                      /\ \A i, j \in ActiveRecords(shelved', b) : i = j
    BY DEF OnePer
  <2>1. is_shelved'[a] /\ \A c \in Alarm : c # a => is_shelved'[c] = is_shelved[c]
    BY <1>1 DEF AlarmInv, AlarmTypeOK
  <2>2. CASE b = a
    BY <1>9, <2>1, <2>2
  <2>3. CASE b # a
    BY <1>9, <2>1, <2>3 DEF AlarmInv, OnePer
  <2> QED BY <2>2, <2>3
<1>11. AlarmTypeOK'
  <2>1. is_shelved' \in [Alarm -> BOOLEAN] /\ shelve_expiry' \in [Alarm -> Nat]
    BY <1>1, <1>3 DEF AlarmInv, AlarmTypeOK
  <2>2. Len(shelved') <= MaxShelved
    BY <1>1, <1>2, <1>6, AlarmAssumption DEF n
  <2> QED BY <1>1, <1>6, <2>1, <2>2 DEF AlarmInv, AlarmTypeOK, Time
<1> QED BY <1>1, <1>7, <1>10, <1>11 DEF AlarmInv, ActiveCountCovers

(* An extension keeps the alarm and the identifier of its record. *)
LEMMA ExtendStep ==
  ASSUME AlarmInv, NEW i \in DOMAIN shelved, NEW d \in Durations, NEW who \in Approvals,
         Extend(i, d, who)
  PROVE  AlarmInv'
<1> DEFINE r == shelved[i]
           new == [r EXCEPT !.shelve_end      = @ + d,
                            !.extension_count = @ + 1,
                            !.approver_id     = copied(@, who),
                            !.is_approved     = TRUE]
<1>1. /\ shelved' = [shelved EXCEPT ![i] = new]
      /\ r.is_active /\ r.extension_count < MaxExtensions
      /\ UNCHANGED <<now, pv, state, is_suppressed, is_shelved, shelve_expiry,
                     active_alarms, event_count, flood>>
  BY DEF Extend, engine
<1>2. shelved \in Seq(ShelveRecord) /\ r \in ShelveRecord
  BY DEF AlarmInv, AlarmTypeOK
<1>3. /\ new \in ShelveRecord /\ new.alarm_id = r.alarm_id /\ new.shelve_id = r.shelve_id
      /\ new.is_active = r.is_active
  <2>1. d \in Nat
    BY AlarmAssumption
  <2>2. r.shelve_end + d \in Nat /\ r.extension_count + 1 \in 0 .. MaxExtensions
    BY <1>1, <1>2, <2>1 DEF ShelveRecord, MaxExtensions
  <2>3. copied(r.approver_id, who) \in Approvers
    BY <1>2 DEF ShelveRecord, copied, Approvals
  <2> QED BY <1>2, <2>2, <2>3 DEF ShelveRecord
<1> HIDE DEF r, new
<1>4. /\ shelved' \in Seq(ShelveRecord) /\ Len(shelved') = Len(shelved)
      /\ DOMAIN shelved' = DOMAIN shelved
      /\ \A j \in DOMAIN shelved : /\ shelved'[j].alarm_id = shelved[j].alarm_id
                                   /\ shelved'[j].shelve_id = shelved[j].shelve_id
                                   /\ shelved'[j].is_active = shelved[j].is_active
  <2>1. /\ shelved' \in Seq(ShelveRecord) /\ Len(shelved') = Len(shelved)
        /\ DOMAIN shelved' = DOMAIN shelved
    BY <1>1, <1>2, <1>3
  <2>2. shelved'[i] = new /\ \A j \in DOMAIN shelved : j # i => shelved'[j] = shelved[j]
    BY <1>1
  <2> QED BY <1>3, <2>1, <2>2 DEF r
<1>5. \A b \in Alarm : ActiveRecords(shelved', b) = ActiveRecords(shelved, b)
  BY <1>4 DEF ActiveRecords
<1>6. Ascending(shelved') /\ OnePer(shelved', is_shelved')
  BY <1>1, <1>4, <1>5 DEF AlarmInv, Ascending, OnePer
<1> QED BY <1>1, <1>4, <1>6 DEF AlarmInv, AlarmTypeOK, ActiveCountCovers, Time

(* The rest of the state is free. *)
LEMMA OtherSteps ==
  ASSUME AlarmInv, now' \in Time, pv' \in [Alarm -> Values],
         is_suppressed' \in [Alarm -> BOOLEAN], flood' \in Flood,
         UNCHANGED <<state, is_shelved, shelve_expiry, shelved, active_alarms, event_count>>
  PROVE  AlarmInv'
<1>1. AlarmTypeOK'
  BY DEF AlarmInv, AlarmTypeOK, Flood, Time
<1>2. OnePer(shelved', is_shelved') /\ Ascending(shelved')
  BY DEF AlarmInv
<1> QED BY <1>1, <1>2 DEF AlarmInv, ActiveCountCovers

LEMMA AlarmInvStep == AlarmInv /\ [Next]_vars => AlarmInv'
<1> SUFFICES ASSUME AlarmInv, [Next]_vars PROVE AlarmInv'
  OBVIOUS
<1>0. /\ now \in Time /\ pv \in [Alarm -> Values] /\ is_suppressed \in [Alarm -> BOOLEAN]
      /\ flood \in Flood
  BY DEF AlarmInv, AlarmTypeOK, Flood
<1>1. CASE Tick
  <2>1. now' \in Time
    BY <1>0, <1>1, AlarmAssumption DEF Tick, Time
  <2> QED BY <1>0, <1>1, <2>1, OtherSteps DEF Tick, shelving, engine
<1>2. ASSUME NEW a \in Alarm, NEW v \in Values, ProcessMoves(a, v) PROVE AlarmInv'
  <2>1. pv' \in [Alarm -> Values]
    BY <1>0, <1>2 DEF ProcessMoves
  <2> QED BY <1>0, <1>2, <2>1, OtherSteps DEF ProcessMoves, shelving, engine
<1>3. ASSUME NEW p \in Plants, PlantChanges(p) PROVE AlarmInv'
  <2>1. is_suppressed' \in [Alarm -> BOOLEAN]
    BY <1>3 DEF PlantChanges, suppression_by_plant_state
  <2> QED BY <1>0, <1>3, <2>1, OtherSteps DEF PlantChanges, shelving, engine
<1>4. CASE FloodCheck
  <2>1. flood' \in Flood
    BY <1>0, <1>4, FloodUpdateIs DEF FloodCheck
  <2> QED BY <1>0, <1>4, <2>1, OtherSteps DEF FloodCheck, shelving
<1>5. CASE UNCHANGED vars
  BY <1>0, <1>5, OtherSteps DEF vars
<1> QED BY <1>1, <1>2, <1>3, <1>4, <1>5, ScanStep, AcknowledgeStep, UnshelveStep,
        AutoUnshelveStep, ShelveStep, ExtendStep DEF Next

-----------------------------------------------------------------------------
(* The alarms joined with the records kept about them.  The records have *)
(* variables of their own, so their steps are stutters of the alarms. *)
LEMMA JoinedInit == AlarmsInit => AlarmInv
BY AlarmInvInit DEF AlarmsInit

LEMMA JoinedStep ==
  [AlarmsNext]_alarmsVars => [Next]_vars /\ UNCHANGED part
BY DEF AlarmsNext, alarmsVars

LEMMA JoinedInv == AlarmsSpec => []AlarmInv
<1>1. AlarmInv /\ [AlarmsNext]_alarmsVars => AlarmInv'
  BY AlarmInvStep, JoinedStep
<1> QED BY <1>1, JoinedInit, PTL DEF AlarmsSpec

(* In the joined system too, the records and the counter agree with the *)
(* alarms, whichever part moves. *)
THEOREM RecordsAgreeHolds == AlarmsSpec => []RecordsAgree
<1>1. AlarmInv => RecordsAgree
  BY InvCounts DEF AlarmInv, RecordsAgree
<1> QED BY <1>1, JoinedInv, PTL

-----------------------------------------------------------------------------
(* The shelving policy. *)

(* What the policy says of a record whose alarm has the given expiry. *)
WithinPolicy(r, expiry) ==
  /\ r.is_active
  /\ Config[r.alarm_id].priority # "CRITICAL"
  /\ r.is_approved <=> r.extension_count > 0 \/ r.approver_id # NoApprover
  /\ Config[r.alarm_id].priority = "HIGH" => r.is_approved
  /\ r.shelve_end - r.shelve_start <= MaxTotalShelve
  /\ expiry - r.shelve_start \in 1 .. MaxShelve
  /\ expiry <= r.shelve_end
  /\ expiry = r.shelve_end <=> r.extension_count = 0

(* No record in the array is inactive, so its alarm is shelved: that is *)
(* what keeps the alarm's own expiry with it. *)
PolicyInv ==
  \A i \in DOMAIN shelved : WithinPolicy(shelved[i], shelve_expiry[shelved[i].alarm_id])

LEMMA PolicyIs == PolicyInv => ShelvePolicy
BY DEF PolicyInv, ShelvePolicy, WithinPolicy

(* The alarm of an active record is shelved. *)
LEMMA RecordIsShelved ==
  ASSUME NEW recs \in Seq(ShelveRecord), NEW flags, OnePer(recs, flags),
         NEW i \in DOMAIN recs, recs[i].is_active
  PROVE  recs[i].alarm_id \in Alarm /\ flags[recs[i].alarm_id]
<1>1. recs[i] \in ShelveRecord
  OBVIOUS
<1>2. recs[i].alarm_id \in Alarm
  BY <1>1 DEF ShelveRecord
<1>3. i \in ActiveRecords(recs, recs[i].alarm_id)
  BY DEF ActiveRecords
<1> QED BY <1>2, <1>3 DEF OnePer

(* Records that stay, of alarms whose expiry stays, stay within policy. *)
LEMMA PolicyKept ==
  ASSUME AlarmInv, AlarmInv', PolicyInv, From(shelved', shelved),
         \A a \in Alarm : is_shelved'[a] => shelve_expiry'[a] = shelve_expiry[a]
  PROVE  PolicyInv'
<1> SUFFICES ASSUME NEW i \in DOMAIN shelved'
             PROVE  WithinPolicy(shelved'[i], shelve_expiry'[shelved'[i].alarm_id])
  BY DEF PolicyInv, WithinPolicy
<1>1. PICK j \in DOMAIN shelved : shelved'[i] = shelved[j]
  BY DEF From
<1>2. WithinPolicy(shelved'[i], shelve_expiry[shelved'[i].alarm_id])
  BY <1>1 DEF PolicyInv
<1>3. shelved' \in Seq(ShelveRecord) /\ OnePer(shelved', is_shelved')
  BY DEF AlarmInv, AlarmTypeOK
<1>4. shelved'[i].is_active
  BY <1>2 DEF WithinPolicy
<1>5. shelved'[i].alarm_id \in Alarm /\ is_shelved'[shelved'[i].alarm_id]
  BY <1>3, <1>4, RecordIsShelved
<1> QED BY <1>2, <1>5

(* A new record is within the limit for one shelving, which is within the *)
(* total; the approver of a HIGH alarm has been asked for, and no other *)
(* record is of that alarm. *)
LEMMA ShelvePolicyStep ==
  ASSUME AlarmInv, PolicyInv, NEW a \in Alarm, NEW d \in Durations, NEW who \in Approvals,
         Shelve(a, d, who)
  PROVE  PolicyInv'
<1> DEFINE n == Len(shelved)
           r == [shelve_id |-> next_shelve_id(shelved), alarm_id |-> a,
                 shelve_start |-> now, shelve_end |-> now + d,
                 approver_id |-> copied(NoApprover, who),
                 is_approved |-> who \notin {NoApprover, NullApprover},
                 is_active |-> TRUE, extension_count |-> 0]
<1>1. /\ shelved' = Append(shelved, r)
      /\ shelve_expiry' = [shelve_expiry EXCEPT ![a] = now + d]
      /\ d \in 1 .. MaxShelve /\ Config[a].priority # "CRITICAL" /\ ~ is_shelved[a]
      /\ Config[a].priority = "HIGH" => who \notin {NoApprover, NullApprover}
  BY DEF Shelve, validate_shelve
<1>2. /\ shelved \in Seq(ShelveRecord) /\ n \in Nat /\ DOMAIN shelved = 1 .. n
      /\ shelve_expiry \in [Alarm -> Nat]
  BY DEF AlarmInv, AlarmTypeOK
<1>3. WithinPolicy(r, now + d)
  <2>1. now \in Nat /\ d \in Nat /\ d <= MaxTotalShelve
    BY <1>1, AlarmAssumption DEF AlarmInv, AlarmTypeOK, Time
  <2>2. (now + d) - now = d
    BY <2>1
  <2>3. r.is_approved <=> r.approver_id # NoApprover
    BY DEF copied, NoApprover, NullApprover
  <2>4. /\ r.alarm_id = a /\ r.shelve_start = now /\ r.shelve_end = now + d
        /\ r.is_active /\ r.extension_count = 0
        /\ Config[a].priority = "HIGH" => r.is_approved
    BY <1>1
  <2> HIDE DEF r
  <2>5. now + d <= now + d /\ ~ r.extension_count > 0
    BY <2>1, <2>4
  <2> QED BY <1>1, <2>1, <2>2, <2>3, <2>4, <2>5 DEF WithinPolicy
<1>4. r.alarm_id = a
  OBVIOUS
<1> HIDE DEF r
<1>5. /\ DOMAIN shelved' = 1 .. n + 1
      /\ \A i \in 1 .. n : shelved'[i] = shelved[i]
      /\ shelved'[n + 1] = r
  BY <1>1, <1>2
<1>6. \A i \in DOMAIN shelved :
        WithinPolicy(shelved[i], shelve_expiry'[shelved[i].alarm_id])
  <2> TAKE i \in DOMAIN shelved
  <2>1. WithinPolicy(shelved[i], shelve_expiry[shelved[i].alarm_id])
    BY DEF PolicyInv
  <2>2. shelved[i].alarm_id \in Alarm /\ is_shelved[shelved[i].alarm_id]
    BY <1>2, <2>1, RecordIsShelved DEF WithinPolicy, AlarmInv
  <2> QED BY <1>1, <1>2, <2>1, <2>2
<1>7. shelve_expiry'[a] = now + d
  BY <1>1, <1>2
<1> HIDE DEF n
<1> SUFFICES ASSUME NEW i \in 1 .. n + 1
             PROVE  WithinPolicy(shelved'[i], shelve_expiry'[shelved'[i].alarm_id])
  BY <1>5 DEF PolicyInv, WithinPolicy
<1>8. i \in 1 .. n \/ i = n + 1
  BY <1>2
<1> QED BY <1>2, <1>3, <1>4, <1>5, <1>6, <1>7, <1>8

(* An extension adds to the same record, is refused past the total, leaves *)
(* the alarm's expiry behind and counts as an approval. *)
LEMMA ExtendPolicyStep ==
  ASSUME AlarmInv, PolicyInv, NEW i \in DOMAIN shelved, NEW d \in Durations,
         NEW who \in Approvals, Extend(i, d, who)
  PROVE  PolicyInv'
<1> DEFINE r == shelved[i]
           new == [r EXCEPT !.shelve_end      = @ + d,
                            !.extension_count = @ + 1,
                            !.approver_id     = copied(@, who),
                            !.is_approved     = TRUE]
           expiry == shelve_expiry[r.alarm_id]
<1>1. /\ shelved' = [shelved EXCEPT ![i] = new] /\ shelve_expiry' = shelve_expiry
      /\ r.shelve_end + d - r.shelve_start <= MaxTotalShelve
  BY DEF Extend
<1>2. /\ shelved \in Seq(ShelveRecord) /\ r \in ShelveRecord /\ WithinPolicy(r, expiry)
      /\ expiry \in Nat
  <2>1. shelved \in Seq(ShelveRecord) /\ shelve_expiry \in [Alarm -> Nat]
    BY DEF AlarmInv, AlarmTypeOK
  <2>2. r \in ShelveRecord
    BY <2>1
  <2>3. r.alarm_id \in Alarm
    BY <2>2 DEF ShelveRecord
  <2>4. WithinPolicy(r, expiry)
    BY DEF PolicyInv
  <2> QED BY <2>1, <2>2, <2>3, <2>4
<1>3. /\ new.alarm_id = r.alarm_id /\ new.shelve_start = r.shelve_start
      /\ new.shelve_end = r.shelve_end + d /\ new.is_active = r.is_active
      /\ new.is_approved /\ new.extension_count = r.extension_count + 1
  BY <1>2 DEF ShelveRecord
<1>4. r.shelve_end \in Nat /\ r.shelve_start \in Nat /\ d \in Nat /\ d > 0
      /\ r.extension_count \in Nat
  BY <1>2, AlarmAssumption DEF ShelveRecord, Time, MaxExtensions
<1> HIDE DEF r, new, expiry
<1>5. WithinPolicy(new, expiry)
  <2>1. expiry <= new.shelve_end /\ expiry # new.shelve_end /\ new.extension_count > 0
    BY <1>2, <1>3, <1>4 DEF WithinPolicy
  <2> QED BY <1>1, <1>2, <1>3, <1>4, <2>1 DEF WithinPolicy
<1>6. /\ DOMAIN shelved' = DOMAIN shelved /\ shelved'[i] = new
      /\ \A j \in DOMAIN shelved : j # i => shelved'[j] = shelved[j]
  BY <1>1, <1>2
<1> SUFFICES ASSUME NEW j \in DOMAIN shelved
             PROVE  WithinPolicy(shelved'[j], shelve_expiry'[shelved'[j].alarm_id])
  BY <1>6 DEF PolicyInv, WithinPolicy
<1>7. CASE j = i
  BY <1>1, <1>3, <1>5, <1>6, <1>7 DEF expiry
<1>8. CASE j # i
  BY <1>1, <1>6, <1>8 DEF PolicyInv
<1> QED BY <1>7, <1>8

LEMMA PolicyStep == AlarmInv /\ PolicyInv /\ [Next]_vars => PolicyInv'
<1> SUFFICES ASSUME AlarmInv, PolicyInv, [Next]_vars PROVE PolicyInv'
  OBVIOUS
<1>1. AlarmInv'
  BY AlarmInvStep
<1>2. is_shelved \in [Alarm -> BOOLEAN] /\ shelve_expiry \in [Alarm -> Nat]
  BY DEF AlarmInv, AlarmTypeOK
<1>3. ASSUME NEW a \in Alarm, Unshelve(a) PROVE PolicyInv'
  <2>1. From(shelved', shelved)
    BY <1>3, DropKeepsType DEF Unshelve, AlarmInv, AlarmTypeOK
  <2>2. \A b \in Alarm : is_shelved'[b] => shelve_expiry'[b] = shelve_expiry[b]
    BY <1>2, <1>3 DEF Unshelve
  <2> QED BY <1>1, <2>1, <2>2, PolicyKept
<1>4. CASE AutoUnshelve
  <2>1. From(shelved', shelved)
    BY <1>4, UnshelvedIs DEF AlarmInv
  <2>2. \A b \in Alarm : is_shelved'[b] => shelve_expiry'[b] = shelve_expiry[b]
    BY <1>4 DEF AutoUnshelve
  <2> QED BY <1>1, <2>1, <2>2, PolicyKept
<1>5. CASE UNCHANGED <<shelved, shelve_expiry>>
  BY <1>5 DEF PolicyInv
<1> QED BY <1>3, <1>4, <1>5, ShelvePolicyStep, ExtendPolicyStep
        DEF Next, vars, shelving, Tick, ProcessMoves, PlantChanges, Scan, FloodCheck, Acknowledge

(* Whatever is shelved, extended, unshelved and compacted: no CRITICAL *)
(* alarm is shelved, no HIGH one without an approver whose name lasts *)
(* until the first extension, and the alarm's expiry stays that of its *)
(* first duration while its record's end moves, within the total allowed. *)
THEOREM ShelvePolicyHolds == AlarmsSpec => []ShelvePolicy
<1>1. AlarmsInit => PolicyInv
  BY DEF AlarmsInit, Init, PolicyInv
<1>2. AlarmInv /\ PolicyInv /\ [AlarmsNext]_alarmsVars => PolicyInv'
  BY PolicyStep, JoinedStep
<1> QED BY <1>1, <1>2, JoinedInv, PolicyIs, PTL DEF AlarmsSpec

-----------------------------------------------------------------------------
(* Alarms that nobody has acknowledged. *)

NotLost ==
  \A a \in Alarm :
    /\ state[a] \in {"ACTIVE_UNACK", "RTN_UNACK"}
    /\ state'[a] \in {"NORMAL", "CLEARED"}
    => Acknowledge(a) \/ (is_shelved[a] /\ ~ is_shelved'[a])

LEMMA NotLostStep == AlarmInv /\ [Next]_vars => NotLost
<1> SUFFICES ASSUME AlarmInv, [Next]_vars, NEW a \in Alarm,
                    state[a] \in Unacknowledged, state'[a] \notin Unacknowledged,
                    state'[a] \in {"NORMAL", "CLEARED"}
             PROVE  Acknowledge(a) \/ (is_shelved[a] /\ ~ is_shelved'[a])
  BY DEF NotLost, Unacknowledged
<1>1. state \in [Alarm -> State] /\ is_shelved \in [Alarm -> BOOLEAN]
  BY DEF AlarmInv, AlarmTypeOK
<1>2. CASE UNCHANGED state
  BY <1>2
<1>3. CASE Scan
  BY <1>3, ScanIs DEF Scan, AlarmInv
<1>4. ASSUME NEW b \in Alarm, Acknowledge(b) PROVE Acknowledge(a)
  BY <1>1, <1>4 DEF Acknowledge
<1>5. ASSUME NEW b \in Alarm, Unshelve(b) PROVE is_shelved[a] /\ ~ is_shelved'[a]
  BY <1>1, <1>5 DEF Unshelve
<1>6. ASSUME AutoUnshelve PROVE is_shelved[a] /\ ~ is_shelved'[a]
  BY <1>1, <1>6 DEF AutoUnshelve, Expired
<1> QED BY <1>2, <1>3, <1>4, <1>5, <1>6
        DEF Next, vars, Tick, ProcessMoves, PlantChanges, FloodCheck, Shelve, Extend

(* An alarm that waits for an acknowledgement goes back to NORMAL or *)
(* CLEARED only through one, or when it comes back from being shelved: *)
(* no scan, whatever the plant and its masks do, drops it. *)
THEOREM UnackNotLostHolds == AlarmsSpec => UnackNotLost
<1>1. AlarmInv /\ [AlarmsNext]_alarmsVars => [NotLost]_vars
  BY NotLostStep, JoinedStep
<1>2. UnackNotLost <=> [][NotLost]_vars
  BY DEF UnackNotLost, NotLost
<1> QED BY <1>1, <1>2, JoinedInv, PTL DEF AlarmsSpec

-----------------------------------------------------------------------------
(* Numbers modulo m, as an unsigned counter keeps them. *)

(* A quotient and a remainder give the remainder back. *)
LEMMA ModUnique ==
  ASSUME NEW m \in Nat, m > 0, NEW q \in Int, NEW r \in 0 .. m - 1
  PROVE  (m * q + r) % m = r
OBVIOUS

(* Every integer has a quotient and a remainder. *)
LEMMA ModSpans ==
  ASSUME NEW m \in Nat, m > 0, NEW x \in Int
  PROVE  \E q \in Int, r \in 0 .. m - 1 : x = m * q + r /\ x % m = r
<1>1. x \div m \in Int /\ x % m \in 0 .. m - 1 /\ x = (m * (x \div m)) + (x % m)
  OBVIOUS
<1> QED BY <1>1

(* Counting on by one or back by one may be done before or after the *)
(* reduction. *)
LEMMA ModStep ==
  ASSUME NEW m \in Nat, m > 0, NEW x \in Int, NEW d \in {0 - 1, 0, 1}
  PROVE  ((x % m) + d) % m = (x + d) % m
<1>1. PICK q \in Int, r \in 0 .. m - 1 : x = m * q + r /\ x % m = r
  BY ModSpans
<1>2. CASE r + d \in 0 .. m - 1
  <2>1. (m * q + (r + d)) % m = r + d /\ (m * 0 + (r + d)) % m = r + d
    BY <1>2, ModUnique
  <2>2. x + d = m * q + (r + d) /\ r + d = m * 0 + (r + d)
    BY <1>1
  <2> QED BY <1>1, <2>1, <2>2
<1>3. CASE r + d = m
  <2>1. (m * (q + 1) + 0) % m = 0 /\ (m * 1 + 0) % m = 0
    BY ModUnique
  <2>2. x + d = m * (q + 1) + 0 /\ r + d = m * 1 + 0
    BY <1>1, <1>3
  <2> QED BY <1>1, <2>1, <2>2
<1>4. CASE r + d = 0 - 1
  <2>1. (m * (q - 1) + (m - 1)) % m = m - 1 /\ (m * (0 - 1) + (m - 1)) % m = m - 1
    <3>1. q - 1 \in Int /\ 0 - 1 \in Int /\ m - 1 \in 0 .. m - 1
      OBVIOUS
    <3> QED BY <3>1, ModUnique
  <2>2. x + d = m * (q - 1) + (m - 1) /\ r + d = m * (0 - 1) + (m - 1)
    BY <1>1, <1>4
  <2> QED BY <1>1, <2>1, <2>2
<1>5. r + d \in 0 .. m - 1 \/ r + d = m \/ r + d = 0 - 1
  OBVIOUS
<1> QED BY <1>2, <1>3, <1>4, <1>5

-----------------------------------------------------------------------------
(* The master alarm database. *)

MadAlarm == [alarm_id : Nat, tag : STRING, priority : Priority,
             is_rationalized : BOOLEAN, has_consequence : BOOLEAN]

MadRecord == [priority : Priority, is_justified : BOOLEAN, team : Seq(Members)]

Unflagged(a) == {i \in DOMAIN a : ~ a[i].is_rationalized}

Flagged(a) == Len(a) - Cardinality(Unflagged(a))

(* The alarms that are not rationalized can be counted. *)
LEMMA UnflaggedIs ==
  ASSUME NEW a \in Seq(MadAlarm)
  PROVE  /\ IsFiniteSet(Unflagged(a)) /\ Cardinality(Unflagged(a)) \in Nat
         /\ Flagged(a) \in Int
<1>1. DOMAIN a = 1 .. Len(a) /\ Len(a) \in Nat
  BY LenProperties
<1>2. IsFiniteSet(1 .. Len(a))
  <2>1. 1 \in Int /\ Len(a) \in Int
    BY <1>1
  <2> QED BY <2>1, FS_Interval
<1>3. Unflagged(a) \in SUBSET (1 .. Len(a))
  BY <1>1 DEF Unflagged
<1>4. IsFiniteSet(Unflagged(a))
  BY <1>2, <1>3, FS_Subset
<1>5. Cardinality(Unflagged(a)) \in Nat
  BY <1>4, FS_CardinalityType
<1> QED BY <1>1, <1>4, <1>5 DEF Flagged

(* An alarm appended counts if it is rationalized. *)
LEMMA FlaggedAppend ==
  ASSUME NEW a \in Seq(MadAlarm), NEW e \in MadAlarm
  PROVE  Flagged(Append(a, e)) = Flagged(a) + BoolToInt(e.is_rationalized)
<1> DEFINE n == Len(a)
           b == Append(a, e)
           U == Unflagged(a)
<1>1. DOMAIN a = 1 .. n /\ n \in Nat
  BY LenProperties
<1>2. Len(b) = n + 1 /\ DOMAIN b = 1 .. n + 1 /\ b[n + 1] = e /\ \A i \in 1 .. n : b[i] = a[i]
  <2>1. b \in Seq(MadAlarm) /\ Len(b) = n + 1 /\ b[n + 1] = e /\ \A i \in 1 .. n : b[i] = a[i]
    BY AppendProperties
  <2> HIDE DEF b, n
  <2> QED BY <2>1, LenProperties
<1> HIDE DEF b, n
<1>3. IsFiniteSet(U) /\ Cardinality(U) \in Nat /\ n + 1 \notin U
  <2>1. n + 1 \notin U
    BY <1>1 DEF Unflagged
  <2> QED BY <2>1, UnflaggedIs
<1>4. CASE e.is_rationalized
  <2>1. Unflagged(b) = U
    BY <1>1, <1>2, <1>4 DEF Unflagged
  <2>2. BoolToInt(e.is_rationalized) = 1
    BY <1>4 DEF BoolToInt
  <2> QED BY <1>1, <1>2, <1>3, <2>1, <2>2 DEF Flagged, b, n
<1>5. CASE ~ e.is_rationalized
  <2>1. Unflagged(b) = U \cup {n + 1}
    BY <1>1, <1>2, <1>5 DEF Unflagged
  <2>2. Cardinality(U \cup {n + 1}) = Cardinality(U) + 1
    BY <1>3, FS_AddElement
  <2>3. BoolToInt(e.is_rationalized) = 0
    BY <1>5 DEF BoolToInt
  <2> QED BY <1>1, <1>2, <1>3, <2>1, <2>2, <2>3 DEF Flagged, b, n
<1> QED BY <1>4, <1>5

(* The number of unflagged alarms but the one at k. *)
LEMMA FlaggedBut ==
  ASSUME NEW a \in Seq(MadAlarm), NEW k \in DOMAIN a
  PROVE  /\ Cardinality(Unflagged(a) \ {k}) \in Nat
         /\ Flagged(a) = Len(a) - 1 - Cardinality(Unflagged(a) \ {k})
                         + BoolToInt(a[k].is_rationalized)
<1> DEFINE U == Unflagged(a)
<1>1. IsFiniteSet(U) /\ Cardinality(U) \in Nat /\ Len(a) \in Nat
  BY UnflaggedIs, LenProperties
<1>2. CASE a[k].is_rationalized
  <2>1. U \ {k} = U /\ BoolToInt(a[k].is_rationalized) = 1
    BY <1>2 DEF Unflagged, BoolToInt
  <2> HIDE DEF U
  <2>2. Cardinality(U \ {k}) = Cardinality(U)
    BY <2>1
  <2> QED BY <1>1, <2>1, <2>2 DEF Flagged, U
<1>3. CASE ~ a[k].is_rationalized
  <2>1. k \in U /\ BoolToInt(a[k].is_rationalized) = 0
    BY <1>3 DEF Unflagged, BoolToInt
  <2>2. Cardinality(U \ {k}) = Cardinality(U) - 1
    <3> HIDE DEF U
    <3> QED BY <1>1, <2>1, FS_RemoveElement
  <2>3. Cardinality(U) # 0
    <3> HIDE DEF U
    <3>1. Cardinality(U) = 0 <=> U = {}
      BY <1>1, FS_EmptySet
    <3> QED BY <2>1, <3>1
  <2> HIDE DEF U
  <2> QED BY <1>1, <2>1, <2>2, <2>3 DEF Flagged, U
<1> QED BY <1>2, <1>3

(* An alarm replaced counts by what changes of its flag. *)
LEMMA FlaggedReplaced ==
  ASSUME NEW a \in Seq(MadAlarm), NEW b \in Seq(MadAlarm), NEW k \in DOMAIN a,
         DOMAIN b = DOMAIN a, \A i \in DOMAIN a : i # k => b[i] = a[i]
  PROVE  Flagged(b) = Flagged(a) + (BoolToInt(b[k].is_rationalized)
                                    - BoolToInt(a[k].is_rationalized))
<1>1. Unflagged(a) \ {k} = Unflagged(b) \ {k}
  BY DEF Unflagged
<1>2. Len(b) = Len(a) /\ Len(a) \in Nat
  BY LenProperties
<1>3. Flagged(a) \in Int /\ Flagged(b) \in Int
  BY UnflaggedIs
<1>4. /\ Flagged(a) = Len(a) - 1 - Cardinality(Unflagged(a) \ {k})
                         + BoolToInt(a[k].is_rationalized)
      /\ Cardinality(Unflagged(a) \ {k}) \in Nat
  BY FlaggedBut
<1>5. /\ Flagged(b) = Len(b) - 1 - Cardinality(Unflagged(b) \ {k})
                         + BoolToInt(b[k].is_rationalized)
  BY FlaggedBut
<1>6. BoolToInt(b[k].is_rationalized) \in Int /\ BoolToInt(a[k].is_rationalized) \in Int
  BY DEF BoolToInt
<1>7. Cardinality(Unflagged(b) \ {k}) = Cardinality(Unflagged(a) \ {k})
  BY <1>1, Zenon
<1> DEFINE c == Cardinality(Unflagged(a) \ {k})
<1>8. /\ c \in Nat
      /\ Flagged(a) = Len(a) - 1 - c + BoolToInt(a[k].is_rationalized)
      /\ Flagged(b) = Len(a) - 1 - c + BoolToInt(b[k].is_rationalized)
  BY <1>2, <1>4, <1>5, <1>7, Zenon
<1> HIDE DEF c
<1> QED BY <1>2, <1>6, <1>8

(* An alarm removed no longer counts. *)
LEMMA FlaggedRemoved ==
  ASSUME NEW a \in Seq(MadAlarm), NEW k \in DOMAIN a
  PROVE  Flagged(RemoveAt(a, k)) = Flagged(a) - BoolToInt(a[k].is_rationalized)
<1> DEFINE n == Len(a)
           b == RemoveAt(a, k)
           G == Unflagged(b)
           F == Unflagged(a) \ {k}
           f == [i \in G |-> IF i < k THEN i ELSE i + 1]
<1>1. DOMAIN a = 1 .. n /\ n \in Nat /\ k \in 1 .. n
  BY LenProperties
<1>2. /\ b \in Seq(MadAlarm) /\ DOMAIN b = 1 .. n - 1
      /\ \A i \in 1 .. n - 1 : b[i] = a[IF i < k THEN i ELSE i + 1]
  BY RemovedIs
<1>3. Len(b) = n - 1
  <2> HIDE DEF b, n
  <2> QED BY <1>1, <1>2, LenProperties
<1> HIDE DEF b, n
<1>4. f \in Bijection(G, F)
  <2>1. \A i \in G : i \in 1 .. n - 1 /\ f[i] \in F
    <3> SUFFICES ASSUME NEW i \in G PROVE i \in 1 .. n - 1 /\ f[i] \in F
      OBVIOUS
    <3>1. i \in 1 .. n - 1 /\ ~ b[i].is_rationalized
      BY <1>2 DEF Unflagged
    <3> DEFINE j == IF i < k THEN i ELSE i + 1
    <3>2. j \in 1 .. n /\ j # k /\ f[i] = j
      BY <1>1, <3>1
    <3>3. b[i] = a[j]
      BY <1>2, <3>1
    <3> HIDE DEF j, f
    <3> QED BY <1>1, <3>1, <3>2, <3>3 DEF Unflagged
  <2>2. f \in Injection(G, F)
    <3>1. f \in [G -> F]
      BY <2>1
    <3>2. \A i, j \in G : f[i] = f[j] => i = j
      BY <1>1, <2>1
    <3> HIDE DEF f, F, G
    <3> QED BY <3>1, <3>2, Zenon DEF Injection, IsInjective
  <2>3. \A j \in F : \E i \in G : f[i] = j
    <3> SUFFICES ASSUME NEW j \in F PROVE \E i \in G : f[i] = j
      OBVIOUS
    <3> DEFINE i == IF j < k THEN j ELSE j - 1
    <3>1. j \in 1 .. n /\ j # k /\ ~ a[j].is_rationalized
      BY <1>1 DEF Unflagged
    <3>2. i \in 1 .. n - 1 /\ (IF i < k THEN i ELSE i + 1) = j
      BY <1>1, <3>1
    <3> HIDE DEF i
    <3>3. i \in G
      BY <1>2, <3>1, <3>2 DEF Unflagged
    <3> QED BY <3>2, <3>3
  <2> QED BY <2>2, <2>3 DEF Surjection, Bijection, Injection
<1>5. IsFiniteSet(F) /\ IsFiniteSet(G)
  BY <1>2, UnflaggedIs, FS_RemoveElement
<1>6. Cardinality(G) = Cardinality(F)
  <2> HIDE DEF f, F, G
  <2>1. ExistsBijection(G, F)
    BY <1>4 DEF ExistsBijection
  <2> QED BY <1>5, <2>1, FS_Bijection
<1>7. /\ Cardinality(F) \in Nat
      /\ Flagged(a) = n - 1 - Cardinality(F) + BoolToInt(a[k].is_rationalized)
  BY FlaggedBut DEF n
<1>8. BoolToInt(a[k].is_rationalized) \in Int
  BY DEF BoolToInt
<1> HIDE DEF F, G
<1>9. Flagged(b) = n - 1 - Cardinality(G)
  BY <1>3 DEF Flagged, G
<1> QED BY <1>1, <1>6, <1>7, <1>8, <1>9 DEF b

MadType == [alarms : Seq(MadAlarm), rationalized_count : Int, record : MadRecord,
            flips : (0 - MaxFlips) .. MaxFlips, gap : BOOLEAN]

TagsDiffer(a) == \A i, j \in DOMAIN a : a[i].tag = a[j].tag => i = j

Numbered(a) == \A i \in DOMAIN a : a[i].alarm_id = i

(* What is rationalized has a consequence: mad_add_alarm sets both from *)
(* one flag, and apply_to_alarm sets the second with the first. *)
Consequent(a) == \A i \in DOMAIN a : a[i].is_rationalized => a[i].has_consequence

MadSound(m) ==
  /\ m \in MadType
  /\ TagsDiffer(m.alarms) /\ Consequent(m.alarms)
  /\ ~ m.gap => Numbered(m.alarms)
  /\ m.rationalized_count = (Flagged(m.alarms) - m.flips) % CountRange

(* The database starts empty. *)
LEMMA MadStarts ==
  ASSUME MadInit
  PROVE  MadSound(mad)
<1> DEFINE none == << >>
<1>1. /\ mad.alarms = none /\ mad.rationalized_count = 0 /\ mad.record = BlankRecord
      /\ mad.flips = 0 /\ mad.gap = FALSE
  BY DEF MadInit
<1>2. none \in Seq(MadAlarm) /\ none \in Seq(Members) /\ DOMAIN none = {} /\ Len(none) = 0
  OBVIOUS
<1>3. BlankRecord \in MadRecord
  <2> DEFINE p == "LOW"
  <2>1. p \in Priority
    BY DEF Priority
  <2>2. BlankRecord = [priority |-> p, is_justified |-> FALSE, team |-> none]
    BY DEF BlankRecord
  <2> HIDE DEF p, none
  <2> QED BY <1>2, <2>1, <2>2 DEF MadRecord
<1>4. mad \in MadType
  <2>1. mad = [alarms |-> none, rationalized_count |-> 0, record |-> BlankRecord,
               flips |-> 0, gap |-> FALSE]
    BY DEF MadInit
  <2>2. 0 \in (0 - MaxFlips) .. MaxFlips
    BY RecordsAssumption
  <2> HIDE DEF none
  <2> QED BY <1>2, <1>3, <2>1, <2>2 DEF MadType
<1>5. Flagged(none) = 0
  <2>1. Unflagged(none) = {}
    BY <1>2 DEF Unflagged
  <2>2. Cardinality({}) = 0
    BY FS_EmptySet
  <2> QED BY <1>2, <2>1, <2>2 DEF Flagged
<1> HIDE DEF none
<1>6. (0 - 0) % CountRange = 0
  <2>1. CountRange \in Nat /\ CountRange > 0
    BY RecordsAssumption
  <2> QED BY <2>1
<1> QED BY <1>1, <1>2, <1>4, <1>5, <1>6 DEF MadSound, TagsDiffer, Consequent, Numbered

(* Filling in the record of a rationalization leaves the database alone. *)
LEMMA RecordStep ==
  ASSUME MadSound(mad), NEW r \in MadRecord, mad' = [mad EXCEPT !.record = r]
  PROVE  MadSound(mad')
<1>1. mad \in MadType
  BY DEF MadSound
<1>2. /\ mad'.alarms = mad.alarms /\ mad'.rationalized_count = mad.rationalized_count
      /\ mad'.flips = mad.flips /\ mad'.gap = mad.gap /\ mad' \in MadType
  BY <1>1 DEF MadType
<1> QED BY <1>2 DEF MadSound

(* Filling a record changes no alarm of the database. *)
LEMMA FillingSteps ==
  ASSUME MadSound(mad),
         NewRecord \/ (\E m \in Members : team_add_member(m))
         \/ \E x \in Assessments : set_outcome(x)
  PROVE  MadSound(mad')
<1>1. mad.record \in MadRecord /\ mad \in MadType
  BY DEF MadSound, MadType
<1>2. CASE NewRecord
  <2> DEFINE p == "LOW"
             none == << >>
  <2>1. p \in Priority /\ none \in Seq(Members)
    BY DEF Priority
  <2>2. BlankRecord = [priority |-> p, is_justified |-> FALSE, team |-> none]
    BY DEF BlankRecord
  <2> HIDE DEF p, none
  <2>3. BlankRecord \in MadRecord
    BY <2>1, <2>2 DEF MadRecord
  <2> QED BY <1>2, <2>3, RecordStep DEF NewRecord
<1>3. ASSUME NEW m \in Members, team_add_member(m) PROVE MadSound(mad')
  <2> DEFINE t == Append(mad.record.team, m)
             r == [mad.record EXCEPT !.team = t]
  <2>1. t \in Seq(Members)
    BY <1>1, AppendProperties DEF MadRecord
  <2>2. mad' = [mad EXCEPT !.record = r]
    BY <1>1, <1>3 DEF team_add_member, MadType, MadRecord
  <2> HIDE DEF t
  <2>3. r \in MadRecord
    BY <1>1, <2>1 DEF MadRecord
  <2> HIDE DEF r
  <2> QED BY <2>2, <2>3, RecordStep
<1>4. ASSUME NEW x \in Assessments, set_outcome(x) PROVE MadSound(mad')
  <2> DEFINE p == assign_priority_matrix(x.severity, x.urgency)
             b == check_alarm_justified(x)
             r == [mad.record EXCEPT !.priority = p, !.is_justified = b]
  <2>1. /\ x.severity \in 0 .. 3 /\ x.urgency \in 0 .. 3
        /\ x.consequence \in BOOLEAN /\ x.corrective_action \in BOOLEAN
        /\ x.can_be_eliminated \in BOOLEAN /\ x.time_to_respond \in Nat
    BY RecordsAssumption
  <2>2. p \in Priority
    <3>1. /\ x.severity = 0 \/ x.severity = 1 \/ x.severity = 2 \/ x.severity = 3
          /\ x.urgency = 0 \/ x.urgency = 1 \/ x.urgency = 2 \/ x.urgency = 3
      BY <2>1
    <3> QED BY <3>1 DEF assign_priority_matrix, Priority
  <2>3. b \in BOOLEAN
    BY <2>1 DEF check_alarm_justified
  <2>4. mad' = [mad EXCEPT !.record = r]
    <3> HIDE DEF p, b
    <3>1. mad' = [mad EXCEPT !.record.priority = p, !.record.is_justified = b]
      BY <1>4 DEF set_outcome, p, b
    <3> QED BY <1>1, <3>1 DEF MadType, MadRecord
  <2> HIDE DEF p, b
  <2>5. r \in MadRecord
    BY <1>1, <2>2, <2>3 DEF MadRecord
  <2> HIDE DEF r
  <2> QED BY <2>4, <2>5, RecordStep
<1> QED BY <1>2, <1>3, <1>4

(* The counter has a range. *)
LEMMA CountRangeIs == CountRange \in Nat /\ CountRange > 0
BY RecordsAssumption

(* A flag counts one or nothing. *)
LEMMA BoolIs ==
  ASSUME NEW b \in BOOLEAN
  PROVE  BoolToInt(b) \in {0, 1} /\ (BoolToInt(b) = 1 <=> b)
BY DEF BoolToInt

(* A decision applied moves the count with the flag. *)
LEMMA ApplyStep ==
  ASSUME MadSound(mad), NEW i \in DOMAIN mad.alarms, apply_to_alarm(i)
  PROVE  MadSound(mad')
<1> DEFINE r == mad.record
           a == mad.alarms
           e == [a[i] EXCEPT !.priority = r.priority, !.is_rationalized = r.is_justified,
                             !.has_consequence = @ \/ r.is_justified]
           b == [a EXCEPT ![i] = e]
           flip == BoolToInt(r.is_justified) - BoolToInt(a[i].is_rationalized)
<1>1. /\ mad \in MadType /\ a \in Seq(MadAlarm) /\ a[i] \in MadAlarm /\ r \in MadRecord
      /\ mad.flips \in Int /\ r.is_justified \in BOOLEAN /\ a[i].is_rationalized \in BOOLEAN
  <2>1. mad \in MadType /\ a \in Seq(MadAlarm) /\ r \in MadRecord /\ mad.flips \in Int
    BY RecordsAssumption DEF MadSound, MadType
  <2> HIDE DEF a, r
  <2>2. a[i] \in MadAlarm
    BY <2>1 DEF a
  <2>3. a[i].is_rationalized \in BOOLEAN
    BY <2>2 DEF MadAlarm
  <2>4. r.is_justified \in BOOLEAN
    BY <2>1 DEF MadRecord
  <2> QED BY <2>1, <2>2, <2>3, <2>4 DEF a
<1>2. /\ mad.flips + flip \in (0 - MaxFlips) .. MaxFlips
      /\ mad' = [mad EXCEPT !.alarms = b, !.flips = mad.flips + flip]
  <2>1. /\ mad.flips + flip \in (0 - MaxFlips) .. MaxFlips
        /\ mad' = [mad EXCEPT
             !.alarms[i].priority        = r.priority,
             !.alarms[i].is_rationalized = r.is_justified,
             !.alarms[i].has_consequence = mad.alarms[i].has_consequence \/ r.is_justified,
             !.flips = mad.flips + flip]
    BY DEF apply_to_alarm
  <2> HIDE DEF flip, r
  <2>2. mad' = [mad EXCEPT !.alarms = [a EXCEPT ![i] = e], !.flips = mad.flips + flip]
    BY <1>1, <2>1, ZenonT(60) DEF MadType, MadAlarm
  <2> QED BY <2>1, <2>2
<1>3. /\ e \in MadAlarm /\ e.is_rationalized = r.is_justified /\ e.tag = a[i].tag
      /\ e.alarm_id = a[i].alarm_id /\ e.has_consequence = (a[i].has_consequence \/ r.is_justified)
  BY <1>1 DEF MadAlarm, MadRecord
<1> HIDE DEF e
<1>4. /\ b \in Seq(MadAlarm) /\ DOMAIN b = DOMAIN a /\ b[i] = e
      /\ \A j \in DOMAIN a : j # i => b[j] = a[j]
  BY <1>1, <1>3, ExceptSeq
<1>5. /\ mad'.alarms = b /\ mad'.flips = mad.flips + flip /\ mad'.gap = mad.gap
      /\ mad'.rationalized_count = mad.rationalized_count /\ mad' \in MadType
  <2> HIDE DEF b, flip, r
  <2> QED BY <1>1, <1>2, <1>4 DEF MadType
<1> HIDE DEF b
<1>6. Flagged(b) = Flagged(a) + flip
  BY <1>1, <1>3, <1>4, FlaggedReplaced
<1>7. Flagged(b) - (mad.flips + flip) = Flagged(a) - mad.flips
  <2>1. Flagged(a) \in Int /\ flip \in Int
    BY <1>1, UnflaggedIs, BoolIs
  <2> HIDE DEF a, flip
  <2> QED BY <1>1, <1>6, <2>1
<1>8. mad'.rationalized_count = (Flagged(mad'.alarms) - mad'.flips) % CountRange
  BY <1>5, <1>7 DEF MadSound
<1>9. TagsDiffer(a) /\ Consequent(a) /\ (mad.gap \/ Numbered(a))
  BY DEF MadSound
<1> HIDE DEF a, r
<1>10. TagsDiffer(b) /\ Consequent(b)
  BY <1>3, <1>4, <1>9, <1>1 DEF TagsDiffer, Consequent, MadRecord
<1>11. Numbered(a) => Numbered(b)
  BY <1>3, <1>4 DEF Numbered
<1> QED BY <1>5, <1>8, <1>9, <1>10, <1>11 DEF MadSound

(* An alarm added counts if it is rationalized, and its id is new. *)
LEMMA AddStep ==
  ASSUME MadSound(mad), NEW c \in MadConfigs, mad_add_alarm(c)
  PROVE  MadSound(mad')
<1> DEFINE a == mad.alarms
           n == Len(a)
           e == [alarm_id |-> n + 1, tag |-> c.tag, priority |-> c.priority,
                 is_rationalized |-> c.is_rationalized,
                 has_consequence |-> c.is_rationalized]
           b == Append(a, e)
           d == BoolToInt(c.is_rationalized)
           count == (mad.rationalized_count + d) % CountRange
<1>1. /\ mad \in MadType /\ a \in Seq(MadAlarm) /\ mad.flips \in Int /\ n \in Nat
      /\ DOMAIN a = 1 .. n
  BY RecordsAssumption, LenProperties DEF MadSound, MadType
<1>2. /\ \A i \in DOMAIN a : a[i].tag # c.tag
      /\ mad' = [mad EXCEPT !.alarms = b, !.rationalized_count = count]
  BY DEF mad_add_alarm
<1>3. c.tag \in STRING /\ c.priority \in Priority /\ c.is_rationalized \in BOOLEAN
  BY RecordsAssumption
<1>4. /\ e \in MadAlarm /\ e.alarm_id = n + 1 /\ e.tag = c.tag
      /\ e.is_rationalized = c.is_rationalized /\ e.has_consequence = c.is_rationalized
  BY <1>1, <1>3 DEF MadAlarm
<1> HIDE DEF e
<1>5. /\ b \in Seq(MadAlarm) /\ DOMAIN b = 1 .. n + 1 /\ b[n + 1] = e
      /\ \A i \in 1 .. n : b[i] = a[i]
  <2>1. /\ b \in Seq(MadAlarm) /\ Len(b) = n + 1 /\ b[n + 1] = e
        /\ \A i \in 1 .. n : b[i] = a[i]
    BY <1>1, <1>4, AppendProperties
  <2> HIDE DEF b, n
  <2> QED BY <2>1, LenProperties
<1>6. d \in {0 - 1, 0, 1} /\ Flagged(a) \in Int
  BY <1>1, <1>3, BoolIs, UnflaggedIs
<1>7. count = (Flagged(b) - mad.flips) % CountRange
  <2>1. Flagged(b) = Flagged(a) + d
    BY <1>1, <1>4, FlaggedAppend
  <2>2. mad.rationalized_count = (Flagged(a) - mad.flips) % CountRange
    BY DEF MadSound
  <2> HIDE DEF a, b, d
  <2> DEFINE x == Flagged(a) - mad.flips
  <2>3. x \in Int /\ x + d = Flagged(b) - mad.flips
    BY <1>1, <1>6, <2>1
  <2> HIDE DEF x
  <2>4. ((x % CountRange) + d) % CountRange = (x + d) % CountRange
    BY <1>6, <2>3, CountRangeIs, ModStep
  <2> QED BY <2>2, <2>3, <2>4 DEF x
<1>8. count \in Int
  <2> HIDE DEF b, a
  <2>1. Flagged(b) - mad.flips \in Int
    BY <1>1, <1>5, UnflaggedIs
  <2> QED BY <1>7, <2>1, CountRangeIs
<1>9. TagsDiffer(a) /\ Consequent(a) /\ (mad.gap \/ Numbered(a))
  BY DEF MadSound
<1> HIDE DEF count, b, a, n
<1>10. /\ mad'.alarms = b /\ mad'.flips = mad.flips /\ mad'.gap = mad.gap
       /\ mad'.rationalized_count = count /\ mad' \in MadType
  BY <1>1, <1>2, <1>5, <1>8 DEF MadType
<1>11. \A i \in 1 .. n + 1 : i \in 1 .. n \/ i = n + 1
  BY <1>1
<1>12. TagsDiffer(b) /\ Consequent(b)
  BY <1>1, <1>2, <1>4, <1>5, <1>9, <1>11 DEF TagsDiffer, Consequent
<1>13. Numbered(a) => Numbered(b)
  BY <1>1, <1>4, <1>5, <1>11 DEF Numbered
<1> QED BY <1>7, <1>9, <1>10, <1>12, <1>13 DEF MadSound

(* An id that is there is found. *)
LEMMA FindIs ==
  ASSUME NEW a \in Seq(MadAlarm), NEW id
  PROVE  /\ find_by_id(a, id) = 0 \/ find_by_id(a, id) \in DOMAIN a
         /\ find_by_id(a, id) # 0 => a[find_by_id(a, id)].alarm_id = id
         /\ (\E i \in DOMAIN a : a[i].alarm_id = id) => find_by_id(a, id) # 0
<1> DEFINE hits == {i \in DOMAIN a : a[i].alarm_id = id}
<1>1. hits \subseteq Nat /\ hits \subseteq DOMAIN a /\ 0 \notin DOMAIN a
  BY LenProperties
<1>2. CASE hits = {}
  BY <1>2 DEF find_by_id
<1>3. CASE hits # {}
  <2> DEFINE k == CHOOSE i \in hits : \A j \in hits : i <= j
  <2>1. \E i \in hits : \A j \in hits : i <= j
    <3> HIDE DEF hits
    <3> QED BY <1>1, <1>3, LeastNat
  <2>2. k \in hits
    <3> HIDE DEF hits
    <3> QED BY <2>1
  <2>3. find_by_id(a, id) = k
    BY <1>3 DEF find_by_id
  <2> HIDE DEF k
  <2> QED BY <1>1, <2>2, <2>3
<1> QED BY <1>2, <1>3

(* An alarm removed takes its share of the count with it. *)
LEMMA RemoveStep ==
  ASSUME MadSound(mad), NEW id, mad_remove_alarm(id)
  PROVE  MadSound(mad')
<1> DEFINE a == mad.alarms
           n == Len(a)
           i == find_by_id(a, id)
           b == RemoveAt(a, i)
           d == BoolToInt(a[i].is_rationalized)
           count == (mad.rationalized_count - d) % CountRange
           g == mad.gap \/ i < n
<1>1. /\ mad \in MadType /\ a \in Seq(MadAlarm) /\ mad.flips \in Int /\ n \in Nat
      /\ DOMAIN a = 1 .. n /\ mad.gap \in BOOLEAN
  BY RecordsAssumption, LenProperties DEF MadSound, MadType
<1>2. i # 0 /\ mad' = [mad EXCEPT !.alarms = b, !.rationalized_count = count, !.gap = g]
  BY DEF mad_remove_alarm
<1>3. i \in 1 .. n /\ a[i] \in MadAlarm /\ a[i].is_rationalized \in BOOLEAN
  <2>1. i \in 1 .. n
    BY <1>1, <1>2, FindIs
  <2> HIDE DEF i, a, n
  <2>2. a[i] \in MadAlarm
    BY <1>1, <2>1
  <2> QED BY <2>1, <2>2 DEF MadAlarm
<1> HIDE DEF i
<1>4. /\ b \in Seq(MadAlarm) /\ DOMAIN b = 1 .. n - 1
      /\ \A j \in 1 .. n - 1 : b[j] = a[IF j < i THEN j ELSE j + 1]
  BY <1>1, <1>3, RemovedIs
<1>5. d \in {0, 1} /\ Flagged(a) \in Int
  BY <1>1, <1>3, BoolIs, UnflaggedIs
<1>6. count = (Flagged(b) - mad.flips) % CountRange
  <2>1. Flagged(b) = Flagged(a) - d
    BY <1>1, <1>3, FlaggedRemoved
  <2>2. mad.rationalized_count = (Flagged(a) - mad.flips) % CountRange
    BY DEF MadSound
  <2> HIDE DEF a, b, d
  <2> DEFINE x == Flagged(a) - mad.flips
             y == 0 - d
  <2>3. x \in Int /\ y \in {0 - 1, 0, 1}
    BY <1>1, <1>5
  <2>4. x + y = Flagged(b) - mad.flips
    BY <1>1, <1>5, <2>1
  <2>5. x % CountRange \in Int /\ (x % CountRange) - d = (x % CountRange) + y
    <3>1. x % CountRange \in Int
      BY <2>3, CountRangeIs
    <3> HIDE DEF x
    <3> QED BY <1>5, <3>1
  <2> HIDE DEF x, y
  <2>6. ((x % CountRange) + y) % CountRange = (x + y) % CountRange
    BY <2>3, CountRangeIs, ModStep
  <2> QED BY <2>2, <2>4, <2>5, <2>6 DEF x
<1>7. count \in Int
  <2> HIDE DEF b, a
  <2>1. Flagged(b) - mad.flips \in Int
    BY <1>1, <1>4, UnflaggedIs
  <2> QED BY <1>6, <2>1, CountRangeIs
<1>8. TagsDiffer(a) /\ Consequent(a) /\ (mad.gap \/ Numbered(a))
  BY DEF MadSound
<1> HIDE DEF count, b, a, n, g
<1>9. /\ mad'.alarms = b /\ mad'.flips = mad.flips /\ mad'.gap = g
      /\ mad'.rationalized_count = count /\ mad' \in MadType
  <2>1. g \in BOOLEAN
    BY <1>1 DEF g
  <2> QED BY <1>1, <1>2, <1>4, <1>7, <2>1 DEF MadType
<1> DEFINE at(j) == IF j < i THEN j ELSE j + 1
<1>10. \A j \in 1 .. n - 1 : at(j) \in 1 .. n /\ b[j] = a[at(j)]
  BY <1>1, <1>3, <1>4
<1>11. \A j, k \in 1 .. n - 1 : at(j) = at(k) => j = k
  BY <1>1, <1>3
<1>12. \A j \in 1 .. n - 1 : i = n => at(j) = j
  BY <1>1, <1>3
<1>13. ~ g => i = n /\ ~ mad.gap
  BY <1>1, <1>3 DEF g
<1> HIDE DEF at
<1>14. TagsDiffer(b)
  BY <1>1, <1>4, <1>8, <1>10, <1>11 DEF TagsDiffer
<1>15. Consequent(b)
  BY <1>1, <1>4, <1>8, <1>10 DEF Consequent
<1>16. ~ g => Numbered(b)
  BY <1>1, <1>4, <1>8, <1>10, <1>12, <1>13 DEF Numbered
<1> QED BY <1>6, <1>9, <1>14, <1>15, <1>16 DEF MadSound

(* Every step of the database keeps what is true of it. *)
LEMMA MadStep ==
  ASSUME MadSound(mad), MadNext
  PROVE  MadSound(mad')
BY FillingSteps, ApplyStep, AddStep, RemoveStep DEF MadNext

(* Validation finds fault only with alarms that are not rationalized. *)
LEMMA DatabaseFollows ==
  ASSUME MadSound(mad)
  PROVE  DatabaseIsSound
<1> DEFINE a == mad.alarms
           n == Len(a)
<1>1. /\ a \in Seq(MadAlarm) /\ n \in Nat /\ DOMAIN a = 1 .. n
      /\ TagsDiffer(a) /\ Consequent(a) /\ (mad.gap \/ Numbered(a))
      /\ mad.rationalized_count = (Flagged(a) - mad.flips) % CountRange
  BY LenProperties DEF MadSound, MadType
<1>2. Unflagged(a) = {i \in DOMAIN a : ~ a[i].is_rationalized}
  BY DEF Unflagged
<1>3. get_unrationalized_count(mad) = Cardinality(Unflagged(a))
  BY DEF get_unrationalized_count, Unflagged
<1>4. IsFiniteSet(Unflagged(a)) /\ Cardinality(Unflagged(a)) \in Nat
  BY <1>1, UnflaggedIs
<1>5. ASSUME Numbered(a), NEW i \in 1 .. n
      PROVE  find_by_id(a, a[i].alarm_id) = i
  <2> DEFINE k == find_by_id(a, a[i].alarm_id)
  <2>1. k # 0 /\ (k = 0 \/ k \in DOMAIN a) /\ (k # 0 => a[k].alarm_id = a[i].alarm_id)
    BY <1>1, FindIs
  <2> HIDE DEF k
  <2>2. k = i
    BY <1>1, <1>5, <2>1 DEF Numbered
  <2> QED BY <2>2 DEF k
<1>6. mad_validate(mad) <= get_unrationalized_count(mad)
                           + BoolToInt(mad.rationalized_count = 0)
  <2> DEFINE P == {p \in (1 .. n) \X (1 .. n) : p[1] < p[2] /\ a[p[1]].tag = a[p[2]].tag}
             Q == {i \in 1 .. n : a[i].priority \in {"CRITICAL", "HIGH"} /\ ~ a[i].has_consequence}
             u == n > 0 /\ mad.rationalized_count = 0
             v == mad.rationalized_count = 0
  <2>1. P = {}
    BY <1>1 DEF TagsDiffer
  <2>2. Q \in SUBSET Unflagged(a)
    BY <1>1 DEF Unflagged, Consequent
  <2>3. Cardinality(Q) \in Nat /\ Cardinality(Q) <= Cardinality(Unflagged(a))
    <3> HIDE DEF Q
    <3> QED BY <1>4, <2>2, FS_Subset, FS_CardinalityType
  <2>4. Cardinality(P) = 0
    <3> HIDE DEF P
    <3> QED BY <2>1, FS_EmptySet
  <2>5. BoolToInt(u) \in 0 .. 1 /\ BoolToInt(v) \in 0 .. 1 /\ BoolToInt(u) <= BoolToInt(v)
    BY DEF BoolToInt
  <2>6. mad_validate(mad) = Cardinality(P) + BoolToInt(u) + Cardinality(Q)
    BY DEF mad_validate
  <2>7. get_unrationalized_count(mad) + BoolToInt(mad.rationalized_count = 0)
          = Cardinality(Unflagged(a)) + BoolToInt(v)
    BY <1>3
  <2> HIDE DEF P, Q, u, v, a
  <2> QED BY <1>4, <2>3, <2>4, <2>5, <2>6, <2>7
<1>7. n - get_unrationalized_count(mad) = Flagged(a)
  BY <1>3 DEF Flagged
<1>8. \A i, j \in 1 .. n : a[i].tag = a[j].tag => i = j
  BY <1>1 DEF TagsDiffer
<1>9. mad.rationalized_count = ((n - get_unrationalized_count(mad)) - mad.flips) % CountRange
  BY <1>1, <1>7
<1> QED BY <1>1, <1>5, <1>6, <1>8, <1>9 DEF DatabaseIsSound

-----------------------------------------------------------------------------
(* Rings of m slots that hold the newest of what was written in turn. *)

(* Two of the last m entries are not in one slot. *)
LEMMA SlotsDiffer ==
  ASSUME NEW m \in Nat, m > 0, NEW x \in Nat, NEW y \in Nat, x < y, y < x + m
  PROVE  x % m # y % m
<1> SUFFICES ASSUME x % m = y % m PROVE FALSE
  OBVIOUS
<1>0. x \in Int /\ y \in Int
  OBVIOUS
<1>1. PICK q \in Int, r \in 0 .. m - 1 : x = m * q + r /\ x % m = r
  BY <1>0, ModSpans, Zenon
<1>2. PICK p \in Int, s \in 0 .. m - 1 : y = m * p + s /\ y % m = s
  BY <1>0, ModSpans, Zenon
<1>3. s = r
  BY <1>1, <1>2
<1> DEFINE a == m * q
           b == m * p
<1>4. a \in Int /\ b \in Int /\ a < b /\ b < a + m
  <2>1. a \in Int /\ b \in Int /\ x = a + r /\ y = b + r
    BY <1>1, <1>2, <1>3
  <2> HIDE DEF a, b
  <2> QED BY <2>1
<1>5. CASE p <= q
  <2>1. b <= a
    BY <1>5
  <2> HIDE DEF a, b
  <2> QED BY <1>4, <2>1
<1>6. CASE p >= q + 1
  <2>1. b >= m * (q + 1) /\ m * (q + 1) = a + m
    BY <1>6
  <2> HIDE DEF a, b
  <2> QED BY <1>4, <2>1
<1> QED BY <1>5, <1>6

(* Every slot written to holds one of the last m entries. *)
LEMMA SlotHolds ==
  ASSUME NEW m \in Nat, m > 0, NEW n \in Nat, NEW i \in 0 .. m - 1, i < n
  PROVE  \E j \in 1 .. n : j > n - m /\ (j - 1) % m = i
<1> DEFINE d == n - 1 - i
           q == d \div m
           b == m * q
<1>1. d \in Nat
  OBVIOUS
<1>2. q \in Nat /\ b \in Int /\ b <= d /\ d < b + m
  <2> HIDE DEF d
  <2> QED BY <1>1, QuotientSpans
<1>3. b >= 0
  <2> HIDE DEF d
  <2>1. q >= 0 /\ m >= 0
    BY <1>2
  <2> HIDE DEF q
  <2> QED BY <1>2, <2>1
<1>4. (b + i) % m = i
  <2> HIDE DEF d, q
  <2> QED BY <1>2, ModUnique
<1> HIDE DEF q, b
<1> DEFINE j == b + i + 1
<1>5. j \in 1 .. n /\ j > n - m /\ j - 1 = b + i
  BY <1>2, <1>3
<1> HIDE DEF j
<1> QED BY <1>4, <1>5

(* A set of places that goes up to the last and has k of them has the last *)
(* k. *)
LEMMA LastOnes ==
  ASSUME NEW n \in Nat, NEW R \in SUBSET (1 .. n), NEW k \in Nat, Cardinality(R) >= k,
         \A i \in R, j \in 1 .. n : i <= j => j \in R
  PROVE  k <= n /\ n - k + 1 .. n \subseteq R
<1>1. IsFiniteSet(1 .. n) /\ Cardinality(1 .. n) = n
  <2>1. 1 \in Int /\ n \in Int
    OBVIOUS
  <2>2. IsFiniteSet(1 .. n) /\ Cardinality(1 .. n) = IF 1 > n THEN 0 ELSE n - 1 + 1
    BY <2>1, FS_Interval
  <2> QED BY <2>2
<1>2. IsFiniteSet(R) /\ Cardinality(R) \in Nat /\ Cardinality(R) <= n
  BY <1>1, FS_Subset, FS_CardinalityType
<1>3. k <= n
  BY <1>2
<1>4. CASE k = 0
  BY <1>4
<1>5. CASE k > 0 /\ n - k + 1 \in R
  BY <1>3, <1>5
<1>6. CASE k > 0 /\ n - k + 1 \notin R
  <2> DEFINE l == n - k + 2
  <2>1. l \in Int /\ n - k + 1 \in 1 .. n
    BY <1>3, <1>6
  <2>2. R \in SUBSET (l .. n)
    <3>1. ASSUME NEW i \in R, ~ i >= l PROVE FALSE
      <4>1. i \in 1 .. n /\ i <= n - k + 1
        BY <3>1, <2>1
      <4> QED BY <1>6, <2>1, <4>1
    <3> QED BY <3>1
  <2>3. IsFiniteSet(l .. n) /\ Cardinality(l .. n) = IF l > n THEN 0 ELSE n - l + 1
    <3> HIDE DEF l
    <3> QED BY <2>1, FS_Interval
  <2>4. Cardinality(l .. n) = k - 1
    BY <1>6, <2>3
  <2>5. Cardinality(R) <= Cardinality(l .. n)
    <3> HIDE DEF l
    <3> QED BY <2>2, <2>3, FS_Subset
  <2> QED BY <1>2, <1>6, <2>4, <2>5
<1> QED BY <1>3, <1>4, <1>5, <1>6

-----------------------------------------------------------------------------
(* The chattering detector. *)

Slots == ChatterThreshold + 2

(* The sizes of the detector. *)
LEMMA ChatterConstants ==
  /\ ChatterThreshold \in Nat /\ ChatterThreshold > 0 /\ ChatterWindow \in Nat
  /\ Gaps \subseteq Nat /\ Slots \in Nat /\ Slots > 0
BY RecordsAssumption DEF Slots

(* The slots looked at after n transitions that are in the window. *)
Looked(n) == IF n > ChatterThreshold + 1 THEN ChatterThreshold + 1 ELSE n

Windowed(times, n, time) ==
  {i \in 0 .. Looked(n) - 1 : time - times[i] \in 0 .. ChatterWindow}

(* What was written last is in the ring. *)
RingOf(times, since) ==
  \A i \in 1 .. Len(since) : i > Len(since) - Slots => times[(i - 1) % Slots] = since[i]

(* Times go up to the clock. *)
GoUp(since, clock) ==
  /\ \A i, j \in 1 .. Len(since) : i <= j => since[i] <= since[j]
  /\ \A i \in 1 .. Len(since) : since[i] <= clock

FlagIsTrue(flag, times, n, clock) ==
  IF n < ChatterThreshold THEN ~ flag
  ELSE flag <=> Cardinality(Windowed(times, n, clock)) >= ChatterThreshold

ChatterSound(c) ==
  /\ c.transition_times \in [0 .. ChatterThreshold + 1 -> Nat]
  /\ c.is_chattering \in BOOLEAN /\ c.clock \in Nat /\ c.since \in Seq(Nat)
  /\ c.transition_count = Len(c.since)
  /\ GoUp(c.since, c.clock)
  /\ RingOf(c.transition_times, c.since)
  /\ FlagIsTrue(c.is_chattering, c.transition_times, Len(c.since), c.clock)

ChatterFields ==
  {"transition_times", "transition_count", "is_chattering", "total_chattering_events",
   "clock", "since", "calls"}

ChatterInv == ChatterSound(chatter) /\ chatter = [x \in ChatterFields |-> chatter[x]]

(* A detector without transitions is sound. *)
LEMMA EmptyIsSound ==
  ASSUME NEW times \in [0 .. ChatterThreshold + 1 -> Nat], NEW clock \in Nat, NEW c,
         c.transition_times = times, c.transition_count = 0, c.is_chattering = FALSE,
         c.clock = clock, c.since = << >>
  PROVE  ChatterSound(c)
<1> DEFINE none == << >>
<1>1. none \in Seq(Nat) /\ Len(none) = 0
  OBVIOUS
<1>2. c.since = none
  OBVIOUS
<1> HIDE DEF none
<1>3. GoUp(none, clock) /\ RingOf(times, none)
  BY <1>1 DEF GoUp, RingOf
<1>4. FlagIsTrue(FALSE, times, 0, clock)
  BY ChatterConstants DEF FlagIsTrue
<1> QED BY <1>1, <1>2, <1>3, <1>4 DEF ChatterSound

(* The detector starts without transitions. *)
LEMMA ChatterStarts ==
  ASSUME ChatterInit
  PROVE  ChatterInv
<1> DEFINE times == [i \in 0 .. ChatterThreshold + 1 |-> 0]
<1>1. /\ chatter.transition_times = times /\ chatter.transition_count = 0
      /\ chatter.is_chattering = FALSE /\ chatter.clock = 1 /\ chatter.since = << >>
  BY DEF ChatterInit
<1>2. times \in [0 .. ChatterThreshold + 1 -> Nat] /\ 1 \in Nat
  OBVIOUS
<1> HIDE DEF times
<1>3. ChatterSound(chatter)
  BY <1>1, <1>2, EmptyIsSound
<1>4. chatter = [x \in ChatterFields |-> chatter[x]]
  BY DEF ChatterInit, ChatterFields
<1> QED BY <1>3, <1>4 DEF ChatterInv

(* A reset forgets every transition. *)
LEMMA ChatterResets ==
  ASSUME ChatterInv, ChatterReset
  PROVE  ChatterInv'
<1> DEFINE times == [i \in DOMAIN chatter.transition_times |-> 0]
           none == << >>
<1>1. /\ chatter.transition_times \in [0 .. ChatterThreshold + 1 -> Nat]
      /\ chatter.clock \in Nat /\ chatter = [x \in ChatterFields |-> chatter[x]]
  BY DEF ChatterInv, ChatterSound
<1>2. times \in [0 .. ChatterThreshold + 1 -> Nat]
  BY <1>1
<1>3. chatter' = [chatter EXCEPT !.transition_times = times, !.transition_count = 0,
                                 !.is_chattering = FALSE, !.since = none]
  BY DEF ChatterReset
<1> HIDE DEF times, none
<1>4. /\ chatter'.transition_times = times /\ chatter'.transition_count = 0
      /\ chatter'.is_chattering = FALSE /\ chatter'.since = none
      /\ chatter'.clock = chatter.clock
      /\ chatter' = [x \in ChatterFields |-> chatter'[x]]
  BY <1>1, <1>3, Zenon DEF ChatterFields
<1>5. ChatterSound(chatter')
  BY <1>1, <1>2, <1>4, EmptyIsSound DEF none
<1> QED BY <1>4, <1>5 DEF ChatterInv

(* A transition takes the slot of the oldest one kept. *)
LEMMA ChatterMoves ==
  ASSUME ChatterInv, NEW gap \in Gaps, ChatterTransition(gap)
  PROVE  ChatterInv'
<1> DEFINE T == ChatterThreshold
           old == chatter.transition_times
           since == chatter.since
           n == Len(since)
           time == chatter.clock + gap
           slot == n % Slots
           times == [old EXCEPT ![slot] = time]
           longer == Append(since, time)
           flag == IF n + 1 < T THEN chatter.is_chattering
                   ELSE Cardinality(Windowed(times, n + 1, time)) >= T
           events == IF flag /\ ~ chatter.is_chattering
                     THEN chatter.total_chattering_events + 1
                     ELSE chatter.total_chattering_events
           calls == chatter.calls + 1
<1>1. /\ old \in [0 .. T + 1 -> Nat] /\ chatter.clock \in Nat /\ since \in Seq(Nat)
      /\ chatter.transition_count = n /\ GoUp(since, chatter.clock)
      /\ RingOf(old, since) /\ FlagIsTrue(chatter.is_chattering, old, n, chatter.clock)
      /\ chatter = [x \in ChatterFields |-> chatter[x]] /\ chatter.is_chattering \in BOOLEAN
      /\ n \in Nat
  BY LenProperties DEF ChatterInv, ChatterSound
<1>2. chatter' = [chatter EXCEPT !.transition_times = times, !.transition_count = n + 1,
                                 !.is_chattering = flag,
                                 !.total_chattering_events = events,
                                 !.clock = time, !.since = longer, !.calls = calls]
  <2> DEFINE d == detect_chattering(chatter, time)
  <2>1. d = [chatter EXCEPT !.transition_times = times, !.transition_count = n + 1,
                            !.is_chattering = flag, !.total_chattering_events = events]
    <3>1. Windowed(times, n + 1, time)
            = {i \in 0 .. (IF n + 1 > T + 1 THEN T + 1 ELSE n + 1) - 1 :
                 time - times[i] \in 0 .. ChatterWindow}
      BY DEF Windowed, Looked
    <3> HIDE DEF time
    <3> QED BY <1>1, <3>1, Zenon DEF detect_chattering, Slots
  <2>2. chatter' = [d EXCEPT !.clock = time, !.since = Append(d.since, time),
                             !.calls = d.calls + 1]
    BY DEF ChatterTransition
  <2>3. d.since = since /\ d.calls = chatter.calls
    <3> HIDE DEF d, times, flag, events, time
    <3> QED BY <1>1, <2>1, Zenon DEF ChatterFields
  <2> HIDE DEF d, times, flag, events, time
  <2> QED BY <1>1, <2>1, <2>2, <2>3, Zenon DEF ChatterFields
<1>3. time \in Nat /\ time >= chatter.clock
  BY <1>1, ChatterConstants
<1>4. slot \in 0 .. T + 1
  <2> HIDE DEF n
  <2>1. n % Slots \in 0 .. Slots - 1
    BY <1>1, ChatterConstants
  <2> QED BY <2>1, ChatterConstants DEF Slots
<1> HIDE DEF time
<1>5. /\ times \in [0 .. T + 1 -> Nat] /\ times[slot] = time
      /\ \A i \in 0 .. T + 1 : i # slot => times[i] = old[i]
  <2> HIDE DEF slot
  <2> QED BY <1>1, <1>3, <1>4
<1>6. /\ longer \in Seq(Nat) /\ Len(longer) = n + 1 /\ longer[n + 1] = time
      /\ \A i \in 1 .. n : longer[i] = since[i]
  BY <1>1, <1>3, AppendProperties
<1>7. flag \in BOOLEAN
  <2>1. CASE n + 1 < T
    BY <1>1, <2>1
  <2>2. CASE ~ n + 1 < T
    <3> DEFINE count == Cardinality(Windowed(times, n + 1, time))
    <3>1. flag = (count >= T)
      BY <2>2
    <3> HIDE DEF count, flag
    <3> QED BY <3>1
  <2> QED BY <2>1, <2>2
<1> HIDE DEF times, longer, flag, events, calls
<1>8. /\ chatter'.transition_times = times /\ chatter'.transition_count = n + 1
      /\ chatter'.is_chattering = flag /\ chatter'.since = longer
      /\ chatter'.clock = time
      /\ chatter' = [x \in ChatterFields |-> chatter'[x]]
  BY <1>1, <1>2, Zenon DEF ChatterFields
<1> HIDE DEF n, old, since
<1>9. \A i \in 1 .. n + 1 : i \in 1 .. n \/ i = n + 1
  BY <1>1
<1>10. GoUp(longer, time)
  <2>1. \A i \in 1 .. n : since[i] \in Nat /\ since[i] <= chatter.clock
    <3> HIDE DEF slot, T
    <3> DEFINE clock == chatter.clock
    <3>1. GoUp(since, clock) /\ since \in Seq(Nat) /\ n = Len(since)
      BY <1>1 DEF n
    <3> HIDE DEF clock
    <3>2. \A i \in 1 .. n : since[i] <= clock
      BY <3>1 DEF GoUp
    <3>3. \A i \in 1 .. n : since[i] \in Nat
      BY <3>1, ElementOfSeq
    <3> QED BY <3>2, <3>3 DEF clock
  <2>2. \A i \in 1 .. n + 1 : longer[i] <= time
    <3> DEFINE clock == chatter.clock
    <3>1. clock \in Nat /\ time \in Nat /\ clock <= time
      BY <1>1, <1>3
    <3>2. \A i \in 1 .. n : longer[i] \in Nat /\ longer[i] <= clock
      BY <1>6, <2>1
    <3> HIDE DEF clock, T, slot
    <3>3. \A i \in 1 .. n : longer[i] <= time
      BY <3>1, <3>2
    <3>4. longer[n + 1] <= time
      BY <1>6, <3>1
    <3> QED BY <1>9, <3>3, <3>4
  <2>3. ASSUME NEW i \in 1 .. n + 1, NEW j \in 1 .. n + 1, i <= j
        PROVE  longer[i] <= longer[j]
    <3>1. CASE j = n + 1
      BY <1>6, <2>2, <3>1
    <3>2. CASE j \in 1 .. n
      <4>1. i \in 1 .. n
        BY <1>1, <2>3, <3>2
      <4> QED BY <1>1, <1>6, <2>3, <3>2, <4>1 DEF GoUp, n
    <3> QED BY <1>9, <3>1, <3>2
  <2> QED BY <1>6, <2>2, <2>3 DEF GoUp
<1>11. RingOf(times, longer)
  <2> SUFFICES ASSUME NEW i \in 1 .. n + 1, i > (n + 1) - Slots
               PROVE  times[(i - 1) % Slots] = longer[i]
    BY <1>6, Zenon DEF RingOf
  <2>1. CASE i = n + 1
    <3>1. i - 1 = n
      BY <1>1, <2>1
    <3> QED BY <1>5, <1>6, <2>1, <3>1
  <2>2. CASE i \in 1 .. n
    <3>1. i - 1 \in Nat /\ i - 1 < n /\ n < (i - 1) + Slots /\ i > n - Slots
      BY <1>1, <2>2, ChatterConstants
    <3>2. (i - 1) % Slots # slot
      BY <1>1, <3>1, ChatterConstants, SlotsDiffer
    <3>3. (i - 1) % Slots \in 0 .. T + 1
      <4>1. (i - 1) % Slots \in 0 .. Slots - 1
        BY <3>1, ChatterConstants
      <4> QED BY <4>1, ChatterConstants DEF Slots
    <3>4. old[(i - 1) % Slots] = since[i]
      BY <1>1, <2>2, <3>1 DEF RingOf, n
    <3> QED BY <1>5, <1>6, <2>2, <3>2, <3>3, <3>4
  <2> QED BY <1>9, <2>1, <2>2
<1>12. FlagIsTrue(flag, times, n + 1, time)
  <2>1. CASE n + 1 < T
    <3>1. n < T
      BY <1>1, <2>1, ChatterConstants
    <3>2. ~ chatter.is_chattering
      BY <1>1, <3>1 DEF FlagIsTrue
    <3> QED BY <2>1, <3>2 DEF FlagIsTrue, flag
  <2>2. CASE ~ n + 1 < T
    BY <2>2 DEF FlagIsTrue, flag
  <2> QED BY <2>1, <2>2
<1>13. ChatterSound(chatter')
  BY <1>3, <1>5, <1>6, <1>7, <1>8, <1>10, <1>11, <1>12 DEF ChatterSound
<1> QED BY <1>8, <1>13 DEF ChatterInv

(* Enough of the slots looked at are recent, because at most one of the *)
(* last ChatterThreshold + 1 entries is in the slot that is not. *)
LEMMA ChatterFollows ==
  ASSUME ChatterInv
  PROVE  ChatterIsSeen
<1> DEFINE T == ChatterThreshold
           times == chatter.transition_times
           since == chatter.since
           clock == chatter.clock
           n == Len(since)
           R == {i \in DOMAIN since : clock - since[i] <= ChatterWindow}
           Z == Windowed(times, n, clock)
           at == [j \in 1 .. n |-> (j - 1) % Slots]
<1>1. /\ times \in [0 .. T + 1 -> Nat] /\ clock \in Nat /\ since \in Seq(Nat)
      /\ GoUp(since, clock) /\ RingOf(times, since)
      /\ FlagIsTrue(chatter.is_chattering, times, n, clock)
      /\ n \in Nat /\ DOMAIN since = 1 .. n
  BY LenProperties DEF ChatterInv, ChatterSound
<1> HIDE DEF times, since, clock, n
<1>2. \A i \in 1 .. n : since[i] \in Nat /\ since[i] <= clock
  BY <1>1 DEF GoUp, n
<1>3. R \in SUBSET (1 .. n)
  BY <1>1
<1>4. IsFiniteSet(1 .. n) /\ IsFiniteSet(R) /\ Cardinality(R) \in Nat
  <2>1. 1 \in Int /\ n \in Int
    BY <1>1
  <2>2. IsFiniteSet(1 .. n)
    BY <2>1, FS_Interval
  <2> HIDE DEF R
  <2> QED BY <1>3, <2>2, FS_Subset, FS_CardinalityType
<1>5. Looked(n) \in 0 .. T + 1 /\ Looked(n) <= n
  BY <1>1, ChatterConstants DEF Looked
<1>6. Z \in SUBSET (0 .. T)
  BY <1>5, ChatterConstants DEF Windowed
<1>7. IsFiniteSet(Z) /\ Cardinality(Z) \in Nat
  <2>1. 0 \in Int /\ T \in Int
    BY ChatterConstants
  <2>2. IsFiniteSet(0 .. T)
    BY <2>1, FS_Interval
  <2> HIDE DEF Z
  <2> QED BY <1>6, <2>2, FS_Subset, FS_CardinalityType
<1>8. ASSUME NEW j \in 1 .. n, j > n - Slots
      PROVE  at[j] \in 0 .. T + 1 /\ times[at[j]] = since[j]
  <2>1. (j - 1) % Slots \in 0 .. Slots - 1
    BY <1>1, ChatterConstants
  <2>2. times[(j - 1) % Slots] = since[j]
    BY <1>1, <1>8 DEF RingOf, n
  <2> QED BY <2>1, <2>2, ChatterConstants DEF Slots
<1>9. Cardinality(Z) <= Cardinality(R)
  <2> DEFINE f == [j \in R |-> at[j]]
             Im == {f[j] : j \in R}
  <2>1. ASSUME NEW i \in Z PROVE i \in Im
    <3>1. i \in 0 .. Slots - 1 /\ i < n /\ clock - times[i] \in 0 .. ChatterWindow
      BY <1>1, <1>5, ChatterConstants DEF Windowed, Slots
    <3>2. PICK j \in 1 .. n : j > n - Slots /\ (j - 1) % Slots = i
      BY <1>1, <3>1, ChatterConstants, SlotHolds
    <3>3. at[j] = i /\ times[i] = since[j]
      BY <1>8, <3>2
    <3>4. clock - since[j] <= ChatterWindow
      <4>1. times[i] \in Nat
        BY <1>2, <3>3
      <4>2. clock - since[j] \in 0 .. ChatterWindow
        BY <3>1, <3>3
      <4> QED BY <4>2, ChatterConstants
    <3>5. j \in R
      BY <1>1, <3>2, <3>4
    <3> HIDE DEF R, at
    <3>6. f[j] = i
      BY <3>3, <3>5
    <3> QED BY <3>5, <3>6
  <2> HIDE DEF f
  <2>2. IsFiniteSet(Im) /\ Cardinality(Im) <= Cardinality(R)
    <3> HIDE DEF R
    <3>1. f \in Surjection(R, Im)
      BY DEF f, Surjection
    <3> QED BY <1>4, <3>1, FS_Surjection
  <2> HIDE DEF Im
  <2>3. Cardinality(Z) <= Cardinality(Im)
    <3>1. Z \in SUBSET Im
      BY <2>1
    <3> HIDE DEF Z
    <3> QED BY <2>2, <3>1, FS_Subset
  <2>4. Cardinality(Im) \in Nat
    BY <2>2, FS_CardinalityType
  <2> HIDE DEF Z, R
  <2> QED BY <1>4, <1>7, <2>2, <2>3, <2>4
<1>10. ASSUME chatter.is_chattering PROVE Cardinality(R) >= T
  <2>1. n >= T /\ Cardinality(Z) >= T
    BY <1>1, <1>10, ChatterConstants DEF FlagIsTrue
  <2> HIDE DEF Z, R
  <2> QED BY <1>4, <1>7, <1>9, <2>1, ChatterConstants
<1>11. ASSUME Cardinality(R) > T PROVE chatter.is_chattering
  <2> DEFINE L == n - T .. n
             Im == {at[j] : j \in L}
             f == [j \in L |-> at[j]]
  <2>1. ASSUME NEW i \in R, NEW j \in 1 .. n, i <= j PROVE j \in R
    <3>1. since[i] <= since[j]
      BY <1>1, <1>3, <2>1 DEF GoUp, n
    <3> QED BY <1>1, <1>2, <1>3, <2>1, <3>1, ChatterConstants
  <2>2. T + 1 <= n /\ L \subseteq R
    <3> HIDE DEF R
    <3>1. Cardinality(R) >= T + 1 /\ T + 1 \in Nat
      BY <1>4, <1>11, ChatterConstants
    <3>2. T + 1 <= n /\ n - (T + 1) + 1 .. n \subseteq R
      BY <1>1, <1>3, <2>1, <3>1, LastOnes
    <3>3. n - (T + 1) + 1 = n - T
      BY <1>1, ChatterConstants
    <3> QED BY <3>2, <3>3
  <2>3. IsFiniteSet(L) /\ Cardinality(L) = T + 1
    <3> DEFINE l == n - T
    <3>1. l \in Int /\ n \in Int
      BY <1>1, ChatterConstants
    <3> HIDE DEF l
    <3>2. IsFiniteSet(l .. n) /\ Cardinality(l .. n) = IF l > n THEN 0 ELSE n - l + 1
      BY <3>1, FS_Interval
    <3>3. Cardinality(l .. n) = T + 1
      BY <1>1, <2>2, <3>2, ChatterConstants DEF l
    <3> QED BY <3>2, <3>3 DEF l
  <2>4. \A j \in L : j \in 1 .. n /\ j > n - Slots
    BY <1>1, <2>2, ChatterConstants DEF Slots
  <2>5. ASSUME NEW j \in L, NEW k \in L, at[j] = at[k] PROVE j = k
    <3>1. /\ j \in 1 .. n /\ k \in 1 .. n /\ j > n - Slots /\ k > n - Slots
          /\ (j - 1) % Slots = (k - 1) % Slots
      BY <2>4, <2>5
    <3>2. CASE j < k
      <4>1. j - 1 \in Nat /\ k - 1 \in Nat /\ j - 1 < k - 1 /\ k - 1 < (j - 1) + Slots
        BY <1>1, <3>1, <3>2, ChatterConstants
      <4> QED BY <3>1, <4>1, SlotsDiffer, ChatterConstants
    <3>3. CASE k < j
      <4>1. j - 1 \in Nat /\ k - 1 \in Nat /\ k - 1 < j - 1 /\ j - 1 < (k - 1) + Slots
        BY <1>1, <3>1, <3>3, ChatterConstants
      <4> QED BY <3>1, <4>1, SlotsDiffer, ChatterConstants
    <3> QED BY <3>1, <3>2, <3>3
  <2> HIDE DEF at
  <2>6. ExistsBijection(L, Im)
    <3>1. f \in [L -> Im] /\ \A j \in L : f[j] = at[j]
      OBVIOUS
    <3>2. \A i \in Im : \E j \in L : f[j] = i
      OBVIOUS
    <3> HIDE DEF f, Im, L
    <3>3. f \in Injection(L, Im)
      BY <2>5, <3>1 DEF Injection, IsInjective
    <3>4. f \in Surjection(L, Im)
      BY <3>1, <3>2 DEF Surjection
    <3> QED BY <3>3, <3>4 DEF ExistsBijection, Bijection
  <2>7. IsFiniteSet(Im) /\ Cardinality(Im) = T + 1
    <3> HIDE DEF Im, L
    <3> QED BY <2>3, <2>6, FS_Bijection
  <2>8. Im \ {T + 1} \in SUBSET Z
    <3> SUFFICES ASSUME NEW j \in L, at[j] # T + 1 PROVE at[j] \in Z
      OBVIOUS
    <3>1. /\ j \in 1 .. n /\ j \in R /\ at[j] \in 0 .. T + 1
          /\ times[at[j]] = since[j]
      BY <1>8, <2>2, <2>4
    <3>2. at[j] \in 0 .. T
      BY <3>1, ChatterConstants
    <3>3. Looked(n) - 1 = T
      BY <1>1, <2>2, ChatterConstants DEF Looked
    <3>4. clock - since[j] \in 0 .. ChatterWindow
      <4>1. clock - since[j] <= ChatterWindow
        BY <3>1
      <4> QED BY <1>1, <1>2, <3>1, <4>1, ChatterConstants
    <3> QED BY <3>1, <3>2, <3>3, <3>4 DEF Windowed
  <2>9. Cardinality(Im \ {T + 1}) >= T
    <3> HIDE DEF Im
    <3>1. CASE T + 1 \in Im
      <4>1. Cardinality(Im \ {T + 1}) = Cardinality(Im) - 1
        BY <2>7, <3>1, FS_RemoveElement
      <4> QED BY <2>7, <4>1, ChatterConstants
    <3>2. CASE T + 1 \notin Im
      <4>1. Im \ {T + 1} = Im
        BY <3>2
      <4>2. Cardinality(Im \ {T + 1}) = T + 1
        BY <2>7, <4>1
      <4> QED BY <4>2, ChatterConstants
    <3> QED BY <3>1, <3>2
  <2>10. Cardinality(Z) >= T
    <3> DEFINE Y == Im \ {T + 1}
    <3>1. Y \in SUBSET Z /\ Cardinality(Y) >= T
      BY <2>8, <2>9
    <3> HIDE DEF Y, Z
    <3>2. IsFiniteSet(Y) /\ Cardinality(Y) <= Cardinality(Z)
      BY <1>7, <3>1, FS_Subset
    <3>3. Cardinality(Y) \in Nat
      BY <3>2, FS_CardinalityType
    <3> QED BY <1>7, <3>1, <3>2, <3>3, ChatterConstants
  <2>11. ~ n < T
    BY <1>1, <2>2, ChatterConstants
  <2> HIDE DEF Z
  <2> QED BY <1>1, <2>10, <2>11 DEF FlagIsTrue, Z
<1>12. R = {i \in DOMAIN chatter.since : chatter.clock - chatter.since[i] <= ChatterWindow}
  BY DEF since, clock
<1> HIDE DEF R
<1> QED BY <1>10, <1>11, <1>12 DEF ChatterIsSeen

-----------------------------------------------------------------------------
(* The counts of the indicators. *)

KpiAlarms == DOMAIN KpiPriority

KpiType == [state : [KpiAlarms -> State], alarms_per_day : Nat, critical_per_day : Nat,
            active_alarm_count : Nat, peak_10min_rate : Nat]

ActiveIn(st) == {a \in KpiAlarms : st[a] \in Active}

KpiSound(k) ==
  /\ k \in KpiType
  /\ k.active_alarm_count >= Cardinality(ActiveIn(k.state))
  /\ k.peak_10min_rate >= k.active_alarm_count

(* The active alarms can be counted. *)
LEMMA ActiveInIs ==
  ASSUME NEW st \in [KpiAlarms -> State]
  PROVE  IsFiniteSet(ActiveIn(st)) /\ Cardinality(ActiveIn(st)) \in Nat
<1>1. KpiPriority \in Seq(Priority)
  BY RecordsAssumption
<1>2. KpiAlarms = 1 .. Len(KpiPriority) /\ Len(KpiPriority) \in Nat
  BY <1>1, LenProperties DEF KpiAlarms
<1>3. IsFiniteSet(KpiAlarms)
  <2>1. 1 \in Int /\ Len(KpiPriority) \in Int
    BY <1>2
  <2> QED BY <1>2, <2>1, FS_Interval
<1>4. ActiveIn(st) \in SUBSET KpiAlarms
  BY DEF ActiveIn
<1> QED BY <1>3, <1>4, FS_Subset, FS_CardinalityType

(* The indicators start at nothing. *)
LEMMA KpiStarts ==
  ASSUME KpiInit
  PROVE  KpiSound(kpi)
<1> DEFINE st == [a \in KpiAlarms |-> "NORMAL"]
<1>1. st \in [KpiAlarms -> State] /\ ActiveIn(st) = {}
  BY DEF State, Active, ActiveIn
<1>2. kpi = [state |-> st, alarms_per_day |-> 0, critical_per_day |-> 0,
             active_alarm_count |-> 0, peak_10min_rate |-> 0]
  BY DEF KpiInit, KpiAlarms
<1> HIDE DEF st
<1>3. Cardinality(ActiveIn(st)) = 0
  <2>1. Cardinality({}) = 0
    BY FS_EmptySet
  <2> QED BY <1>1, <2>1
<1> QED BY <1>1, <1>2, <1>3 DEF KpiSound, KpiType

(* A machine without an acknowledgement never leaves the active states for *)
(* NORMAL; an unshelved alarm does. *)
LEMMA KpiTransitionIs ==
  ASSUME NEW st \in State, NEW c \in BOOLEAN, NEW ack \in BOOLEAN
  PROVE  LET to == alarm_state_transition(st, c, ack, FALSE, FALSE) IN
         to \in State /\ (to = "ACTIVE_ACK" => st \in Active)
BY DEF State, Active, alarm_state_transition

(* A transition moves the count with the set of active alarms. *)
LEMMA KpiMoves ==
  ASSUME NEW k, KpiSound(k), NEW a \in KpiAlarms, NEW to \in State, to # k.state[a],
         to = "ACTIVE_ACK" => k.state[a] \in Active
  PROVE  KpiSound(update_with_event(k, a, k.state[a], to))
<1> DEFINE from == k.state[a]
           count == k.active_alarm_count
           new == from = "NORMAL" /\ to = "ACTIVE_UNACK"
           active == IF to = "ACTIVE_UNACK" THEN count + 1
                     ELSE IF LeavesCount(from, to) /\ count > 0 THEN count - 1 ELSE count
           day == IF new THEN k.alarms_per_day + 1 ELSE k.alarms_per_day
           crit == IF new /\ KpiPriority[a] = "CRITICAL" THEN k.critical_per_day + 1
                   ELSE k.critical_per_day
           peak == IF to = "ACTIVE_UNACK" /\ active > k.peak_10min_rate THEN active
                   ELSE k.peak_10min_rate
           st == [k.state EXCEPT ![a] = to]
           S == ActiveIn(k.state)
           U == ActiveIn(st)
           k1 == update_with_event(k, a, k.state[a], to)
<1>1. /\ k \in KpiType /\ count \in Nat /\ count >= Cardinality(S)
      /\ k.peak_10min_rate \in Nat /\ k.peak_10min_rate >= count
      /\ k.alarms_per_day \in Nat /\ k.critical_per_day \in Nat
      /\ k.state \in [KpiAlarms -> State] /\ from \in State
  BY DEF KpiSound, KpiType
<1>2. k1 = [k EXCEPT !.alarms_per_day = day, !.critical_per_day = crit,
                     !.active_alarm_count = active, !.peak_10min_rate = peak,
                     !.state = st]
  BY <1>1, Zenon DEF update_with_event, KpiType
<1>3. st \in [KpiAlarms -> State] /\ st[a] = to /\ \A b \in KpiAlarms : b # a => st[b] = k.state[b]
  BY <1>1
<1>4. /\ IsFiniteSet(S) /\ Cardinality(S) \in Nat /\ IsFiniteSet(U) /\ Cardinality(U) \in Nat
  BY <1>1, <1>3, ActiveInIs
<1>5. day \in Nat /\ crit \in Nat /\ active \in Nat /\ peak \in Nat /\ peak >= active
  BY <1>1
<1>6. active >= Cardinality(U)
  <2>1. CASE to = "ACTIVE_UNACK"
    <3>1. U = S \cup {a}
      BY <1>3, <2>1 DEF ActiveIn, Active
    <3>2. Cardinality(U) <= Cardinality(S) + 1
      <4>1. Cardinality(S \cup {a}) = IF a \in S THEN Cardinality(S) ELSE Cardinality(S) + 1
        <5> HIDE DEF S
        <5> QED BY <1>4, FS_AddElement
      <4> HIDE DEF S, U
      <4> QED BY <1>4, <3>1, <4>1
    <3>3. active = count + 1
      BY <2>1
    <3> HIDE DEF active, count, S, U
    <3> QED BY <1>1, <1>4, <1>5, <3>2, <3>3
  <2>2. CASE to = "ACTIVE_ACK"
    <3>1. U = S
      BY <1>3, <2>2 DEF ActiveIn, Active
    <3>2. active = count
      BY <2>2 DEF LeavesCount
    <3> QED BY <1>1, <3>1, <3>2, Zenon
  <2>3. CASE to \notin Active
    <3>1. U = S \ {a}
      BY <1>3, <2>3 DEF ActiveIn
    <3>2. Cardinality(S \ {a}) = IF a \in S THEN Cardinality(S) - 1 ELSE Cardinality(S)
      <4> HIDE DEF S
      <4> QED BY <1>4, FS_RemoveElement
    <3>3. active = count \/ active = count - 1
      BY <2>3 DEF Active
    <3>4. active = count - 1 => a \in S
      <4>1. active = count - 1 => LeavesCount(from, to)
        BY <1>1
      <4> QED BY <4>1 DEF LeavesCount, ActiveIn
    <3> HIDE DEF active, count, S, U
    <3> QED BY <1>1, <1>4, <1>5, <3>1, <3>2, <3>3, <3>4
  <2> QED BY <2>1, <2>2, <2>3 DEF State, Active
<1> HIDE DEF day, crit, active, peak, st, k1
<1>7. /\ k1 \in KpiType /\ k1.active_alarm_count = active /\ k1.peak_10min_rate = peak
      /\ k1.state = st
  BY <1>1, <1>2, <1>3, <1>5 DEF KpiType
<1>8. KpiSound(k1)
  BY <1>5, <1>6, <1>7 DEF KpiSound
<1> QED BY <1>8 DEF k1

(* Every transition keeps what is true of the indicators. *)
LEMMA KpiStep ==
  ASSUME KpiSound(kpi), NEW a \in KpiAlarms, Transition(a)
  PROVE  KpiSound(kpi')
<1>1. PICK condition \in BOOLEAN, ack \in BOOLEAN, unshelved \in BOOLEAN :
        LET from == kpi.state[a]
            to   == IF unshelved THEN "NORMAL"
                    ELSE alarm_state_transition(from, condition, ack, FALSE, FALSE)
        IN  to # from /\ kpi' = update_with_event(kpi, a, from, to)
  BY Zenon DEF Transition
<1> DEFINE from == kpi.state[a]
           to == IF unshelved THEN "NORMAL"
                 ELSE alarm_state_transition(from, condition, ack, FALSE, FALSE)
<1>2. to # from /\ kpi' = update_with_event(kpi, a, from, to)
  BY <1>1
<1>3. from \in State
  BY DEF KpiSound, KpiType
<1>4. to \in State /\ (to = "ACTIVE_ACK" => from \in Active)
  <2> HIDE DEF from
  <2>1. alarm_state_transition(from, condition, ack, FALSE, FALSE) \in State
    BY <1>3, KpiTransitionIs
  <2>2. alarm_state_transition(from, condition, ack, FALSE, FALSE) = "ACTIVE_ACK" => from \in Active
    BY <1>3, KpiTransitionIs
  <2>3. CASE unshelved
    BY <2>3 DEF State
  <2>4. CASE ~ unshelved
    BY <2>1, <2>2, <2>4
  <2> QED BY <2>3, <2>4
<1> HIDE DEF to
<1> QED BY <1>2, <1>4, KpiMoves

(* Of a set of limits, more are reached by what is larger. *)
LEMMA MoreLimits ==
  ASSUME NEW L, IsFiniteSet(L), NEW P \in SUBSET L, NEW Q \in SUBSET P
  PROVE  Cardinality(Q) \in Nat /\ Cardinality(P) \in Nat /\ Cardinality(Q) <= Cardinality(P)
BY FS_Subset, FS_CardinalityType

(* The limits of the indicators are finite in number. *)
LEMMA FourLimits ==
  ASSUME NEW x, NEW y, NEW z, NEW w
  PROVE  IsFiniteSet({x, y, z, w})
<1>1. IsFiniteSet({})
  BY FS_EmptySet
<1>2. IsFiniteSet({} \cup {w})
  BY <1>1, FS_AddElement
<1>3. IsFiniteSet(({} \cup {w}) \cup {z})
  BY <1>2, FS_AddElement
<1>4. IsFiniteSet((({} \cup {w}) \cup {z}) \cup {y})
  BY <1>3, FS_AddElement
<1>5. IsFiniteSet(((({} \cup {w}) \cup {z}) \cup {y}) \cup {x})
  BY <1>4, FS_AddElement
<1>6. ((({} \cup {w}) \cup {z}) \cup {y}) \cup {x} = {x, y, z, w}
  OBVIOUS
<1> QED BY <1>5, <1>6

(* One more activation is nearer to every limit on the number of alarms a *)
(* day and on the number active. *)
LEMMA WorseIsNotBetter ==
  ASSUME NEW k, KpiSound(k), NEW a \in KpiAlarms, NEW p \in KpiPeriods, NEW g
  PROVE  overall_health(update_with_event(k, a, "NORMAL", "ACTIVE_UNACK"), p, g)
           <= overall_health(k, p, g)
<1> DEFINE k1 == update_with_event(k, a, "NORMAL", "ACTIVE_UNACK")
           days == {75, 150, 300, 600}
           rates == {5, 10, 30, 50}
           shares == {5, 10, 20, 30}
           Day1 == {l \in days : per_day_reaches(k1, p, l)}
           Day0 == {l \in days : per_day_reaches(k, p, l)}
           Rate1 == {l \in rates : k1.peak_10min_rate > l}
           Rate0 == {l \in rates : k.peak_10min_rate > l}
           Share1 == {l \in shares : critical_above(k1, l)}
           Share0 == {l \in shares : critical_above(k, l)}
           stale == Cardinality({l \in {0, 5, 20, 50} : g.stale_24h_count > l})
           chat == Cardinality({l \in {0, 3, 10, 30} : g.chattering_alarms > l})
           resp == Cardinality({l \in {60, 180, 300, 600} : g.avg_response_time_sec >= l})
           cover == Cardinality({l \in {50, 80, 95, 100} : g.coverage >= l})
<1>1. /\ k \in KpiType /\ k.alarms_per_day \in Nat /\ k.active_alarm_count \in Nat
      /\ k.peak_10min_rate \in Nat
  BY DEF KpiSound, KpiType
<1>2. k1.alarms_per_day = k.alarms_per_day + 1 /\ k1.peak_10min_rate \in Nat
      /\ k1.peak_10min_rate >= k.peak_10min_rate
  <2> DEFINE active == k.active_alarm_count + 1
             peak == IF active > k.peak_10min_rate THEN active ELSE k.peak_10min_rate
             crit == IF KpiPriority[a] = "CRITICAL" THEN k.critical_per_day + 1
                     ELSE k.critical_per_day
             st == [k.state EXCEPT ![a] = "ACTIVE_UNACK"]
  <2>1. k1 = [k EXCEPT !.alarms_per_day = k.alarms_per_day + 1, !.critical_per_day = crit,
                       !.active_alarm_count = active, !.peak_10min_rate = peak,
                       !.state = st]
    BY <1>1 DEF update_with_event, KpiType
  <2>2. peak \in Nat /\ peak >= k.peak_10min_rate
    BY <1>1
  <2> HIDE DEF k1, peak, crit, st, active
  <2>3. k1.alarms_per_day = k.alarms_per_day + 1 /\ k1.peak_10min_rate = peak
    BY <1>1, <2>1 DEF KpiType
  <2> QED BY <2>2, <2>3
<1> HIDE DEF k1
<1>3. NumOperators \in Nat /\ p \in Nat
  BY RecordsAssumption
<1>4. Day0 \in SUBSET Day1 /\ Day1 \in SUBSET days
  <2>1. ASSUME NEW l \in days, per_day_reaches(k, p, l) PROVE per_day_reaches(k1, p, l)
    <3>1. l \in Nat
      OBVIOUS
    <3> DEFINE x == l * p * NumOperators
    <3>2. x \in Nat
      BY <1>3, <3>1
    <3>3. p > 0 /\ k.alarms_per_day * 86400 >= x
      BY <2>1 DEF per_day_reaches
    <3> HIDE DEF x
    <3>4. k1.alarms_per_day * 86400 >= x
      BY <1>1, <1>2, <3>2, <3>3
    <3> QED BY <3>3, <3>4 DEF per_day_reaches, x
  <2> QED BY <2>1
<1>5. Rate0 \in SUBSET Rate1 /\ Rate1 \in SUBSET rates
  <2> DEFINE before == k.peak_10min_rate
             after == k1.peak_10min_rate
  <2>1. before \in Nat /\ after \in Nat /\ after >= before
    BY <1>1, <1>2
  <2> HIDE DEF before, after, Day0, Day1, Share0, Share1, stale, chat, resp, cover
  <2>2. ASSUME NEW l \in rates, before > l PROVE after > l
    <3>1. l \in Nat
      OBVIOUS
    <3> QED BY <2>1, <2>2, <3>1
  <2>3. Rate0 \in SUBSET Rate1
    BY <2>2, Zenon DEF before, after
  <2>4. Rate1 \in SUBSET rates
    BY Zenon
  <2> QED BY <2>3, <2>4
<1>6. IsFiniteSet(days) /\ IsFiniteSet(rates) /\ IsFiniteSet(shares)
  <2>1. IsFiniteSet({75, 150, 300, 600})
    BY FourLimits, ZenonT(60)
  <2>2. IsFiniteSet({5, 10, 30, 50})
    BY FourLimits, Zenon
  <2>3. IsFiniteSet({5, 10, 20, 30})
    BY FourLimits, Zenon
  <2> QED BY <2>1, <2>2, <2>3, Zenon
<1>7. /\ Cardinality(Day0) \in Nat /\ Cardinality(Day1) \in Nat
      /\ Cardinality(Day0) <= Cardinality(Day1)
  <2> HIDE DEF Day0, Day1, days
  <2> QED BY <1>4, <1>6, MoreLimits
<1>8. /\ Cardinality(Rate0) \in Nat /\ Cardinality(Rate1) \in Nat
      /\ Cardinality(Rate0) <= Cardinality(Rate1)
  <2> HIDE DEF Rate0, Rate1, rates
  <2> QED BY <1>5, <1>6, MoreLimits
<1>9. Cardinality(Share0) \in Nat /\ Cardinality(Share1) \in Nat
  <2>1. Share0 \in SUBSET shares /\ Share1 \in SUBSET shares
    OBVIOUS
  <2> HIDE DEF Share0, Share1, shares
  <2> QED BY <1>6, <2>1, FS_Subset, FS_CardinalityType
<1>10. stale \in Nat /\ chat \in Nat /\ resp \in Nat /\ cover \in Nat
  <2> DEFINE A == {0, 5, 20, 50}
             B == {0, 3, 10, 30}
             C == {60, 180, 300, 600}
             D == {50, 80, 95, 100}
             A1 == {l \in A : g.stale_24h_count > l}
             B1 == {l \in B : g.chattering_alarms > l}
             C1 == {l \in C : g.avg_response_time_sec >= l}
             D1 == {l \in D : g.coverage >= l}
  <2> HIDE DEF Day0, Day1, Rate0, Rate1, Share0, Share1, days, rates, shares
  <2>1. IsFiniteSet(A) /\ IsFiniteSet(B) /\ IsFiniteSet(C) /\ IsFiniteSet(D)
    <3>1. IsFiniteSet({0, 5, 20, 50})
      BY FourLimits, Zenon
    <3>2. IsFiniteSet({0, 3, 10, 30})
      BY FourLimits, Zenon
    <3>3. IsFiniteSet({60, 180, 300, 600})
      BY FourLimits, ZenonT(60)
    <3>4. IsFiniteSet({50, 80, 95, 100})
      BY FourLimits, ZenonT(60)
    <3> QED BY <3>1, <3>2, <3>3, <3>4, Zenon
  <2> HIDE DEF A, B, C, D
  <2>2. A1 \in SUBSET A /\ B1 \in SUBSET B /\ C1 \in SUBSET C /\ D1 \in SUBSET D
    <3>1. A1 \in SUBSET A
      BY Zenon
    <3>2. B1 \in SUBSET B
      BY Zenon
    <3>3. C1 \in SUBSET C
      BY Zenon
    <3>4. D1 \in SUBSET D
      BY Zenon
    <3> QED BY <3>1, <3>2, <3>3, <3>4
  <2>3. IsFiniteSet(A1) /\ IsFiniteSet(B1) /\ IsFiniteSet(C1) /\ IsFiniteSet(D1)
    <3> HIDE DEF A1, B1, C1, D1
    <3> QED BY <2>1, <2>2, FS_Subset
  <2>4. Cardinality(A1) \in Nat /\ Cardinality(B1) \in Nat /\ Cardinality(C1) \in Nat
        /\ Cardinality(D1) \in Nat
    <3> HIDE DEF A1, B1, C1, D1
    <3> QED BY <2>3, FS_CardinalityType
  <2>5. /\ stale = Cardinality(A1) /\ chat = Cardinality(B1) /\ resp = Cardinality(C1)
        /\ cover = Cardinality(D1)
    BY Zenon DEF A, B, C, D
  <2> QED BY <2>4, <2>5, Zenon
<1>11. /\ overall_health(k1, p, g)
           = 25 * (4 - Cardinality(Day1)) + 25 * (4 - Cardinality(Rate1)) + 15 * (4 - stale)
             + 0 * (4 - Cardinality(Share1)) + 10 * (4 - chat) + 15 * (4 - resp) + 10 * cover
       /\ overall_health(k, p, g)
           = 25 * (4 - Cardinality(Day0)) + 25 * (4 - Cardinality(Rate0)) + 15 * (4 - stale)
             + 0 * (4 - Cardinality(Share0)) + 10 * (4 - chat) + 15 * (4 - resp) + 10 * cover
  <2>1. eemua_scores(k1, p, g) = <<4 - Cardinality(Day1), 4 - Cardinality(Rate1), 4 - stale,
                                   4 - Cardinality(Share1), 4 - chat, 4 - resp, cover>>
    BY Zenon DEF eemua_scores
  <2>2. eemua_scores(k, p, g) = <<4 - Cardinality(Day0), 4 - Cardinality(Rate0), 4 - stale,
                                  4 - Cardinality(Share0), 4 - chat, 4 - resp, cover>>
    BY Zenon DEF eemua_scores
  <2> HIDE DEF Day0, Day1, Rate0, Rate1, Share0, Share1, stale, chat, resp, cover
  <2> QED BY <2>1, <2>2 DEF overall_health
<1> HIDE DEF Day0, Day1, Rate0, Rate1, Share0, Share1, stale, chat, resp, cover
<1>12. overall_health(k1, p, g) <= overall_health(k, p, g)
  BY <1>7, <1>8, <1>9, <1>10, <1>11
<1> QED BY <1>12 DEF k1

(* What the run checks of the indicators. *)
LEMMA CountsFollow ==
  ASSUME KpiSound(kpi)
  PROVE  CountsCover
<1>1. kpi.state \in [KpiAlarms -> State]
  BY DEF KpiSound, KpiType
<1>2. DOMAIN kpi.state = KpiAlarms
  BY <1>1
<1>3. {a \in DOMAIN kpi.state : kpi.state[a] \in Active} = ActiveIn(kpi.state)
  BY <1>2 DEF ActiveIn
<1>4. \A a \in KpiAlarms, p \in KpiPeriods, g \in Gauges :
        overall_health(update_with_event(kpi, a, "NORMAL", "ACTIVE_UNACK"), p, g)
          <= overall_health(kpi, p, g)
  BY WorseIsNotBetter
<1> QED BY <1>2, <1>3, <1>4, Zenon DEF CountsCover, KpiSound

-----------------------------------------------------------------------------
(* What a loop gathers: p lists the n places of I in their order. *)

Lists(p, n, I) ==
  /\ p \in [1 .. n -> I]
  /\ \A i, j \in 1 .. n : i < j => p[i] < p[j]
  /\ \A x \in I : \E i \in 1 .. n : p[i] = x

Picks(g, s, I) ==
  \E p : Lists(p, Len(g), I) /\ \A j \in 1 .. Len(g) : g[j] = s[p[j]]

(* A list without repetition is as long as its set is large. *)
LEMMA ListsCard ==
  ASSUME NEW n \in Nat, NEW I, I \subseteq Nat, NEW p, Lists(p, n, I)
  PROVE  IsFiniteSet(I) /\ Cardinality(I) = n
<1>1. p \in [1 .. n -> I] /\ \A x \in I : \E i \in 1 .. n : p[i] = x
  BY DEF Lists
<1>2. ASSUME NEW i \in 1 .. n, NEW j \in 1 .. n, p[i] = p[j] PROVE i = j
  <2>1. p[i] \in Nat /\ p[j] \in Nat
    BY <1>1
  <2>2. ~ i < j /\ ~ j < i
    BY <1>2, <2>1 DEF Lists
  <2> QED BY <2>2
<1>3. ExistsBijection(1 .. n, I)
  <2>1. p \in Injection(1 .. n, I)
    BY <1>1, <1>2 DEF Injection, IsInjective
  <2>2. p \in Surjection(1 .. n, I)
    BY <1>1 DEF Surjection
  <2> QED BY <2>1, <2>2 DEF ExistsBijection, Bijection
<1>4. IsFiniteSet(1 .. n) /\ Cardinality(1 .. n) = n
  <2>1. 1 \in Int /\ n \in Int
    OBVIOUS
  <2>2. IsFiniteSet(1 .. n) /\ Cardinality(1 .. n) = IF 1 > n THEN 0 ELSE n - 1 + 1
    BY <2>1, FS_Interval
  <2> QED BY <2>2
<1> QED BY <1>3, <1>4, FS_Bijection

SameLists(p, n, q, m) == n = m /\ \A i \in 1 .. n : p[i] = q[i]

(* A set of places is listed in one way. *)
LEMMA ListsOnce ==
  ASSUME NEW n \in Nat, NEW m \in Nat, NEW I, I \subseteq Nat,
         NEW p, Lists(p, n, I), NEW q, Lists(q, m, I)
  PROVE  SameLists(p, n, q, m)
<1>1. n = m
  <2>1. Cardinality(I) = n
    BY ListsCard
  <2>2. Cardinality(I) = m
    BY ListsCard
  <2> QED BY <2>1, <2>2
<1>2. /\ p \in [1 .. n -> I] /\ q \in [1 .. n -> I]
      /\ \A i, j \in 1 .. n : i < j => p[i] < p[j] /\ q[i] < q[j]
      /\ \A x \in I : \E i \in 1 .. n : p[i] = x
      /\ \A x \in I : \E i \in 1 .. n : q[i] = x
  BY <1>1 DEF Lists
<1> DEFINE D == {i \in 1 .. n : p[i] # q[i]}
<1>3. D = {}
  <2> SUFFICES ASSUME D # {} PROVE FALSE
    OBVIOUS
  <2>1. PICK i \in D : \A j \in D : i <= j
    <3>1. D \subseteq Nat
      OBVIOUS
    <3> HIDE DEF D
    <3> QED BY <3>1, LeastNat
  <2>2. i \in 1 .. n /\ p[i] # q[i] /\ p[i] \in Nat /\ q[i] \in Nat
    BY <1>2
  <2>3. ASSUME NEW j \in 1 .. n, j < i PROVE p[j] = q[j] /\ p[j] \in Nat
    <3>1. j \notin D
      <4> HIDE DEF D
      <4>1. ~ i <= j
        BY <2>2, <2>3
      <4> QED BY <2>1, <4>1
    <3> QED BY <1>2, <3>1
  <2> HIDE DEF D
  <2>4. CASE p[i] < q[i]
    <3>1. PICK j \in 1 .. n : q[j] = p[i]
      BY <1>2, <2>2
    <3>2. j < i \/ j = i \/ i < j
      BY <2>2
    <3>3. CASE i < j
      <4>1. q[i] < q[j]
        BY <1>2, <2>2, <3>3
      <4> QED BY <2>2, <2>4, <3>1, <4>1
    <3>4. CASE j < i
      <4>1. p[j] < p[i] /\ p[j] = q[j]
        BY <1>2, <2>2, <2>3, <3>4
      <4> QED BY <2>2, <3>1, <4>1
    <3> QED BY <2>2, <3>1, <3>2, <3>3, <3>4
  <2>5. CASE q[i] < p[i]
    <3>1. PICK j \in 1 .. n : p[j] = q[i]
      BY <1>2, <2>2
    <3>2. j < i \/ j = i \/ i < j
      BY <2>2
    <3>3. CASE i < j
      <4>1. p[i] < p[j]
        BY <1>2, <2>2, <3>3
      <4> QED BY <2>2, <2>5, <3>1, <4>1
    <3>4. CASE j < i
      <4>1. q[j] < q[i] /\ p[j] = q[j]
        BY <1>2, <2>2, <2>3, <3>4
      <4> QED BY <2>2, <3>1, <4>1
    <3> QED BY <2>2, <3>1, <3>2, <3>3, <3>4
  <2> QED BY <2>2, <2>4, <2>5
<1> QED BY <1>1, <1>3 DEF SameLists

(* One more place, larger than the ones listed. *)
LEMMA ListsMore ==
  ASSUME NEW n \in Nat, NEW I, I \subseteq Nat, NEW p, Lists(p, n, I),
         NEW k \in Nat, \A x \in I : x < k
  PROVE  Lists([j \in 1 .. n + 1 |-> IF j = n + 1 THEN k ELSE p[j]], n + 1, I \cup {k})
<1> DEFINE J == I \cup {k}
           q == [j \in 1 .. n + 1 |-> IF j = n + 1 THEN k ELSE p[j]]
<1>1. /\ p \in [1 .. n -> I] /\ \A i, j \in 1 .. n : i < j => p[i] < p[j]
      /\ \A x \in I : \E i \in 1 .. n : p[i] = x
  BY DEF Lists
<1>2. /\ \A j \in 1 .. n : q[j] = p[j] /\ q[j] \in I /\ q[j] < k
      /\ q[n + 1] = k /\ \A j \in 1 .. n + 1 : j \in 1 .. n \/ j = n + 1
  <2>1. \A j \in 1 .. n : j \in 1 .. n + 1 /\ j # n + 1
    OBVIOUS
  <2>2. \A j \in 1 .. n : q[j] = p[j]
    BY <2>1
  <2>3. q[n + 1] = k /\ \A j \in 1 .. n + 1 : j \in 1 .. n \/ j = n + 1
    OBVIOUS
  <2> HIDE DEF q
  <2> QED BY <1>1, <2>2, <2>3
<1>3. q = [j \in 1 .. n + 1 |-> q[j]]
  OBVIOUS
<1> HIDE DEF q
<1>4. q \in [1 .. n + 1 -> J]
  BY <1>2, <1>3
<1>5. ASSUME NEW i \in 1 .. n + 1, NEW j \in 1 .. n + 1, i < j
      PROVE  q[i] < q[j]
  <2>1. i \in 1 .. n
    BY <1>5
  <2> QED BY <1>1, <1>2, <1>5, <2>1
<1>6. ASSUME NEW x \in J PROVE \E i \in 1 .. n + 1 : q[i] = x
  <2>1. CASE x = k
    <3>1. n + 1 \in 1 .. n + 1
      OBVIOUS
    <3> QED BY <1>2, <2>1, <3>1
  <2>2. CASE x \in I
    <3>1. PICK i \in 1 .. n : p[i] = x
      BY <1>1, <2>2
    <3>2. i \in 1 .. n + 1
      OBVIOUS
    <3> QED BY <1>2, <3>1, <3>2
  <2> QED BY <2>1, <2>2
<1>7. Lists(q, n + 1, J)
  BY <1>4, <1>5, <1>6 DEF Lists
<1> QED BY <1>7 DEF q

(* What one turn of the loop makes of what has been gathered. *)
Took(c, e, b) == IF b THEN Append(c, e) ELSE c

(* The next place of a sequence is taken, or it is passed over. *)
LEMMA TookPicks ==
  ASSUME NEW S, NEW s \in Seq(S), NEW I, I \subseteq Nat, NEW k \in 1 .. Len(s),
         NEW c \in Seq(S), Picks(c, s, I \cap 1 .. k - 1)
  PROVE  Took(c, s[k], k \in I) \in Seq(S) /\ Picks(Took(c, s[k], k \in I), s, I \cap 1 .. k)
<1>1. Len(s) \in Nat /\ k \in Nat /\ s[k] \in S /\ Len(c) \in Nat
  BY LenProperties, ElementOfSeq
<1>2. CASE k \notin I
  <2>1. I \cap 1 .. k = I \cap 1 .. k - 1
    BY <1>1, <1>2
  <2>2. Took(c, s[k], k \in I) = c
    BY <1>2 DEF Took
  <2> QED BY <2>1, <2>2
<1>3. CASE k \in I
  <2> DEFINE n == Len(c)
             J == I \cap 1 .. k - 1
             g == Append(c, s[k])
  <2>1. /\ I \cap 1 .. k = J \cup {k} /\ J \subseteq Nat /\ \A x \in J : x < k
    BY <1>1, <1>3
  <2>2. Took(c, s[k], k \in I) = g
    BY <1>3 DEF Took
  <2>3. /\ g \in Seq(S) /\ Len(g) = n + 1 /\ g[n + 1] = s[k] /\ \A i \in 1 .. n : g[i] = c[i]
    BY <1>1, AppendProperties
  <2>4. PICK p : Lists(p, n, J) /\ \A j \in 1 .. n : c[j] = s[p[j]]
    BY Zenon DEF Picks
  <2> HIDE DEF n, J, g
  <2> DEFINE q == [j \in 1 .. n + 1 |-> IF j = n + 1 THEN k ELSE p[j]]
  <2>5. Lists(q, n + 1, J \cup {k})
    BY <1>1, <2>1, <2>4, ListsMore DEF n
  <2>6. ASSUME NEW j \in 1 .. n + 1 PROVE g[j] = s[q[j]]
    <3>1. j \in 1 .. n \/ j = n + 1
      BY <1>1 DEF n
    <3>2. CASE j = n + 1
      BY <2>3, <3>2
    <3>3. CASE j \in 1 .. n
      <4>1. q[j] = p[j]
        BY <1>1, <3>3 DEF n
      <4> HIDE DEF q
      <4> QED BY <2>3, <2>4, <3>3, <4>1
    <3> QED BY <3>1, <3>2, <3>3
  <2> HIDE DEF q
  <2>7. Picks(g, s, J \cup {k})
    BY <2>3, <2>5, <2>6 DEF Picks
  <2> QED BY <2>1, <2>2, <2>3, <2>7
<1> QED BY <1>2, <1>3

(* The loop gathers the entries of s at the places of I in their order. *)
LEMMA GatheredIs ==
  ASSUME NEW S, NEW s \in Seq(S), NEW I, I \subseteq DOMAIN s
  PROVE  Gathered(s, I) \in Seq(S) /\ Picks(Gathered(s, I), s, I)
<1> DEFINE n == Len(s)
           Q == Seq(S)
           run == CHOOSE f : f = [i \in 0 .. n |->
                    IF i = 0 THEN << >>
                    ELSE IF i \in I THEN Append(f[i - 1], s[i]) ELSE f[i - 1]]
           none == << >>
<1>1. n \in Nat /\ DOMAIN s = 1 .. n /\ \A k \in 1 .. n : s[k] \in S
  BY LenProperties, ElementOfSeq
<1>2. Gathered(s, I) = run[n]
  BY Zenon DEF Gathered
<1>3. none \in Q /\ Len(none) = 0
  OBVIOUS
<1>4. ASSUME NEW k \in 1 .. n, NEW c \in Q PROVE Took(c, s[k], k \in I) \in Q
  <2>1. s[k] \in S
    BY <1>1
  <2> QED BY <2>1, AppendProperties DEF Took
<1>5. PICK g \in [0 .. n -> Q] :
        g[0] = none /\ \A k \in 1 .. n : g[k] = Took(g[k - 1], s[k], k \in I)
  <2> DEFINE F == [k \in 1 .. n |-> [c \in Q |-> Took(c, s[k], k \in I)]]
  <2> HIDE DEF n, Q, none
  <2>2. F \in [1 .. n -> [Q -> Q]]
    BY <1>4
  <2> HIDE DEF F
  <2>3. PICK g \in Courses(n, Q, none, F) : TRUE
    BY <1>1, <1>3, <2>2, Iteration
  <2>4. \A k \in 1 .. n : g[k] = Took(g[k - 1], s[k], k \in I)
    <3> TAKE k \in 1 .. n
    <3>1. k - 1 \in 0 .. n
      BY <1>1
    <3>2. g[k] = F[k][g[k - 1]] /\ g[k - 1] \in Q
      BY <2>3, <3>1 DEF Courses
    <3> QED BY <3>2 DEF F
  <2>5. g \in [0 .. n -> Q] /\ g[0] = none
    BY <2>3 DEF Courses
  <2> QED BY <2>4, <2>5
<1>6. run = [i \in 0 .. n |-> IF i = 0 THEN << >>
                              ELSE IF i \in I THEN Append(run[i - 1], s[i]) ELSE run[i - 1]]
  <2> HIDE DEF n, Q
  <2>1. g = [i \in 0 .. n |-> IF i = 0 THEN << >>
                              ELSE IF i \in I THEN Append(g[i - 1], s[i]) ELSE g[i - 1]]
    <3>1. ASSUME NEW k \in 0 .. n
          PROVE  g[k] = IF k = 0 THEN << >>
                        ELSE IF k \in I THEN Append(g[k - 1], s[k]) ELSE g[k - 1]
      <4>1. CASE k = 0
        BY <1>5, <4>1
      <4>2. CASE k # 0
        <5>1. k \in 1 .. n
          BY <1>1, <4>2
        <5>2. g[k] = Took(g[k - 1], s[k], k \in I)
          BY <1>5, <5>1
        <5> QED BY <4>2, <5>2, Zenon DEF Took
      <4> QED BY <4>1, <4>2
    <3>2. g = [k \in 0 .. n |-> g[k]]
      BY <1>5
    <3> QED BY <3>1, <3>2, Zenon
  <2> QED BY <2>1, Zenon
<1> HIDE DEF run, n
<1> DEFINE Good(k) == run[k] \in Q /\ Picks(run[k], s, I \cap 1 .. k)
           T == {k \in 0 .. n : Good(k)}
<1>7. Good(0)
  <2>1. run[0] = none
    BY <1>1, <1>6
  <2>2. I \cap 1 .. 0 = {}
    OBVIOUS
  <2>3. Picks(none, s, {})
    <3> DEFINE p == [i \in 1 .. 0 |-> i]
    <3>1. Lists(p, 0, {})
      BY DEF Lists
    <3> HIDE DEF none, p
    <3>2. Lists(p, Len(none), {}) /\ \A j \in 1 .. Len(none) : none[j] = s[p[j]]
      BY <1>3, <3>1
    <3> QED BY <3>2 DEF Picks
  <2> HIDE DEF none
  <2> QED BY <1>3, <2>1, <2>2, <2>3
<1>8. ASSUME NEW k \in 0 .. n - 1, Good(k) PROVE Good(k + 1)
  <2> DEFINE m == k + 1
  <2>1. m \in 1 .. n /\ m \in 0 .. n /\ m # 0 /\ m - 1 = k
    BY <1>1
  <2> HIDE DEF m
  <2>2. run[m] = Took(run[m - 1], s[m], m \in I)
    BY <1>6, <2>1, Zenon DEF Took
  <2>3. run[m - 1] \in Q /\ Picks(run[m - 1], s, I \cap 1 .. m - 1)
    BY <1>8, <2>1
  <2>4. I \subseteq Nat /\ m \in 1 .. Len(s)
    BY <1>1, <2>1 DEF n
  <2> DEFINE c == run[m - 1]
  <2>5. c \in Seq(S) /\ Picks(c, s, I \cap 1 .. m - 1) /\ run[m] = Took(c, s[m], m \in I)
    BY <2>2, <2>3
  <2> HIDE DEF c
  <2>6. Took(c, s[m], m \in I) \in Seq(S) /\ Picks(Took(c, s[m], m \in I), s, I \cap 1 .. m)
    BY <2>4, <2>5, TookPicks
  <2>7. Good(m)
    BY <2>5, <2>6
  <2> QED BY <2>7 DEF m
<1>9. n \in T
  <2>1. 0 \in T /\ \A k \in 0 .. n - 1 : k \in T => k + 1 \in T
    <3>1. 0 \in 0 .. n /\ \A k \in 0 .. n - 1 : k + 1 \in 0 .. n
      BY <1>1
    <3> HIDE DEF Good
    <3> QED BY <1>7, <1>8, <3>1
  <2> HIDE DEF T
  <2>2. 0 .. n \subseteq T
    BY <1>1, <2>1, SetInduction
  <2> QED BY <1>1, <2>2
<1>10. I \cap 1 .. n = I
  BY <1>1
<1> QED BY <1>2, <1>9, <1>10

(* As many elements are gathered as there are places. *)
LEMMA GatheredLen ==
  ASSUME NEW S, NEW s \in Seq(S), NEW I, I \subseteq DOMAIN s
  PROVE  Len(Gathered(s, I)) = Cardinality(I) /\ Len(Gathered(s, I)) \in Nat
<1> DEFINE h == Gathered(s, I)
<1>1. h \in Seq(S) /\ Picks(h, s, I)
  BY GatheredIs
<1> HIDE DEF h
<1>2. Len(h) \in Nat /\ I \subseteq Nat
  BY <1>1, LenProperties
<1>3. PICK q : Lists(q, Len(h), I)
  BY <1>1, Zenon DEF Picks
<1> QED BY <1>2, <1>3, ListsCard DEF h

-----------------------------------------------------------------------------
(* The rolling history of a day. *)

HistoryEvent == [alarm_id : Alarm, timestamp : Nat]

Offer == [event : HistoryEvent, kept : BOOLEAN]

(* The places of what was kept and is not older than a day at time t. *)
KeptSince(offered, t) ==
  {i \in DOMAIN offered : offered[i].kept /\ offered[i].event.timestamp >= t - Day}

HoldsOf(h, offered, I) ==
  \E p : Lists(p, Len(h), I) /\ \A j \in 1 .. Len(h) : h[j] = offered[p[j]].event

OffersGoUp(offered, clock) ==
  /\ \A i, j \in DOMAIN offered : i <= j => offered[i].event.timestamp <= offered[j].event.timestamp
  /\ \A i \in DOMAIN offered : offered[i].event.timestamp <= clock

(* The places of what was kept before i and was of its day. *)
KeptBefore(offered, i) ==
  {j \in 1 .. i - 1 : /\ offered[j].kept
                      /\ offered[j].event.timestamp >= offered[i].event.timestamp - Day}

RefusedWhenFull(offered) ==
  \A i \in DOMAIN offered : ~ offered[i].kept => Cardinality(KeptBefore(offered, i)) = MaxHistory

RollingParts(h, clock, offered) ==
  /\ h \in Seq(HistoryEvent) /\ clock \in Nat /\ offered \in Seq(Offer)
  /\ OffersGoUp(offered, clock)
  /\ HoldsOf(h, offered, KeptSince(offered, clock))
  /\ Len(h) <= MaxHistory
  /\ RefusedWhenFull(offered)

RollingSound(r) == RollingParts(r.history, r.clock, r.offered)

(* The sizes of the history. *)
LEMMA RollingConstants ==
  Day \in Nat /\ MaxHistory \in Nat /\ Gaps \subseteq Nat /\ ChatterWindow \in Nat
BY RecordsAssumption

(* The history starts empty. *)
LEMMA RollingStarts ==
  ASSUME RollingInit
  PROVE  RollingSound(rolling)
<1> DEFINE none == << >>
           p == [i \in 1 .. 0 |-> i]
<1>1. rolling.history = none /\ rolling.clock = 1 /\ rolling.offered = none
  BY DEF RollingInit
<1>2. /\ none \in Seq(HistoryEvent) /\ none \in Seq(Offer) /\ Len(none) = 0
      /\ DOMAIN none = {}
  OBVIOUS
<1>3. Lists(p, 0, {})
  BY DEF Lists
<1> HIDE DEF none, p
<1>4. KeptSince(none, 1) = {}
  BY <1>2 DEF KeptSince
<1>5. HoldsOf(none, none, {})
  <2>1. Lists(p, Len(none), {}) /\ \A j \in 1 .. Len(none) : none[j] = none[p[j]].event
    BY <1>2, <1>3
  <2> QED BY <2>1 DEF HoldsOf
<1>6. OffersGoUp(none, 1) /\ RefusedWhenFull(none)
  BY <1>2 DEF OffersGoUp, RefusedWhenFull
<1>7. Len(none) <= MaxHistory /\ 1 \in Nat
  BY <1>2, RollingConstants
<1>8. HoldsOf(none, none, KeptSince(none, 1))
  BY <1>4, <1>5
<1>9. RollingParts(none, 1, none)
  BY <1>2, <1>6, <1>7, <1>8, Zenon DEF RollingParts
<1> QED BY <1>1, <1>9 DEF RollingSound

(* What is a day old or more leaves the history, and nothing else does. *)
LEMMA YoungIs ==
  ASSUME NEW h \in Seq(HistoryEvent), NEW offered \in Seq(Offer), NEW clock \in Nat,
         NEW time \in Nat, clock <= time, HoldsOf(h, offered, KeptSince(offered, clock))
  PROVE  /\ Young(h, time) \in Seq(HistoryEvent)
         /\ HoldsOf(Young(h, time), offered, KeptSince(offered, time))
         /\ Len(Young(h, time)) <= Len(h)
<1> DEFINE J == {i \in DOMAIN h : h[i].timestamp >= time - Day}
           y == Young(h, time)
           K == KeptSince(offered, clock)
           K1 == KeptSince(offered, time)
           n == Len(h)
           m == Len(y)
<1>1. y \in Seq(HistoryEvent) /\ Picks(y, h, J)
  <2>1. y = Gathered(h, J) /\ J \subseteq DOMAIN h
    BY DEF Young
  <2> HIDE DEF J, y
  <2> QED BY <2>1, GatheredIs
<1>2. n \in Nat /\ m \in Nat /\ DOMAIN h = 1 .. n /\ J \subseteq 1 .. n
  <2> HIDE DEF y
  <2> QED BY <1>1, LenProperties
<1> HIDE DEF y
<1>3. PICK p : Lists(p, n, K) /\ \A j \in 1 .. n : h[j] = offered[p[j]].event
  BY Zenon DEF HoldsOf
<1>4. PICK q : Lists(q, m, J) /\ \A j \in 1 .. m : y[j] = h[q[j]]
  BY <1>1, Zenon DEF Picks
<1>5. /\ p \in [1 .. n -> K] /\ \A i, j \in 1 .. n : i < j => p[i] < p[j]
      /\ \A x \in K : \E i \in 1 .. n : p[i] = x
  BY <1>3 DEF Lists
<1>6. /\ q \in [1 .. m -> J] /\ \A i, j \in 1 .. m : i < j => q[i] < q[j]
      /\ \A x \in J : \E i \in 1 .. m : q[i] = x
  BY <1>4 DEF Lists
<1>7. \A i \in DOMAIN offered : offered[i].event.timestamp \in Nat
  <2> SUFFICES ASSUME NEW i \in DOMAIN offered PROVE offered[i].event.timestamp \in Nat
    OBVIOUS
  <2>1. offered[i] \in Offer
    BY ElementOfSeq, LenProperties
  <2> QED BY <2>1 DEF Offer, HistoryEvent
<1>8. K1 \subseteq K /\ K \subseteq DOMAIN offered
  BY <1>7, RollingConstants DEF KeptSince
<1>9. \A j \in 1 .. n : p[j] \in K1 <=> j \in J
  <2> SUFFICES ASSUME NEW j \in 1 .. n PROVE p[j] \in K1 <=> j \in J
    OBVIOUS
  <2>1. p[j] \in K /\ h[j] = offered[p[j]].event
    BY <1>3, <1>5
  <2> QED BY <1>2, <2>1 DEF KeptSince
<1> HIDE DEF n, m, J, K, K1
<1> DEFINE r == [k \in 1 .. m |-> p[q[k]]]
<1>10. \A k \in 1 .. m : q[k] \in J /\ q[k] \in 1 .. n /\ r[k] = p[q[k]] /\ r[k] \in K1
  BY <1>2, <1>5, <1>6, <1>9
<1>11. r = [k \in 1 .. m |-> r[k]]
  OBVIOUS
<1> HIDE DEF r
<1>12. r \in [1 .. m -> K1]
  BY <1>10, <1>11
<1>13. \A i, j \in 1 .. m : i < j => r[i] < r[j]
  BY <1>5, <1>6, <1>10
<1>14. ASSUME NEW x \in K1 PROVE \E k \in 1 .. m : r[k] = x
  <2>1. PICK j \in 1 .. n : p[j] = x
    BY <1>5, <1>8
  <2>2. PICK k \in 1 .. m : q[k] = j
    BY <1>6, <1>9, <2>1
  <2> QED BY <1>10, <2>1, <2>2
<1>15. Lists(r, m, K1)
  BY <1>12, <1>13, <1>14 DEF Lists
<1>16. \A j \in 1 .. m : y[j] = offered[r[j]].event
  BY <1>3, <1>4, <1>10
<1>17. HoldsOf(y, offered, K1)
  BY <1>15, <1>16 DEF HoldsOf, m
<1>18. m <= n
  <2>1. Cardinality(J) = m /\ IsFiniteSet(J)
    <3>1. J \subseteq Nat
      BY <1>2
    <3> QED BY <1>2, <1>4, <3>1, ListsCard
  <2>2. IsFiniteSet(1 .. n) /\ Cardinality(1 .. n) = n
    <3>1. 1 \in Int /\ n \in Int
      BY <1>2
    <3>2. IsFiniteSet(1 .. n) /\ Cardinality(1 .. n) = IF 1 > n THEN 0 ELSE n - 1 + 1
      BY <3>1, FS_Interval
    <3> QED BY <1>2, <3>2
  <2>3. Cardinality(J) <= Cardinality(1 .. n)
    <3>1. J \in SUBSET (1 .. n)
      BY <1>2
    <3> QED BY <2>2, <3>1, FS_Subset
  <2> QED BY <2>1, <2>2, <2>3
<1> QED BY <1>1, <1>17, <1>18 DEF y, n, m, K1

(* An event recorded pushes out the old, and is refused at the limit. *)
LEMMA RollingStep ==
  ASSUME RollingSound(rolling), NEW a \in Alarm, NEW gap \in Gaps, Record(a, gap)
  PROVE  RollingSound(rolling')
<1> DEFINE h == rolling.history
           clock == rolling.clock
           offered == rolling.offered
           time == clock + gap
           e == [alarm_id |-> a, timestamp |-> time]
           y == Young(h, time)
           h1 == rolling_window_update(h, e, time)
           k == Len(h1) > Len(y)
           o == [event |-> e, kept |-> k]
           offered1 == Append(offered, o)
           n == Len(offered)
           K == KeptSince(offered, time)
           K1 == KeptSince(offered1, time)
<1>1. /\ h \in Seq(HistoryEvent) /\ clock \in Nat /\ offered \in Seq(Offer)
      /\ OffersGoUp(offered, clock) /\ HoldsOf(h, offered, KeptSince(offered, clock))
      /\ Len(h) <= MaxHistory /\ RefusedWhenFull(offered)
      /\ n \in Nat /\ DOMAIN offered = 1 .. n /\ Len(h) \in Nat
  BY LenProperties DEF RollingSound, RollingParts
<1>2. rolling'.history = h1 /\ rolling'.clock = time /\ rolling'.offered = offered1
  <2> HIDE DEF h1
  <2>1. rolling' = [history |-> h1, clock |-> time, offered |-> offered1]
    BY Zenon DEF Record, h1
  <2> QED BY <2>1
<1>3. time \in Nat /\ clock <= time
  BY <1>1, RollingConstants
<1>4. e \in HistoryEvent /\ e.timestamp = time
  BY <1>3 DEF HistoryEvent
<1> HIDE DEF h, clock, offered, time, e
<1>5. /\ y \in Seq(HistoryEvent) /\ HoldsOf(y, offered, K) /\ Len(y) <= Len(h) /\ Len(y) \in Nat
  BY <1>1, <1>3, YoungIs, LenProperties
<1>6. h1 = IF Len(y) < MaxHistory THEN Append(y, e) ELSE y
  BY DEF rolling_window_update
<1> HIDE DEF y
<1>7. /\ o \in Offer /\ o.event = e /\ o.kept = k
  BY <1>4 DEF Offer
<1> HIDE DEF o, h1
<1>8. /\ offered1 \in Seq(Offer) /\ Len(offered1) = n + 1 /\ DOMAIN offered1 = 1 .. n + 1
      /\ offered1[n + 1] = o /\ \A i \in 1 .. n : offered1[i] = offered[i]
  <2>1. /\ offered1 \in Seq(Offer) /\ Len(offered1) = n + 1 /\ offered1[n + 1] = o
        /\ \A i \in 1 .. n : offered1[i] = offered[i]
    BY <1>1, <1>7, AppendProperties
  <2> HIDE DEF offered1, n
  <2> QED BY <2>1, LenProperties
<1> HIDE DEF n, offered1
<1>9. \A i \in 1 .. n + 1 : i \in 1 .. n \/ i = n + 1
  BY <1>1
<1>10. \A i \in 1 .. n : offered[i].event.timestamp \in Nat /\ offered[i].event.timestamp <= clock
  <2> SUFFICES ASSUME NEW i \in 1 .. n
               PROVE  offered[i].event.timestamp \in Nat /\ offered[i].event.timestamp <= clock
    OBVIOUS
  <2>1. offered[i] \in Offer
    BY <1>1
  <2> QED BY <1>1, <2>1 DEF Offer, HistoryEvent, OffersGoUp
<1>11. OffersGoUp(offered1, time)
  <2>1. \A i \in 1 .. n + 1 : offered1[i].event.timestamp <= time
    BY <1>1, <1>3, <1>4, <1>7, <1>8, <1>9, <1>10
  <2>2. ASSUME NEW i \in 1 .. n + 1, NEW j \in 1 .. n + 1, i <= j
        PROVE  offered1[i].event.timestamp <= offered1[j].event.timestamp
    <3>1. CASE j = n + 1
      BY <1>4, <1>7, <1>8, <2>1, <3>1
    <3>2. CASE j \in 1 .. n
      <4>1. i \in 1 .. n
        BY <1>1, <2>2, <3>2
      <4> QED BY <1>1, <1>8, <2>2, <3>2, <4>1 DEF OffersGoUp
    <3> QED BY <1>9, <3>1, <3>2
  <2> QED BY <1>8, <2>1, <2>2 DEF OffersGoUp
<1>12. K \subseteq 1 .. n
  BY <1>1 DEF KeptSince
<1>13. \A i \in 1 .. n : i \in K1 <=> i \in K
  BY <1>1, <1>8 DEF KeptSince
<1>14. n + 1 \in K1 <=> k
  <2>1. offered1[n + 1].event.timestamp = time /\ (offered1[n + 1].kept <=> k)
    BY <1>4, <1>7, <1>8
  <2>2. time >= time - Day /\ n + 1 \in DOMAIN offered1
    BY <1>1, <1>3, <1>8, RollingConstants
  <2> QED BY <2>1, <2>2 DEF KeptSince
<1>15. K1 \subseteq 1 .. n + 1
  BY <1>8 DEF KeptSince
<1> HIDE DEF K1
<1>16. ASSUME NEW I, I \subseteq 1 .. n, HoldsOf(y, offered, I)
       PROVE  HoldsOf(y, offered1, I)
  <2>1. PICK p : Lists(p, Len(y), I) /\ \A j \in 1 .. Len(y) : y[j] = offered[p[j]].event
    BY <1>16, Zenon DEF HoldsOf
  <2>2. \A j \in 1 .. Len(y) : p[j] \in 1 .. n
    BY <1>16, <2>1 DEF Lists
  <2>3. \A j \in 1 .. Len(y) : y[j] = offered1[p[j]].event
    BY <1>8, <2>1, <2>2
  <2> QED BY <2>1, <2>3 DEF HoldsOf
<1>17. CASE Len(y) < MaxHistory
  <2> DEFINE m == Len(y)
  <2>1. /\ h1 \in Seq(HistoryEvent) /\ Len(h1) = m + 1 /\ h1[m + 1] = e
        /\ \A i \in 1 .. m : h1[i] = y[i]
    BY <1>4, <1>5, <1>6, <1>17, AppendProperties
  <2>2. k
    BY <1>5, <2>1
  <2>3. K1 = K \cup {n + 1}
    BY <1>9, <1>12, <1>13, <1>14, <1>15, <2>2
  <2>4. HoldsOf(h1, offered1, K1)
    <3>1. PICK p : Lists(p, m, K) /\ \A j \in 1 .. m : y[j] = offered[p[j]].event
      BY <1>5, Zenon DEF HoldsOf
    <3>2. m \in Nat /\ K \subseteq Nat /\ n + 1 \in Nat /\ \A x \in K : x < n + 1
      BY <1>1, <1>5, <1>12
    <3> HIDE DEF m, K
    <3> DEFINE l == n + 1
               q == [j \in 1 .. m + 1 |-> IF j = m + 1 THEN l ELSE p[j]]
    <3>3. l \in Nat /\ \A x \in K : x < l
      BY <3>2
    <3> HIDE DEF l
    <3>4. Lists(q, m + 1, K \cup {l})
      BY <3>1, <3>2, <3>3, ListsMore
    <3>5. ASSUME NEW j \in 1 .. m + 1 PROVE h1[j] = offered1[q[j]].event
      <4>1. CASE j = m + 1
        <5>1. q[j] = n + 1
          BY <4>1 DEF l
        <5> QED BY <1>7, <1>8, <2>1, <4>1, <5>1
      <4>2. CASE j \in 1 .. m
        <5>1. q[j] = p[j]
          BY <3>2, <4>2
        <5>2. p[j] \in 1 .. n
          BY <1>12, <3>1, <4>2 DEF Lists
        <5> QED BY <1>8, <2>1, <3>1, <4>2, <5>1, <5>2
      <4>3. j \in 1 .. m \/ j = m + 1
        BY <3>2
      <4> QED BY <4>1, <4>2, <4>3
    <3> HIDE DEF q
    <3>6. Lists(q, Len(h1), K1) /\ \A j \in 1 .. Len(h1) : h1[j] = offered1[q[j]].event
      BY <2>1, <2>3, <3>4, <3>5 DEF l
    <3> QED BY <3>6 DEF HoldsOf
  <2>5. RefusedWhenFull(offered1)
    <3> SUFFICES ASSUME NEW i \in 1 .. n + 1, ~ offered1[i].kept
                 PROVE  Cardinality(KeptBefore(offered1, i)) = MaxHistory
      BY <1>8 DEF RefusedWhenFull
    <3>1. i \in 1 .. n
      BY <1>7, <1>8, <1>9, <2>2
    <3>2. KeptBefore(offered1, i) = KeptBefore(offered, i)
      BY <1>1, <1>8, <3>1 DEF KeptBefore
    <3> QED BY <1>1, <1>8, <3>1, <3>2 DEF RefusedWhenFull
  <2>6. Len(h1) <= MaxHistory
    BY <1>5, <1>17, <2>1, RollingConstants
  <2>7. RollingParts(h1, time, offered1)
    <3>1. HoldsOf(h1, offered1, KeptSince(offered1, time))
      BY <2>4 DEF K1
    <3>2. h1 \in Seq(HistoryEvent)
      BY <2>1
    <3> QED BY <1>3, <1>8, <1>11, <2>5, <2>6, <3>1, <3>2, Zenon DEF RollingParts
  <2> QED BY <1>2, <2>7, Zenon DEF RollingSound
<1>18. CASE ~ Len(y) < MaxHistory
  <2>1. h1 = y
    BY <1>6, <1>18
  <2>2. ~ k
    BY <1>5, <2>1
  <2>3. K1 = K
    BY <1>9, <1>12, <1>13, <1>14, <1>15, <2>2
  <2>4. HoldsOf(h1, offered1, K1)
    BY <1>5, <1>12, <1>16, <2>1, <2>3
  <2>5. Len(y) = MaxHistory
    BY <1>1, <1>5, <1>18, RollingConstants
  <2>6. RefusedWhenFull(offered1)
    <3> SUFFICES ASSUME NEW i \in 1 .. n + 1, ~ offered1[i].kept
                 PROVE  Cardinality(KeptBefore(offered1, i)) = MaxHistory
      BY <1>8 DEF RefusedWhenFull
    <3>1. CASE i \in 1 .. n
      <4>1. KeptBefore(offered1, i) = KeptBefore(offered, i)
        BY <1>1, <1>8, <3>1 DEF KeptBefore
      <4> QED BY <1>1, <1>8, <3>1, <4>1 DEF RefusedWhenFull
    <3>2. CASE i = n + 1
      <4>1. i - 1 = n /\ offered1[i].event.timestamp = time
        BY <1>1, <1>4, <1>7, <1>8, <3>2
      <4>2. KeptBefore(offered1, i) = K
        BY <1>1, <1>8, <4>1 DEF KeptBefore, KeptSince
      <4>3. PICK p : Lists(p, Len(y), K)
        BY <1>5, Zenon DEF HoldsOf
      <4>4. K \subseteq Nat
        BY <1>12
      <4> HIDE DEF K
      <4>5. Cardinality(K) = Len(y)
        BY <1>5, <4>3, <4>4, ListsCard
      <4> QED BY <2>5, <4>2, <4>5
    <3> QED BY <1>9, <3>1, <3>2
  <2>7. Len(h1) <= MaxHistory
    BY <2>1, <2>5, RollingConstants
  <2>8. RollingParts(h1, time, offered1)
    <3>1. HoldsOf(h1, offered1, KeptSince(offered1, time))
      BY <2>4 DEF K1
    <3>2. h1 \in Seq(HistoryEvent)
      BY <1>5, <2>1
    <3> QED BY <1>3, <1>8, <1>11, <2>6, <2>7, <3>1, <3>2, Zenon DEF RollingParts
  <2> QED BY <1>2, <2>8, Zenon DEF RollingSound
<1> QED BY <1>17, <1>18

(* Finite sets of places: their number, and that of the places of a span. *)
LEMMA PlacesCount ==
  ASSUME NEW n \in Nat, NEW R, R \subseteq 1 .. n
  PROVE  IsFiniteSet(R) /\ Cardinality(R) \in Nat /\ Cardinality(R) <= n
<1>1. IsFiniteSet(1 .. n) /\ Cardinality(1 .. n) = n
  <2>1. 1 \in Int /\ n \in Int
    OBVIOUS
  <2>2. IsFiniteSet(1 .. n) /\ Cardinality(1 .. n) = IF 1 > n THEN 0 ELSE n - 1 + 1
    BY <2>1, FS_Interval
  <2> QED BY <2>2
<1>2. R \in SUBSET (1 .. n)
  OBVIOUS
<1>3. IsFiniteSet(R) /\ Cardinality(R) <= Cardinality(1 .. n)
  BY <1>1, <1>2, FS_Subset
<1> QED BY <1>1, <1>3, FS_CardinalityType

(* The number of places of a span. *)
LEMMA SpanCount ==
  ASSUME NEW l \in Nat, NEW q \in Nat, l <= q
  PROVE  IsFiniteSet(l .. q) /\ Cardinality(l .. q) = q - l + 1
<1>1. l \in Int /\ q \in Int
  OBVIOUS
<1>2. IsFiniteSet(l .. q) /\ Cardinality(l .. q) = IF l > q THEN 0 ELSE q - l + 1
  BY <1>1, FS_Interval
<1> QED BY <1>2

-----------------------------------------------------------------------------
(* The peak over every window, from the two ends that move. *)

GoesUp(h) == \A i, j \in DOMAIN h : i <= j => h[i].timestamp <= h[j].timestamp

(* The first place whose event is within the window of the event at r. *)
FirstWithin(h, w, r) ==
  IF r = 0 THEN 1
  ELSE CHOOSE l \in 1 .. r : /\ h[r].timestamp - h[l].timestamp <= w
                             /\ \A m \in 1 .. l - 1 : h[r].timestamp - h[m].timestamp > w

(* The window that ends here starts no earlier and no later. *)
LEMMA FirstWithinIs ==
  ASSUME NEW h \in Seq(HistoryEvent), NEW w \in Nat, NEW r \in 1 .. Len(h)
  PROVE  /\ FirstWithin(h, w, r) \in 1 .. r
         /\ h[r].timestamp - h[FirstWithin(h, w, r)].timestamp <= w
         /\ \A m \in 1 .. FirstWithin(h, w, r) - 1 : h[r].timestamp - h[m].timestamp > w
<1> DEFINE T == {l \in 1 .. r : h[r].timestamp - h[l].timestamp <= w}
<1>1. \A i \in 1 .. Len(h) : h[i].timestamp \in Nat
  <2> SUFFICES ASSUME NEW i \in 1 .. Len(h) PROVE h[i].timestamp \in Nat
    OBVIOUS
  <2>1. h[i] \in HistoryEvent
    BY LenProperties, ElementOfSeq
  <2> QED BY <2>1 DEF HistoryEvent
<1>2. r \in Nat /\ r >= 1 /\ r \in 1 .. Len(h) /\ Len(h) \in Nat
  BY LenProperties
<1>3. T \subseteq Nat /\ r \in T
  BY <1>1, <1>2
<1>4. PICK l \in T : \A y \in T : l <= y
  <2> HIDE DEF T
  <2> QED BY <1>3, LeastNat
<1>5. l \in 1 .. r /\ h[r].timestamp - h[l].timestamp <= w
  BY <1>4
<1>6. \A m \in 1 .. l - 1 : h[r].timestamp - h[m].timestamp > w
  <2> SUFFICES ASSUME NEW m \in 1 .. l - 1, ~ h[r].timestamp - h[m].timestamp > w PROVE FALSE
    OBVIOUS
  <2>1. m \in 1 .. r /\ m \in 1 .. Len(h) /\ m < l
    BY <1>2, <1>5
  <2>2. h[r].timestamp - h[m].timestamp \in Int
    BY <1>1, <1>2, <2>1
  <2>3. h[r].timestamp - h[m].timestamp <= w
    BY <2>2
  <2>4. m \in T
    BY <2>1, <2>3
  <2> QED BY <1>4, <1>5, <2>1, <2>4
<1>7. \E k \in 1 .. r : /\ h[r].timestamp - h[k].timestamp <= w
                        /\ \A m \in 1 .. k - 1 : h[r].timestamp - h[m].timestamp > w
  BY <1>5, <1>6
<1>8. FirstWithin(h, w, r) =
        CHOOSE k \in 1 .. r : /\ h[r].timestamp - h[k].timestamp <= w
                              /\ \A m \in 1 .. k - 1 : h[r].timestamp - h[m].timestamp > w
  BY <1>2 DEF FirstWithin
<1> QED BY <1>7, <1>8, Zenon

(* The left end of the loop is the first place of the window. *)
LEMMA LeftEndIs ==
  ASSUME NEW h \in Seq(HistoryEvent), NEW w \in Nat, NEW r \in 1 .. Len(h), GoesUp(h),
         NEW b, b = FirstWithin(h, w, r - 1)
  PROVE  FirstWithin(h, w, r) =
           CHOOSE l \in b .. r : /\ l = r \/ h[r].timestamp - h[l].timestamp <= w
                                 /\ \A m \in b .. l - 1 : h[r].timestamp - h[m].timestamp > w
<1> DEFINE l0 == FirstWithin(h, w, r)
           Fits(l) == /\ l = r \/ h[r].timestamp - h[l].timestamp <= w
                      /\ \A m \in b .. l - 1 : h[r].timestamp - h[m].timestamp > w
<1>1. \A i \in 1 .. Len(h) : h[i].timestamp \in Nat
  <2> SUFFICES ASSUME NEW i \in 1 .. Len(h) PROVE h[i].timestamp \in Nat
    OBVIOUS
  <2>1. h[i] \in HistoryEvent
    BY LenProperties, ElementOfSeq
  <2> QED BY <2>1 DEF HistoryEvent
<1>2. r \in Nat /\ r >= 1 /\ r \in 1 .. Len(h) /\ Len(h) \in Nat /\ DOMAIN h = 1 .. Len(h)
  BY LenProperties
<1>3. /\ l0 \in 1 .. r /\ h[r].timestamp - h[l0].timestamp <= w
      /\ \A m \in 1 .. l0 - 1 : h[r].timestamp - h[m].timestamp > w
  BY FirstWithinIs
<1> HIDE DEF l0
<1>4. b \in 1 .. r /\ \A m \in 1 .. b - 1 : h[r].timestamp - h[m].timestamp > w
  <2>1. CASE r = 1
    <3>1. b = 1
      BY <2>1 DEF FirstWithin
    <3> QED BY <1>2, <3>1
  <2>2. CASE r # 1
    <3> DEFINE s == r - 1
    <3>1. s \in 1 .. Len(h) /\ s < r /\ b = FirstWithin(h, w, s)
      BY <1>2, <2>2
    <3> HIDE DEF s
    <3>2. b \in 1 .. s /\ \A m \in 1 .. b - 1 : h[s].timestamp - h[m].timestamp > w
      BY <3>1, FirstWithinIs
    <3>3. h[s].timestamp <= h[r].timestamp
      BY <1>2, <3>1 DEF GoesUp
    <3>4. ASSUME NEW m \in 1 .. b - 1 PROVE h[r].timestamp - h[m].timestamp > w
      <4>1. m \in 1 .. Len(h)
        BY <1>2, <3>1, <3>2
      <4> QED BY <1>1, <1>2, <3>1, <3>2, <3>3, <4>1
    <3> QED BY <1>2, <3>1, <3>2, <3>4
  <2> QED BY <2>1, <2>2
<1>5. l0 >= b
  BY <1>1, <1>2, <1>3, <1>4
<1>6. l0 \in b .. r /\ Fits(l0)
  BY <1>2, <1>3, <1>4, <1>5
<1>7. ASSUME NEW l \in b .. r, Fits(l) PROVE l = l0
  <2>1. l \in 1 .. r
    BY <1>2, <1>4
  <2>2. CASE l < l0
    <3>1. l \in 1 .. l0 - 1 /\ l # r
      BY <1>2, <1>3, <2>1, <2>2
    <3>2. h[r].timestamp - h[l].timestamp \in Int
      BY <1>1, <1>2, <2>1
    <3> QED BY <1>3, <1>7, <3>1, <3>2
  <2>3. CASE l0 < l
    <3>1. l0 \in b .. l - 1
      BY <1>2, <1>3, <1>4, <1>5, <2>1, <2>3
    <3>2. h[r].timestamp - h[l0].timestamp \in Int
      BY <1>1, <1>2, <1>3
    <3> QED BY <1>3, <1>7, <3>1, <3>2
  <2> QED BY <1>3, <2>1, <2>2, <2>3
<1> HIDE DEF Fits
<1>8. l0 = CHOOSE l \in b .. r : Fits(l)
  BY <1>6, <1>7
<1> QED BY <1>8 DEF Fits, l0

(* The places within the window that ends at r. *)
Span(h, w, r) == r - FirstWithin(h, w, r) + 1

(* The peak is the greatest span there is. *)
LEMMA PeakIs ==
  ASSUME NEW h \in Seq(HistoryEvent), NEW w \in Nat, GoesUp(h)
  PROVE  /\ calc_peak_rate(h, w) \in Nat
         /\ \A r \in 1 .. Len(h) : Span(h, w, r) <= calc_peak_rate(h, w)
         /\ Len(h) > 0 => \E r \in 1 .. Len(h) : Span(h, w, r) = calc_peak_rate(h, w)
<1> DEFINE n == Len(h)
           Left(b, r) == CHOOSE l \in b .. r :
                           /\ l = r \/ h[r].timestamp - h[l].timestamp <= w
                           /\ \A m \in b .. l - 1 : h[r].timestamp - h[m].timestamp > w
           End(c, r) == [left |-> Left(c.left, r),
                         peak |-> IF r - Left(c.left, r) + 1 > c.peak
                                  THEN r - Left(c.left, r) + 1 ELSE c.peak]
           at == CHOOSE f : f = [r \in 0 .. n |->
                   IF r = 0 THEN [left |-> 1, peak |-> 0] ELSE End(f[r - 1], r)]
<1>1. calc_peak_rate(h, w) = at[n].peak
  BY Zenon DEF calc_peak_rate
<1> DEFINE More(k, p) == IF Span(h, w, k) > p THEN Span(h, w, k) ELSE p
<1>2. n \in Nat
  BY LenProperties
<1> HIDE DEF n
<1>3. \A k \in 1 .. n : Span(h, w, k) \in Nat
  <2> SUFFICES ASSUME NEW k \in 1 .. n PROVE Span(h, w, k) \in Nat
    OBVIOUS
  <2>1. FirstWithin(h, w, k) \in 1 .. k
    BY FirstWithinIs DEF n
  <2> QED BY <1>2, <2>1 DEF Span
<1>4. PICK p \in [0 .. n -> Nat] : p[0] = 0 /\ \A k \in 1 .. n : p[k] = More(k, p[k - 1])
  <2> DEFINE F == [k \in 1 .. n |-> [c \in Nat |-> More(k, c)]]
  <2>1. F \in [1 .. n -> [Nat -> Nat]]
    <3>1. \A k \in 1 .. n, c \in Nat : More(k, c) \in Nat
      BY <1>3
    <3> HIDE DEF More
    <3> QED BY <3>1
  <2> HIDE DEF F, More
  <2>2. 0 \in Nat
    OBVIOUS
  <2>3. PICK g \in Courses(n, Nat, 0, F) : TRUE
    BY <1>2, <2>1, <2>2, Iteration
  <2>4. \A k \in 1 .. n : g[k] = More(k, g[k - 1])
    <3> TAKE k \in 1 .. n
    <3>1. k - 1 \in 0 .. n
      BY <1>2
    <3>2. g[k] = F[k][g[k - 1]] /\ g[k - 1] \in Nat
      BY <2>3, <3>1 DEF Courses
    <3> QED BY <3>2 DEF F
  <2>5. g \in [0 .. n -> Nat] /\ g[0] = 0
    BY <2>3 DEF Courses
  <2> QED BY <2>4, <2>5
<1> DEFINE g == [r \in 0 .. n |-> [left |-> FirstWithin(h, w, r), peak |-> p[r]]]
<1>5. ASSUME NEW r \in 1 .. n PROVE g[r] = End(g[r - 1], r)
  <2> DEFINE b == FirstWithin(h, w, r - 1)
             c == g[r - 1]
  <2>1. r - 1 \in 0 .. n
    BY <1>2
  <2>2. c.left = b /\ c.peak = p[r - 1]
    BY <2>1
  <2> HIDE DEF c, b
  <2>3. FirstWithin(h, w, r) = Left(b, r)
    BY LeftEndIs DEF b, n
  <2>4. p[r] = IF r - Left(b, r) + 1 > p[r - 1] THEN r - Left(b, r) + 1 ELSE p[r - 1]
    <3> HIDE DEF Left
    <3> QED BY <1>4, <2>3 DEF Span
  <2>5. g[r] = [left |-> FirstWithin(h, w, r), peak |-> p[r]]
    BY <1>2
  <2> HIDE DEF Left, g
  <2>6. g[r] = End(c, r)
    BY <2>2, <2>3, <2>4, <2>5
  <2> QED BY <2>6 DEF c
<1>6. g[0] = [left |-> 1, peak |-> 0]
  <2>1. 0 \in 0 .. n /\ FirstWithin(h, w, 0) = 1
    BY <1>2 DEF FirstWithin
  <2> QED BY <1>4, <2>1
<1>7. at = [r \in 0 .. n |-> IF r = 0 THEN [left |-> 1, peak |-> 0] ELSE End(at[r - 1], r)]
  <2>1. g = [r \in 0 .. n |-> g[r]]
    OBVIOUS
  <2> HIDE DEF g, End
  <2>2. \A r \in 0 .. n : g[r] = IF r = 0 THEN [left |-> 1, peak |-> 0] ELSE End(g[r - 1], r)
    <3> SUFFICES ASSUME NEW r \in 0 .. n
                 PROVE  g[r] = IF r = 0 THEN [left |-> 1, peak |-> 0] ELSE End(g[r - 1], r)
      OBVIOUS
    <3>1. CASE r = 0
      BY <1>6, <3>1
    <3>2. CASE r # 0
      <4>1. r \in 1 .. n
        BY <1>2, <3>2
      <4> QED BY <1>5, <3>2, <4>1
    <3> QED BY <3>1, <3>2
  <2>3. g = [r \in 0 .. n |-> IF r = 0 THEN [left |-> 1, peak |-> 0] ELSE End(g[r - 1], r)]
    BY <2>1, <2>2, Zenon
  <2> QED BY <2>3, Zenon
<1> HIDE DEF at, End
<1>8. at[n] = g[n]
  <2> DEFINE T == {k \in 0 .. n : at[k] = g[k]}
  <2> HIDE DEF g
  <2>1. 0 \in T
    BY <1>2, <1>6, <1>7
  <2>2. ASSUME NEW k \in 0 .. n - 1, k \in T PROVE k + 1 \in T
    <3> DEFINE r == k + 1
    <3>1. r \in 1 .. n /\ r \in 0 .. n /\ r # 0 /\ r - 1 = k
      BY <1>2
    <3> HIDE DEF r
    <3>2. at[r] = End(at[r - 1], r) /\ g[r] = End(g[r - 1], r)
      BY <1>5, <1>7, <3>1
    <3>3. at[r - 1] = g[r - 1]
      BY <2>2, <3>1
    <3>4. r \in T
      BY <3>1, <3>2, <3>3
    <3> QED BY <3>4 DEF r
  <2> HIDE DEF T
  <2>3. 0 .. n \subseteq T
    BY <1>2, <2>1, <2>2, SetInduction
  <2> QED BY <1>2, <2>3 DEF T
<1>9. calc_peak_rate(h, w) = p[n]
  <2>1. g[n].peak = p[n]
    BY <1>2
  <2> HIDE DEF g
  <2> QED BY <1>1, <1>8, <2>1
<1> HIDE DEF g
<1> DEFINE Is(k) == /\ \A r \in 1 .. k : Span(h, w, r) <= p[k]
                    /\ k > 0 => \E r \in 1 .. k : Span(h, w, r) = p[k]
           T == {k \in 0 .. n : Is(k)}
<1>10. 0 \in T
  BY <1>2
<1>11. ASSUME NEW k \in 0 .. n - 1, Is(k) PROVE Is(k + 1)
  <2> DEFINE m == k + 1
             s == Span(h, w, m)
  <2>1. m \in 1 .. n /\ m - 1 = k /\ k \in Nat /\ p[k] \in Nat /\ s \in Nat
    BY <1>2, <1>3, <1>4
  <2>2. p[m] = IF s > p[k] THEN s ELSE p[k]
    BY <1>4, <2>1
  <2>3. \A r \in 1 .. k : Span(h, w, r) \in Nat
    BY <1>2, <1>3
  <2>4. \A r \in 1 .. m : r \in 1 .. k \/ r = m
    BY <2>1
  <2>5. \A r \in 1 .. m : Span(h, w, r) <= p[m]
    BY <1>11, <2>1, <2>2, <2>3, <2>4
  <2>6. \E r \in 1 .. m : Span(h, w, r) = p[m]
    <3>1. CASE s > p[k]
      BY <2>1, <2>2, <3>1
    <3>2. CASE ~ s > p[k]
      <4>1. p[m] = p[k]
        BY <2>2, <3>2
      <4>2. k > 0
        <5>1. s > 0
          <6>1. FirstWithin(h, w, m) \in 1 .. m
            BY <2>1, FirstWithinIs DEF n
          <6> QED BY <2>1, <6>1 DEF Span
        <5>2. k = 0 => FALSE
          BY <1>4, <2>1, <3>2, <5>1
        <5> QED BY <2>1, <5>2
      <4>3. PICK r \in 1 .. k : Span(h, w, r) = p[k]
        BY <1>11, <4>2
      <4>4. r \in 1 .. m
        BY <2>1
      <4> QED BY <4>1, <4>3, <4>4
    <3> QED BY <3>1, <3>2
  <2> QED BY <2>5, <2>6
<1>12. \A k \in 0 .. n - 1 : k \in T => k + 1 \in T
  <2>1. \A k \in 0 .. n - 1 : k + 1 \in 0 .. n
    BY <1>2
  <2> HIDE DEF Is
  <2> QED BY <1>11, <2>1
<1> HIDE DEF T
<1>13. 0 .. n \subseteq T
  BY <1>2, <1>10, <1>12, SetInduction
<1>14. Is(n)
  BY <1>2, <1>13 DEF T
<1>15. p[n] \in Nat
  BY <1>2, <1>4
<1> QED BY <1>9, <1>14, <1>15 DEF n

(* The places of the events within the window that starts with that at i. *)
BurstOf(h, i) ==
  {j \in DOMAIN h : h[j].timestamp - h[i].timestamp \in 0 .. ChatterWindow}

(* The peak is the greatest burst, counted by its events. *)
LEMMA BurstsPeak ==
  ASSUME NEW h \in Seq(HistoryEvent), GoesUp(h)
  PROVE  /\ \A i \in DOMAIN h : Cardinality(BurstOf(h, i)) <= calc_peak_rate(h, ChatterWindow)
         /\ h # << >> =>
              \E i \in DOMAIN h : Cardinality(BurstOf(h, i)) = calc_peak_rate(h, ChatterWindow)
<1> DEFINE n == Len(h)
           w == ChatterWindow
           peak == calc_peak_rate(h, w)
<1>1. n \in Nat /\ DOMAIN h = 1 .. n /\ w \in Nat
  BY LenProperties, RollingConstants
<1>2. \A i \in 1 .. n : h[i].timestamp \in Nat
  <2> SUFFICES ASSUME NEW i \in 1 .. n PROVE h[i].timestamp \in Nat
    OBVIOUS
  <2>1. h[i] \in HistoryEvent
    BY <1>1, ElementOfSeq
  <2> QED BY <2>1 DEF HistoryEvent
<1>3. /\ peak \in Nat /\ \A r \in 1 .. n : Span(h, w, r) <= peak
      /\ n > 0 => \E r \in 1 .. n : Span(h, w, r) = peak
  BY <1>1, PeakIs
<1> HIDE DEF peak
<1>4. \A i, j \in 1 .. n : i <= j => h[i].timestamp <= h[j].timestamp
  BY <1>1 DEF GoesUp
<1>5. ASSUME NEW i \in 1 .. n PROVE Cardinality(BurstOf(h, i)) <= peak
  <2> DEFINE J == BurstOf(h, i)
  <2>1. J \subseteq 0 .. n /\ J \subseteq 1 .. n /\ i \in J
    BY <1>1, <1>2 DEF BurstOf
  <2>2. \A j \in J : /\ h[j].timestamp >= h[i].timestamp
                     /\ h[j].timestamp <= h[i].timestamp + w
    BY <1>1, <1>2 DEF BurstOf
  <2> HIDE DEF J
  <2>3. PICK q : q \in J /\ \A j \in J : j <= q
    <3>1. Max(J) \in J /\ \A j \in J : j <= Max(J)
      BY <1>1, <2>1, MaxOfSome
    <3> QED BY <3>1
  <2> DEFINE l == FirstWithin(h, w, q)
  <2>4. q \in 1 .. n
    BY <2>1, <2>3
  <2>5. l \in 1 .. q /\ \A m \in 1 .. l - 1 : h[q].timestamp - h[m].timestamp > w
    BY <1>1, <2>4, FirstWithinIs
  <2> HIDE DEF l
  <2>6. J \subseteq l .. q
    <3> SUFFICES ASSUME NEW j \in J PROVE j \in l .. q
      OBVIOUS
    <3>1. j \in 1 .. n /\ j <= q
      BY <2>1, <2>3
    <3>2. h[q].timestamp - h[j].timestamp <= w
      BY <1>1, <1>2, <2>2, <2>3, <2>4, <3>1
    <3>3. ~ j \in 1 .. l - 1
      <4>1. h[q].timestamp - h[j].timestamp \in Int
        BY <1>2, <2>4, <3>1
      <4> QED BY <1>1, <2>5, <3>2, <4>1
    <3> QED BY <2>4, <2>5, <3>1, <3>3
  <2>7. IsFiniteSet(l .. q) /\ Cardinality(l .. q) = q - l + 1
    <3>1. l \in Nat /\ q \in Nat /\ l <= q
      BY <2>4, <2>5
    <3> QED BY <3>1, SpanCount
  <2>8. Cardinality(J) <= Cardinality(l .. q)
    <3>1. J \in SUBSET (l .. q)
      BY <2>6
    <3> QED BY <2>7, <3>1, FS_Subset
  <2>9. IsFiniteSet(J) /\ Cardinality(J) \in Nat
    BY <1>1, <2>1, PlacesCount
  <2>10. Span(h, w, q) = q - l + 1 /\ Span(h, w, q) <= peak
    BY <1>3, <2>4 DEF Span, l
  <2>11. Cardinality(J) <= peak
    BY <1>3, <2>4, <2>5, <2>7, <2>8, <2>9, <2>10
  <2> QED BY <2>11 DEF J
<1>6. ASSUME h # << >> PROVE \E i \in 1 .. n : Cardinality(BurstOf(h, i)) = peak
  <2>1. n > 0
    BY <1>1, <1>6, LenProperties
  <2>2. PICK q \in 1 .. n : Span(h, w, q) = peak
    BY <1>3, <2>1
  <2> DEFINE l == FirstWithin(h, w, q)
             J == BurstOf(h, l)
  <2>3. l \in 1 .. q /\ h[q].timestamp - h[l].timestamp <= w
    BY <1>1, FirstWithinIs
  <2>4. peak = q - l + 1
    BY <2>2 DEF Span
  <2> HIDE DEF l
  <2>5. l \in 1 .. n /\ l \in Nat /\ q \in Nat /\ l <= q
    BY <1>1, <2>3
  <2>6. l .. q \subseteq J
    <3> SUFFICES ASSUME NEW j \in l .. q PROVE j \in J
      OBVIOUS
    <3>1. j \in 1 .. n /\ l <= j /\ j <= q
      BY <1>1, <2>5
    <3>2. h[l].timestamp <= h[j].timestamp /\ h[j].timestamp <= h[q].timestamp
      BY <1>4, <2>5, <3>1
    <3>3. h[j].timestamp - h[l].timestamp \in 0 .. w
      BY <1>1, <1>2, <2>3, <2>5, <3>1, <3>2
    <3> QED BY <1>1, <3>1, <3>3 DEF BurstOf
  <2>7. J \subseteq 1 .. n
    BY <1>1 DEF BurstOf
  <2> HIDE DEF J
  <2>8. IsFiniteSet(J) /\ Cardinality(J) \in Nat
    BY <1>1, <2>7, PlacesCount
  <2>9. Cardinality(l .. q) = q - l + 1
    BY <2>5, SpanCount
  <2>10. Cardinality(l .. q) <= Cardinality(J)
    <3>1. l .. q \in SUBSET J
      BY <2>6
    <3> QED BY <2>8, <3>1, FS_Subset
  <2>11. Cardinality(J) <= peak
    BY <1>5, <2>5 DEF J
  <2>12. Cardinality(J) = peak
    BY <1>3, <2>4, <2>8, <2>9, <2>10, <2>11
  <2> QED BY <2>5, <2>12 DEF J
<1>7. \A i \in DOMAIN h : Cardinality(BurstOf(h, i)) <= peak
  BY <1>1, <1>5
<1>8. h # << >> => \E i \in DOMAIN h : Cardinality(BurstOf(h, i)) = peak
  BY <1>1, <1>6
<1> QED BY <1>7, <1>8 DEF peak, w

-----------------------------------------------------------------------------
(* The most frequent alarm. *)

IdsOf(h) == {h[i].alarm_id : i \in DOMAIN h}

PlacesOf(h, a) == {i \in DOMAIN h : h[i].alarm_id = a}

FirstOf(h, a) == CHOOSE i \in PlacesOf(h, a) : \A j \in PlacesOf(h, a) : i <= j

IsBefore(h, a, b) ==
  \/ Cardinality(PlacesOf(h, a)) > Cardinality(PlacesOf(h, b))
  \/ /\ Cardinality(PlacesOf(h, a)) = Cardinality(PlacesOf(h, b))
     /\ FirstOf(h, a) < FirstOf(h, b)

(* The alarms of a history are finite in number. *)
LEMMA IdsAreFinite ==
  ASSUME NEW h \in Seq(HistoryEvent)
  PROVE  IsFiniteSet(IdsOf(h))
<1> DEFINE n == Len(h)
           f == [i \in 1 .. n |-> h[i].alarm_id]
<1>1. n \in Nat /\ DOMAIN h = 1 .. n
  BY LenProperties
<1>2. IsFiniteSet(1 .. n)
  BY <1>1, PlacesCount
<1>3. f = [i \in 1 .. n |-> f[i]]
  OBVIOUS
<1>4. IdsOf(h) = {f[i] : i \in 1 .. n}
  BY <1>1 DEF IdsOf
<1> HIDE DEF f
<1>5. IsFiniteSet({f[i] : i \in 1 .. n})
  BY <1>2, <1>3, FiniteImage
<1> QED BY <1>4, <1>5

(* The entries are at most as many as the alarms times the most frequent. *)
LEMMA EntriesShared ==
  ASSUME NEW h \in Seq(HistoryEvent), NEW c \in Nat,
         \A a \in IdsOf(h) : Cardinality(PlacesOf(h, a)) <= c
  PROVE  Len(h) <= c * Cardinality(IdsOf(h))
<1> DEFINE n == Len(h)
           ids == IdsOf(h)
           In(s) == {i \in DOMAIN h : h[i].alarm_id \in s}
           T == {s \in SUBSET ids : Cardinality(In(s)) <= c * Cardinality(s)}
<1>1. n \in Nat /\ DOMAIN h = 1 .. n
  BY LenProperties
<1>2. IsFiniteSet(ids)
  BY IdsAreFinite
<1>3. \A s : In(s) \subseteq 1 .. n
  BY <1>1
<1>4. \A a : PlacesOf(h, a) \subseteq 1 .. n
  BY <1>1 DEF PlacesOf
<1> HIDE DEF ids
<1>5. {} \in T
  <2>1. In({}) = {}
    OBVIOUS
  <2> HIDE DEF In
  <2>2. Cardinality({}) = 0
    BY FS_EmptySet
  <2> DEFINE a == Cardinality(In({}))
             b == Cardinality({})
  <2>4. a = 0 /\ b = 0
    BY <2>1, <2>2, Zenon
  <2> HIDE DEF a, b
  <2>5. a <= c * b
    BY <2>4
  <2>3. Cardinality(In({})) <= c * Cardinality({})
    BY <2>5 DEF a, b
  <2> QED BY <2>3, Zenon
<1>6. ASSUME NEW s \in SUBSET ids, s # {}, \A x \in s : s \ {x} \in T PROVE s \in T
  <2>1. PICK a : a \in s
    BY <1>6
  <2> DEFINE r == s \ {a}
  <2>2. r \in T /\ a \in ids
    BY <1>6, <2>1
  <2>3. IsFiniteSet(s) /\ Cardinality(s) \in Nat /\ Cardinality(r) = Cardinality(s) - 1
    <3>1. IsFiniteSet(s)
      BY <1>2, FS_Subset
    <3> QED BY <2>1, <3>1, FS_RemoveElement, FS_CardinalityType
  <2>4. IsFiniteSet(In(r)) /\ Cardinality(In(r)) \in Nat
    <3> HIDE DEF In
    <3> QED BY <1>1, <1>3, PlacesCount
  <2>5. /\ IsFiniteSet(PlacesOf(h, a)) /\ Cardinality(PlacesOf(h, a)) \in Nat
        /\ Cardinality(PlacesOf(h, a)) <= c
    BY <1>1, <1>4, <2>2, PlacesCount DEF ids
  <2>6. In(s) = In(r) \cup PlacesOf(h, a)
    BY <2>1 DEF PlacesOf
  <2> HIDE DEF In
  <2>7. Cardinality(In(s)) <= Cardinality(In(r)) + Cardinality(PlacesOf(h, a))
    <3>1. /\ IsFiniteSet(In(r) \cup PlacesOf(h, a)) /\ IsFiniteSet(In(r) \cap PlacesOf(h, a))
          /\ Cardinality(In(r) \cup PlacesOf(h, a)) =
               Cardinality(In(r)) + Cardinality(PlacesOf(h, a))
               - Cardinality(In(r) \cap PlacesOf(h, a))
      <4>1. IsFiniteSet(In(r) \cap PlacesOf(h, a))
        <5>1. In(r) \cap PlacesOf(h, a) \in SUBSET In(r)
          OBVIOUS
        <5> QED BY <2>4, <5>1, FS_Subset
      <4> QED BY <2>4, <2>5, <4>1, FS_Union
    <3>2. Cardinality(In(r) \cap PlacesOf(h, a)) \in Nat
      BY <3>1, FS_CardinalityType
    <3> QED BY <2>4, <2>5, <2>6, <3>1, <3>2
  <2> DEFINE k == Cardinality(s)
  <2>8. Cardinality(In(r)) <= c * (k - 1)
    BY <2>2, <2>3
  <2>9. k \in Nat /\ c * (k - 1) + c = c * k
    BY <2>3
  <2>10. Cardinality(In(s)) \in Nat
    BY <1>1, <1>3, PlacesCount
  <2> HIDE DEF k
  <2>11. k - 1 \in Int /\ c * (k - 1) \in Int
    BY <2>9
  <2>12. Cardinality(In(s)) <= c * k
    BY <2>4, <2>5, <2>7, <2>8, <2>9, <2>10, <2>11
  <2> QED BY <2>12 DEF k
<1> HIDE DEF T
<1>7. SUBSET ids \subseteq T
  BY <1>2, <1>5, <1>6, SubsetInduction
<1>8. Cardinality(In(ids)) <= c * Cardinality(ids)
  <2>1. ids \in T
    BY <1>7
  <2> HIDE DEF In
  <2> QED BY <2>1 DEF T
<1>9. In(ids) = 1 .. n
  BY <1>1 DEF ids, IdsOf
<1>10. Cardinality(1 .. n) = n
  <2>1. 1 \in Int /\ n \in Int
    BY <1>1
  <2>2. Cardinality(1 .. n) = IF 1 > n THEN 0 ELSE n - 1 + 1
    BY <2>1, FS_Interval
  <2> QED BY <1>1, <2>2
<1> HIDE DEF In, n
<1> QED BY <1>8, <1>9, <1>10 DEF ids, n

(* Some alarm has no alarm before it, and it is the most frequent. *)
LEMMA MostFrequent ==
  ASSUME NEW h \in Seq(HistoryEvent), h # << >>
  PROVE  /\ \E a \in IdsOf(h) : Cardinality({b \in IdsOf(h) : IsBefore(h, b, a)}) = 0
         /\ \A a \in IdsOf(h) : Cardinality({b \in IdsOf(h) : IsBefore(h, b, a)}) = 0 =>
              /\ Cardinality(PlacesOf(h, a)) \in Nat
              /\ \A b \in IdsOf(h) : Cardinality(PlacesOf(h, b)) <= Cardinality(PlacesOf(h, a))
<1> DEFINE n == Len(h)
           ids == IdsOf(h)
           Count(a) == Cardinality(PlacesOf(h, a))
           Ahead(a) == {b \in ids : IsBefore(h, b, a)}
<1>1. n \in Nat /\ DOMAIN h = 1 .. n /\ n > 0
  BY LenProperties
<1>2. \A a : PlacesOf(h, a) \subseteq 1 .. n /\ Count(a) \in Nat /\ Count(a) <= n
  <2> SUFFICES ASSUME NEW a
               PROVE  PlacesOf(h, a) \subseteq 1 .. n /\ Count(a) \in Nat /\ Count(a) <= n
    OBVIOUS
  <2>1. PlacesOf(h, a) \subseteq 1 .. n
    BY <1>1 DEF PlacesOf
  <2> QED BY <1>1, <2>1, PlacesCount
<1>3. \A a \in ids : FirstOf(h, a) \in 1 .. n
  <2> SUFFICES ASSUME NEW a \in ids PROVE FirstOf(h, a) \in 1 .. n
    OBVIOUS
  <2> DEFINE P == PlacesOf(h, a)
  <2>1. P # {} /\ P \subseteq Nat
    <3>1. PICK i \in DOMAIN h : h[i].alarm_id = a
      BY DEF IdsOf
    <3>2. i \in P
      BY <3>1 DEF PlacesOf
    <3> QED BY <1>2, <3>2
  <2> HIDE DEF P
  <2>2. \E i \in P : \A j \in P : i <= j
    BY <2>1, LeastNat
  <2>3. FirstOf(h, a) = CHOOSE i \in P : \A j \in P : i <= j
    BY Zenon DEF FirstOf, P
  <2>4. FirstOf(h, a) \in P
    BY <2>2, <2>3, Zenon
  <2> QED BY <1>2, <2>4 DEF P
<1>4. IsFiniteSet(ids)
  BY IdsAreFinite
<1>5. \A a : IsFiniteSet(Ahead(a)) /\ (Cardinality(Ahead(a)) = 0 <=> Ahead(a) = {})
  <2> SUFFICES ASSUME NEW a
               PROVE  IsFiniteSet(Ahead(a)) /\ (Cardinality(Ahead(a)) = 0 <=> Ahead(a) = {})
    OBVIOUS
  <2> DEFINE A == Ahead(a)
  <2>1. A \in SUBSET ids
    OBVIOUS
  <2> HIDE DEF A, ids
  <2>2. IsFiniteSet(A)
    BY <1>4, <2>1, FS_Subset
  <2>3. Cardinality(A) = 0 <=> A = {}
    BY <2>2, FS_EmptySet
  <2> QED BY <2>2, <2>3 DEF A
<1>6. \E a \in ids : Ahead(a) = {}
  <2> DEFINE C == {c \in 0 .. n : \E a \in ids : c = Count(a)}
             c1 == Max(C)
  <2>1. C \subseteq 0 .. n /\ C # {}
    <3>1. h[1].alarm_id \in ids
      BY <1>1 DEF IdsOf
    <3>2. Count(h[1].alarm_id) \in C
      BY <1>1, <1>2, <3>1
    <3> QED BY <3>2
  <2> HIDE DEF C
  <2>2. c1 \in C /\ \A c \in C : c <= c1
    BY <1>1, <2>1, MaxOfSome
  <2> HIDE DEF c1
  <2>3. \A a \in ids : Count(a) <= c1
    <3>1. \A a \in ids : Count(a) \in C
      BY <1>1, <1>2 DEF C
    <3> QED BY <2>2, <3>1
  <2> DEFINE F == {f \in 1 .. n : \E a \in ids : Count(a) = c1 /\ f = FirstOf(h, a)}
  <2>4. F \subseteq Nat /\ F # {}
    <3>1. PICK a \in ids : c1 = Count(a)
      BY <2>2 DEF C
    <3>2. FirstOf(h, a) \in F
      BY <1>3, <3>1
    <3> QED BY <3>2
  <2> HIDE DEF F
  <2>5. PICK f1 \in F : \A f \in F : f1 <= f
    BY <2>4, LeastNat
  <2>6. PICK a \in ids : Count(a) = c1 /\ f1 = FirstOf(h, a)
    BY <2>5 DEF F
  <2>7. ASSUME NEW b \in ids PROVE ~ IsBefore(h, b, a)
    <3>1. ~ Count(b) > Count(a)
      BY <1>2, <2>3, <2>6
    <3>2. ~ (Count(b) = Count(a) /\ FirstOf(h, b) < FirstOf(h, a))
      <4> SUFFICES ASSUME Count(b) = Count(a) PROVE ~ FirstOf(h, b) < FirstOf(h, a)
        OBVIOUS
      <4>1. FirstOf(h, b) \in F
        BY <1>3, <2>6 DEF F
      <4>2. f1 <= FirstOf(h, b) /\ FirstOf(h, b) \in Nat /\ f1 \in Nat
        BY <2>4, <2>5, <4>1
      <4> QED BY <2>6, <4>2
    <3> QED BY <3>1, <3>2 DEF IsBefore
  <2>8. Ahead(a) = {}
    BY <2>7
  <2> QED BY <2>6, <2>8
<1>7. ASSUME NEW a \in ids, Ahead(a) = {}, NEW b \in ids PROVE Count(b) <= Count(a)
  <2>1. ~ IsBefore(h, b, a)
    BY <1>7
  <2>2. ~ Count(b) > Count(a)
    BY <2>1 DEF IsBefore
  <2> QED BY <1>2, <2>2
<1> HIDE DEF Ahead, Count
<1>8. \A a \in ids : Cardinality(Ahead(a)) = 0 => Count(a) \in Nat /\ \A b \in ids : Count(b) <= Count(a)
  BY <1>2, <1>5, <1>7
<1>9. \E a \in ids : Cardinality(Ahead(a)) = 0
  BY <1>5, <1>6
<1> QED BY <1>8, <1>9 DEF Ahead, Count

(* The most frequent alarm has at least its share of the events. *)
LEMMA TopIs ==
  ASSUME NEW h \in Seq(HistoryEvent), h # << >>
  PROVE  top_n_frequent(h, 1)[1].occurrence_count * Cardinality(IdsOf(h)) >= Len(h)
<1> DEFINE ids == IdsOf(h)
           Rank(i) == CHOOSE a \in ids : Cardinality({b \in ids : IsBefore(h, b, a)}) = i - 1
           k == Cardinality(ids)
           c == Cardinality(PlacesOf(h, Rank(1)))
<1>1. top_n_frequent(h, 1) = [i \in 1 .. (IF k < 1 THEN k ELSE 1) |->
        [alarm_id |-> Rank(i), occurrence_count |-> Cardinality(PlacesOf(h, Rank(i)))]]
  BY Zenon DEF top_n_frequent, IdsOf, PlacesOf, IsBefore, FirstOf
<1>2. IsFiniteSet(ids)
  BY IdsAreFinite
<1>3. k \in Nat /\ k # 0
  <2>1. \E a : a \in ids
    BY MostFrequent
  <2> HIDE DEF ids
  <2>2. k \in Nat
    BY <1>2, FS_CardinalityType
  <2>3. k = 0 <=> ids = {}
    BY <1>2, FS_EmptySet
  <2> QED BY <2>1, <2>2, <2>3
<1>4. Rank(1) \in ids /\ Cardinality({b \in ids : IsBefore(h, b, Rank(1))}) = 0
  <2>1. \E a \in ids : Cardinality({b \in ids : IsBefore(h, b, a)}) = 1 - 1
    <3>1. 1 - 1 = 0
      OBVIOUS
    <3> QED BY <3>1, MostFrequent
  <2>2. Rank(1) \in ids /\ Cardinality({b \in ids : IsBefore(h, b, Rank(1))}) = 1 - 1
    <3> HIDE DEF ids
    <3> QED BY <2>1, Zenon
  <2>3. 1 - 1 = 0
    OBVIOUS
  <2> HIDE DEF ids, Rank
  <2> QED BY <2>2, <2>3
<1> HIDE DEF Rank
<1>5. c \in Nat /\ \A b \in ids : Cardinality(PlacesOf(h, b)) <= c
  BY <1>4, MostFrequent
<1> HIDE DEF c
<1>6. Len(h) <= c * k
  BY <1>5, EntriesShared
<1> HIDE DEF k, ids
<1>7. top_n_frequent(h, 1)[1].occurrence_count = c
  <2>1. (IF k < 1 THEN k ELSE 1) = 1 /\ 1 \in 1 .. 1
    BY <1>3
  <2>2. top_n_frequent(h, 1)[1] =
          [alarm_id |-> Rank(1), occurrence_count |-> Cardinality(PlacesOf(h, Rank(1)))]
    BY <1>1, <2>1
  <2> QED BY <2>2 DEF c
<1>8. c * k \in Nat /\ Len(h) \in Nat
  BY <1>3, <1>5, LenProperties
<1>9. top_n_frequent(h, 1)[1].occurrence_count * k >= Len(h)
  BY <1>6, <1>7, <1>8
<1> QED BY <1>9 DEF k, ids

(* The invariant of the rolling history, as RecordsAreTrue states it. *)
LEMMA HistoryFollows ==
  ASSUME RollingSound(rolling)
  PROVE  HistoryIsTheDay
<1> DEFINE h == rolling.history
           clock == rolling.clock
           offered == rolling.offered
           I == KeptSince(offered, clock)
           kept == Gathered(offered, I)
           n == Len(h)
           m == Len(kept)
<1>1. /\ h \in Seq(HistoryEvent) /\ clock \in Nat /\ offered \in Seq(Offer)
      /\ OffersGoUp(offered, clock) /\ HoldsOf(h, offered, I) /\ RefusedWhenFull(offered)
  BY DEF RollingSound, RollingParts
<1>2. I \subseteq DOMAIN offered /\ DOMAIN offered \subseteq Nat
  BY <1>1, LenProperties DEF KeptSince
<1>3. kept = Gathered(offered, {i \in DOMAIN offered :
                /\ offered[i].kept /\ offered[i].event.timestamp >= clock - Day})
  BY Zenon DEF KeptSince
<1> HIDE DEF I, h, offered, clock
<1>4. kept \in Seq(Offer) /\ Picks(kept, offered, I)
  BY <1>1, <1>2, GatheredIs
<1> HIDE DEF kept
<1>5. n \in Nat /\ m \in Nat /\ DOMAIN h = 1 .. n /\ DOMAIN kept = 1 .. m
  BY <1>1, <1>4, LenProperties
<1>6. PICK p : Lists(p, n, I) /\ \A j \in 1 .. n : h[j] = offered[p[j]].event
  BY <1>1, Zenon DEF HoldsOf
<1>7. PICK q : Lists(q, m, I) /\ \A j \in 1 .. m : kept[j] = offered[q[j]]
  BY <1>4, Zenon DEF Picks
<1>8. n = m /\ \A i \in 1 .. n : p[i] = q[i]
  <2>1. I \subseteq Nat
    BY <1>2
  <2>2. SameLists(p, n, q, m)
    BY <1>5, <1>6, <1>7, <2>1, ListsOnce
  <2> QED BY <2>2 DEF SameLists
<1>9. h = [i \in DOMAIN kept |-> kept[i].event]
  <2>1. \A i \in 1 .. m : h[i] = kept[i].event
    BY <1>6, <1>7, <1>8
  <2>2. h = [i \in 1 .. n |-> h[i]]
    BY <1>1, <1>5, SeqDef
  <2> HIDE DEF n, m
  <2> QED BY <1>5, <1>8, <2>1, <2>2, Zenon
<1>10. GoesUp(h)
  <2> SUFFICES ASSUME NEW i \in 1 .. n, NEW j \in 1 .. n, i <= j
               PROVE  h[i].timestamp <= h[j].timestamp
    BY <1>5 DEF GoesUp
  <2>1. p[i] \in I /\ p[j] \in I /\ (i < j => p[i] < p[j])
    BY <1>6 DEF Lists
  <2>2. p[i] \in Nat /\ p[j] \in Nat /\ p[i] <= p[j]
    BY <1>2, <1>5, <2>1
  <2> QED BY <1>1, <1>2, <1>6, <2>1, <2>2 DEF OffersGoUp
<1>11. /\ \A i \in DOMAIN h : Cardinality(BurstOf(h, i)) <= calc_peak_rate(h, ChatterWindow)
       /\ h # << >> =>
            \E i \in DOMAIN h : Cardinality(BurstOf(h, i)) = calc_peak_rate(h, ChatterWindow)
  BY <1>1, <1>10, BurstsPeak
<1>12. h # << >> => top_n_frequent(h, 1)[1].occurrence_count * Cardinality(IdsOf(h)) >= Len(h)
  BY <1>1, TopIs
<1>13. \A i \in DOMAIN offered : ~ offered[i].kept =>
         Cardinality({j \in 1 .. i - 1 : /\ offered[j].kept
           /\ offered[j].event.timestamp >= offered[i].event.timestamp - Day}) = MaxHistory
  BY <1>1, Zenon DEF RefusedWhenFull, KeptBefore
<1> HIDE DEF n, m
<1> QED BY <1>3, <1>9, <1>11, <1>12, <1>13, Zenon
        DEF HistoryIsTheDay, BurstOf, IdsOf, h, offered, clock

-----------------------------------------------------------------------------
(* The audit trail. *)

EntryFields ==
  {"entry_id", "timestamp", "actor", "action", "target", "reason", "previous_entry_hash"}

AuditFields ==
  {"entries", "ring_pos", "entry_count", "next_entry_id", "clock", "logged", "changes",
   "damage"}

LoggedRequest == [actor : STRING, action : STRING, target : Nat \ {Ruined},
                  reason : STRING, step : 0 .. Latest]

(* The slot of entry k, counted from 1. *)
EntryAt(entries, k) == entries[(k - 1) % RingSize]

EntriesAre(entries) ==
  /\ entries = [i \in 0 .. RingSize - 1 |-> entries[i]]
  /\ \A i \in 0 .. RingSize - 1 : entries[i] = [x \in EntryFields |-> entries[i][x]]

(* What entry e says of request r, the k-th. *)
Tells(e, r, k, damaged) ==
  /\ e.entry_id = k /\ e.timestamp = r.step /\ e.action = r.action
  /\ e.target = IF k = damaged THEN Ruined ELSE r.target
  /\ r.actor # NoText => e.actor = r.actor
  /\ r.reason # NoText => e.reason = r.reason

KeptTell(entries, logged, damaged) ==
  \A k \in 1 .. Len(logged) : k > Len(logged) - RingSize =>
    Tells(EntryAt(entries, k), logged[k], k, damaged)

(* Before the ring wraps, an entry without an actor has an empty one. *)
FirstRound(entries, logged) ==
  Len(logged) <= RingSize =>
    /\ \A k \in 1 .. Len(logged) :
         EntryAt(entries, k).actor = Written("", logged[k].actor)
    /\ \A i \in Len(logged) .. RingSize - 1 :
         entries[i].actor = "" /\ entries[i].entry_id = 0

(* Each entry is linked to the one before, as it is or as it was. *)
IsLinked(e, before, ruined) ==
  IF ruined THEN e.previous_entry_hash[5] # Ruined
  ELSE e.previous_entry_hash = compute_entry_hash(before)

Linked(entries, n, damage) ==
  \A k \in 2 .. n : k > n - RingSize + 1 =>
    IsLinked(EntryAt(entries, k), EntryAt(entries, k - 1),
             damage.sealed /\ k - 1 = damage.id)

DamageIs(damage, n) ==
  /\ damage = [id |-> damage.id, sealed |-> damage.sealed]
  /\ damage.id \in 0 .. n /\ damage.sealed \in BOOLEAN
  /\ damage.sealed => damage.id \in 1 .. n - 1

MocPlaces(logged) == {k \in 1 .. Len(logged) : logged[k].action = "MOC_CREATE"}

MocOf(logged, k) == [moc_id |-> k, alarm_id |-> logged[k].target]

AuditParts(entries, clock, logged, changes, damage) ==
  /\ EntriesAre(entries)
  /\ logged \in Seq(LoggedRequest) /\ Len(logged) <= MaxLogged
  /\ clock \in Int
  /\ clock >= MaxLogged + 1 - Len(logged) /\ clock <= MaxLogged + 1 + Len(logged)
  /\ KeptTell(entries, logged, damage.id)
  /\ FirstRound(entries, logged)
  /\ Linked(entries, Len(logged), damage)
  /\ DamageIs(damage, Len(logged))
  /\ changes = {MocOf(logged, k) : k \in MocPlaces(logged)}

AuditInv ==
  /\ audit = [x \in AuditFields |-> audit[x]]
  /\ audit.entry_count = Len(audit.logged)
  /\ audit.next_entry_id = Len(audit.logged) + 1
  /\ audit.ring_pos = Len(audit.logged) % RingSize
  /\ AuditParts(audit.entries, audit.clock, audit.logged, audit.changes, audit.damage)

(* The sizes of the trail and the requests to it. *)
LEMMA AuditConstants ==
  /\ RingSize \in Nat /\ RingSize > 1 /\ MaxLogged \in Nat /\ QueryMax \in Nat
  /\ Requests \subseteq [actor : STRING, action : STRING, target : Nat \ {Ruined},
                         reason : STRING, step : {0 - 1, 0, 1}]
BY RecordsAssumption

(* Every number has a slot of the ring. *)
LEMMA SlotIn ==
  ASSUME NEW k \in Nat
  PROVE  k % RingSize \in 0 .. RingSize - 1
BY AuditConstants

(* The last entries have slots of their own. *)
LEMMA SlotsApart ==
  ASSUME NEW j \in Nat, NEW k \in Nat, j >= 1, j < k, j > k - RingSize
  PROVE  (j - 1) % RingSize # (k - 1) % RingSize
<1> DEFINE x == j - 1
           y == k - 1
<1>1. x \in Nat /\ y \in Nat /\ x < y /\ y < x + RingSize
  BY AuditConstants
<1> HIDE DEF x, y
<1>2. x % RingSize # y % RingSize
  BY <1>1, SlotsDiffer, AuditConstants
<1> QED BY <1>2 DEF x, y

(* The trail starts empty. *)
LEMMA AuditStarts ==
  ASSUME AuditInit
  PROVE  AuditInv
<1> DEFINE none == << >>
           blank == [entry_id |-> 0, timestamp |-> 0, actor |-> "", action |-> "",
                     target |-> 0, reason |-> "", previous_entry_hash |-> none]
           entries == [i \in 0 .. RingSize - 1 |-> blank]
           damage == [id |-> 0, sealed |-> FALSE]
           clock == MaxLogged + 1
           nothing == {}
<1>1. audit = [entries |-> entries, ring_pos |-> 0, entry_count |-> 0, next_entry_id |-> 1,
               clock |-> clock, logged |-> none, changes |-> nothing, damage |-> damage]
  BY Zenon DEF AuditInit
<1>2. none \in Seq(LoggedRequest) /\ Len(none) = 0
  OBVIOUS
<1>3. damage.id = 0 /\ damage.sealed = FALSE
  OBVIOUS
<1>4. DamageIs(damage, 0)
  BY DEF DamageIs
<1> HIDE DEF damage
<1>5. blank = [x \in EntryFields |-> blank[x]] /\ blank.actor = "" /\ blank.entry_id = 0
  BY DEF EntryFields
<1> HIDE DEF blank
<1>6. EntriesAre(entries)
  BY <1>5 DEF EntriesAre
<1>7. KeptTell(entries, none, damage.id) /\ Linked(entries, 0, damage)
  BY <1>2 DEF KeptTell, Linked
<1>8. FirstRound(entries, none)
  <2>1. \A i \in 0 .. RingSize - 1 : entries[i].actor = "" /\ entries[i].entry_id = 0
    BY <1>5
  <2> HIDE DEF entries, none
  <2>2. \A k \in 1 .. Len(none) : EntryAt(entries, k).actor = Written("", none[k].actor)
    <3>1. 1 .. Len(none) = {}
      BY <1>2
    <3> QED BY <3>1, Zenon
  <2>3. \A i \in Len(none) .. RingSize - 1 : entries[i].actor = "" /\ entries[i].entry_id = 0
    BY <1>2, <2>1
  <2> QED BY <2>2, <2>3, Zenon DEF FirstRound
<1>9. nothing = {MocOf(none, k) : k \in MocPlaces(none)}
  BY <1>2 DEF MocPlaces
<1> HIDE DEF entries, none, nothing
<1>10. clock \in Int /\ clock >= MaxLogged + 1 - 0 /\ clock <= MaxLogged + 1 + 0 /\ 0 <= MaxLogged
  BY AuditConstants
<1> HIDE DEF clock
<1>11. AuditParts(entries, clock, none, nothing, damage)
  BY <1>2, <1>4, <1>6, <1>7, <1>8, <1>9, <1>10, Zenon DEF AuditParts
<1>12. /\ audit = [x \in AuditFields |-> audit[x]]
       /\ audit.entries = entries /\ audit.ring_pos = 0 /\ audit.entry_count = 0
       /\ audit.next_entry_id = 1 /\ audit.clock = clock /\ audit.logged = none
       /\ audit.changes = nothing /\ audit.damage = damage
  BY <1>1 DEF AuditFields
<1>13. 0 % RingSize = 0
  BY AuditConstants
<1> QED BY <1>2, <1>11, <1>12, <1>13 DEF AuditInv

(* Another entry is logged over the oldest. *)
LEMMA AuditLogs ==
  ASSUME AuditInv, NEW r \in Requests, LogEvent(r)
  PROVE  AuditInv'
<1> DEFINE entries == audit.entries
           logged == audit.logged
           n == Len(logged)
           pos == audit.ring_pos
           damage == audit.damage
           moc == r.action = "MOC_CREATE"
           reason == IF moc /\ r.reason = NoText THEN "" ELSE r.reason
           time == audit.clock + r.step
           old == entries[pos]
           link == IF audit.entry_count > 0
                   THEN compute_entry_hash(entries[Previous(pos)]) ELSE << >>
           entry == [entry_id |-> audit.next_entry_id, timestamp |-> time,
                     actor |-> Written(old.actor, r.actor), action |-> r.action,
                     target |-> r.target, reason |-> Written(old.reason, reason),
                     previous_entry_hash |-> link]
           entries1 == [entries EXCEPT ![pos] = entry]
           request == [r EXCEPT !.step = time]
           logged1 == Append(logged, request)
           change == [moc_id |-> audit.next_entry_id, alarm_id |-> r.target]
           changes1 == IF moc THEN audit.changes \cup {change} ELSE audit.changes
           pos1 == (pos + 1) % RingSize
           count1 == audit.entry_count + 1
           next1 == audit.next_entry_id + 1
<1>1. /\ audit = [x \in AuditFields |-> audit[x]]
      /\ audit.entry_count = n /\ audit.next_entry_id = n + 1 /\ pos = n % RingSize
      /\ AuditParts(entries, audit.clock, logged, audit.changes, damage)
  BY DEF AuditInv
<1>2. audit.entry_count < MaxLogged
  BY DEF LogEvent
<1>3. audit' = [audit EXCEPT !.entries = entries1, !.ring_pos = pos1, !.entry_count = count1,
                             !.next_entry_id = next1, !.clock = time, !.logged = logged1,
                             !.changes = changes1]
  <2> DEFINE d == audit_log_event(audit, r.actor, r.action, r.target, reason, time)
  <2>1. d = [audit EXCEPT !.entries = entries1, !.ring_pos = pos1,
                          !.entry_count = count1, !.next_entry_id = next1]
    <3> HIDE DEF time, reason
    <3> QED BY <1>1, Zenon DEF audit_log_event
  <2>2. audit' = [d EXCEPT !.clock = time, !.logged = Append(d.logged, request),
                           !.changes = IF moc THEN d.changes \cup {change} ELSE d.changes]
    BY DEF LogEvent
  <2>3. d.logged = logged /\ d.changes = audit.changes
    <3> HIDE DEF d, entries1, pos1, count1, next1
    <3> QED BY <1>1, <2>1, Zenon DEF AuditFields
  <2> HIDE DEF d, entries1, pos1, count1, next1, time, request, change
  <2> QED BY <1>1, <2>1, <2>2, <2>3, Zenon DEF AuditFields
<1> HIDE DEF entries1, pos1, count1, next1, time, logged1, changes1
<1>4. /\ audit' = [x \in AuditFields |-> audit'[x]]
      /\ audit'.entries = entries1 /\ audit'.ring_pos = pos1 /\ audit'.entry_count = count1
      /\ audit'.next_entry_id = next1 /\ audit'.clock = time /\ audit'.logged = logged1
      /\ audit'.changes = changes1 /\ audit'.damage = damage
  BY <1>1, <1>3, Zenon DEF AuditFields
<1> HIDE DEF entries, logged, damage
<1>5. /\ EntriesAre(entries) /\ logged \in Seq(LoggedRequest) /\ n \in Nat /\ n < MaxLogged
      /\ audit.clock \in Int /\ audit.clock >= MaxLogged + 1 - n
      /\ audit.clock <= MaxLogged + 1 + n
      /\ KeptTell(entries, logged, damage.id) /\ FirstRound(entries, logged)
      /\ Linked(entries, n, damage) /\ DamageIs(damage, n)
      /\ audit.changes = {MocOf(logged, k) : k \in MocPlaces(logged)}
  BY <1>1, <1>2, LenProperties DEF AuditParts
<1>6. RingSize \in Nat /\ RingSize > 1 /\ MaxLogged \in Nat
  BY AuditConstants
<1>7. /\ r \in [actor : STRING, action : STRING, target : Nat \ {Ruined},
                reason : STRING, step : {0 - 1, 0, 1}]
      /\ r.step \in {0 - 1, 0, 1}
  <2>1. r \in [actor : STRING, action : STRING, target : Nat \ {Ruined},
               reason : STRING, step : {0 - 1, 0, 1}]
    BY AuditConstants
  <2> QED BY <2>1
<1>8. /\ time \in Int /\ time >= MaxLogged + 1 - (n + 1) /\ time <= MaxLogged + 1 + (n + 1)
      /\ time \in 0 .. Latest
  <2> DEFINE c == audit.clock
             d == r.step
  <2>1. c \in Int /\ c >= MaxLogged + 1 - n /\ c <= MaxLogged + 1 + n
    BY <1>5
  <2>2. d \in {0 - 1, 0, 1} /\ time = c + d
    BY <1>7 DEF time
  <2>3. MaxLogged \in Nat /\ n \in Nat /\ n < MaxLogged
    BY <1>5, <1>6
  <2> HIDE DEF c, d, n, time
  <2>4. time \in Int /\ time >= MaxLogged + 1 - (n + 1) /\ time <= MaxLogged + 1 + (n + 1)
    BY <2>1, <2>2, <2>3
  <2>5. time >= 0 /\ time <= 2 * MaxLogged + 1
    BY <2>3, <2>4
  <2> QED BY <2>4, <2>5 DEF Latest
<1>9. /\ request \in LoggedRequest /\ request.actor = r.actor /\ request.action = r.action
      /\ request.target = r.target /\ request.reason = r.reason /\ request.step = time
  BY <1>7, <1>8 DEF LoggedRequest
<1> HIDE DEF request
<1>10. /\ logged1 \in Seq(LoggedRequest) /\ Len(logged1) = n + 1 /\ logged1[n + 1] = request
       /\ \A k \in 1 .. n : logged1[k] = logged[k]
  <2> HIDE DEF n
  <2>1. /\ Append(logged, request) \in Seq(LoggedRequest)
        /\ Len(Append(logged, request)) = Len(logged) + 1
        /\ Append(logged, request)[Len(logged) + 1] = request
        /\ \A k \in 1 .. Len(logged) : Append(logged, request)[k] = logged[k]
    BY <1>5, <1>9, AppendProperties
  <2> QED BY <2>1 DEF logged1, n
<1>11. \A k \in 1 .. n + 1 : k \in 1 .. n \/ k = n + 1
  BY <1>5
<1>12. pos \in 0 .. RingSize - 1 /\ pos = ((n + 1) - 1) % RingSize
  <2> HIDE DEF n
  <2>1. (n + 1) - 1 = n /\ n % RingSize \in 0 .. RingSize - 1
    BY <1>5, SlotIn
  <2> QED BY <1>1, <2>1
<1> HIDE DEF entry, pos, n
<1>13. /\ entries1 = [i \in 0 .. RingSize - 1 |-> entries1[i]] /\ entries1[pos] = entry
       /\ \A i \in 0 .. RingSize - 1 : i # pos => entries1[i] = entries[i]
  BY <1>5, <1>12 DEF entries1, EntriesAre
<1>14. entry = [x \in EntryFields |-> entry[x]]
  BY DEF entry, EntryFields
<1>15. EntriesAre(entries1)
  <2>1. ASSUME NEW i \in 0 .. RingSize - 1
        PROVE  entries1[i] = [x \in EntryFields |-> entries1[i][x]]
    <3>1. CASE i = pos
      BY <1>13, <1>14, <3>1, Zenon
    <3>2. CASE i # pos
      <4>1. entries1[i] = entries[i]
        BY <1>13, <3>2
      <4>2. entries[i] = [x \in EntryFields |-> entries[i][x]]
        BY <1>5 DEF EntriesAre
      <4> QED BY <4>1, <4>2, Zenon
    <3> QED BY <3>1, <3>2
  <2> QED BY <1>13, <2>1, Zenon DEF EntriesAre
<1>16. EntryAt(entries1, n + 1) = entry
  BY <1>12, <1>13 DEF EntryAt
<1>17. ASSUME NEW k \in 1 .. n, k > (n + 1) - RingSize
       PROVE  EntryAt(entries1, k) = EntryAt(entries, k)
  <2> DEFINE m == n + 1
  <2>1. k \in Nat /\ m \in Nat /\ k >= 1 /\ k < m /\ k > m - RingSize /\ k - 1 \in Nat
    BY <1>5, <1>6, <1>17
  <2> HIDE DEF m
  <2>2. (k - 1) % RingSize # (m - 1) % RingSize
    BY <2>1, SlotsApart
  <2>3. (k - 1) % RingSize # pos
    BY <1>12, <2>2 DEF m
  <2>4. (k - 1) % RingSize \in 0 .. RingSize - 1
    BY <2>1, SlotIn
  <2> HIDE DEF pos
  <2> QED BY <1>13, <2>3, <2>4 DEF EntryAt
<1>18. damage.id \in 0 .. n /\ (damage.sealed => damage.id \in 1 .. n - 1)
  BY <1>5 DEF DamageIs
<1>19. KeptTell(entries1, logged1, damage.id)
  <2> SUFFICES ASSUME NEW k \in 1 .. n + 1, k > (n + 1) - RingSize
               PROVE  Tells(EntryAt(entries1, k), logged1[k], k, damage.id)
    BY <1>10 DEF KeptTell
  <2>1. CASE k = n + 1
    <3>1. /\ entry.entry_id = n + 1 /\ entry.timestamp = time /\ entry.action = r.action
          /\ entry.target = r.target /\ entry.actor = Written(old.actor, r.actor)
          /\ entry.reason = Written(old.reason, reason)
      BY <1>1 DEF entry
    <3>2. n + 1 # damage.id
      BY <1>5, <1>18
    <3>3. /\ r.actor # NoText => entry.actor = r.actor
          /\ r.reason # NoText => entry.reason = r.reason
      BY <3>1 DEF Written
    <3>4. Tells(entry, request, n + 1, damage.id)
      BY <1>9, <3>1, <3>2, <3>3 DEF Tells
    <3> QED BY <1>10, <1>16, <2>1, <3>4
  <2>2. CASE k \in 1 .. n
    <3>1. k > n - RingSize
      BY <1>5, <1>6
    <3>2. Tells(EntryAt(entries, k), logged[k], k, damage.id)
      BY <1>5, <2>2, <3>1 DEF KeptTell, n
    <3> QED BY <1>10, <1>17, <2>2, <3>2
  <2> QED BY <1>11, <2>1, <2>2
<1>20. FirstRound(entries1, logged1)
  <2> SUFFICES ASSUME n + 1 <= RingSize
               PROVE  /\ \A k \in 1 .. n + 1 :
                           EntryAt(entries1, k).actor = Written("", logged1[k].actor)
                      /\ \A i \in n + 1 .. RingSize - 1 :
                           entries1[i].actor = "" /\ entries1[i].entry_id = 0
    BY <1>10 DEF FirstRound
  <2>1. /\ \A k \in 1 .. n : EntryAt(entries, k).actor = Written("", logged[k].actor)
        /\ \A i \in n .. RingSize - 1 : entries[i].actor = "" /\ entries[i].entry_id = 0
    <3>1. n <= RingSize
      BY <1>5, <1>6
    <3> QED BY <1>5, <3>1 DEF FirstRound, n
  <2>2. pos = n
    <3>1. n \in 0 .. RingSize - 1
      BY <1>5, <1>6
    <3>2. n % RingSize = n
      BY <1>6, <3>1
    <3> QED BY <1>1, <3>2 DEF n, pos
  <2>3. entry.actor = Written("", r.actor)
    <3>1. entries[n].actor = ""
      <4>1. n \in n .. RingSize - 1
        BY <1>5, <1>6
      <4> QED BY <2>1, <4>1
    <3> QED BY <2>2, <3>1 DEF entry
  <2>4. ASSUME NEW k \in 1 .. n + 1
        PROVE  EntryAt(entries1, k).actor = Written("", logged1[k].actor)
    <3>1. CASE k = n + 1
      BY <1>9, <1>10, <1>16, <2>3, <3>1
    <3>2. CASE k \in 1 .. n
      <4>1. k > (n + 1) - RingSize
        BY <1>5, <1>6, <3>2
      <4> QED BY <1>10, <1>17, <2>1, <3>2, <4>1
    <3> QED BY <1>11, <3>1, <3>2
  <2>5. ASSUME NEW i \in n + 1 .. RingSize - 1
        PROVE  entries1[i].actor = "" /\ entries1[i].entry_id = 0
    <3>1. i \in n .. RingSize - 1 /\ i # pos /\ i \in 0 .. RingSize - 1
      BY <1>5, <1>6, <2>2
    <3> QED BY <1>13, <2>1, <3>1
  <2> QED BY <2>4, <2>5
<1>21. Linked(entries1, n + 1, damage)
  <2> SUFFICES ASSUME NEW k \in 2 .. n + 1, k > (n + 1) - RingSize + 1
               PROVE  IsLinked(EntryAt(entries1, k), EntryAt(entries1, k - 1),
                               damage.sealed /\ k - 1 = damage.id)
    BY DEF Linked
  <2>1. k - 1 \in 1 .. n /\ k - 1 > (n + 1) - RingSize
    BY <1>5, <1>6
  <2>2. EntryAt(entries1, k - 1) = EntryAt(entries, k - 1)
    BY <1>17, <2>1
  <2>3. CASE k = n + 1
    <3>1. ~ (damage.sealed /\ k - 1 = damage.id)
      BY <1>5, <1>18, <2>3
    <3>2. n > 0 /\ k - 1 = n
      BY <1>5, <2>3
    <3>3. Previous(pos) = (n - 1) % RingSize
      <4>1. pos = n % RingSize
        BY <1>1 DEF n, pos
      <4> DEFINE b == n - 1
      <4>2. b \in Nat /\ b + 1 = n
        BY <1>5, <3>2
      <4> HIDE DEF b, n
      <4>3. b % RingSize \in 0 .. RingSize - 1
        BY <4>2, SlotIn
      <4> DEFINE c == b % RingSize
      <4>4. (c + 1) % RingSize = n % RingSize
        <5>1. b \in Int /\ 1 \in {0 - 1, 0, 1} /\ RingSize > 0
          BY <1>6, <4>2
        <5>2. ((b % RingSize) + 1) % RingSize = (b + 1) % RingSize
          BY <1>6, <5>1, ModStep
        <5> QED BY <4>2, <5>2
      <4> HIDE DEF c
      <4>5. (c + 1) % RingSize = IF c + 1 = RingSize THEN 0 ELSE c + 1
        <5>1. c \in 0 .. RingSize - 1 /\ RingSize > 0
          BY <1>6, <4>3 DEF c
        <5> QED BY <1>6, <5>1, RingOrder
      <4>6. Previous(pos) = c
        BY <1>6, <4>1, <4>3, <4>4, <4>5 DEF Previous, c
      <4> QED BY <4>6 DEF c, b
    <3>4. entry.previous_entry_hash = compute_entry_hash(EntryAt(entries, n))
      BY <1>1, <3>2, <3>3 DEF entry, EntryAt, n
    <3>5. EntryAt(entries1, k) = entry /\ EntryAt(entries1, k - 1) = EntryAt(entries, n)
      BY <1>16, <2>2, <2>3, <3>2
    <3> QED BY <3>1, <3>4, <3>5, Zenon DEF IsLinked
  <2>4. CASE k \in 1 .. n
    <3>1. k \in 2 .. n /\ k > n - RingSize + 1 /\ k > (n + 1) - RingSize
      BY <1>5, <1>6, <2>4
    <3>2. EntryAt(entries1, k) = EntryAt(entries, k)
      BY <1>17, <2>4, <3>1
    <3>3. IsLinked(EntryAt(entries, k), EntryAt(entries, k - 1),
                   damage.sealed /\ k - 1 = damage.id)
      BY <1>5, <3>1, Zenon DEF Linked
    <3> QED BY <2>2, <3>2, <3>3, Zenon
  <2>5. k \in 1 .. n \/ k = n + 1
    BY <1>5
  <2> QED BY <2>3, <2>4, <2>5
<1>22. DamageIs(damage, n + 1)
  BY <1>5 DEF DamageIs
<1>23. changes1 = {MocOf(logged1, k) : k \in MocPlaces(logged1)}
  <2>1. \A k \in 1 .. n : MocOf(logged1, k) = MocOf(logged, k)
    BY <1>10 DEF MocOf
  <2>2. MocOf(logged1, n + 1) = change
    BY <1>1, <1>9, <1>10 DEF MocOf, n
  <2>3. \A k \in 1 .. n : k \in MocPlaces(logged1) <=> k \in MocPlaces(logged)
    <3>1. MocPlaces(logged1) = {k \in 1 .. n + 1 : logged1[k].action = "MOC_CREATE"}
      BY <1>10 DEF MocPlaces
    <3>2. MocPlaces(logged) = {k \in 1 .. n : logged[k].action = "MOC_CREATE"}
      BY DEF MocPlaces, n
    <3> QED BY <1>5, <1>10, <3>1, <3>2
  <2>4. MocPlaces(logged1) \subseteq 1 .. n + 1 /\ MocPlaces(logged) \subseteq 1 .. n
    BY <1>10 DEF MocPlaces, n
  <2>5. n + 1 \in MocPlaces(logged1) <=> moc
    BY <1>5, <1>9, <1>10 DEF MocPlaces
  <2> HIDE DEF change, moc
  <2>6. CASE moc
    <3>1. MocPlaces(logged1) = MocPlaces(logged) \cup {n + 1}
      BY <1>11, <2>3, <2>4, <2>5, <2>6
    <3>2. changes1 = audit.changes \cup {change}
      BY <2>6 DEF changes1
    <3> QED BY <1>5, <2>1, <2>2, <2>4, <3>1, <3>2
  <2>7. CASE ~ moc
    <3>1. MocPlaces(logged1) = MocPlaces(logged)
      BY <1>11, <2>3, <2>4, <2>5, <2>7
    <3>2. changes1 = audit.changes
      BY <2>7 DEF changes1
    <3> QED BY <1>5, <2>1, <2>4, <3>1, <3>2
  <2> QED BY <2>6, <2>7
<1>24. /\ count1 = n + 1 /\ next1 = n + 1 + 1 /\ pos1 = (n + 1) % RingSize
  <2>1. count1 = n + 1 /\ next1 = n + 1 + 1
    BY <1>1, <1>5 DEF count1, next1, n
  <2>2. pos1 = ((n % RingSize) + 1) % RingSize
    BY <1>1 DEF pos1, pos, n
  <2>3. n \in Int /\ 1 \in {0 - 1, 0, 1} /\ RingSize > 0
    BY <1>5, <1>6
  <2>4. ((n % RingSize) + 1) % RingSize = (n + 1) % RingSize
    BY <1>6, <2>3, ModStep
  <2> QED BY <2>1, <2>2, <2>4
<1>25. AuditParts(entries1, time, logged1, changes1, damage)
  <2>1. Len(logged1) <= MaxLogged
    BY <1>5, <1>6, <1>10
  <2>2. Linked(entries1, Len(logged1), damage) /\ DamageIs(damage, Len(logged1))
    BY <1>10, <1>21, <1>22
  <2>3. time >= MaxLogged + 1 - Len(logged1) /\ time <= MaxLogged + 1 + Len(logged1)
    BY <1>8, <1>10
  <2> QED BY <1>8, <1>10, <1>15, <1>19, <1>20, <1>23, <2>1, <2>2, <2>3, Zenon DEF AuditParts
<1> HIDE DEF count1, next1, pos1
<1>26. /\ audit'.entry_count = Len(audit'.logged)
       /\ audit'.next_entry_id = Len(audit'.logged) + 1
       /\ audit'.ring_pos = Len(audit'.logged) % RingSize
  BY <1>4, <1>10, <1>24
<1> QED BY <1>4, <1>25, <1>26, Zenon DEF AuditInv

(* A slot that holds an entry holds one of the last. *)
LEMMA SlotOfEntry ==
  ASSUME NEW entries, NEW logged, NEW damaged, Len(logged) \in Nat,
         KeptTell(entries, logged, damaged), FirstRound(entries, logged),
         NEW i \in 0 .. RingSize - 1, entries[i].entry_id # 0
  PROVE  \E k \in 1 .. Len(logged) :
           /\ k > Len(logged) - RingSize /\ (k - 1) % RingSize = i
           /\ Tells(entries[i], logged[k], k, damaged)
<1> DEFINE n == Len(logged)
<1>1. RingSize \in Nat /\ RingSize > 0
  BY AuditConstants
<1>2. i < n
  <2> SUFFICES ASSUME ~ i < n PROVE FALSE
    OBVIOUS
  <2>1. n <= RingSize /\ i \in n .. RingSize - 1
    BY <1>1
  <2> QED BY <2>1 DEF FirstRound
<1>3. PICK k \in 1 .. n : k > n - RingSize /\ (k - 1) % RingSize = i
  <2> HIDE DEF n
  <2> QED BY <1>1, <1>2, SlotHolds DEF n
<1>4. Tells(entries[i], logged[k], k, damaged)
  BY <1>3 DEF KeptTell, EntryAt
<1> QED BY <1>3, <1>4

(* Somebody changes an entry. *)
LEMMA AuditIsDamaged ==
  ASSUME AuditInv, NEW i \in 0 .. RingSize - 1, DamageEntry(i)
  PROVE  AuditInv'
<1> DEFINE entries == audit.entries
           logged == audit.logged
           n == Len(logged)
           damage == audit.damage
           old == entries[i]
           entry == [old EXCEPT !.target = Ruined]
           entries1 == [entries EXCEPT ![i] = entry]
           k0 == old.entry_id
           sealed1 == k0 < audit.entry_count
           damage1 == [id |-> k0, sealed |-> sealed1]
<1>1. /\ audit = [x \in AuditFields |-> audit[x]]
      /\ audit.entry_count = n /\ audit.next_entry_id = n + 1
      /\ audit.ring_pos = n % RingSize
      /\ AuditParts(entries, audit.clock, logged, audit.changes, damage)
  BY DEF AuditInv
<1>2. damage.id = 0 /\ k0 # 0
  BY DEF DamageEntry
<1>3. /\ EntriesAre(entries) /\ logged \in Seq(LoggedRequest) /\ n \in Nat
      /\ KeptTell(entries, logged, damage.id) /\ FirstRound(entries, logged)
      /\ Linked(entries, n, damage) /\ DamageIs(damage, n)
  BY <1>1, LenProperties DEF AuditParts
<1>4. audit' = [audit EXCEPT !.entries = entries1, !.damage = damage1]
  <2>1. audit' = [audit EXCEPT !.entries[i].target = Ruined, !.damage = damage1]
    BY DEF DamageEntry
  <2> HIDE DEF damage1
  <2> QED BY <2>1
<1> HIDE DEF entries1, damage1
<1>5. /\ audit' = [x \in AuditFields |-> audit'[x]]
      /\ audit'.entries = entries1 /\ audit'.damage = damage1
      /\ audit'.ring_pos = audit.ring_pos /\ audit'.entry_count = audit.entry_count
      /\ audit'.next_entry_id = audit.next_entry_id /\ audit'.clock = audit.clock
      /\ audit'.logged = logged /\ audit'.changes = audit.changes
  BY <1>1, <1>4, Zenon DEF AuditFields
<1> HIDE DEF entries, logged, damage
<1>6. RingSize \in Nat /\ RingSize > 1
  BY AuditConstants
<1>7. PICK k \in 1 .. n : /\ k > n - RingSize /\ (k - 1) % RingSize = i
                          /\ Tells(old, logged[k], k, damage.id)
  BY <1>2, <1>3, SlotOfEntry
<1>8. k0 = k /\ k \in Nat
  BY <1>3, <1>7 DEF Tells
<1>9. /\ entries1 = [j \in 0 .. RingSize - 1 |-> entries1[j]] /\ entries1[i] = entry
      /\ \A j \in 0 .. RingSize - 1 : j # i => entries1[j] = entries[j]
  BY <1>3 DEF entries1, EntriesAre
<1>10. old = [x \in EntryFields |-> old[x]]
  BY <1>3 DEF EntriesAre
<1> HIDE DEF old
<1>11. /\ entry = [x \in EntryFields |-> entry[x]] /\ entry.target = Ruined
       /\ entry.entry_id = old.entry_id /\ entry.timestamp = old.timestamp
       /\ entry.actor = old.actor /\ entry.action = old.action /\ entry.reason = old.reason
       /\ entry.previous_entry_hash = old.previous_entry_hash
  BY <1>10, Zenon DEF EntryFields
<1> HIDE DEF entry, k0, n
<1>12. EntryAt(entries1, k) = entry /\ EntryAt(entries, k) = old
  BY <1>7, <1>9 DEF EntryAt, old
<1>13. ASSUME NEW j \in 1 .. n, j > n - RingSize, j # k
       PROVE  EntryAt(entries1, j) = EntryAt(entries, j)
  <2>1. (j - 1) % RingSize # (k - 1) % RingSize
    <3>1. j \in Nat /\ k \in Nat /\ j >= 1 /\ k >= 1 /\ j > k - RingSize /\ k > j - RingSize
      BY <1>3, <1>6, <1>7, <1>13
    <3>2. CASE j < k
      BY <3>1, <3>2, SlotsApart
    <3>3. CASE k < j
      BY <3>1, <3>3, SlotsApart
    <3> QED BY <1>13, <3>1, <3>2, <3>3
  <2>2. (j - 1) % RingSize \in 0 .. RingSize - 1
    <3>1. j - 1 \in Nat
      BY <1>3
    <3> QED BY <3>1, SlotIn
  <2> QED BY <1>7, <1>9, <2>1, <2>2 DEF EntryAt
<1>14. damage1.id = k /\ damage1.sealed = sealed1 /\ (sealed1 <=> k < n) /\ sealed1 \in BOOLEAN
  BY <1>1, <1>8 DEF damage1, n
<1>15. DamageIs(damage1, n)
  <2>1. damage1 = [id |-> damage1.id, sealed |-> damage1.sealed]
    BY DEF damage1
  <2>2. k \in 0 .. n /\ (k < n => k \in 1 .. n - 1)
    BY <1>3, <1>7
  <2> HIDE DEF sealed1
  <2> QED BY <1>14, <2>1, <2>2, Zenon DEF DamageIs
<1> HIDE DEF sealed1
<1>16. EntriesAre(entries1)
  <2>1. ASSUME NEW j \in 0 .. RingSize - 1
        PROVE  entries1[j] = [x \in EntryFields |-> entries1[j][x]]
    <3>1. CASE j = i
      BY <1>9, <1>11, <3>1, Zenon
    <3>2. CASE j # i
      <4>1. entries1[j] = entries[j]
        BY <1>9, <3>2
      <4>2. entries[j] = [x \in EntryFields |-> entries[j][x]]
        BY <1>3 DEF EntriesAre
      <4> QED BY <4>1, <4>2, Zenon
    <3> QED BY <3>1, <3>2
  <2> QED BY <1>9, <2>1, Zenon DEF EntriesAre
<1>17. \A j \in 1 .. n : j > n - RingSize => Tells(EntryAt(entries, j), logged[j], j, 0)
  BY <1>2, <1>3 DEF KeptTell, n
<1>18. KeptTell(entries1, logged, damage1.id)
  <2> SUFFICES ASSUME NEW j \in 1 .. n, j > n - RingSize
               PROVE  Tells(EntryAt(entries1, j), logged[j], j, k)
    BY <1>14 DEF KeptTell, n
  <2>1. Tells(EntryAt(entries, j), logged[j], j, 0)
    BY <1>17
  <2>2. CASE j = k
    <3>1. Tells(old, logged[k], k, 0)
      BY <1>12, <2>1, <2>2
    <3>2. Tells(entry, logged[k], k, k)
      BY <1>11, <3>1 DEF Tells
    <3> QED BY <1>12, <2>2, <3>2
  <2>3. CASE j # k
    <3>1. EntryAt(entries1, j) = EntryAt(entries, j)
      BY <1>13, <2>3
    <3>2. j # 0
      BY <1>3
    <3> QED BY <2>1, <2>3, <3>1, <3>2 DEF Tells
  <2> QED BY <2>2, <2>3
<1>19. FirstRound(entries1, logged)
  <2> SUFFICES ASSUME n <= RingSize
               PROVE  /\ \A j \in 1 .. n :
                           EntryAt(entries1, j).actor = Written("", logged[j].actor)
                      /\ \A j \in n .. RingSize - 1 :
                           entries1[j].actor = "" /\ entries1[j].entry_id = 0
    BY DEF FirstRound, n
  <2>1. /\ \A j \in 1 .. n : EntryAt(entries, j).actor = Written("", logged[j].actor)
        /\ \A j \in n .. RingSize - 1 : entries[j].actor = "" /\ entries[j].entry_id = 0
    BY <1>3 DEF FirstRound, n
  <2>2. ASSUME NEW j \in 1 .. n
        PROVE  EntryAt(entries1, j).actor = Written("", logged[j].actor)
    <3>1. EntryAt(entries1, j).actor = EntryAt(entries, j).actor
      <4>1. CASE j = k
        BY <1>11, <1>12, <4>1
      <4>2. CASE j # k
        <5>1. j > n - RingSize
          BY <1>3, <1>6
        <5> QED BY <1>13, <4>2, <5>1
      <4> QED BY <4>1, <4>2
    <3> QED BY <2>1, <3>1
  <2>3. ASSUME NEW j \in n .. RingSize - 1
        PROVE  entries1[j].actor = "" /\ entries1[j].entry_id = 0
    <3>1. j \in 0 .. RingSize - 1 /\ entries[j].entry_id = 0 /\ old.entry_id # 0
      <4>1. j \in 0 .. RingSize - 1
        BY <1>3, <1>6
      <4>2. old.entry_id # 0
        BY <1>2 DEF k0
      <4> QED BY <2>1, <4>1, <4>2
    <3>2. j # i
      BY <3>1 DEF old
    <3> QED BY <1>9, <2>1, <3>1, <3>2
  <2> QED BY <2>2, <2>3
<1>20. Linked(entries1, n, damage1)
  <2> SUFFICES ASSUME NEW j \in 2 .. n, j > n - RingSize + 1
               PROVE  IsLinked(EntryAt(entries1, j), EntryAt(entries1, j - 1),
                               damage1.sealed /\ j - 1 = damage1.id)
    BY DEF Linked
  <2>1. /\ j \in 1 .. n /\ j > n - RingSize
        /\ j - 1 \in 1 .. n /\ j - 1 > n - RingSize
    BY <1>3, <1>6
  <2>2. EntryAt(entries, j).previous_entry_hash = compute_entry_hash(EntryAt(entries, j - 1))
    <3>1. IsLinked(EntryAt(entries, j), EntryAt(entries, j - 1),
                   damage.sealed /\ j - 1 = damage.id)
      BY <1>3, Zenon DEF Linked
    <3>2. ~ (damage.sealed /\ j - 1 = damage.id)
      BY <1>2, <2>1
    <3> QED BY <3>1, <3>2, Zenon DEF IsLinked
  <2>3. EntryAt(entries1, j).previous_entry_hash = EntryAt(entries, j).previous_entry_hash
    <3>1. CASE j = k
      BY <1>11, <1>12, <3>1
    <3>2. CASE j # k
      BY <1>13, <2>1, <3>2
    <3> QED BY <3>1, <3>2
  <2>4. CASE j - 1 = k
    <3>1. damage1.sealed /\ j - 1 = damage1.id
      <4>1. k < n
        BY <1>3, <2>1, <2>4
      <4> QED BY <1>14, <2>4, <4>1
    <3>2. compute_entry_hash(old)[5] = old.target
      BY DEF compute_entry_hash
    <3>3. old.target # Ruined
      <4>1. Tells(old, logged[k], k, 0)
        BY <1>7, <1>12, <1>17
      <4>2. logged[k] \in LoggedRequest
        BY <1>3, <1>7, LenProperties, ElementOfSeq DEF n
      <4>3. old.target = logged[k].target
        <5>1. k # 0
          BY <1>2, <1>8
        <5> QED BY <4>1, <5>1 DEF Tells
      <4> QED BY <4>2, <4>3 DEF LoggedRequest
    <3>4. EntryAt(entries1, j).previous_entry_hash = compute_entry_hash(old)
      BY <1>12, <2>2, <2>3, <2>4
    <3>5. EntryAt(entries1, j).previous_entry_hash[5] # Ruined
      BY <3>2, <3>3, <3>4
    <3> QED BY <3>1, <3>5, Zenon DEF IsLinked
  <2>5. CASE j - 1 # k
    <3>1. EntryAt(entries1, j - 1) = EntryAt(entries, j - 1)
      BY <1>13, <2>1, <2>5
    <3>2. ~ (damage1.sealed /\ j - 1 = damage1.id)
      BY <1>14, <2>5
    <3>3. EntryAt(entries1, j).previous_entry_hash = compute_entry_hash(EntryAt(entries1, j - 1))
      BY <2>2, <2>3, <3>1, Zenon
    <3> QED BY <3>2, <3>3, Zenon DEF IsLinked
  <2> QED BY <2>4, <2>5
<1>21. AuditParts(entries1, audit.clock, logged, audit.changes, damage1)
  BY <1>1, <1>15, <1>16, <1>18, <1>19, <1>20, Zenon DEF AuditParts, n
<1> QED BY <1>1, <1>5, <1>21, Zenon DEF AuditInv, n

(* Every step of the trail keeps what is true of it. *)
LEMMA AuditStep ==
  ASSUME AuditInv, AuditNext
  PROVE  AuditInv'
BY AuditLogs, AuditIsDamaged DEF AuditNext

(* What the readers of the ring see of the requests logged. *)
Shown(ring, logged, damage, n, tail) ==
  LET c == Len(logged) IN
  /\ c \in Nat /\ n \in Nat /\ n <= c /\ n = (IF c < RingSize THEN c ELSE RingSize)
  /\ Len(ring) = n /\ ring = [i \in 1 .. n |-> ring[i]]
  /\ \A i \in 1 .. n : /\ (c - n) + i \in 1 .. c
                       /\ tail[i] = logged[(c - n) + i] /\ tail[i] \in LoggedRequest
                       /\ Tells(ring[i], tail[i], (c - n) + i, damage.id)
  /\ \A i \in 2 .. n : IsLinked(ring[i], ring[i - 1],
                                damage.sealed /\ (c - n) + (i - 1) = damage.id)
  /\ c <= RingSize => \A i \in 1 .. n : ring[i].actor = Written("", tail[i].actor)

(* The place of the i-th of the last entries when the ring has wrapped. *)
LEMMA WrappedPlace ==
  ASSUME NEW c \in Nat, NEW i \in Nat
  PROVE  ((c % RingSize) + i - 1) % RingSize = (((c - RingSize) + i) - 1) % RingSize
<1> DEFINE N == RingSize
           x == ((c - N) + i) - 1
<1>1. N \in Nat /\ N > 0 /\ c \in Int /\ x \in Int
  BY AuditConstants
<1> HIDE DEF x, N
<1>2. PICK q \in Int, r \in 0 .. N - 1 : c = N * q + r /\ c % N = r
  BY <1>1, ModSpans
<1>3. PICK q2 \in Int, r2 \in 0 .. N - 1 : x = N * q2 + r2 /\ x % N = r2
  BY <1>1, ModSpans
<1> DEFINE d == (q2 + 1) - q
           a == N * q
           b == N * q2
<1>4. N * d = (b + N) - a /\ a \in Int /\ b \in Int
  BY <1>1
<1>5. c = a + r /\ x = b + r2
  BY <1>2, <1>3
<1>6. d \in Int
  OBVIOUS
<1>7. (N * d + r2) % N = r2
  BY <1>1, <1>6, ModUnique
<1> HIDE DEF a, b, d
<1>8. r + i - 1 = N * d + r2
  <2>1. x = ((c - N) + i) - 1
    BY DEF x
  <2> QED BY <1>1, <1>4, <1>5, <2>1
<1>9. (r + i - 1) % N = r2
  BY <1>7, <1>8
<1> QED BY <1>2, <1>3, <1>9 DEF x, N

(* The ring read from its oldest entry shows the last requests. *)
LEMMA RingShows ==
  ASSUME AuditInv
  PROVE  Shown(read_order(audit), audit.logged, audit.damage, Len(read_order(audit)),
               SubSeq(audit.logged, audit.entry_count - Len(read_order(audit)) + 1,
                      audit.entry_count))
<1> DEFINE entries == audit.entries
           logged == audit.logged
           damage == audit.damage
           N == RingSize
           c == Len(logged)
           ring == read_order(audit)
           n == IF c < N THEN c ELSE N
           d == c - n
           tail == SubSeq(logged, d + 1, c)
<1>1. /\ audit.entry_count = c /\ audit.ring_pos = c % N
      /\ logged \in Seq(LoggedRequest) /\ c \in Nat
      /\ KeptTell(entries, logged, damage.id) /\ Linked(entries, c, damage)
      /\ FirstRound(entries, logged)
  BY LenProperties DEF AuditInv, AuditParts
<1>2. N \in Nat /\ N > 1
  BY AuditConstants
<1>3. ring = [i \in 1 .. n |-> entries[IF c > N THEN ((c % N) + i - 1) % N ELSE i - 1]]
  <2> HIDE DEF c, N
  <2> QED BY <1>1, Zenon DEF read_order, N
<1> HIDE DEF ring, entries, logged, damage, c, N
<1>4. n \in Nat /\ n <= c /\ d \in Nat
  BY <1>1, <1>2
<1>5. \A i \in 1 .. n : d + i \in 1 .. c /\ d + i > c - N
  BY <1>1, <1>2, <1>4
<1>6. ASSUME NEW i \in 1 .. n PROVE ring[i] = EntryAt(entries, d + i)
  <2>1. CASE c > N
    <3>1. n = N /\ d + i = (c - N) + i
      BY <1>1, <1>2, <2>1
    <3>2. i \in Nat
      BY <1>4
    <3>3. ((c % N) + i - 1) % N = (((c - N) + i) - 1) % N
      BY <1>1, <3>2, WrappedPlace DEF N
    <3>4. ring[i] = entries[((c % N) + i - 1) % N]
      BY <1>3, <2>1
    <3> HIDE DEF n, d
    <3>5. ring[i] = entries[((d + i) - 1) % N]
      BY <3>1, <3>3, <3>4
    <3> QED BY <3>5 DEF EntryAt, N
  <2>2. CASE ~ c > N
    <3>1. n = c /\ d = 0 /\ i - 1 \in 0 .. N - 1
      BY <1>1, <1>2, <2>2
    <3>2. ring[i] = entries[i - 1]
      BY <1>3, <2>2
    <3> HIDE DEF n, d
    <3>3. (i - 1) % N = i - 1 /\ d + i = i
      BY <1>2, <3>1
    <3> QED BY <3>2, <3>3 DEF EntryAt, N
  <2> QED BY <2>1, <2>2
<1>7. ring = [i \in 1 .. n |-> ring[i]] /\ DOMAIN ring = 1 .. n
  BY <1>3
<1> HIDE DEF n
<1>8. Len(ring) = n
  <2> DEFINE S == {ring[i] : i \in 1 .. n}
  <2>1. ring \in [1 .. n -> S]
    BY <1>7
  <2> HIDE DEF S
  <2>2. ring \in Seq(S)
    BY <1>4, <2>1
  <2> QED BY <1>4, <1>7, <2>2, LenProperties
<1>9. \A i \in 1 .. n : tail[i] = logged[d + i]
  <2>1. /\ SubSeq(logged, d + 1, c) = [i \in 1 .. c - (d + 1) + 1 |-> logged[(d + 1) + i - 1]]
    BY <1>1, <1>4 DEF c
  <2>2. c - (d + 1) + 1 = n /\ \A i \in 1 .. n : (d + 1) + i - 1 = d + i
    BY <1>1, <1>4
  <2> HIDE DEF d
  <2> QED BY <2>1, <2>2
<1> HIDE DEF tail
<1>10. ASSUME NEW i \in 1 .. n
       PROVE  /\ tail[i] = logged[d + i] /\ tail[i] \in LoggedRequest
              /\ Tells(ring[i], tail[i], d + i, damage.id)
  <2>1. d + i \in 1 .. c /\ d + i > c - N
    BY <1>5
  <2> DEFINE k == d + i
  <2>2. k \in 1 .. c /\ k > c - N
    BY <2>1
  <2> HIDE DEF k
  <2>3. logged[k] \in LoggedRequest
    BY <1>1, <2>2, LenProperties, ElementOfSeq DEF c
  <2>4. Tells(EntryAt(entries, k), logged[k], k, damage.id)
    BY <1>1, <2>2 DEF KeptTell, c, N
  <2> QED BY <1>6, <1>9, <2>3, <2>4 DEF k
<1>11. ASSUME NEW i \in 2 .. n
       PROVE  IsLinked(ring[i], ring[i - 1], damage.sealed /\ d + (i - 1) = damage.id)
  <2> DEFINE k == d + i
  <2>1. /\ i \in 1 .. n /\ i - 1 \in 1 .. n /\ k - 1 = d + (i - 1)
        /\ k \in 2 .. c /\ k > (c - N) + 1
    BY <1>1, <1>2, <1>4, <1>5
  <2>2. ring[i] = EntryAt(entries, k)
    BY <1>6, <2>1
  <2>3. ring[i - 1] = EntryAt(entries, k - 1)
    BY <1>6, <2>1
  <2> HIDE DEF k, d
  <2>4. IsLinked(EntryAt(entries, k), EntryAt(entries, k - 1),
                 damage.sealed /\ k - 1 = damage.id)
    BY <1>1, <2>1, Zenon DEF Linked, N
  <2> QED BY <2>1, <2>2, <2>3, <2>4
<1>12. n = IF c < RingSize THEN c ELSE RingSize
  BY DEF n, N
<1>13. ASSUME c <= RingSize, NEW i \in 1 .. n
       PROVE  ring[i].actor = Written("", tail[i].actor)
  <2> DEFINE k == d + i
  <2>1. k \in 1 .. c
    BY <1>5
  <2>2. ring[i] = EntryAt(entries, k) /\ tail[i] = logged[k]
    BY <1>6, <1>9
  <2> HIDE DEF k
  <2>3. EntryAt(entries, k).actor = Written("", logged[k].actor)
    BY <1>1, <1>13, <2>1 DEF FirstRound, c
  <2> QED BY <2>2, <2>3
<1>14. Shown(ring, logged, damage, n, tail)
  BY <1>1, <1>4, <1>5, <1>7, <1>8, <1>10, <1>11, <1>12, <1>13 DEF Shown, c, d
<1> QED BY <1>1, <1>8, <1>14 DEF ring, logged, damage, tail, d

(* The chain is broken exactly where an entry was damaged after its *)
(* successor had been linked to it. *)
ChainTold(ring, damage, n) ==
  (~ \A i \in 2 .. n : ring[i].previous_entry_hash = compute_entry_hash(ring[i - 1]))
    <=> damage.sealed /\ \E i \in 1 .. n : ring[i].entry_id = damage.id

(* A damaged entry is told by the link of its successor. *)
LEMMA ChainShows ==
  ASSUME NEW ring, NEW logged, NEW damage, NEW n, NEW tail,
         Shown(ring, logged, damage, n, tail), DamageIs(damage, Len(logged))
  PROVE  ChainTold(ring, damage, n)
<1> DEFINE c == Len(logged)
           d == c - n
           Chained(i) == ring[i].previous_entry_hash = compute_entry_hash(ring[i - 1])
<1>1. /\ c \in Nat /\ n \in Nat /\ n <= c /\ d \in Nat
      /\ \A i \in 1 .. n : Tells(ring[i], tail[i], d + i, damage.id)
      /\ \A i \in 2 .. n : IsLinked(ring[i], ring[i - 1],
                                    damage.sealed /\ d + (i - 1) = damage.id)
  <2>1. c \in Nat /\ n \in Nat /\ n <= c
    BY Zenon DEF Shown
  <2>2. \A i \in 1 .. n : Tells(ring[i], tail[i], d + i, damage.id)
    BY Zenon DEF Shown
  <2>3. \A i \in 2 .. n : IsLinked(ring[i], ring[i - 1],
                                   damage.sealed /\ d + (i - 1) = damage.id)
    BY Zenon DEF Shown
  <2>4. d \in Nat
    BY <2>1
  <2> HIDE DEF c, d
  <2> QED BY <2>1, <2>2, <2>3, <2>4
<1>2. damage.sealed \in BOOLEAN /\ (damage.sealed => damage.id \in 1 .. c - 1)
  BY DEF DamageIs
<1>3. c = d + n
  BY <1>1
<1> HIDE DEF c, d
<1>4. \A i \in 1 .. n : ring[i].entry_id = d + i
  BY <1>1 DEF Tells
<1>5. ASSUME NEW i \in 2 .. n
      PROVE  Chained(i) <=> ~ (damage.sealed /\ d + (i - 1) = damage.id)
  <2>1. CASE damage.sealed /\ d + (i - 1) = damage.id
    <3>1. ring[i].previous_entry_hash[5] # Ruined
      BY <1>1, <2>1, Zenon DEF IsLinked
    <3>2. i - 1 \in 1 .. n
      BY <1>1
    <3>3. ring[i - 1].target = Ruined
      BY <1>1, <2>1, <3>2 DEF Tells
    <3>4. compute_entry_hash(ring[i - 1])[5] = ring[i - 1].target
      BY DEF compute_entry_hash
    <3>5. ~ Chained(i)
      BY <3>1, <3>3, <3>4
    <3> HIDE DEF Chained
    <3> QED BY <2>1, <3>5
  <2>2. CASE ~ (damage.sealed /\ d + (i - 1) = damage.id)
    <3>1. Chained(i)
      BY <1>1, <2>2, Zenon DEF IsLinked
    <3> HIDE DEF Chained
    <3> QED BY <2>2, <3>1
  <2> QED BY <2>1, <2>2
<1>6. ASSUME NEW i \in 2 .. n, ~ Chained(i)
      PROVE  damage.sealed /\ \E j \in 1 .. n : ring[j].entry_id = damage.id
  <2>1. damage.sealed /\ d + (i - 1) = damage.id
    BY <1>5, <1>6
  <2>2. i - 1 \in 1 .. n
    BY <1>1
  <2>3. ring[i - 1].entry_id = damage.id
    BY <1>4, <2>1, <2>2
  <2> QED BY <2>1, <2>2, <2>3
<1>7. ASSUME damage.sealed, NEW j \in 1 .. n, ring[j].entry_id = damage.id
      PROVE  \E i \in 2 .. n : ~ Chained(i)
  <2>1. damage.id = d + j /\ damage.id \in 1 .. c - 1
    BY <1>2, <1>4, <1>7
  <2> DEFINE i == j + 1
  <2>2. i \in 2 .. n /\ i - 1 = j
    BY <1>1, <1>3, <2>1
  <2> HIDE DEF i
  <2>3. ~ Chained(i)
    BY <1>5, <1>7, <2>1, <2>2
  <2> QED BY <2>2, <2>3
<1> HIDE DEF Chained
<1>8. (~ \A i \in 2 .. n : Chained(i))
        <=> damage.sealed /\ \E i \in 1 .. n : ring[i].entry_id = damage.id
  BY <1>6, <1>7, Zenon
<1> QED BY <1>8, Zenon DEF ChainTold, Chained

MocsKept(logged, changes, n) == {m \in changes : m.moc_id > Len(logged) - n}

(* The management of change records that are kept are found and counted. *)
MocsFound(ring, damage, n, kept) ==
  /\ \A m \in kept : \E i \in 1 .. n :
       /\ ring[i].entry_id = m.moc_id /\ ring[i].action = "MOC_CREATE"
       /\ ring[i].entry_id # damage.id => ring[i].target = m.alarm_id
  /\ Cardinality({i \in DOMAIN ring : /\ ring[i].action = "MOC_CREATE"
                                      /\ ring[i].timestamp \in 0 .. Latest})
       = Cardinality(kept)

(* A change that is kept is found and counted. *)
LEMMA MocShows ==
  ASSUME NEW ring, NEW logged, NEW damage, NEW n, NEW tail, NEW changes,
         Shown(ring, logged, damage, n, tail),
         changes = {MocOf(logged, k) : k \in MocPlaces(logged)}
  PROVE  MocsFound(ring, damage, n, MocsKept(logged, changes, n))
<1> DEFINE c == Len(logged)
           d == c - n
           kept == {m \in changes : m.moc_id > d}
           J == {i \in DOMAIN ring : /\ ring[i].action = "MOC_CREATE"
                                     /\ ring[i].timestamp \in 0 .. Latest}
           f == [i \in J |-> MocOf(logged, d + i)]
<1>1. /\ c \in Nat /\ n \in Nat /\ n <= c /\ d \in Nat /\ DOMAIN ring = 1 .. n
      /\ \A i \in 1 .. n : /\ d + i \in 1 .. c
                           /\ tail[i] = logged[d + i] /\ tail[i] \in LoggedRequest
                           /\ Tells(ring[i], tail[i], d + i, damage.id)
  <2>1. ring = [i \in 1 .. n |-> ring[i]]
    BY DEF Shown
  <2>2. DOMAIN ring = 1 .. n
    BY <2>1
  <2>3. c \in Nat /\ n \in Nat /\ n <= c
    BY Zenon DEF Shown
  <2>4. d \in Nat
    BY <2>3
  <2>5. \A i \in 1 .. n : /\ d + i \in 1 .. c
                          /\ tail[i] = logged[d + i] /\ tail[i] \in LoggedRequest
                          /\ Tells(ring[i], tail[i], d + i, damage.id)
    BY Zenon DEF Shown
  <2> HIDE DEF c, d
  <2> QED BY <2>2, <2>3, <2>4, <2>5
<1>2. c = d + n
  BY <1>1
<1>3. \A i \in 1 .. n : i \in J <=> d + i \in MocPlaces(logged)
  <2> SUFFICES ASSUME NEW i \in 1 .. n PROVE i \in J <=> d + i \in MocPlaces(logged)
    OBVIOUS
  <2>1. d + i \in 1 .. c /\ tail[i] = logged[d + i] /\ tail[i] \in LoggedRequest
    BY <1>1
  <2>2. ring[i].action = tail[i].action /\ ring[i].timestamp = tail[i].step
    BY <1>1 DEF Tells
  <2>3. tail[i].step \in 0 .. Latest
    BY <2>1 DEF LoggedRequest
  <2> HIDE DEF c, d
  <2>4. d + i \in MocPlaces(logged) <=> logged[d + i].action = "MOC_CREATE"
    BY <2>1 DEF MocPlaces, c
  <2>5. i \in J <=> ring[i].action = "MOC_CREATE"
    BY <1>1, <2>2, <2>3
  <2> QED BY <2>1, <2>2, <2>4, <2>5
<1>4. J \subseteq 1 .. n
  BY <1>1
<1> HIDE DEF J, c, d
<1>5. \A k : MocOf(logged, k).moc_id = k /\ MocOf(logged, k).alarm_id = logged[k].target
  BY DEF MocOf
<1>6. ASSUME NEW m \in kept PROVE \E i \in J : m = MocOf(logged, d + i)
  <2>1. PICK k \in MocPlaces(logged) : m = MocOf(logged, k)
    OBVIOUS
  <2>2. k > d /\ k \in 1 .. c
    BY <1>5, <2>1 DEF MocPlaces, c
  <2> DEFINE i == k - d
  <2>3. i \in 1 .. n /\ d + i = k
    BY <1>1, <1>2, <2>2
  <2> HIDE DEF i
  <2> QED BY <1>3, <2>1, <2>3
<1>7. ASSUME NEW i \in J PROVE MocOf(logged, d + i) \in kept
  <2>1. d + i \in MocPlaces(logged) /\ d + i > d
    BY <1>1, <1>3, <1>4
  <2> QED BY <1>5, <2>1
<1> HIDE DEF kept
<1>8. f \in Bijection(J, kept)
  <2>1. f \in [J -> kept] /\ \A i \in J : f[i] = MocOf(logged, d + i)
    BY <1>7
  <2> HIDE DEF f
  <2>2. \A m \in kept : \E i \in J : f[i] = m
    BY <1>6, <2>1
  <2>3. ASSUME NEW i \in J, NEW j \in J, f[i] = f[j] PROVE i = j
    <3>1. d + i = d + j
      BY <1>5, <2>1, <2>3
    <3> QED BY <1>1, <1>4, <3>1
  <2>4. f \in Surjection(J, kept)
    BY <2>1, <2>2, Zenon DEF Surjection
  <2>5. f \in Injection(J, kept)
    BY <2>1, <2>3, Zenon DEF Injection, IsInjective
  <2> QED BY <2>4, <2>5 DEF Bijection
<1>9. Cardinality(J) = Cardinality(kept)
  <2>1. ExistsBijection(J, kept)
    BY <1>8, Zenon DEF ExistsBijection
  <2>2. IsFiniteSet(J)
    BY <1>1, <1>4, PlacesCount
  <2> QED BY <2>1, <2>2, FS_Bijection
<1>10. ASSUME NEW m \in kept
       PROVE  \E i \in 1 .. n :
                /\ ring[i].entry_id = m.moc_id /\ ring[i].action = "MOC_CREATE"
                /\ ring[i].entry_id # damage.id => ring[i].target = m.alarm_id
  <2>1. PICK i \in J : m = MocOf(logged, d + i)
    BY <1>6
  <2>2. i \in 1 .. n /\ m.moc_id = d + i /\ m.alarm_id = logged[d + i].target
    BY <1>4, <1>5, <2>1
  <2>3. /\ ring[i].entry_id = d + i
        /\ ring[i].target = (IF d + i = damage.id THEN Ruined ELSE logged[d + i].target)
    BY <1>1, <2>2 DEF Tells
  <2>4. ring[i].action = "MOC_CREATE"
    BY <2>1 DEF J
  <2> QED BY <2>2, <2>3, <2>4
<1>11. MocsFound(ring, damage, n, kept)
  BY <1>9, <1>10, Zenon DEF MocsFound, J
<1> QED BY <1>11, Zenon DEF MocsKept, kept, d, c

(* What the run checks of the trail. *)
LEMMA TrailFollows ==
  ASSUME AuditInv
  PROVE  TrailIsTrue
<1> DEFINE ring == read_order(audit)
           n == Len(ring)
           c == audit.entry_count
           tail == SubSeq(audit.logged, c - n + 1, c)
           damage == audit.damage
           kept == {m \in audit.changes : m.moc_id > c - n}
<1>1. /\ c = Len(audit.logged) /\ DamageIs(damage, c)
      /\ audit.changes = {MocOf(audit.logged, k) : k \in MocPlaces(audit.logged)}
  BY DEF AuditInv, AuditParts
<1>2. Shown(ring, audit.logged, damage, n, tail)
  BY RingShows
<1> HIDE DEF ring, c, tail, damage, n
<1>3. /\ c \in Nat /\ n \in Nat
      /\ \A i \in 1 .. n : /\ tail[i] \in LoggedRequest
                           /\ Tells(ring[i], tail[i], (c - n) + i, damage.id)
  BY <1>1, <1>2 DEF Shown
<1>4. ASSUME NEW i \in 1 .. n
      PROVE  /\ ring[i].entry_id = c - n + i
             /\ ring[i].entry_id # damage.id =>
                  /\ ring[i].timestamp = tail[i].step
                  /\ ring[i].action = tail[i].action
                  /\ ring[i].target = tail[i].target
                  /\ tail[i].actor # NoText => ring[i].actor = tail[i].actor
  <2>1. Tells(ring[i], tail[i], (c - n) + i, damage.id)
    BY <1>3
  <2> HIDE DEF damage
  <2> QED BY <2>1 DEF Tells
<1>5. ~ (\A i \in 2 .. n : ring[i].previous_entry_hash = compute_entry_hash(ring[i - 1]))
        <=> damage.sealed /\ \E i \in 1 .. n : ring[i].entry_id = damage.id
  <2> DEFINE logged == audit.logged
  <2>1. Shown(ring, logged, damage, n, tail) /\ DamageIs(damage, Len(logged))
    BY <1>1, <1>2
  <2> HIDE DEF logged
  <2>2. ChainTold(ring, damage, n)
    BY <2>1, ChainShows
  <2> QED BY <2>2, Zenon DEF ChainTold
<1>6. verify_chain(audit)
        <=> \A i \in 2 .. n : ring[i].previous_entry_hash = compute_entry_hash(ring[i - 1])
  BY Zenon DEF verify_chain, ring, n
<1>7. MocsFound(ring, damage, n, kept)
  <2> DEFINE logged == audit.logged
             changes == audit.changes
  <2>1. /\ Shown(ring, logged, damage, n, tail) /\ c = Len(logged)
        /\ changes = {MocOf(logged, k) : k \in MocPlaces(logged)}
    BY <1>1, <1>2
  <2> HIDE DEF logged, changes
  <2>2. MocsFound(ring, damage, n, MocsKept(logged, changes, n))
    BY <2>1, MocShows
  <2> QED BY <2>1, <2>2, Zenon DEF MocsKept, changes
<1>8. moc_count(audit, 0, Latest) = Cardinality(kept)
  <2>1. moc_count(audit, 0, Latest)
          = Cardinality({i \in DOMAIN ring : /\ ring[i].action = "MOC_CREATE"
                                             /\ ring[i].timestamp \in 0 .. Latest})
    BY Zenon DEF moc_count, ring
  <2> QED BY <1>7, <2>1, Zenon DEF MocsFound
<1>9. ~ verify_chain(audit) <=> damage.sealed /\ \E i \in 1 .. n : ~ ring[i].entry_id # damage.id
  BY <1>5, <1>6, Zenon
<1> QED BY <1>4, <1>7, <1>8, <1>9, Zenon DEF TrailIsTrue, MocsFound, ring, n, c, tail, damage

(* What shift_summary adds up, and what it comes to when times go up. *)
ResponseTime(own, A) ==
  MapThenSumSet(LAMBDA i : own[i].timestamp - own[i - 1].timestamp, A)

(* Times that go up add to no more than the time they span. *)
LEMMA ResponseIs ==
  ASSUME NEW own, NEW m \in Nat, NEW lo \in Nat, NEW hi \in Nat, lo <= hi,
         \A i \in 1 .. m : own[i].timestamp \in lo .. hi,
         \A i \in 2 .. m : own[i - 1].timestamp <= own[i].timestamp,
         NEW A \in SUBSET (2 .. m)
  PROVE  ResponseTime(own, A) \in 0 .. hi - lo
<1> DEFINE S == 2 .. m
           Gap(i) == own[i].timestamp - own[i - 1].timestamp
           f == [i \in S |-> Gap(i)]
           Eq(h) == h = [t \in SUBSET A |->
                           IF t = {} THEN 0
                           ELSE LET x == CHOOSE y \in t : TRUE
                                IN  Gap(x) + h[t \ {x}]]
           iter == CHOOSE h : Eq(h)
<1>1. ResponseTime(own, A) = iter[A]
  BY Zenon DEF ResponseTime, MapThenSumSet, MapThenFoldSet
<1>2. IsFiniteSet(S)
  <2>1. 2 \in Int /\ m \in Int
    OBVIOUS
  <2> QED BY <2>1, FS_Interval
<1>3. f \in [S -> Nat] /\ \A i \in S : f[i] = Gap(i)
  <2>1. ASSUME NEW i \in S PROVE Gap(i) \in Nat
    <3>1. i \in 1 .. m /\ i - 1 \in 1 .. m
      OBVIOUS
    <3>2. own[i].timestamp \in Nat /\ own[i - 1].timestamp \in Nat
      BY <3>1
    <3> QED BY <3>2
  <2> HIDE DEF Gap
  <2> QED BY <2>1
<1>4. f \in [S -> Int]
  <2> HIDE DEF f
  <2> QED BY <1>3
<1> HIDE DEF f, Gap
<1>5. PICK g : g \in Sums(S, f)
  BY <1>2, <1>4, SumsExist
<1>6. /\ g \in [SUBSET S -> Int]
      /\ \A t \in SUBSET S : g[t] = IF t = {} THEN 0 ELSE f[Picked(t)] + g[t \ {Picked(t)}]
  BY <1>5 DEF Sums
<1>7. A \in SUBSET S /\ SUBSET A \subseteq SUBSET S
  OBVIOUS
<1> HIDE DEF S
<1>8. ASSUME NEW t \in SUBSET A
      PROVE  g[t] = IF t = {} THEN 0 ELSE Gap(Picked(t)) + g[t \ {Picked(t)}]
  <2>1. t # {} => Picked(t) \in t
    BY Zenon DEF Picked
  <2>2. t # {} => f[Picked(t)] = Gap(Picked(t))
    BY <1>3, <1>7, <2>1
  <2> QED BY <1>6, <1>7, <2>2
<1> DEFINE ga == [t \in SUBSET A |-> g[t]]
<1>9. ASSUME NEW t \in SUBSET A
      PROVE  ga[t] = IF t = {} THEN 0 ELSE Gap(Picked(t)) + ga[t \ {Picked(t)}]
  <2>1. t \ {Picked(t)} \in SUBSET A
    OBVIOUS
  <2>2. ga[t] = g[t] /\ ga[t \ {Picked(t)}] = g[t \ {Picked(t)}]
    BY <2>1
  <2> HIDE DEF ga
  <2> QED BY <1>8, <2>2
<1>10. ga = [t \in SUBSET A |-> ga[t]]
  OBVIOUS
<1> HIDE DEF ga
<1>11. Eq(ga)
  <2>1. ga = [t \in SUBSET A |-> IF t = {} THEN 0 ELSE Gap(Picked(t)) + ga[t \ {Picked(t)}]]
    BY <1>9, <1>10, Zenon
  <2> QED BY <2>1, Zenon DEF Picked
<1>12. Eq(iter)
  BY <1>11, Zenon
<1>13. ASSUME NEW h, Eq(h), NEW t \in SUBSET A
       PROVE  h[t] = IF t = {} THEN 0 ELSE Gap(Picked(t)) + h[t \ {Picked(t)}]
  BY <1>13 DEF Picked
<1> HIDE DEF iter, Eq
<1> DEFINE T == {t \in SUBSET A : iter[t] = g[t]}
<1>14. {} \in T
  <2>1. {} \in SUBSET A
    OBVIOUS
  <2>2. iter[{}] = 0 /\ g[{}] = 0
    BY <1>8, <1>12, <1>13, <2>1
  <2> QED BY <2>1, <2>2
<1>15. ASSUME NEW t \in SUBSET A, t # {}, \A x \in t : t \ {x} \in T
       PROVE  t \in T
  <2>1. Picked(t) \in t
    BY <1>15 DEF Picked
  <2>2. iter[t \ {Picked(t)}] = g[t \ {Picked(t)}]
    BY <1>15, <2>1
  <2>3. /\ iter[t] = Gap(Picked(t)) + iter[t \ {Picked(t)}]
        /\ g[t] = Gap(Picked(t)) + g[t \ {Picked(t)}]
    BY <1>8, <1>12, <1>13, <1>15
  <2> QED BY <2>2, <2>3
<1>16. iter[A] = g[A]
  <2> HIDE DEF T
  <2>1. IsFiniteSet(A)
    BY <1>2, <1>7, FS_Subset
  <2>2. SUBSET A \subseteq T
    BY <1>14, <1>15, <2>1, SubsetInduction
  <2>3. A \in SUBSET A
    OBVIOUS
  <2>4. A \in T
    BY <2>2, <2>3
  <2> QED BY <2>4 DEF T
<1> HIDE DEF T
<1>17. \A t \in SUBSET S : g[t] \in Nat
  BY <1>2, <1>3, <1>5, SumsAreNat
<1>18. g[A] <= g[S]
  <2>1. S \in SUBSET S
    OBVIOUS
  <2> QED BY <1>2, <1>3, <1>5, <1>7, <2>1, SumsGrow
<1>19. AnyOrder(S, f, g)
  BY <1>2, <1>4, <1>5, SumsAnyOrder
<1>20. m > 0 => g[S] = own[m].timestamp - own[1].timestamp
  <2> DEFINE U == {k \in 0 .. m : k > 0 => g[2 .. k] = own[k].timestamp - own[1].timestamp}
  <2>1. 0 \in U
    OBVIOUS
  <2>2. ASSUME NEW k \in 0 .. m - 1, k \in U PROVE k + 1 \in U
    <3>1. CASE k = 0
      <4>1. 2 .. 1 = {} /\ {} \in SUBSET S
        OBVIOUS
      <4>2. g[2 .. 1] = 0
        BY <1>6, <4>1
      <4>3. 1 \in 1 .. m
        BY <3>1
      <4>4. own[1].timestamp - own[1].timestamp = 0
        BY <4>3
      <4>5. k + 1 = 1 /\ 1 \in 0 .. m
        BY <3>1
      <4> QED BY <4>2, <4>4, <4>5
    <3>2. CASE k # 0
      <4> DEFINE j == k + 1
      <4>1. j \in S /\ j \in 0 .. m /\ k > 0 /\ j - 1 = k /\ j \in 2 .. j
        BY <3>2 DEF S
      <4>2. 2 .. j \in SUBSET S /\ (2 .. j) \ {j} = 2 .. k
        BY <4>1 DEF S
      <4> HIDE DEF j
      <4>3. g[2 .. j] = f[j] + g[2 .. k]
        BY <1>19, <4>1, <4>2 DEF AnyOrder
      <4>4. g[2 .. k] = own[k].timestamp - own[1].timestamp
        BY <2>2, <4>1
      <4>5. f[j] = own[j].timestamp - own[k].timestamp
        BY <1>3, <4>1 DEF Gap
      <4>6. 1 \in 1 .. m /\ j \in 1 .. m /\ k \in 1 .. m
        BY <4>1 DEF S
      <4>7. own[1].timestamp \in Nat /\ own[j].timestamp \in Nat /\ own[k].timestamp \in Nat
        BY <4>6
      <4>8. g[2 .. j] = own[j].timestamp - own[1].timestamp
        BY <4>3, <4>4, <4>5, <4>7
      <4>9. j \in U
        BY <4>1, <4>8
      <4> QED BY <4>9 DEF j
    <3> QED BY <3>1, <3>2
  <2> HIDE DEF U
  <2>3. 0 .. m \subseteq U
    BY <2>1, <2>2, SetInduction
  <2>4. m \in U
    BY <2>3
  <2> QED BY <2>4 DEF U, S
<1>21. g[A] \in Nat /\ g[S] \in Nat
  <2>1. S \in SUBSET S
    OBVIOUS
  <2> QED BY <1>7, <1>17, <2>1
<1>22. CASE m > 0
  <2>1. 1 \in 1 .. m /\ m \in 1 .. m
    BY <1>22
  <2>2. own[1].timestamp \in lo .. hi /\ own[m].timestamp \in lo .. hi
    BY <2>1
  <2>3. g[S] <= hi - lo
    BY <1>20, <1>22, <2>2
  <2> QED BY <1>1, <1>16, <1>18, <1>21, <2>3
<1>23. CASE m = 0
  <2>1. S = {}
    BY <1>23 DEF S
  <2>2. A = {} /\ {} \in SUBSET S
    BY <1>7, <2>1
  <2>3. g[A] = 0
    BY <1>6, <2>2
  <2> QED BY <1>1, <1>16, <2>3
<1> QED BY <1>22, <1>23

StepsGoUp(tail, n) == \A i \in 2 .. n : tail[i - 1].step <= tail[i].step

(* Steps that do not go back keep their order throughout. *)
LEMMA StepsInOrder ==
  ASSUME NEW n \in Nat, NEW tail, \A i \in 1 .. n : tail[i].step \in Nat, StepsGoUp(tail, n)
  PROVE  \A i, j \in 1 .. n : i <= j => tail[i].step <= tail[j].step
<1> DEFINE T == {j \in 0 .. n : \A i \in 1 .. j : tail[i].step <= tail[j].step}
<1>1. 0 \in T
  OBVIOUS
<1>2. ASSUME NEW j \in 0 .. n - 1, j \in T PROVE j + 1 \in T
  <2> DEFINE k == j + 1
  <2>1. k \in 1 .. n /\ k \in 0 .. n /\ j \in Nat
    OBVIOUS
  <2>2. ASSUME NEW i \in 1 .. k PROVE tail[i].step <= tail[k].step
    <3>1. CASE i = k
      BY <2>1, <3>1
    <3>2. CASE i # k
      <4>1. i \in 1 .. j /\ j \in 1 .. n /\ k \in 2 .. n /\ k - 1 = j
        BY <3>2
      <4> HIDE DEF k
      <4>2. tail[j].step <= tail[k].step
        BY <4>1 DEF StepsGoUp
      <4>3. i \in 1 .. n
        BY <4>1
      <4>4. tail[i].step <= tail[j].step
        BY <1>2, <4>1
      <4>5. tail[i].step \in Nat /\ tail[j].step \in Nat /\ tail[k].step \in Nat
        BY <2>1, <4>1, <4>3
      <4> QED BY <4>2, <4>4, <4>5
    <3> QED BY <3>1, <3>2
  <2> HIDE DEF k
  <2>3. k \in T
    BY <2>1, <2>2
  <2> QED BY <2>3 DEF k
<1> HIDE DEF T
<1>3. 0 .. n \subseteq T
  BY <1>1, <1>2, SetInduction
<1>4. ASSUME NEW i \in 1 .. n, NEW j \in 1 .. n, i <= j PROVE tail[i].step <= tail[j].step
  <2>1. j \in T /\ i \in 1 .. j
    BY <1>3, <1>4
  <2> QED BY <2>1 DEF T
<1> QED BY <1>4

(* A query that is not cut short gathers every entry it asks for. *)
AnswerTold(ring, I) ==
  /\ Oldest(Gathered(ring, I), QueryMax) = Gathered(ring, I)
  /\ Len(Gathered(ring, I)) = Cardinality(I)
  /\ \A i \in I : \E j \in DOMAIN Gathered(ring, I) : Gathered(ring, I)[j] = ring[i]

(* What is read of the ring is a sequence. *)
LEMMA RingIsSeq ==
  ASSUME NEW n \in Nat, NEW ring, ring = [i \in 1 .. n |-> ring[i]]
  PROVE  ring \in Seq({ring[i] : i \in 1 .. n}) /\ DOMAIN ring = 1 .. n
<1> DEFINE S == {ring[i] : i \in 1 .. n}
<1>1. ring \in [1 .. n -> S] /\ DOMAIN ring = 1 .. n
  OBVIOUS
<1> HIDE DEF S
<1>2. ring \in Seq(S)
  BY <1>1
<1> QED BY <1>1, <1>2 DEF S

(* A query below its limit answers with everything that fits. *)
LEMMA AnswerIs ==
  ASSUME NEW n \in Nat, NEW ring, ring = [i \in 1 .. n |-> ring[i]], NEW I, I \subseteq 1 .. n,
         Len(Oldest(Gathered(ring, I), QueryMax)) < QueryMax
  PROVE  AnswerTold(ring, I)
<1> DEFINE S == {ring[i] : i \in 1 .. n}
           g == Gathered(ring, I)
<1>1. ring \in Seq(S) /\ I \subseteq DOMAIN ring
  <2>1. ring \in Seq(S) /\ DOMAIN ring = 1 .. n
    BY RingIsSeq
  <2> QED BY <2>1
<1> HIDE DEF S
<1>2. g \in Seq(S) /\ Picks(g, ring, I) /\ Len(g) = Cardinality(I)
  BY <1>1, GatheredIs, GatheredLen
<1> HIDE DEF g
<1>3. Len(g) \in Nat /\ DOMAIN g = 1 .. Len(g) /\ QueryMax \in Nat
  BY <1>2, LenProperties, AuditConstants
<1>4. Oldest(g, QueryMax) = g
  <2> SUFFICES ASSUME Len(g) > QueryMax PROVE FALSE
    BY DEF Oldest
  <2>1. Oldest(g, QueryMax) = SubSeq(g, 1, QueryMax)
    BY DEF Oldest
  <2>2. Len(SubSeq(g, 1, QueryMax)) = QueryMax
    <3>1. 1 \in 1 .. Len(g) + 1 /\ QueryMax \in 0 .. Len(g)
      BY <1>3
    <3>2. Len(SubSeq(g, 1, QueryMax)) = IF 1 <= QueryMax THEN QueryMax - 1 + 1 ELSE 0
      BY <1>2, <1>3, <3>1, SubSeqProperties
    <3> QED BY <1>3, <3>2
  <2>3. Len(Oldest(g, QueryMax)) < QueryMax
    BY DEF g
  <2> QED BY <1>3, <2>1, <2>2, <2>3
<1>5. ASSUME NEW i \in I PROVE \E j \in DOMAIN g : g[j] = ring[i]
  <2>1. PICK p : Lists(p, Len(g), I) /\ \A j \in 1 .. Len(g) : g[j] = ring[p[j]]
    BY <1>2, Zenon DEF Picks
  <2>2. PICK j \in 1 .. Len(g) : p[j] = i
    BY <2>1 DEF Lists
  <2> QED BY <1>3, <2>1, <2>2
<1> QED BY <1>2, <1>4, <1>5 DEF AnswerTold, g

(* What shift_summary says of a sorted ring. *)
LEMMA SummaryIs ==
  ASSUME NEW ring, NEW logged, NEW damage, NEW n, NEW tail,
         Shown(ring, logged, damage, n, tail), StepsGoUp(tail, n), n > 0,
         NEW J, J \subseteq 1 .. n, NEW A, A \subseteq DOMAIN Gathered(ring, J), 1 \notin A
  PROVE  ResponseTime(Gathered(ring, J), A) \in 0 .. tail[n].step - tail[1].step
<1> DEFINE S == {ring[i] : i \in 1 .. n}
           own == Gathered(ring, J)
           m == Len(own)
<1>1. n \in Nat /\ ring = [i \in 1 .. n |-> ring[i]] /\ 1 \in 1 .. n /\ n \in 1 .. n
  <2>1. n \in Nat /\ ring = [i \in 1 .. n |-> ring[i]]
    BY DEF Shown
  <2> QED BY <2>1
<1>2. \A i \in 1 .. n : ring[i].timestamp = tail[i].step /\ tail[i].step \in Nat
  <2> SUFFICES ASSUME NEW i \in 1 .. n
               PROVE  ring[i].timestamp = tail[i].step /\ tail[i].step \in Nat
    OBVIOUS
  <2>1. tail[i] \in LoggedRequest /\ Tells(ring[i], tail[i], (Len(logged) - n) + i, damage.id)
    BY DEF Shown
  <2>2. tail[i].step \in 0 .. Latest
    BY <2>1 DEF LoggedRequest
  <2>3. 0 .. Latest \subseteq Nat
    BY AuditConstants DEF Latest
  <2> QED BY <2>1, <2>2, <2>3 DEF Tells
<1>3. \A i, j \in 1 .. n : i <= j => tail[i].step <= tail[j].step
  BY <1>1, <1>2, StepsInOrder
<1>4. own \in Seq(S) /\ Picks(own, ring, J)
  <2>1. ring \in Seq(S) /\ DOMAIN ring = 1 .. n
    BY <1>1, RingIsSeq
  <2> HIDE DEF S
  <2>2. J \subseteq DOMAIN ring
    BY <2>1
  <2> QED BY <2>1, <2>2, GatheredIs
<1> HIDE DEF S, own
<1>5. m \in Nat /\ DOMAIN own = 1 .. m
  BY <1>4, LenProperties
<1>6. PICK p : Lists(p, m, J) /\ \A j \in 1 .. m : own[j] = ring[p[j]]
  BY <1>4, Zenon DEF Picks
<1> HIDE DEF m
<1>7. \A j \in 1 .. m : p[j] \in 1 .. n /\ own[j].timestamp = tail[p[j]].step
  BY <1>2, <1>6 DEF Lists
<1> DEFINE lo == tail[1].step
           hi == tail[n].step
<1>8. lo \in Nat /\ hi \in Nat /\ lo <= hi
  BY <1>1, <1>2, <1>3
<1>9. ASSUME NEW j \in 1 .. m PROVE own[j].timestamp \in lo .. hi
  <2>1. p[j] \in 1 .. n /\ 1 <= p[j] /\ p[j] <= n
    BY <1>1, <1>7
  <2>2. lo <= tail[p[j]].step /\ tail[p[j]].step <= hi /\ tail[p[j]].step \in Nat
    BY <1>1, <1>2, <1>3, <2>1
  <2> HIDE DEF lo, hi
  <2> QED BY <1>7, <1>8, <2>2
<1>10. ASSUME NEW j \in 2 .. m PROVE own[j - 1].timestamp <= own[j].timestamp
  <2>1. j \in 1 .. m /\ j - 1 \in 1 .. m /\ j - 1 < j
    BY <1>5
  <2>2. p[j - 1] < p[j] /\ p[j - 1] \in 1 .. n /\ p[j] \in 1 .. n
    BY <1>6, <1>7, <2>1 DEF Lists
  <2>3. p[j - 1] <= p[j]
    BY <1>1, <2>2
  <2>4. tail[p[j - 1]].step <= tail[p[j]].step
    BY <1>3, <2>2, <2>3
  <2> QED BY <1>7, <2>1, <2>4
<1>11. A \in SUBSET (2 .. m)
  <2>1. A \subseteq 1 .. m
    BY <1>5 DEF own
  <2> QED BY <1>5, <2>1
<1> HIDE DEF lo, hi
<1>12. ResponseTime(own, A) \in 0 .. hi - lo
  BY <1>5, <1>8, <1>9, <1>10, <1>11, ResponseIs
<1> QED BY <1>12 DEF own, lo, hi

(* What the run checks of the compliance report. *)
LEMMA ComplianceFollows ==
  ASSUME AuditInv
  PROVE  ComplianceIsFair
<1> DEFINE ring == read_order(audit)
           n == Len(ring)
           c == audit.entry_count
           tail == SubSeq(audit.logged, c - n + 1, c)
           damage == audit.damage
           sorted == \A i \in 2 .. n : tail[i - 1].step <= tail[i].step
           Named(r) == r.actor \notin {"", NoText}
           Explained(r) == r.action = "SHELVE" => r.reason \notin {"", NoText}
           AnswersAll(answer, wanted) ==
             Len(answer) < QueryMax => Len(answer) = Cardinality(wanted)
<1>1. /\ c = Len(audit.logged) /\ DamageIs(damage, c) /\ audit.clock \in Int
  BY DEF AuditInv, AuditParts
<1>2. Shown(ring, audit.logged, damage, n, tail)
  BY RingShows
<1>3. compliance_check(audit) <=>
        /\ \A i \in 2 .. n : ring[i - 1].timestamp <= ring[i].timestamp
        /\ \A i \in DOMAIN ring : ring[i].actor # ""
        /\ verify_chain(audit)
        /\ \A i \in DOMAIN ring : ring[i].entry_id = ring[1].entry_id + i - 1
        /\ \A i \in DOMAIN ring : ring[i].action = "SHELVE" => ring[i].reason # ""
  BY Zenon DEF compliance_check, InTimeOrder
<1>4. verify_chain(audit)
        <=> \A i \in 2 .. n : ring[i].previous_entry_hash = compute_entry_hash(ring[i - 1])
  BY Zenon DEF verify_chain
<1> DEFINE Read(I) == Oldest(Gathered(ring, I), QueryMax)
<1>5. /\ \A x : query_by_alarm(audit, x) = Read({i \in DOMAIN ring : ring[i].target = x})
      /\ \A x : query_by_operator(audit, x) = Read({i \in DOMAIN ring : ring[i].actor = x})
      /\ query_by_time(audit, audit.clock, audit.clock)
           = Read({i \in DOMAIN ring : ring[i].timestamp \in audit.clock .. audit.clock})
  BY Zenon DEF query_by_alarm, query_by_operator, query_by_time
<1> DEFINE Own(x) == Gathered(ring, {i \in DOMAIN ring : /\ ring[i].actor = x
                                                         /\ ring[i].timestamp \in 0 .. Latest})
<1>6. \A x : shift_summary(audit, x, 0, Latest).total_response_time =
               ResponseTime(Own(x), {i \in DOMAIN Own(x) : Own(x)[i].action = "ACKNOWLEDGE"} \ {1})
  <2> TAKE x
  <2> DEFINE acks == {i \in DOMAIN Own(x) : Own(x)[i].action = "ACKNOWLEDGE"}
             count == Cardinality(acks)
             total == ResponseTime(Own(x), acks \ {1})
  <2>1. shift_summary(audit, x, 0, Latest) = [total_acks |-> count, total_response_time |-> total]
    BY Zenon DEF shift_summary, ResponseTime
  <2> HIDE DEF count, total
  <2>2. shift_summary(audit, x, 0, Latest).total_response_time = total
    BY <2>1
  <2> QED BY <2>2 DEF total
<1> HIDE DEF ring, c, tail, damage, n, Own, Read
<1>7. /\ n \in Nat /\ c \in Nat /\ ring = [i \in 1 .. n |-> ring[i]]
      /\ \A i \in 1 .. n : /\ tail[i] \in LoggedRequest
                           /\ Tells(ring[i], tail[i], (c - n) + i, damage.id)
      /\ c <= RingSize => \A i \in 1 .. n : ring[i].actor = Written("", tail[i].actor)
  BY <1>1, <1>2 DEF Shown
<1>8. DOMAIN ring = 1 .. n
  BY <1>7
<1>18. n \in Nat /\ c \in Nat
  BY <1>7
<1>19. ring = [i \in 1 .. n |-> ring[i]]
  BY <1>7
<1>20. damage.sealed => damage.id # 0
  <2>1. damage.sealed => damage.id \in 1 .. c - 1
    BY <1>1, Zenon DEF DamageIs
  <2> HIDE DEF damage
  <2> QED BY <1>18, <2>1
<1>9. ASSUME NEW i \in 1 .. n
      PROVE  /\ ring[i].entry_id = (c - n) + i /\ ring[i].timestamp = tail[i].step
             /\ ring[i].action = tail[i].action
             /\ tail[i].actor # NoText => ring[i].actor = tail[i].actor
             /\ tail[i].reason # NoText => ring[i].reason = tail[i].reason
             /\ damage.id = 0 => ring[i].target = tail[i].target
             /\ tail[i].step \in 0 .. Latest
  <2>1. Tells(ring[i], tail[i], (c - n) + i, damage.id) /\ tail[i] \in LoggedRequest
    BY <1>7
  <2>2. (c - n) + i \in 1 .. c
    BY <1>1, <1>2 DEF Shown
  <2>3. damage.id = 0 => (c - n) + i # damage.id
    <3>1. (c - n) + i # 0
      BY <1>18, <2>2
    <3> QED BY <3>1
  <2>4. tail[i].step \in 0 .. Latest
    BY <2>1 DEF LoggedRequest
  <2> QED BY <2>1, <2>3, <2>4 DEF Tells
<1>10. \A i \in 2 .. n : i \in 1 .. n /\ i - 1 \in 1 .. n
  BY <1>18
<1>21. ASSUME NEW i \in 1 .. n PROVE ring[i].entry_id = ring[1].entry_id + i - 1
  <2>1. 1 \in 1 .. n /\ i \in Nat
    BY <1>18
  <2>2. ring[i].entry_id = (c - n) + i /\ ring[1].entry_id = (c - n) + 1
    BY <1>9, <2>1
  <2> QED BY <1>18, <2>1, <2>2
<1>11. sorted <=> \A i \in 2 .. n : ring[i - 1].timestamp <= ring[i].timestamp
  BY <1>9, <1>10
<1>12. compliance_check(audit) =>
         /\ sorted
         /\ audit.entry_count <= RingSize => \A i \in 1 .. n : Named(tail[i])
  <2> SUFFICES ASSUME compliance_check(audit)
               PROVE  sorted /\ (c <= RingSize => \A i \in 1 .. n : Named(tail[i]))
    BY DEF c
  <2>1. sorted
    BY <1>3, <1>11
  <2>2. ASSUME c <= RingSize, NEW i \in 1 .. n PROVE Named(tail[i])
    <3>1. ring[i].actor = Written("", tail[i].actor) /\ ring[i].actor # ""
      BY <1>3, <1>7, <1>8, <2>2
    <3> QED BY <3>1 DEF Written
  <2> QED BY <2>1, <2>2
<1>13. /\ sorted /\ audit.damage.id = 0
       /\ \A i \in 1 .. n : Named(tail[i]) /\ Explained(tail[i])
       => compliance_check(audit)
  <2> SUFFICES ASSUME sorted, damage.id = 0,
                      \A i \in 1 .. n : Named(tail[i]) /\ Explained(tail[i])
               PROVE  compliance_check(audit)
    BY DEF damage
  <2>1. \A i \in DOMAIN ring : ring[i].actor # ""
    BY <1>8, <1>9
  <2>2. verify_chain(audit)
    <3>1. ~ damage.sealed
      BY <1>20
    <3>2. (~ \A i \in 2 .. n : ring[i].previous_entry_hash = compute_entry_hash(ring[i - 1]))
            <=> damage.sealed /\ \E i \in 1 .. n : ring[i].entry_id = damage.id
      <4> DEFINE logged == audit.logged
      <4>1. Shown(ring, logged, damage, n, tail) /\ DamageIs(damage, Len(logged))
        BY <1>1, <1>2
      <4> HIDE DEF logged
      <4>2. ChainTold(ring, damage, n)
        BY <4>1, ChainShows
      <4> QED BY <4>2, Zenon DEF ChainTold
    <3> QED BY <1>4, <3>1, <3>2, Zenon
  <2>3. \A i \in DOMAIN ring : ring[i].entry_id = ring[1].entry_id + i - 1
    BY <1>8, <1>21
  <2>4. \A i \in DOMAIN ring : ring[i].action = "SHELVE" => ring[i].reason # ""
    BY <1>8, <1>9
  <2> QED BY <1>3, <1>11, <2>1, <2>2, <2>3, <2>4
<1>14. ASSUME NEW I, I \subseteq 1 .. n, Len(Read(I)) < QueryMax
       PROVE  /\ Read(I) = Gathered(ring, I) /\ Len(Read(I)) = Cardinality(I)
              /\ \A i \in I : \E j \in DOMAIN Read(I) : Read(I)[j] = ring[i]
  <2>1. AnswerTold(ring, I)
    <3>1. Len(Oldest(Gathered(ring, I), QueryMax)) < QueryMax
      BY <1>14 DEF Read
    <3> QED BY <1>14, <1>18, <1>19, <3>1, AnswerIs
  <2>2. Read(I) = Gathered(ring, I)
    BY <2>1 DEF Read, AnswerTold
  <2> QED BY <2>1, <2>2, Zenon DEF AnswerTold
<1>15. \A x \in {r.target : r \in Requests} :
         audit.damage.id = 0 =>
           AnswersAll(query_by_alarm(audit, x), {i \in 1 .. n : tail[i].target = x})
  <2> SUFFICES ASSUME NEW x, damage.id = 0, Len(query_by_alarm(audit, x)) < QueryMax
               PROVE  Len(query_by_alarm(audit, x)) = Cardinality({i \in 1 .. n : tail[i].target = x})
    BY DEF damage
  <2> DEFINE I == {i \in DOMAIN ring : ring[i].target = x}
  <2>1. I = {i \in 1 .. n : tail[i].target = x} /\ I \subseteq 1 .. n
    BY <1>8, <1>9
  <2>2. query_by_alarm(audit, x) = Read(I)
    BY <1>5
  <2> HIDE DEF I
  <2>3. Len(Read(I)) = Cardinality(I)
    BY <1>14, <2>1, <2>2
  <2> QED BY <2>1, <2>2, <2>3
<1>16. ASSUME NEW who \in {r.actor : r \in Requests} \ {"", NoText}
       PROVE  /\ \A i \in 1 .. n : tail[i].actor = who /\ Len(query_by_operator(audit, who)) < QueryMax =>
                   \E j \in DOMAIN query_by_operator(audit, who) :
                     query_by_operator(audit, who)[j].entry_id = ring[i].entry_id
              /\ sorted /\ n > 0 =>
                   shift_summary(audit, who, 0, Latest).total_response_time
                     \in 0 .. tail[n].step - tail[1].step
  <2>1. ASSUME NEW i \in 1 .. n, tail[i].actor = who,
               Len(query_by_operator(audit, who)) < QueryMax
        PROVE  \E j \in DOMAIN query_by_operator(audit, who) :
                 query_by_operator(audit, who)[j].entry_id = ring[i].entry_id
    <3> DEFINE I == {k \in DOMAIN ring : ring[k].actor = who}
    <3>1. I \subseteq 1 .. n /\ i \in I
      <4>1. tail[i].actor # NoText
        BY <2>1
      <4>2. ring[i].actor = who
        BY <1>9, <2>1, <4>1
      <4> QED BY <1>8, <4>2
    <3>2. query_by_operator(audit, who) = Read(I)
      BY <1>5
    <3> HIDE DEF I
    <3>3. \E j \in DOMAIN Read(I) : Read(I)[j] = ring[i]
      BY <1>14, <2>1, <3>1, <3>2
    <3> QED BY <3>2, <3>3
  <2>2. ASSUME sorted, n > 0
        PROVE  shift_summary(audit, who, 0, Latest).total_response_time
                 \in 0 .. tail[n].step - tail[1].step
    <3> DEFINE J == {i \in DOMAIN ring : ring[i].actor = who /\ ring[i].timestamp \in 0 .. Latest}
               A == {i \in DOMAIN Own(who) : Own(who)[i].action = "ACKNOWLEDGE"} \ {1}
    <3>1. J \subseteq 1 .. n /\ Own(who) = Gathered(ring, J)
      <4>1. J \subseteq 1 .. n
        BY <1>8
      <4>2. Own(who) = Gathered(ring, J)
        BY Zenon DEF Own
      <4> QED BY <4>1, <4>2
    <3>2. A \subseteq DOMAIN Own(who) /\ 1 \notin A
      OBVIOUS
    <3> HIDE DEF A, J
    <3>3. A \subseteq DOMAIN Gathered(ring, J)
      BY <3>1, <3>2
    <3>4. StepsGoUp(tail, n)
      BY <2>2 DEF StepsGoUp
    <3>5. ResponseTime(Gathered(ring, J), A) \in 0 .. tail[n].step - tail[1].step
      <4> DEFINE logged == audit.logged
      <4>1. Shown(ring, logged, damage, n, tail)
        BY <1>2
      <4> HIDE DEF logged
      <4> QED BY <2>2, <3>1, <3>2, <3>3, <3>4, <4>1, SummaryIs
    <3>6. shift_summary(audit, who, 0, Latest).total_response_time = ResponseTime(Own(who), A)
      BY <1>6, Zenon DEF A
    <3> QED BY <3>1, <3>5, <3>6
  <2> QED BY <2>1, <2>2
<1>17. AnswersAll(query_by_time(audit, audit.clock, audit.clock),
                  {i \in 1 .. n : tail[i].step = audit.clock})
  <2> DEFINE q == query_by_time(audit, audit.clock, audit.clock)
             t == audit.clock
             I == {i \in DOMAIN ring : ring[i].timestamp \in t .. t}
  <2> SUFFICES ASSUME Len(q) < QueryMax
               PROVE  Len(q) = Cardinality({i \in 1 .. n : tail[i].step = t})
    OBVIOUS
  <2>1. q = Read(I)
    BY <1>5
  <2>2. \A i \in 1 .. n : ring[i].timestamp \in t .. t <=> tail[i].step = t
    <3> TAKE i \in 1 .. n
    <3>1. ring[i].timestamp = tail[i].step
      BY <1>9
    <3>2. t \in Int
      BY <1>1
    <3> HIDE DEF t
    <3> QED BY <3>1, <3>2
  <2>3. I = {i \in 1 .. n : tail[i].step = t} /\ I \subseteq 1 .. n
    BY <1>8, <2>2
  <2> HIDE DEF I, q
  <2>4. Len(Read(I)) = Cardinality(I)
    BY <1>14, <2>1, <2>3
  <2> QED BY <2>1, <2>3, <2>4
<1> QED BY <1>12, <1>13, <1>15, <1>16, <1>17, Zenon
        DEF ComplianceIsFair, ring, n, c, tail, damage

(* What is true of the records: of each of them, whichever part moves. *)
RecordsInv ==
  /\ AuditInv /\ KpiSound(kpi) /\ ChatterInv /\ RollingSound(rolling) /\ MadSound(mad)
  /\ part \in Parts

(* A step that leaves the records alone. *)
LEMMA RecordsStay ==
  ASSUME RecordsInv, UNCHANGED <<recordVars, part>>
  PROVE  RecordsInv'
<1>1. audit' = audit /\ kpi' = kpi /\ chatter' = chatter /\ rolling' = rolling /\ mad' = mad
      /\ part' = part
  BY DEF recordVars
<1>2. AuditInv' /\ ChatterInv'
  BY <1>1 DEF RecordsInv, AuditInv, ChatterInv
<1>3. KpiSound(kpi') /\ RollingSound(rolling') /\ MadSound(mad') /\ part' \in Parts
  BY <1>1 DEF RecordsInv
<1> QED BY <1>2, <1>3 DEF RecordsInv

(* A step of one part leaves the others alone. *)
LEMMA RecordsMove ==
  ASSUME RecordsInv, RecordsNext, part' = part
  PROVE  RecordsInv'
<1>0. AuditInv /\ KpiSound(kpi) /\ ChatterInv /\ RollingSound(rolling) /\ MadSound(mad)
      /\ part' \in Parts
  BY DEF RecordsInv
<1>1. ASSUME UNCHANGED audit PROVE AuditInv'
  BY <1>0, <1>1 DEF AuditInv
<1>2. ASSUME UNCHANGED kpi PROVE KpiSound(kpi')
  BY <1>0, <1>2
<1>3. ASSUME UNCHANGED chatter PROVE ChatterInv'
  BY <1>0, <1>3 DEF ChatterInv
<1>4. ASSUME UNCHANGED rolling PROVE RollingSound(rolling')
  BY <1>0, <1>4
<1>5. ASSUME UNCHANGED mad PROVE MadSound(mad')
  BY <1>0, <1>5
<1>6. CASE AuditNext /\ UNCHANGED <<kpi, chatter, rolling, mad>>
  <2>1. AuditInv'
    BY <1>0, <1>6, AuditStep
  <2> QED BY <2>1, <1>0, <1>2, <1>3, <1>4, <1>5, <1>6 DEF RecordsInv
<1>7. CASE (\E a \in DOMAIN KpiPriority : Transition(a)) /\ UNCHANGED <<audit, chatter, rolling, mad>>
  <2>1. PICK a \in KpiAlarms : Transition(a)
    BY <1>7 DEF KpiAlarms
  <2>2. KpiSound(kpi')
    BY <2>1, <1>0, KpiStep
  <2> QED BY <2>2, <1>0, <1>1, <1>3, <1>4, <1>5, <1>7 DEF RecordsInv
<1>8. CASE /\ ChatterReset \/ \E gap \in Gaps : ChatterTransition(gap)
           /\ UNCHANGED <<audit, kpi, rolling, mad>>
  <2>1. ChatterInv'
    BY <1>8, <1>0, ChatterResets, ChatterMoves
  <2> QED BY <2>1, <1>0, <1>1, <1>2, <1>4, <1>5, <1>8 DEF RecordsInv
<1>9. CASE (\E a \in Alarm, gap \in Gaps : Record(a, gap)) /\ UNCHANGED <<audit, kpi, chatter, mad>>
  <2>1. PICK a \in Alarm, gap \in Gaps : Record(a, gap)
    BY <1>9
  <2>2. RollingSound(rolling')
    BY <2>1, <1>0, RollingStep
  <2> QED BY <2>2, <1>0, <1>1, <1>2, <1>3, <1>5, <1>9 DEF RecordsInv
<1>10. CASE MadNext /\ UNCHANGED <<audit, kpi, chatter, rolling>>
  <2>1. MadSound(mad')
    BY <1>10, <1>0, MadStep
  <2> QED BY <2>1, <1>0, <1>1, <1>2, <1>3, <1>4, <1>10 DEF RecordsInv
<1>11. \/ AuditNext /\ UNCHANGED <<kpi, chatter, rolling, mad>>
       \/ (\E a \in DOMAIN KpiPriority : Transition(a)) /\ UNCHANGED <<audit, chatter, rolling, mad>>
       \/ (ChatterReset \/ \E gap \in Gaps : ChatterTransition(gap))
          /\ UNCHANGED <<audit, kpi, rolling, mad>>
       \/ (\E a \in Alarm, gap \in Gaps : Record(a, gap)) /\ UNCHANGED <<audit, kpi, chatter, mad>>
       \/ MadNext /\ UNCHANGED <<audit, kpi, chatter, rolling>>
  BY Zenon DEF RecordsNext
<1> QED BY <1>6, <1>7, <1>8, <1>9, <1>10, <1>11

(* The property of the part that moves. *)
LEMMA RecordsFollow ==
  ASSUME RecordsInv
  PROVE  RecordsAreTrue
<1>1. TrailIsTrue /\ ComplianceIsFair
  BY TrailFollows, ComplianceFollows DEF RecordsInv
<1>2. CountsCover /\ ChatterIsSeen
  BY CountsFollow, ChatterFollows DEF RecordsInv
<1>3. HistoryIsTheDay
  BY HistoryFollows DEF RecordsInv
<1>4. DatabaseIsSound
  BY DatabaseFollows DEF RecordsInv
<1>5. part \in {"alarms", "audit", "counts", "chatter", "history", "database"}
  BY PartsAssumption DEF RecordsInv
<1> QED BY <1>1, <1>2, <1>3, <1>4, <1>5 DEF RecordsAreTrue

(* The ring of the audit trail gives back the last entries in their order *)
(* and shows what was damaged, the compliance report is what the kept *)
(* entries say, the indicators count what is active, the detector sees *)
(* what chatters, the rolling history is the last day and what it yields, *)
(* and the master alarm database counts what is rationalized: for any size *)
(* of the ring, of the histories and of the database. *)
THEOREM RecordsAreTrueHolds == AlarmsSpec => []RecordsAreTrue
<1>1. AlarmsInit => RecordsInv
  BY AuditStarts, KpiStarts, ChatterStarts, RollingStarts, MadStarts
     DEF AlarmsInit, RecordsInit, RecordsInv
<1>2. RecordsInv /\ [AlarmsNext]_alarmsVars => RecordsInv'
  <2> SUFFICES ASSUME RecordsInv, [AlarmsNext]_alarmsVars
               PROVE  RecordsInv'
    OBVIOUS
  <2>1. CASE UNCHANGED <<recordVars, part>>
    BY <2>1, RecordsStay
  <2>2. CASE RecordsNext /\ part' = part
    BY <2>2, RecordsMove
  <2>3. UNCHANGED <<recordVars, part>> \/ (RecordsNext /\ part' = part)
    BY Zenon DEF AlarmsNext, alarmsVars
  <2> QED BY <2>1, <2>2, <2>3
<1>3. RecordsInv => RecordsAreTrue
  BY RecordsFollow
<1> QED BY <1>1, <1>2, <1>3, PTL DEF AlarmsSpec
=============================================================================
