----------------------------- MODULE ExperionHmi ------------------------------
(***************************************************************************)
(* An operator station of Experion (hmiweb_display.c): the alarm summary *)
(* with acknowledgement, shelving and flood detection, a pen of a trend, *)
(* the faceplate under the operator's rights, and the displays. *)
(* *)
(* No function of the code returns an alarm to normal: the application *)
(* does, like it fills faceplates and the tree of displays.  Left out: *)
(* texts, the bar graph, the mean and the deviation of a trend.  The inputs*)
(* of a faceplate are what the loop reports and what the operator enters. *)
(***************************************************************************)
EXTENDS Integers, Sequences, FiniteSets, FiniteSetsExt, SequencesExt

CONSTANTS
  Sources,         \* points that raise alarms
  MaxActive,       \* HMI_MAX_ACTIVE_ALARMS
  MaxHistory,      \* HMI_MAX_ALARM_HISTORY
  FloodLimit,      \* alarm_flood_threshold
  FloodSeconds,    \* the 600 seconds in which alarms are counted
  MaxNow,          \* bound of the model on the clock
  SampleCount,     \* HMI_TREND_SAMPLE_COUNT
  SampleValues,    \* values of samples and those that an operator enters
  LoopValues,      \* values that a loop reports to its faceplate
  MaxPenSamples,   \* bound of the model on the samples of a pen
  SetpointLimits,  \* sp_lo_limit and sp_hi_limit
  OutputLimits,    \* op_lo and op_hi
  DeviationHi,     \* deviation_hi
  DisplayParents   \* parent_id of each display, from display 0

ASSUME HmiAssumption ==
  /\ {MaxActive, MaxHistory, FloodSeconds, MaxNow, MaxPenSamples, DeviationHi} \subseteq Nat
  /\ {FloodLimit, SampleCount} \subseteq Nat \ {0}
  /\ SampleValues \cup LoopValues \subseteq Int /\ {SetpointLimits, OutputLimits} \subseteq Int \X Int
  /\ SetpointLimits[1] <= SetpointLimits[2] /\ OutputLimits[1] <= OutputLimits[2]

VARIABLES
  summary,  \* the alarm summary
  miscounted, \* a shelving or acknowledgement of an alarm that was not counted (history)
  pen,      \* samples of a pen, and all of them (history)
  face,     \* the faceplate, and what was entered since its update (history)
  user,     \* the operator account
  shown     \* displays that are visible

hmiVars == <<summary, miscounted, pen, face, user, shown>>

HMIAlarmPriority == 1 .. 4

HMIAlarmState == {"NORMAL", "UNACK_ACTIVE", "ACK_ACTIVE", "UNACK_INACTIVE", "SHELVED"}

Unacknowledged == {"UNACK_ACTIVE", "UNACK_INACTIVE"}

HMIAlarmRecord ==
  [source : Sources, alarm_id : Nat, priority : HMIAlarmPriority, state : HMIAlarmState,
   requires_ack : BOOLEAN]

HMISecurityLevel == 0 .. 5

FaceMode == {"MANUAL", "AUTO", "CASCADE", "INITIALIZE"}
FaceQuality == {"GOOD", "UNCERTAIN", "BAD"}
FaceInput == {"sp", "op", "mode"}
Color == {"LIVE_VALUE", "BAD_QUALITY", "DEVIATION", "OPERATOR_ENTERED", "ALARM"}

Displays == DOMAIN DisplayParents

HmiTypeOK ==
  /\ summary.active \in Seq(HMIAlarmRecord) /\ Len(summary.active) <= MaxActive
  /\ summary.shelved \in Nat /\ summary.unacknowledged \in Nat
  /\ summary.history \in Seq(0 .. MaxNow) /\ summary.flood \in BOOLEAN
  /\ miscounted \in BOOLEAN
  /\ Len(pen.samples) <= SampleCount
  /\ face.mode \in FaceMode /\ face.entered \subseteq FaceInput
  /\ face.pv_color \in Color /\ face.op_color \in Color
  /\ user.level \in HMISecurityLevel /\ user.logged_in \in BOOLEAN
  /\ shown \subseteq Displays

(* Until its first update the colours of a faceplate stand for no mode. *)
station_init ==
  /\ summary = [active |-> << >>, shelved |-> 0, unacknowledged |-> 0, history |-> << >>,
                flood |-> FALSE, now |-> 0]
  /\ miscounted = FALSE
  /\ pen = [samples |-> << >>, all |-> << >>]
  /\ face = [pv |-> 0, sp |-> SetpointLimits[1], op |-> OutputLimits[1], mode |-> "MANUAL",
             quality |-> "GOOD", pv_color |-> "LIVE_VALUE", op_color |-> "LIVE_VALUE",
             entered |-> {"mode"}]
  /\ user = [level |-> 0, logged_in |-> FALSE]
  /\ shown = {}

-----------------------------------------------------------------------------
(* The alarm summary *)

Recent(history, now) == {i \in DOMAIN history : now - history[i] < FloodSeconds}

(* A full list or a full history drops the alarm without a word. *)
alarm_add(source, priority, requires_ack) ==
  /\ LET room   == Len(summary.active) < MaxActive
         record == [source |-> source, alarm_id |-> Len(summary.active), priority |-> priority,
                    state |-> "UNACK_ACTIVE", requires_ack |-> requires_ack]
     IN  summary' = [summary EXCEPT
           !.flood = @ \/ Cardinality(Recent(summary.history, summary.now)) >= FloodLimit,
           !.active = IF room THEN Append(@, record) ELSE @,
           !.unacknowledged = IF room /\ requires_ack THEN @ + 1 ELSE @,
           !.history = IF Len(@) < MaxHistory THEN Append(@, summary.now) ELSE @]
  /\ UNCHANGED <<miscounted, pen, face, user, shown>>

Less(count) == IF count > 0 THEN count - 1 ELSE 0

Counted(record) == record.state \in Unacknowledged /\ record.requires_ack

(* Alarms are addressed by their place in the list, from 0. *)
alarm_acknowledge(place) ==
  /\ place < Len(summary.active)
  /\ LET record == summary.active[place + 1] IN
     /\ record.state \in Unacknowledged
     /\ summary' = [summary EXCEPT
          !.active[place + 1].state = IF @ = "UNACK_ACTIVE" THEN "ACK_ACTIVE" ELSE "NORMAL",
          !.unacknowledged = Less(@)]
     /\ miscounted' = (miscounted \/ ~Counted(record))
  /\ UNCHANGED <<pen, face, user, shown>>

alarm_shelve(place) ==
  /\ place < Len(summary.active)
  /\ LET record == summary.active[place + 1] IN
     /\ record.state # "SHELVED"
     /\ summary' = [summary EXCEPT !.active[place + 1].state = "SHELVED",
                                   !.shelved = @ + 1, !.unacknowledged = Less(@)]
     /\ miscounted' = (miscounted \/ ~Counted(record))
  /\ UNCHANGED <<pen, face, user, shown>>

(* The former state is not restored. *)
alarm_unshelve(place) ==
  /\ place < Len(summary.active)
  /\ summary.active[place + 1].state = "SHELVED"
  /\ summary' = [summary EXCEPT !.active[place + 1].state = "UNACK_ACTIVE",
                                !.shelved = Less(@), !.unacknowledged = @ + 1]
  /\ miscounted' = (miscounted \/ ~summary.active[place + 1].requires_ack)
  /\ UNCHANGED <<pen, face, user, shown>>

(* The journal stands for no unacknowledged alarm, too. *)
alarm_get_highest_priority ==
  Min({4} \cup {r.priority : r \in {x \in ToSet(summary.active) : x.state \in Unacknowledged}})

Remaining(active) ==
  LET kept[i \in 0 .. Len(active)] ==
        IF i = 0 THEN << >>
        ELSE IF active[i].state = "NORMAL" THEN kept[i - 1] ELSE Append(kept[i - 1], active[i])
  IN  kept[Len(active)]

(* The records move, their alarm_id stays. *)
alarm_clear_inactive ==
  /\ summary' = [summary EXCEPT !.active = Remaining(@)]
  /\ UNCHANGED <<miscounted, pen, face, user, shown>>

(* The application returns an alarm to normal; time passes. *)
ReturnToNormal(place) ==
  /\ place < Len(summary.active)
  /\ summary.active[place + 1].state \in {"UNACK_ACTIVE", "ACK_ACTIVE"}
  /\ summary' = [summary EXCEPT !.active[place + 1].state =
                   IF @ = "UNACK_ACTIVE" THEN "UNACK_INACTIVE" ELSE "NORMAL"]
  /\ UNCHANGED <<miscounted, pen, face, user, shown>>

Second ==
  /\ summary.now < MaxNow
  /\ summary' = [summary EXCEPT !.now = @ + 1]
  /\ UNCHANGED <<miscounted, pen, face, user, shown>>

SummaryNext ==
  \/ \E source \in Sources, priority \in {1, 3}, requires_ack \in BOOLEAN :
       alarm_add(source, priority, requires_ack)
  \/ \E place \in 0 .. MaxActive - 1 : \/ alarm_acknowledge(place) \/ alarm_shelve(place)
                                       \/ alarm_unshelve(place) \/ ReturnToNormal(place)
  \/ alarm_clear_inactive
  \/ Second

-----------------------------------------------------------------------------
(* The trend *)

trend_add_sample(value) ==
  /\ Len(pen.all) < MaxPenSamples
  /\ pen' = [samples |-> Append(IF Len(pen.samples) >= SampleCount THEN Tail(pen.samples)
                                ELSE pen.samples, value),
             all |-> Append(pen.all, value)]
  /\ UNCHANGED <<summary, miscounted, face, user, shown>>

trend_get_statistics == [min |-> Min(ToSet(pen.samples)), max |-> Max(ToSet(pen.samples))]

TrendNext == \E value \in SampleValues : trend_add_sample(value)

-----------------------------------------------------------------------------
(* The faceplate *)

faceplate_isa101_color(fp) ==
  [fp EXCEPT
     !.pv_color = CASE fp.quality # "GOOD" -> "BAD_QUALITY"
                    [] /\ fp.quality = "GOOD" /\ DeviationHi > 0
                       /\ fp.pv - fp.sp \notin -DeviationHi .. DeviationHi -> "DEVIATION"
                    [] OTHER -> "LIVE_VALUE",
     !.op_color = IF fp.mode = "MANUAL" THEN "OPERATOR_ENTERED" ELSE "LIVE_VALUE"]

isa101_verify_colors(fp) == fp.quality = "GOOD" => fp.pv_color # "ALARM"

(* The loop overwrites what the operator has entered, whatever it reports. *)
faceplate_update(pv, sp, op, mode, quality) ==
  /\ LET reported == [face EXCEPT !.pv = pv, !.sp = sp, !.op = op, !.mode = mode,
                                  !.quality = quality, !.entered = {}]
     IN  face' = faceplate_isa101_color(reported)
  /\ UNCHANGED <<summary, miscounted, pen, user, shown>>

CutTo(value, limits) == IF value > limits[2] THEN limits[2]
                        ELSE IF value < limits[1] THEN limits[1] ELSE value

(* The entries ask for the level of the account, which a logout keeps. *)
faceplate_set_sp(sp) ==
  /\ user.level >= 2
  /\ face' = [face EXCEPT !.sp = CutTo(sp, SetpointLimits), !.entered = @ \cup {"sp"}]
  /\ UNCHANGED <<summary, miscounted, pen, user, shown>>

required_level(mode) ==
  CASE mode \in {"MANUAL", "AUTO"} -> 2
    [] mode = "CASCADE"            -> 3
    [] OTHER                       -> 4

(* The colours are those of the former mode until the next update. *)
faceplate_set_mode(mode) ==
  /\ user.level >= required_level(mode)
  /\ face' = [face EXCEPT !.mode = mode, !.entered = @ \cup {"mode"}]
  /\ UNCHANGED <<summary, miscounted, pen, user, shown>>

faceplate_set_op(op) ==
  /\ user.level >= 2 /\ face.mode = "MANUAL"
  /\ face' = [face EXCEPT !.op = CutTo(op, OutputLimits), !.entered = @ \cup {"op"}]
  /\ UNCHANGED <<summary, miscounted, pen, user, shown>>

(* The level follows the first letters of the name. *)
operator_login(level) ==
  /\ user' = [level |-> level, logged_in |-> TRUE]
  /\ UNCHANGED <<summary, miscounted, pen, face, shown>>

operator_logout ==
  /\ user' = [user EXCEPT !.logged_in = FALSE]
  /\ UNCHANGED <<summary, miscounted, pen, face, shown>>

operator_has_access(required) == user.logged_in /\ user.level >= required

FaceNext ==
  \/ \E pv, sp, op \in LoopValues, mode \in FaceMode, quality \in FaceQuality :
       faceplate_update(pv, sp, op, mode, quality)
  \/ \E value \in SampleValues : faceplate_set_sp(value) \/ faceplate_set_op(value)
  \/ \E mode \in FaceMode : faceplate_set_mode(mode)
  \/ \E level \in 1 .. 5 : operator_login(level)
  \/ operator_logout

-----------------------------------------------------------------------------
(* Displays *)

display_navigate_to(d) ==
  /\ d \in Displays
  /\ shown' = {d}
  /\ UNCHANGED <<summary, miscounted, pen, face, user>>

(* The parent of the display that is shown; the root is its own. *)
display_get_parent ==
  {DisplayParents[Min(d)] : d \in {s \in {shown} : s # {}}} \cap Displays

NavigateUp == \E d \in display_get_parent : display_navigate_to(d)

DisplayNext == (\E d \in Displays : display_navigate_to(d)) \/ NavigateUp

-----------------------------------------------------------------------------
InState(active, state) == {i \in DOMAIN active : active[i].state = state}

(* The counts of the summary are those of its records: the shelved ones *)
(* always, the unacknowledged ones until an alarm that was not counted is *)
(* acknowledged or shelved. *)
CountsAreTrue ==
  /\ summary.shelved = Cardinality(InState(summary.active, "SHELVED"))
  /\ ~miscounted =>
       summary.unacknowledged = Cardinality({i \in DOMAIN summary.active : Counted(summary.active[i])})

(* A flood is announced only after as many alarms as the limit within the *)
(* window. *)
FloodWasReal ==
  summary.flood =>
    \E i, j \in DOMAIN summary.history :
      /\ j - i = FloodLimit - 1
      /\ summary.history[j] - summary.history[i] < FloodSeconds

(* Clearing drops no alarm that is still active, shelved or unacknowledged.*)
NothingCleared ==
  [][\A state \in HMIAlarmState \ {"NORMAL"} :
       Len(summary'.active) < Len(summary.active) =>
         Cardinality(InState(summary'.active, state))
           = Cardinality(InState(summary.active, state))]_hmiVars

(* A pen shows the last samples in their order, and its extremes are theirs*)
PenShowsTheLast ==
  LET n == Len(pen.all) IN
  /\ pen.samples = SubSeq(pen.all, Max({1, n - SampleCount + 1}), n)
  /\ n > 0 => \A k \in Max({1, n - SampleCount + 1}) .. n :
                pen.all[k] \in trend_get_statistics.min .. trend_get_statistics.max

(* Until the loop reports again, what the operator entered keeps to its *)
(* limits; an output is entered in MANUAL only and shown as entered, unless*)
(* the mode was changed by hand meanwhile.  Just after a report the colours*)
(* are those of what is shown.  The report itself may exceed the limits. *)
FaceIsHonest ==
  /\ "sp" \in face.entered => face.sp \in SetpointLimits[1] .. SetpointLimits[2]
  /\ "op" \in face.entered =>
       /\ face.op \in OutputLimits[1] .. OutputLimits[2]
       /\ "mode" \in face.entered \/ (face.mode = "MANUAL" /\ face.op_color = "OPERATOR_ENTERED")
  /\ face.entered = {} => face = faceplate_isa101_color(face)
  /\ isa101_verify_colors(face)
  /\ Cardinality(shown) <= 1
=============================================================================
