--------------------------- MODULE FailoverEngine ---------------------------
(***************************************************************************)
(* The failover engine of mini-dcs-redundancy-failover: heartbeats from *)
(* the modules of a redundancy group, the periodic timeout check, and the *)
(* commands that move the PRIMARY role. *)
(* *)
(* The library is called from one control loop, so every call is one *)
(* atomic action; what interleaves is the order of calls, the arrival of *)
(* heartbeats (late, reordered, repeated or never) and the clock. *)
(* *)
(* Time.  The code keeps last_heartbeat_time[i] and compares *)
(* total_uptime_ms - last_heartbeat_time[i] with two thresholds, so the *)
(* model keeps that difference, age[i], saturated one tick past the larger *)
(* threshold, and whether last_heartbeat_time[i] > 0, heard[i].  Clocks *)
(* agree: no heartbeat is stamped in the future. *)
(***************************************************************************)
EXTENDS RedundancyGroup

CONSTANTS
  Interval,         \* heartbeat_interval_ms, in ticks
  Timeout,          \* heartbeat_timeout_ms, in ticks
  Slack,            \* the 60000 ms after which a late slot counts as clock wrap
  CheckPeriod,      \* the caller polls failover_check_timeouts this often
  MaxDelay          \* age of the oldest heartbeat the network still delivers

ASSUME EngineAssumption ==
  /\ Interval \in Nat \ {0} /\ Timeout \in Nat /\ Timeout >= Interval
  /\ Slack \in Nat \ {0} /\ CheckPeriod \in Nat \ {0}
  /\ MaxDelay \in 0 .. Timeout + Slack

VARIABLES
  now,       \* total_uptime_ms, saturated
  heard,     \* last_heartbeat_time[i] > 0
  age,       \* total_uptime_ms - last_heartbeat_time[i], saturated
  missed,    \* missed_heartbeats[i], saturated at the limit
  silent,    \* ticks since the module in slot i stopped, 0 while it runs
  unchecked  \* ticks since the last timeout check

engineVars == <<heard, age, missed>>
envVars    == <<now, silent, unchecked>>
vars       == <<grp, now, heard, age, missed, silent, unchecked>>

max_missed_heartbeats == (Timeout \div Interval) + 1

Cap == Timeout + Slack + 1

Saturated(n, limit) == IF n < limit THEN n ELSE limit

EngineTypeOK ==
  /\ grp \in Group
  /\ now \in 0 .. Cap
  /\ heard \in [Slot -> BOOLEAN]
  /\ age \in [Slot -> 0 .. Cap]
  /\ missed \in [Slot -> 0 .. max_missed_heartbeats]
  /\ silent \in [Slot -> 0 .. MaxDelay + 2]
  /\ unchecked \in 0 .. CheckPeriod

EngineInit ==
  /\ grp = ConfiguredGroup
  /\ now = 0
  /\ heard = [i \in Slot |-> FALSE]
  /\ age = [i \in Slot |-> 0]
  /\ missed = [i \in Slot |-> 0]
  /\ silent = [i \in Slot |-> 0]
  /\ unchecked = 0

-----------------------------------------------------------------------------
(* The environment: the clock, modules that stop and restart. *)

Tick ==
  /\ unchecked < CheckPeriod
  /\ unchecked' = unchecked + 1
  /\ now' = Saturated(now + 1, Cap)
  /\ age' = [i \in Slot |-> Saturated(age[i] + 1, Cap)]
  /\ silent' = [i \in Slot |-> IF silent[i] = 0 THEN 0
                               ELSE Saturated(silent[i] + 1, MaxDelay + 2)]
  /\ UNCHANGED <<grp, heard, missed>>

Stop(s) ==
  /\ silent[s] = 0
  /\ silent' = [silent EXCEPT ![s] = 1]
  /\ UNCHANGED <<grp, now, engineVars, unchecked>>

Restart(s) ==
  /\ silent[s] > 0
  /\ silent' = [silent EXCEPT ![s] = 0]
  /\ UNCHANGED <<grp, now, engineVars, unchecked>>

-----------------------------------------------------------------------------
(* The calls of the engine. *)

(* A heartbeat stamped d ticks ago.  Neither its sequence number nor its *)
(* time stamp is compared with what was received before. *)
HeartbeatArrives(s, d, h) ==
  /\ d <= now
  /\ d + 1 >= silent[s]
  /\ age' = [age EXCEPT ![s] = d]
  /\ heard' = [heard EXCEPT ![s] = d < now]
  /\ missed' = [missed EXCEPT ![s] = 0]
  /\ grp' = process_heartbeat(grp, s, h)
  /\ UNCHANGED envVars

(* More than the timeout and a minute: taken for a clock wrap, skipped. *)
Wrapped(s) == age[s] > Timeout + Slack

(* Mutant: OFFLINE and FAIL_SAFE slots are timed out as well. *)
OverdueEvenIfOffline(s) == ~ Wrapped(s) /\ heard[s] /\ age[s] > Timeout

Overdue(s) == Watched(s) /\ ~ Wrapped(s) /\ heard[s] /\ age[s] > Timeout

Late == {s \in Slot : Overdue(s) /\ missed[s] + 1 >= max_missed_heartbeats}

(* Mutant: a slot taken for wrapped is skipped, its time not set to now. *)
PollWithoutResync ==
  /\ missed' = [s \in Slot |->
                  IF Overdue(s)
                  THEN Saturated(missed[s] + 1, max_missed_heartbeats)
                  ELSE missed[s]]
  /\ grp' = check_timeouts(grp, Late)
  /\ unchecked' = 0
  /\ UNCHANGED <<now, heard, age, silent>>

PollTimeouts ==
  /\ age'    = [s \in Slot |-> IF Watched(s) /\ Wrapped(s) THEN 0 ELSE age[s]]
  /\ heard'  = [s \in Slot |-> heard[s] \/ (Watched(s) /\ Wrapped(s))]
  /\ missed' = [s \in Slot |->
                  IF Overdue(s)
                  THEN Saturated(missed[s] + 1, max_missed_heartbeats)
                  ELSE missed[s]]
  /\ grp' = check_timeouts(grp, Late)
  /\ unchecked' = 0
  /\ UNCHANGED <<now, silent>>

ReportHealth(s, h) ==
  /\ grp' = module_set_health(grp, s, h)
  /\ UNCHANGED <<engineVars, envVars>>

AddModule(s) ==
  /\ grp' = group_add_module(grp, s)
  /\ UNCHANGED <<engineVars, envVars>>

CommandFailover ==
  /\ grp' = execute(grp)
  /\ UNCHANGED <<engineVars, envVars>>

CommandFailback(target) ==
  /\ grp.health[target] = "HEALTHY"
  /\ grp' = execute_failback(grp, target)
  /\ UNCHANGED <<engineVars, envVars>>

CheckSplitBrain ==
  /\ grp' = detect_split_brain(grp)
  /\ UNCHANGED <<engineVars, envVars>>

EngineNext ==
  \/ Tick
  \/ \E s \in Slot : Stop(s) \/ Restart(s)
  \/ \E s \in Slot, d \in 0 .. MaxDelay, h \in HeartbeatHealth :
       HeartbeatArrives(s, d, h)
  \/ PollTimeouts
  \/ \E s \in Slot, h \in ReportedHealth : ReportHealth(s, h)
  \/ \E s \in Replaceable : AddModule(s)
  \/ CommandFailover
  \/ \E s \in Slot : CommandFailback(s)
  \/ CheckSplitBrain

EngineSpec == EngineInit /\ [][EngineNext]_vars

(* The control loop keeps running: time passes and the check is polled. *)
(* Nothing is assumed of modules, diagnostics or operators. *)
EngineFairSpec == EngineSpec /\ WF_vars(Tick) /\ WF_vars(PollTimeouts)

-----------------------------------------------------------------------------
(* Properties. *)

(* Each step of the engine is a call on the group or leaves it alone: what *)
(* holds of every RedundancyGroup holds of the groups the engine drives. *)
ImplementsGroup == Spec

(* A module that stops is declared dead unless it restarts, although one *)
(* that was never heard, or is late by more than the slack, is skipped. *)
CrashDetected ==
  \A s \in Slot :
    silent[s] > 0 ~> \/ silent[s] = 0
                     \/ grp.health[s] \in {"FAULTY", "OFFLINE", "FAIL_SAFE"}
=============================================================================
