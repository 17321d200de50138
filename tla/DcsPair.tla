------------------------------ MODULE DcsPair -------------------------------
(***************************************************************************)
(* The redundant pair of mini-dcs-system-architecture (dcs_redundancy.c): *)
(* a primary that copies its data to a standby, switchovers on request or *)
(* on a fault, and the ramp that takes an output to its new value after *)
(* one.  The caller synchronises periodically, asks for switchovers and *)
(* scans the output. *)
(* *)
(* Left out: time stamps and switchover_in_progress, which is set and *)
(* cleared within one call.  data_sync_latency_ms is 0 or 1, below the *)
(* 50 ms that are compared with it. *)
(***************************************************************************)
EXTENDS Integers, FiniteSets, FiniteSetsExt

CONSTANTS
  RedundancyModes,  \* modes of a pair that are tried
  Span,             \* output_span
  MaxStepPct,       \* config.max_step_change_pct
  RampTime,         \* config.ramp_time_s
  Outputs,          \* outputs that a ramp starts from and ends at
  ScanSeconds,      \* dt_s of the ramp
  MaxSwitchovers    \* bound: switchover_count

ASSUME DcsPairAssumption ==
  /\ RedundancyModes \subseteq {"HOT_STANDBY", "WARM_STANDBY", "COLD_STANDBY", "ACTIVE_ACTIVE"}
  /\ Span \in Nat \ {0} /\ MaxStepPct \in Nat /\ RampTime \in Nat
  /\ Outputs \subseteq Nat /\ ScanSeconds \subseteq Nat \ {0}
  /\ MaxSwitchovers \in Nat

VARIABLES
  pair,   \* dcs_redundant_pair_t, and whether it was synchronised since its
          \* last switchover (history)
  ramp    \* output, its target, and whether the last step said it is there

dcsPair == <<pair, ramp>>

Whole  == 100000   \* 100 per cent, in thousandths of a per cent
Enough == 95000

DcsPairTypeOK ==
  /\ pair \in [mode : RedundancyModes, primary : {1, 2}, standby : {1, 2},
               standby_ready : BOOLEAN, sync_completeness : 0 .. Whole,
               switchover_count : 0 .. MaxSwitchovers, resynced : BOOLEAN]
  /\ ramp \in [output : Nat, target : Outputs, arrived : BOOLEAN]

dcs_redundancy_init(mode) ==
  [mode |-> mode, primary |-> 1, standby |-> 2,
   standby_ready |-> mode = "HOT_STANDBY",
   sync_completeness |-> IF mode = "HOT_STANDBY" THEN Whole ELSE 0,
   switchover_count |-> 0, resynced |-> FALSE]

DcsPairInit ==
  /\ \E mode \in RedundancyModes : pair = dcs_redundancy_init(mode)
  /\ \E o \in Outputs : ramp = [output |-> o, target |-> o, arrived |-> TRUE]

-----------------------------------------------------------------------------
dcs_redundancy_standby_ready(p, threshold) == p.sync_completeness >= threshold

Triggers == {"MANUAL", "SCHEDULED", "FAULT", "POWER_FAIL", "WATCHDOG", "OTHER"}

Asked   == {"MANUAL", "SCHEDULED"}
Alarmed == {"FAULT", "POWER_FAIL", "WATCHDOG"}

(* health_primary may be absent; other triggers are obeyed. *)
Granted(trigger, health) ==
  /\ trigger \in Asked => dcs_redundancy_standby_ready(pair, Enough)
  /\ trigger \in Alarmed => health # "healthy"

(* Mutant: the flag of the old standby stays for the new one. *)
SwappedAsReady(p) ==
  [p EXCEPT !.primary = p.standby, !.standby = p.primary, !.switchover_count = @ + 1,
            !.resynced = FALSE]

(* How much is synchronised stays as it was for the old standby, so that a *)
(* second switchover that is asked for is granted at once. *)
Swapped(p) ==
  [p EXCEPT !.primary = p.standby, !.standby = p.primary,
            !.standby_ready = FALSE, !.switchover_count = @ + 1, !.resynced = FALSE]

dcs_redundancy_switchover(trigger, health) ==
  /\ pair.switchover_count < MaxSwitchovers
  /\ Granted(trigger, health)
  /\ pair' = Swapped(pair)
  /\ \E o \in Outputs : ramp' = [ramp EXCEPT !.target = o, !.arrived = FALSE]

(* Mutant: 15 per cent of what is done instead of what remains. *)
sync_step_of_done(remaining) == ((Whole - remaining) * 15) \div 100

(* 15 per cent of what remains, at least a tenth of a per cent. *)
sync_step(remaining) == Max({(remaining * 15) \div 100, 100})

dcs_redundancy_synchronize ==
  LET remaining == Whole - pair.sync_completeness
      synced    == IF remaining > 0
                   THEN Min({pair.sync_completeness + sync_step(remaining), Whole})
                   ELSE pair.sync_completeness
  IN  /\ pair' = [pair EXCEPT !.sync_completeness = synced,
                              !.standby_ready = @ \/ synced >= Enough,
                              !.resynced = TRUE]
      /\ UNCHANGED ramp

-----------------------------------------------------------------------------
(* The ramp.  A value within a thousandth of the span is the target. *)

max_step(dt) ==
  (MaxStepPct * Span * dt) \div (100 * (IF RampTime > 0 THEN RampTime ELSE 1))

(* Mutant: a falling output is not limited. *)
ramp_step_up_only(diff, dt) == Min({diff, max_step(dt)})

ramp_step(diff, dt) ==
  IF diff > 0 THEN Min({diff, max_step(dt)}) ELSE Max({diff, -max_step(dt)})

dcs_bumpless_transfer_step(dt) ==
  LET diff == ramp.target - ramp.output
      step == ramp_step(diff, dt)
      near == Max({diff, -diff}) * 1000 < Span
      to   == IF near THEN ramp.target ELSE ramp.output + step
  IN  /\ ramp' = [ramp EXCEPT
                    !.output = to,
                    !.arrived = \/ near
                                \/ step > 0 /\ to >= ramp.target
                                \/ step < 0 /\ to <= ramp.target]
      /\ UNCHANGED pair

DcsPairNext ==
  \/ \E t \in Triggers, h \in {"absent", "healthy", "failed"} :
       dcs_redundancy_switchover(t, h)
  \/ dcs_redundancy_synchronize
  \/ \E dt \in ScanSeconds : dcs_bumpless_transfer_step(dt)

-----------------------------------------------------------------------------
(* dcs_calculate_switchover_time, in milliseconds. *)
dcs_calculate_switchover_time(mode, scan_ms) ==
  LET period == IF scan_ms > 0 THEN scan_ms ELSE 250
  IN  CASE mode = "HOT_STANDBY"   -> period \div 2
        [] mode = "WARM_STANDBY"  -> period * 4
        [] mode = "COLD_STANDBY"  -> 30000
        [] mode = "ACTIVE_ACTIVE" -> period \div 10

(* Availability of an architecture whose channels are available a out of n *)
(* times, as a fraction of n^3. *)
dcs_analyze_redundancy_availability(a, n, arch) ==
  CASE arch = "1oo1"             -> a * n * n
    [] arch \in {"1oo2", "1oo2D"} -> (2 * a * n - a * a) * n
    [] arch = "2oo2"             -> a * a * n
    [] arch = "2oo3"             -> 3 * a * a * n - 2 * a * a * a

(* The reference: at least k of c channels are up, each in a of n cases. *)
AvailableCases(a, n, k, c) ==
  Cardinality({f \in [1 .. c -> 1 .. n] : Cardinality({i \in 1 .. c : f[i] <= a}) >= k})

-----------------------------------------------------------------------------
(* Properties. *)

(* "Old primary must resync as standby" (dcs_redundancy.c:118): the flag *)
(* standby_ready is up again only after a synchronisation that followed the*)
(* switchover, and with enough synchronised.  How much that one copied is *)
(* not said: nothing, where the old standby had everything. *)
FlagMeansResynced ==
  pair.standby_ready =>
    /\ dcs_redundancy_standby_ready(pair, Enough)
    /\ pair.switchover_count > 0 => pair.resynced

(* No scan moves an output by more than the configured step, beyond its *)
(* target or away from it, and only an output that is there has arrived. *)
RampIsBumpless ==
  [][/\ ramp'.target = ramp.target =>
          LET moved == ramp'.output - ramp.output
              left  == ramp.target - ramp.output
          IN  /\ \/ \E dt \in ScanSeconds : moved \in -max_step(dt) .. max_step(dt)
                 \/ moved * 1000 \in -Span .. Span
              /\ IF left >= 0 THEN moved \in 0 .. left ELSE moved \in left .. 0
     /\ ramp'.arrived => ramp'.output = ramp'.target]_ramp

(* Synchronising long enough makes the standby ready again. *)
StandbyRecovers == ~pair.standby_ready ~> pair.standby_ready
=============================================================================
