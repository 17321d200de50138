# Verification of the mini-DCS libraries

TLA+ modules, TLC configurations and TLAPS proofs for the C libraries of this
repository: eight independent sub-projects that each re-implement the core of a
distributed control system. Source references are relative to the repository
root.

The libraries are sequential: no threads, no callbacks, no I/O. The state lives in
structures the caller owns (one filter of `dcs_alarm.c` has static timers), every
function runs to completion, and what makes them hard is therefore the **order of
calls**. Heartbeats, polls, operator commands, diagnostics and the clock arrive from
outside in any order, a fact is often kept in two places that different calls update,
and many loops rewrite a group of entries while their early returns and skips depend
on each other. The modules treat each library function as one atomic action and let
the environment choose the order.

## 1. Inventory

### mini-dcs-redundancy-failover

| component | state | operations | what is hard, and what must hold |
|---|---|---|---|
| redundancy group (`redundancy_core.c`) | role and health per slot, `primary_index`, counts and flags of the group | build, set a health, find the primary, count | `redundancy_module_set_health` demotes and promotes in one call, differently for each health value; one module leads, a group with a healthy module has a leader |
| failover engine (`failover_engine.c`) | last heartbeat time and missed count per slot, the failover state, an event log | heartbeats, timeout check, failover, failback, election, bully election, split-brain resolution, quorum | heartbeats late, repeated or lost; a loop over slots that promotes and demotes as it goes; a stopped module is found, leaders agree |
| state synchronisation (`state_sync.c`) | regions with a dirty flag each, state of the manager | register, mark dirty, full, incremental, checksum and delta transfer, verify | transfers that fail half way, overlapping regions, writes reported in a second call; no write is forgotten |
| version vectors (`state_sync.c`) | a vector per controller | increment, compare, merge | vectors that arrive late, twice, in another order; comparing tells who lacks updates |
| diagnostic monitor (`diagnostic_monitor.c`) | fault log, cycle times, trend ring, link errors | log, kick, verify ROM, self test, trend | a log and a ring at their limits, counters and extremes kept in several places; the log is a census, the window holds the newest samples |
| voting (`voting_mechanism.c`) | inputs with valid flags, the last result | set and invalidate an input, ten algorithms | inputs invalidated between votes, ties, two inputs against two; one fault is masked, an invalid input has no say |
| availability (`availability_model.c`) | fault trees with cached results, a Markov model | add events and gates, evaluate, cut sets, solve, formulas | a cached result that outlives a change below it |

The engine calls the group (`failover_check_timeouts` and `failover_execute`
call `redundancy_module_set_health` and rewrite its roles); the others stand
alone.

### mini-dcs-alarm-management-isa182

| component | state | operations | what is hard, and what must hold |
|---|---|---|---|
| alarm engine (`alarm_engine.c`, `alarm_management_types.c`) | a five-state machine per alarm, active count, event list, flood detector | scan, acknowledge, flood check, condition checks | the scan reads flags that shelving and suppression write; no unacknowledged alarm is lost, every lasting condition is announced |
| shelving, suppression (`alarm_shelving_suppression.c`) | array of shelving records, flags and expiry in the alarm | shelve, unshelve, extend, expire, suppress | the end of a shelving is kept twice, the array is compacted; policy limits over sequences of calls |
| audit trail (`alarm_audit_trail.c`) | ring of hash-linked entries | log, query, verify the chain, change requests | the chain when the ring wraps |
| indicators (`alarm_kpi_metrics.c`) | counts per period, a chattering detector, a rolling history of a day | transitions, benchmark scores, peak and ranking | counters that different transitions move, rings of times at their limit; no active alarm is missing from the count |
| rationalization (`alarm_rationalization.c`) | master alarm database with counts and flags | add, remove, find, record, apply, validate | a count beside the flags it counts, identifiers derived from a count; tags unique, validation never wrong |

The engine and the shelving code share the alarm table: the scan reads
`is_shelved` and `is_suppressed`, unshelving rewrites `current_state`. The
records (trail, indicators, database) get what the application hands them and
share no state with the engine.

### mini-dcs-system-architecture

| component | state | operations | what is hard, and what must hold |
|---|---|---|---|
| alarms (`dcs_alarm.c`) | a state per alarm, a filter whose timers are static variables, a history | process, acknowledge, shelve, evaluate, detect floods | static timers shared by all alarms; what was not acknowledged stays visible |
| redundant pair (`dcs_redundancy.c`) | mode, roles, readiness, completeness of the synchronisation; an output on its way | switch over, synchronise, ramp | readiness read from values the last switchover left; a ready standby is synchronised |
| ISA-88 batch (`dcs_isa88_batch.c`) | a recipe of operations and phases with indices, the units | add, command, scan, find a unit | a phase that never ends, commands between two scans; phases run in order and the batch ends |
| scan cycle (`dcs_scan_cycle.c`) | watchdog; figures of a window and of a schedule | tick, reset, analyse, check | resets that come late, bounds at their edge; an accepted schedule meets its deadlines |
| system database (`dcs_system_db.c`) | tables that refer to one another, phases of the scan | add, find, validate, optimise | orders of filling, repeated optimisation that counts twice; no duplicates, what fits really fits |
| architecture, network, safety, applications | the plan of a network, a safety function | verify, recommend, analyse, determine a level | functions that judge the same plan by different rules |

### mini-emerson-deltav-system

| component | state | operations | what is hard, and what must hold |
|---|---|---|---|
| redundancy, batch (`delta_v_redundancy.c`, `delta_v_batch.c`) | pair with roles and synchronisation, log ring; a batch with its transition table | synchronise, fail over, log; command, advance | transitional states (HOLDING, STOPPING) that commands enter and nothing leaves; a failover accepted on either of two conditions |
| controller, system (`delta_v_controller.c`, `delta_v_system.c`) | carriers, channels, areas, nodes with counts beside them | add, remove, commission, transitions of a node | counts that different calls move, removed entries that stay counted |
| control, communication (`delta_v_control.c`, `delta_v_communication.c`) | PID block, sequence, vote; checksums | execute, transfer, hold, vote | what a transfer leaves to the next scan; transfers without a bump, votes that lie between near inputs |

### mini-fieldbus-foundation-h1

| component | state | operations | what is hard, and what must hold |
|---|---|---|---|
| data link (`ff_h1_datalink.c`) | scheduler with clock, schedule, live list and token index | schedule, run a cycle, pass tokens, elect | unsigned arithmetic at the edge of a macrocycle, a rotation over a list that shrinks; tokens are fair and inside the cycle |
| system management (`ff_h1_system_mgmt.c`) | an agent per device, messages on the bus, clocks | tag, assign an address, distribute time | Set Address messages delayed or repeated; permanent addresses stay unique |
| application, device, physical, segment | block modes and links, bits on the wire, devices of a segment | change a mode, execute, encode, decode, add a device | modes changed by target, cascade and fault; a damaged frame is refused |

### mini-honeywell-experion-pks

| component | state | operations | what is hard, and what must hold |
|---|---|---|---|
| redundancy (`dcs_redundancy.c`) | one manager per controller, the failover history, network paths, an output ramp | heartbeats, roles, failover, synchronisation, log, paths | two managers that may both lead, heartbeats that only count as missed when they name the wrong partner |
| CEE, C300 (`cee_execution.c`, `c300_controller.c`) | phases, tasks, frames; slots, channels, outputs, peers | create, execute a frame, stop; scan, write, subscribe | periods against frames, tests of a schedule that go stale; no due frame of a task is missed |
| blocks, CAB, bulk build (`control_blocks.c`, `experion_cab_bulk.c`) | PID block, characterizer, filters with rings, a workbook | modes and transfers, samples, rows and validation | what a mode keeps for the next, sums beside rings |
| system, displays (`experion_system.c`, `hmiweb_display.c`) | nodes, mode; alarm summary, pens, faceplate, displays | register, activate, stop; report, acknowledge, shelve, clear | counts beside the records they count, entries moved by clearing |

### mini-supcon-ecs700-dcs

| component | state | operations | what is hard, and what must hold |
|---|---|---|---|
| redundancy (`ecs700_redundancy.c`) | one controller's view of its pair, a network path | heartbeat, failover, synchronise, update a path | oscillation inside the grace period; counts that arrive late in unsigned arithmetic |
| I/O (`ecs700_io_subsystem.c`) | channels, modules, conversions | configure, scan, write, detect, convert | conversions both ways at their limits |
| control station (`ecs700_control_station.c`) | PID cascade, function chart, interlocks | execute, change modes, step, trip | integral kept over mode changes, steps that chain within a scan |
| communication, system core | clock of a slave, statistics, domains | synchronise, count, validate | rounding and delays; a station in two domains |

### mini-yokogawa-centum-vp

| component | state | operations | what is hard, and what must hold |
|---|---|---|---|
| batch manager (`centum_vp_batch.c`) | four tables that refer to one another by index, the active batch with four indices, elapsed time and completion per phase | start, command, reset, scan | tables with dangling and empty entries, phases that keep what an earlier batch left; phases run once each, in order, acknowledged, and the batch ends |
| redundancy (`centum_vp_redundancy.c`) | pair with roles and synchronisation, failover log ring | set role, synchronise, fail over | roles assigned past their rules, an entry that is lost when the ring wraps |
| control blocks (`centum_vp_control.c`) | PID, sequence, logic block | execute, change modes, step, hold | outputs that jump after a mode, requests a later call undoes |
| system, FCS, communication | domains, stations, modules, segments, requests | add, remove, validate, request, answer | tables compacted on removal, answers damaged on the way |

## 2. The modules and the code

### How they are put together

Each component has a module of its own with its state, one action per function
and its properties. Components that call one another are modelled by one state
machine (engine and group, scan and shelving). Components that share no state are
joined by an MC module per product family: its variable `part` says which of them
a behaviour runs, the others keep an initial state. As nothing is shared, the
joined specification has every behaviour of each part and no run time is spent on
interleaving strangers; a part that would multiply the states of the others by
its initial states is pinned to one of them while it does not run.

| module | models |
|---|---|
| `RedundancyGroup` | the group as a record, every library function that rewrites it as an operator from group to group, and a state machine without clocks: the same calls in any order, where a timeout check may find any set of watched slots late. The abstract specification of the engine |
| `FailoverEngine` | heartbeat times, missed counts, timeout check, modules that stop and restart, a network that delays and repeats |
| `StateSync` | regions over a memory of bytes, the four transfers |
| `VersionVectors` | vectors exchanged over a faulty network |
| `Voting` | the inputs of a voter and its ten algorithms |
| `DiagMonitor` | fault log, self tests, cycle times, trend ring, errors of a link |
| `Availability` | fault trees with cached results, a Markov model of two states, formulas |
| `AlarmCore` | condition checks, the alarm state machine, the flood detector, shelving rules, as operators |
| `AlarmSystem` | scans, operators, shelving and expiry interleaved |
| `AlarmRecords` | audit ring, indicators, chattering detector, rolling history, master alarm database |
| `SequentialBatch` | the abstract specification of a batch: steps completed one at a time, complete when all are |
| `CentumBatch` | CENTUM's batch scan, commands and acknowledgements; implements `SequentialBatch` |
| `CentumControl`, `CentumStation` | CENTUM's function blocks; redundant pair with its log, configuration, Modbus, segments and recipes |
| `Isa88Batch` | the generic ISA-88 batch; implements `SequentialBatch` |
| `DcsPair`, `DcsAlarm`, `DcsDatabase`, `ScanCycle`, `DcsDesign` | the generic DCS: pair, alarms, database, watchdog and schedule, network plan and safety function |
| `DeltaVPlant`, `DeltaVControl` | DeltaV's pair, batch, controller and system; its blocks and messages |
| `H1Link`, `H1Device` | scheduler, tokens, agents and clocks of an H1 segment; blocks, wire and power |
| `ExperionPair` | two redundancy managers and the lossy link between them |
| `ExperionController`, `ExperionSystem`, `ExperionBlocks`, `ExperionHmi` | CEE and C300; system record, failover history and paths; control blocks, custom blocks and workbook; operator station |
| `EcsPair`, `EcsControl`, `EcsNet` | the ECS-700: pair and path, I/O and control, clock and configuration |
| `MCLibrary`, `MCRecovery` | the redundancy library: its passive parts; what must happen in the end |
| `MCAlarmSystem`, `MCCentum`, `MCDcsField`, `MCEcsExperion` | alarms; CENTUM VP; generic DCS, DeltaV and H1; ECS-700 and Experion |
| `RedundancyProofs`, `ExperionProofs`, `AlarmProofs`, `CentumProofs`, `FieldProofs`, `DcsProofs`, `StationProofs` | theorems: group, engine, synchronisation, vectors, votes, diagnostics and availability; the Experion pair; alarms and their records; CENTUM VP; DeltaV and H1; the generic DCS; the ECS-700 and the Experion stations |
| `InductionLemmas` | lemmas the theorems share: induction over naturals and finite sets, sums, iteration, removal from a sequence |

The MC modules also hold assumptions that TLC evaluates: functions without state
compared with reference definitions or with one another over small ranges (k of n
against series and parallel, response times against utilisation, checksums
against reference values, tables of levels against their order).

### Correspondence of state and actions

* **Redundancy group.** `grp` holds `role`, `health`, `primary_index`,
  `group_healthy` and `failover_state` of `redundancy_group_t`. One action per
  function: `ProcessHeartbeat`, `CheckTimeouts`, `SetHealth`, `ReplaceModule`
  (adding a module to an occupied slot), `Execute`, `Failback`,
  `DetectSplitBrain`. An operator changes the group exactly as the function and
  all the functions it calls do. `check_timeouts` is the timeout loop in closed
  form; the run `library` shows that the closed form is the loop.
* **Failover engine.** The code compares `total_uptime_ms -
  last_heartbeat_time[i]` with two thresholds; the model keeps this difference
  (`age`), saturated one tick past the larger threshold, and whether the time is
  above zero (`heard`), which the code uses to skip slots it never heard.
  `silent` counts the ticks since a module stopped, so that only heartbeats it
  can still have under way arrive. The log and its statistics are left out.
* **Experion pair.** One C structure per manager, so every variable is a function of
  the manager. `link` is the last heartbeat sent in each direction: it may be
  dropped, overwritten before it is received, or received again. A heartbeat keeps
  the two fields a receiver reads, `partner_id` and `health_status`. Which roles an
  application asks for is the constant `RequestedRoles`; that it calls
  `redundancy_sync_complete` only for a synchronisation it has started is assumed.
* **State synchronisation.** `src` and `dst` are the memories of the two
  controllers, `regions` and `dirty` the region array. `Transfer` is the loop the
  four functions share, early return included; they differ in the regions they
  walk and in the test that decides on copying. `unmarked` and `copied` are
  history: writes not yet reported, regions a transfer has gone through.
* **Version vectors.** `known` is history: the updates a vector stands for.
* **Voting, diagnostics, availability.** A voter is its inputs with their valid
  flags and the last result; an action sets or invalidates one input or votes.
  The log of the monitor keeps the type of a fault only; trend values are whole
  numbers, sums and products are kept in place of quotients where a comparison
  allows it. A fault tree is built gate by gate, and `outdated` is history: the
  gates above one that got a child since they were evaluated. Probabilities are
  fractions of whole numbers.
* **Alarm system.** One variable per field group of the runtime and the alarm
  table; `Scan` is the whole loop of `isa18_engine_scan` over the alarms in
  order, `AutoUnshelve` the whole loop with its compaction. The records of
  shelving keep the order of the array.
* **Alarm records.** The hash of an entry stands for the entry and the hash before
  it, so that any change to either makes it wrong (no collisions). An entry in
  memory may be damaged; the clock the caller passes may go back. A call without
  actor or reason leaves the text of the slot it overwrites, as the code does.
* **Batches.** CENTUM's `cursor` is the four active indices; `moved` is what one
  scan does when they do not name a phase. `passed` is history: the places where
  the active batch has completed a phase. `elapsed_sec` is counted up to the
  duration of the phase, the only value it is compared with. Both batch modules
  instantiate `SequentialBatch`: its `place` is the number of phases completed,
  its `state` groups the states of the code by what they let happen
  (`ControlState`, `AbstractState`), and `BatchIsSequential` and
  `Isa88IsSequential` are its specification as properties.
* **Pairs.** CENTUM's two structures are swapped by a failover, so `unit` follows
  the controller and the place follows the structure; DeltaV's are not swapped, which
  `NothingComesBack` makes visible. ECS-700 has one controller's view of the pair
  with the partner's reports as inputs; the generic pair copies in percents of its
  data, kept in thousandths. The `sync_state` of a CENTUM standby is the application's to
  assign (`example_redundancy_failover.c:59`), so `SyncWritten` lists what it writes, at any
  time; `Causes` are the failover types it passes besides the manual one. `declared` and
  `resynced` are history.
* **H1.** One unit of time is 100 µs, clocks wrap at `TimeRange` instead of 2^32. Set
  Address messages stay on `bus` and may be delivered late and again. `turns` is
  history: tokens passed to others since a device had its last one.
* **Rings and tables.** A C array with a count is a sequence, removal compacts it in
  the same step; a ring keeps its index where the index is read and a history
  variable beside it says what it should hold.
* **Faceplates.** The control loop reports values, mode and quality as it has them, beyond
  the limits too (`LoopValues`); the operator's entries are clamped and checked against the
  level, which a logout does not lower. `face.entered` is history: what was entered since the report.
* **Control blocks.** Values are whole numbers and tuning constants are chosen so
  that products stay whole or quotients round down; limits, rates, modes, integral
  and order of the computation are those of the code. A first order filter, where a
  block has one, leaves its output anywhere between old and new value.

Mutants (operators marked `Mutant:`) are plausible errors in a function, kept
beside the right form to show that each property depends on it.

## 3. What the runs check

| run | property | meaning |
|---|---|---|
| `library` | `LibrarySound` | the conjunction listed below |
| | `BullyAgreement` | the bully election ends with the leader of the priority election, whoever starts it |
| | `RoleIsHandedOn` | when a healthy module holds the role, one does after a timeout check that finds any set of slots late, unless none is left; who held it for one turn of the loop only has given it up |
| | `SplitBrainResolved` | split-brain detection leaves exactly one PRIMARY, the indexed one |
| | `CompareIsInclusion` | comparing two version vectors decides who lacks updates |
| | `VectorsCountUpdates` | a vector stands for exactly the updates it was built from |
| `engine` | `OnePrimary` | nobody but `primary_index` holds the PRIMARY role, when diagnostics report modules good or dead and none is added again |
| | `HeadlessOnTotalLoss` | a call takes the last PRIMARY role away only when no healthy module is left |
| | `ImplementsGroup` | the engine implements `RedundancyGroup` |
| `recovery` | `CleanMeansCopied` | a byte the secondary lacks is still to be reported or lies in a dirty region |
| | `CompleteTransferVerifies` | a transfer of all regions that reports COMPLETE passes the verification |
| | `CrashDetected` | a module that stops is declared dead or restarts |
| | `DirtyDrains` | a dirty region reaches the secondary although other transfers fail |
| `leader` | `LeaderEventually` | **violated**, see section 6 |
| `experion_pair` | `BumplessLosesNothing` | a failover that would be logged as bumpless has nothing left to copy |
| | `DownStaysDown` | no single call makes a manager PRIMARY that yielded or is being synchronised |
| | `RecoveryTakesSync` | two managers that hold the pair for broken recover only by the end of a synchronisation |
| | `SplitBrainNoticed` | two managers that both remain PRIMARY both come to report the pair broken |
| `alarm_shelving` | `RecordsAgree` | flags and records of shelving agree (`RecordPerShelvedAlarm`), the active count misses no active alarm (`ActiveCountCovers`) |
| | `RecordsAreTrue` | the conjunction listed below |
| | `ShelvePolicy` | no critical alarm is shelved, a high one only with an approver (whose name the first extension may erase); the record stays within the limit and the alarm returns when its first duration is over |
| | `UnackNotLost` | an unacknowledged alarm becomes NORMAL or CLEARED only by acknowledgement or unshelving |
| `alarm_live` | `ConditionAnnounced` | a condition that lasts is announced (alarms without on-delay) |
| | `ShelvesEnd` | every shelving ends |
| `alarm_delay` | `DelayedConditionAnnounced` | **violated**, see section 6 |
| `centum` | `CentumSound` | the conjunction listed below |
| | `DamageIsRefused` | an answer with one or two damaged bits does not pass the check |
| | `BatchIsSequential` | the batch implements `SequentialBatch` |
| | `BatchEnds` | a running batch does not run for ever |
| | `BlocksMoveSafely` | `ValveMovesSlowly`, `RequestsStick` |
| `hold` | `HoldTakesEffect` | **violated**, see section 6 |
| `dcs_field` | `DcsSound`, `FieldSound`, `AcceptedIsFit` | the conjunctions listed below |
| | `Isa88IsSequential` | the ISA-88 batch implements `SequentialBatch` |
| | `StepsSound` | `RampIsBumpless`, `WorseIsNotAccepted`, `ActivationTakesDelay`, `NothingComesBack`, `TransferIsBumpless`, `CycleStaysInside`, `MoreIsNotBetter` |
| | `DcsRecovers` | `Isa88Ends`, `StandbyRecovers`, `Reannounced` |
| `ecs_experion` | `EcsSound`, `ControllerSound`, `StationSound` | the conjunctions listed below |
| | `PacketDamageIsRefused` | a packet with one or two wrong bits does not pass the check of its CRC |
| | `EcsMovesSafely` | `GraceSeparates`, `OutputSmooth`, `DwellRespected` |
| | `BlockStepsSound` | `TransferIsSmooth`, `RateIsKept`, `BandAlternates`, `NothingCleared` |

A conjunction holds one type invariant per module it joins and the properties of
its parts, each named, stated and commented in the module of its component:

| conjunction | property | what it excludes |
|---|---|---|
| `LibrarySound` | `ClosedFormIsLoop` | a timeout check modelled otherwise than its loop behaves |
| | `OneFaultIsMasked`, `InvalidHasNoVote`, `AcceptedIsMajority` | one bad input moving a vote out of the range of the others; an invalid input with a say; a Byzantine vote accepted without a majority |
| | `LogIsCensus`, `ExtremesAreReached`, `TrendIsOfTheNewest` | counters that differ from the log; an overrun that leaves no trace; a window with samples out of date |
| | `CachedIsTrue`, `CutSetIsNecessary`, `SolutionIsCurrent` | a cached probability that is not that of its tree; a cut set with an event too many; a solution of former rates |
| `RecordsAreTrue` | `TrailIsTrue`, `ComplianceIsFair` | a trail that loses or reorders what it keeps, a change unnoticed; a check that passes an untrue trail or fails a good one |
| | `CountsCover`, `ChatterIsSeen`, `HistoryIsTheDay`, `DatabaseIsSound` | an active alarm not counted; a chatter above the threshold unseen; a peak that is none; a tag twice, validation that blames the innocent |
| `CentumSound` | `AcknowledgedOnce`, `SequentialExecution` | a phase passed that nobody ever acknowledged; places completed out of order |
| | `LogIsRight` | a ring that hands back another event than the last; a bumpless transfer to a unit nobody declared synchronised; a manual one slower than half a second |
| | `BlocksAgree` | a selector or split range that leaves its order |
| | `TablesStayValid`, `ProportionsKept` | a station, slot or address taken twice; a recipe scaled out of proportion |
| `DcsSound` | `Isa88InOrder` | a phase touched before its turn |
| | `FlagMeansResynced` | a standby called ready that was not synchronised since the last switchover |
| | `OwedIsShown`, `FloodIsExact` | an unacknowledged alarm that disappears otherwise than by unshelving, an acknowledged one still owed; a flood missed or invented |
| | `TablesHaveNoDuplicates`, `FittingPhasesFit` | a duplicate after some order of filling; a phase that fits on paper only |
| | `WatchdogBites`, `RecommendedIsVerified` | a watchdog revived late; a recommendation that verification refuses |
| `FieldSound`: `DeltaVSound` | `DvPlantSound`, `WaitsAndVotes` | two members in control, a stale log entry, a node at work uninitialised; a wait cut short, a vote between inputs that disagree |
| and `BusIsSound` | `TokenIsFair`, `AddressesAreUnique` | a device passed over; two devices at one address |
| | `ModeIsPermitted`, `UndamagedIsAccepted` | a block in a mode it forbids; a frame that arrives whole and is refused |
| `AcceptedIsFit` | `AcceptedSchedulesMeetDeadlines` | an accepted schedule with a missed deadline |
| | `TopologyIsTrue`, `DamageIsSeen` | a diameter or redundancy that the graph does not have; a damaged frame accepted as another |
| `EcsSound` | `LostIsTheDifference`, `ConversionsAgree`, `OneToken` | a loss count that wraps for good; a count that is not returned; a chart with two tokens or none |
| | `ClockErrorBounded`, `ExchangeSound`, `AcceptedMeansDisjoint` | a clock that is off by more than the delay; an offset worse than half the round trip; a shared station accepted |
| `ControllerSound` | `NoFrameMissed`, `OutputsHold` | a due execution of a task left out; an output that reads back otherwise |
| | `PrimaryIsServer`, `StopIsFinal`, `LogKeepsTheLast`, `NetworkIsTrue`, `RampBetween` | a healthy system without server; a restart after an emergency stop; a lost event; a redundant network with one link; an output beyond its ramp |
| `StationSound` | `CharacterizerHits`, `AverageIsExact`, `ReadyMeansSound` | a curve that misses its points; a sum that drifts from its ring; a workbook ready with a bad range |
| | `CountsAreTrue`, `FloodWasReal`, `PenShowsTheLast`, `FaceIsHonest` | counts that differ from the records; an invented flood; samples lost at the wrap; an operator's entry beyond its limits, colours that are not those of the report |

### Bounds, and why they are enough

* `library`: three slots with every health value and slots filled again, so
  that a primary can fail with survivors on either side of it; the closed form
  quantifies over all subsets of late slots. What TLC shows of three
  modules the theorems show of every group. Version vectors: three controllers
  (the smallest number with an indirect path), two updates each, two vectors under
  way. Voters of three and four inputs from three values, two of which are nearer
  to each other than the threshold; a fault log of three entries, a trend ring of four that
  wraps; a tree of three gates of the three kinds over four events.
* `engine`, `recovery` (engine): two slots, a timeout of one interval, a slack of one
  tick for the minute. `Cap` makes an age saturate one tick above the largest
  value the code distinguishes. In `engine` a delay of one tick lets a heartbeat be
  older than its predecessor; `recovery` leaves the delay out and adds the
  replacement of a module. The refinement is also proved for all values.
* `recovery` (synchronisation): two bytes, regions `[0,1)`, `[1,2)` and `[0,2)` of which
  two are registered in any order, so overlapping and disjoint pairs occur;
  transfers whose buffer is too small for a region or for both together.
* `experion_pair`: a limit of two missed heartbeats instead of five, so that a count
  can be interrupted half way. The safety properties are proved for every limit.
* `alarm_shelving`: a HIGH and a LOW alarm of different kinds that may swap in
  the array of records, a horizon of three instants, two durations and a limit
  that an extension can reach; `MaxShelveId` bounds the shelvings and `MaxActive`
  stops shelving once the active count has drifted that far. The records: a ring of
  three that takes five entries and may be damaged once, a chattering threshold of
  three with a ring of five and eight transitions, a day of four seconds with an
  array of three and six events, a database of three with a counter of range eight
  (`CountRange`, 2^32 in the code). `alarm_live`: one deviation alarm with a value that is not
  a number (999 stands for NaN), plant suppression, flood detection with a threshold
  of two.
* `centum`: tables in which each kind of irregular entry occurs (dangling
  unit procedure, operation and phase, a phase that two operations share, an
  empty procedure), three batches so that the
  second and third find used phases, scans of 0, 1 and 2 seconds against
  durations of 1 to 3; a failover log of two with three failovers, with SYNCHRONIZED written at any time; domains, slots and
  segments one entry beyond their limits; answers of four bits with every damage of
  one or two.
* `dcs_field`: recipes of up to two operations out of three kinds, one with a phase of no
  duration; static filter timers used by two alarms; tables at their sizes and one
  beyond; up to three tasks with periods that divide one another and others that do
  not; DeltaV's log of two with three failovers; a macrocycle of 20 units, a clock
  of 64 that wraps in three cycles, three addresses in the live list and one removal;
  two devices that compete for addresses at the edge of the permanent range; frames with up to
  two inverted half bits.
* `ecs_experion`: a grace period of two in four instants; counters of range eight; a
  filter, rate and integral range in which an output meets its limits from both sides;
  a chart with a loop and a chain; clock delays of up to three; frames of 10 ms with
  tasks of one, two and three frames, of no period and of one shorter than a frame, over
  four frames; a failover ring of three with
  eight failovers; windows of one to three samples with five samples; summaries of
  two alarms with a flood at two.

Every bound is a constant of its module, explained where it is declared (`Max...`,
`Horizon`, `EndOfTime`, ranges of counters), and stands in a guard; inputs come from the
finite sets the constants name. TLC explores all behaviours within the bounds.

### Fairness

* `EngineFairSpec` (in `RecoverySpec`): the clock ticks and the timeout check is polled
  (`FailoverEngine` is documented as called periodically); nothing is assumed of
  modules, diagnostics or operators. `GroupFairSpec`: healthy
  modules go on sending heartbeats and polls that find no slot late come again and
  again, which is what polling a healthy group does.
* `ExperionPair!FairSpec`: heartbeats are sent every `heartbeat_interval_ms` and
  health is checked by the application loop (weak fairness); a link that is not cut
  lets a heartbeat through now and again (strong fairness of the receipt, since it
  may be dropped in between). Roles, failovers and synchronisations are free.
* `SyncFairSpec` (in `RecoverySpec`): the incremental transfer is called again and again with
  buffers of the size of the memory, as in the periodic synchronisation the code
  is written for. Transfers that fail come in between without limit.
* `ControlLoop` of the alarms: scans and automatic unshelving are periodic and the
  clock advances. Operators and plant are free.
* `CentumSpec`: scans that pass at least one second go on, and a phase
  that asks for acknowledgement gets it while the batch runs.
* `DcsFieldSpec`: the ISA-88 scan goes on and takes time, the primary synchronises
  periodically, and each alarm's value is processed again and again; commands,
  switchovers and operators are free.

The remaining specifications have no liveness properties: their components react
to calls and promise nothing that needs a later one.

Deadlock is checked in `engine`, `recovery`, `experion_pair`, `alarm_live`, `alarm_delay` and `leader`. The
joined specifications have it off, since several of their parts legally come to rest: a
station with no batch left to start, a table that is full, an alarm record or ring
whose bound on calls is reached.

## 4. What is proved

Every theorem holds for all values of the constants that satisfy the named
assumptions of the modules; TLC evaluates those assumptions in the runs. The
assumptions are types (limits are positive, inputs are numbers, tables are sequences of
records) with a few that say more: an alarm may be shelved at once for no longer than
in all (`MaxShelve <= MaxTotalShelve`), the set of generic alarms is finite, no operation is
without phases, a design or a safety function has something to choose from, a
watchdog's timeout is not zero, the clock of a segment does not wrap within one
macrocycle, the lower limit of a faceplate is not above the upper one, the audit ring has at
least two entries and no request names the target that damage leaves behind, a probability lies
between 0 and 1, the weight of an input is not zero, a fault tree has finitely many nodes. The theorems about CENTUM VP, the alarms, the generic DCS with DeltaV and H1, the ECS-700 and the Experion
are about the joined specifications the runs check, so that the property in the run
and in the theorem is the same formula; each rests on a frame lemma that a step of one part
leaves the others alone (`StationsAlone`, `JoinedStep`, `RecordsMove`, `DcsFrame`,
`EcsFrame`, `ExperionFrame`).

### Redundancy library (`RedundancyProofs`)

* `TypeCorrect`: `Spec => []TypeOK` of the group, one lemma per library
  function. The closed form of the timeout loop needs facts about the least and
  the greatest slot of a set (`LeastSlot`, `GreatestSlot`, by arguments on intervals).
* `OnePrimaryHolds`: `Spec => []OnePrimary` under `FailStop`. `OnePrimary` alone is
  not inductive over arbitrary groups: the invariant carried through the steps is
  type correctness and `OnePrimary` together. Each function has a lemma that it
  keeps the roles unambiguous. `FailStop` is necessary, not a convenience: see the
  observation on DEGRADED below.
* `HeadlessHolds`: `Spec => HeadlessOnTotalLoss` under `FailStop`, from the same
  invariant: a module that loses the role has a successor (`TimedOutLeads`,
  `SetHealthLeads`, `ExecuteLeads`) or nobody is healthy.
* `RoleIsHandedOnHolds`, `SplitBrainRepaired`, `BullyAgrees`: the hand-over by the timeout check, the
  repair of a split brain and the election, for all groups that any environment can build;
  `FailStop` is not assumed. That no two slots have the same election priority is what makes
  the election unique. That the role is handed on supposes a healthy holder: from
  a group without one the check need not find its way back (run `leader`).
* `EngineImplementsGroup`: every step of the engine is a step of
  the group or a stutter, under the identity on `grp`. The heart of it is
  `LateAreWatched`. `EngineOnePrimary` follows by composition, without a second
  induction. `EngineTypeCorrect` bounds ages, counts and flags.
* `NothingForgotten`: `CleanMeansCopied` is inductive with the type invariant, for any
  memory, overlapping regions and transfers that end at any region; a crash of the manager is not
  in the model, since nothing of it is persisted. `CompleteVerifies`: a complete
  transfer passes the verification. Both assume that the checksum tells apart the
  contents of a region that occur (`NoCollisions`), which the code takes for granted: a
  region that changed and kept its CRC is not copied. The run meets the assumption with
  the identity as checksum.
* `VectorsCount`, `CompareCorrect`: `VectorsCountUpdates` is
  inductive with the type invariant; that comparing decides inclusion then
  follows from `PointwiseIsInclusion`: a vector is pointwise below another exactly
  when its updates are included.
* `LibraryIsSound`: `LibrarySpec => []LibrarySound`, all the run asks of the passive parts. The
  inductive invariant `LibraryInv` says of each part what its calls keep: the shape of a voter; the census
  of the fault log and the extremes of the cycle times (`FaultsOK`, `MeasuredOK`); the ring read backwards is
  the samples recorded (`RingOK`); no gate has a child above it, and the result of a *settled* gate - evaluated,
  nothing under it changed since - is what its children give (`CachedOK`); the weights of a solved chain
  are its rates (`MarkovOK`). The properties follow from it by arguments about data:
  * votes: the k-th value of the sorted array by counting what lies below it (`Ranked`), so that
    two sets with more elements than there are inputs share one; one odd value is outvoted or lies between
    others (`OneFaultFollows`), an invalid one is never read (`InvalidFollows`);
  * trend: the slope of falling samples has a sign (`SlopeOfSamples`, Chebyshev's sum inequality by
    induction), few samples are far from their mean (`FewAreFar`, Chebyshev's other one);
  * availability: the chances of k of n add up to no more than one, though the coefficients are computed with
    rounding (`ChancesAddUp`); what a fault tree computes, by induction over
    its nodes from below (`NodeInduction`, `TreeRecursion`), is a probability, and the events reported
    as a cut set are in every cut set;
  * `ClosedFormIsLoop`: one more turn of the timeout loop makes the closed form for one more slot
    (`TimedOutStep`: the slot is the primary, the heir so far, or neither), hence the whole loop.

### Experion pair (`ExperionProofs`)

`ExperionTypeCorrect`, `BumplessHolds`, `DownHolds`, `RecoveryHolds`: for every limit of
missed heartbeats and every choice of roles. `BumplessLosesNothing` is inductive with the
type invariant; the two action properties follow from the type invariant.

### Alarms (`AlarmProofs`)

`RecordsAgreeHolds`, `ShelvePolicyHolds`, `UnackNotLostHolds`, for any number of
alarms, durations and limits. The invariant is `AlarmInv`. A count of records equal to one
is of no use to a prover, so `RecordPerShelvedAlarm` is carried as a one-to-one relation
between shelved alarms and records (`OnePer`, equivalent by `CountIsOnePer`) with identifiers in
ascending order, without which a compaction could move a record past its successor. The
scan is a fold over the alarms; its lemmas say what it leaves of each alarm and of the
count. `ShelvePolicy` is inductive with `AlarmInv`: an extension looks at the record and
not at the alarm, and how the two ends of a shelving lie to each other rests on their agreement.
`UnackNotLost` concerns the loss of an alarm only; ACTIVE_UNACK becomes RTN_UNACK by a scan.

`RecordsAreTrueHolds`: all of `RecordsAreTrue`, for every size of the rings, histories and limits.
The invariant `RecordsInv` speaks of each kind of record, whichever of them moves:

* `AuditInv` says of each slot of the ring which request it holds, by the number of the
  request, with its link to the slot before as it was then, and where the damage is. `TrailFollows` reads the ring from its oldest entry
  (`RingShows`); a damaged entry is shown by the link its successor stored, as long as it had one
  when the damage happened (`ChainShows`). What queries and reports collect is a recursive
  function over the ring; `GatheredIs` says that it lists the places asked for in their order, and
  `ComplianceFollows` rests on it: the average response time telescopes as long as times go up.
* `KpiSound`: the count of active alarms is at least their number, since of all transitions
  only those that leave the active states lower it; a worse indicator gives no better score.
* `ChatterInv`: the ring of times holds the newest transitions by their numbers, so that what the
  detector counts in it is what happened within the window.
* `RollingSound`: the history is what was offered and accepted within the day, in the order of time, and
  what was refused met a full array of events of its day. `HistoryFollows` adds that the peak, computed by two ends that move, is the greatest
  burst (`PeakIs`, `BurstsPeak`), and that the alarm ranked first has at least its share of
  the events (`TopIs`).
* `MadSound`: the unsigned counter is the number of rationalized alarms plus what was flipped behind its back,
  modulo its range (`FlaggedAppend`, `FlaggedReplaced`, `FlaggedRemoved`), tags are unique, and so are
  identifiers until an alarm other than the last is removed.

### CENTUM VP (`CentumProofs`)

* `CentumIsSound`: the whole of `CentumSound`. `BatchInOrder` is its part about batches, for
  all recipe tables, dangling references and empty entries included. `SequentialExecution`
  is not inductive: it needs `Settled`, that an index goes up only below an entry that does
  not dangle (otherwise skipping an entry would skip the places of the next one). What a
  scan does to the indices is proved from `MoveByReach`, the cases of a move.
* `FailoverLogIsRight`: the invariant `PairInv` says what the ring holds before and
  after it wraps, and that a unit in state SYNCHRONIZED was declared so since its last copying,
  in whichever place it is.
* Selector, split range and logic are compared with their references for all signals
  (`BlocksAgreeHolds`). The selector exchanges its inputs in a recursive function; what it returns is proved
  by giving the sorted inputs explicitly (`ExchangesAre`).
* Domains, nodes, modules and segments: a removal compacts a table, so that each table has a
  lemma on where its entries were before (`EarlierIs`). `TablesStayValid` is strengthened
  by what validation counts on: no station in two places (`PlantOK`), a macrocycle that is
  a multiple of the 1200 it grows by, and at most one request under way.
* `BatchImplementsSequential`: every step of the joined system is a step of `SequentialBatch` or
  a stutter. `BlocksMoveSafelyHolds`: both action properties, for any tuning and any sequence.

### DeltaV and H1 (`FieldProofs`)

* `FieldIsSound`: `DeltaVSound` and `BusIsSound`. The pair needs the count of log entries as a
  function of the total; the node needs "a node at work was initialised" for every state at
  work (`AtWork`), not for the two the property names.
* `BusIsSound` for any number of devices, schedules, messages and noise. `AddressesAreUnique`
  rests on `AgentInv`: every message ever sent on the bus names an address given to
  that device alone, so a late or repeated one cannot hurt. `TokenIsFair` is strengthened to `Due`: how long
  a device may still wait follows from how far the rotation is from it, a removal
  costing one round. What the encoder writes the decoder reads (`UndamagedIsAccepted`), for
  messages of any length.
* `NothingComesBackHolds` needs the states of a batch that commands can reach;
  `TransferIsBumplessHolds` needs `Aligned`, what a transfer leaves in the PID for the next scan: one
  with the measurement and setpoint of the transfer moves the output by at most one integral
  step and the feedforward;
  `CycleStaysInsideHolds` and `MoreIsNotBetterHolds` follow from the invariants.

### Generic DCS (`DcsProofs`)

* `DcsIsSound`: all of `DcsSound`. The invariant `DcsInv` adds: how the phases of each operation
  stand to its index (`SoundOperation`), that the filter shows the time of an alarm that used it
  alone (`FilterInv`), that bursts are in the order of time (`BurstInv`), that a scan phase counts
  at least the modules placed in it, and that only listed modules are placed (`DbInv`). Sums of
  times over a set of modules and over a sequence are related by the lemmas on folds.
* `Isa88ImplementsSequential`: the refinement, which maps an index per operation to
  one place in the whole recipe (`FlattenIs`).
* `RampIsBumplessHolds`, `WorseIsNotAcceptedHolds`, `ActivationTakesDelayHolds`, and with the
  four of `FieldProofs` all of `StepsSound` (`StepsAreSound`). One channel in place of one of two is worse
  only up to a common cause factor of a third and one expected failure per test interval
  (`OneIsWorse`): beyond that the approximation of `dcs_safety.c` lets it overtake.

### ECS-700 and Experion stations (`StationProofs`)

* `EcsIsSound`: all of `EcsSound`. The invariant `EcsInv` adds that what arrived or is under way on a
  path was sent, without which the differences in unsigned arithmetic could wrap the total
  (`EcsPairInv`); that a step of a chart has been active as many scans as it has acted, and
  the step that holds the token (`ChartInv`); that the clock's offset is between the skew and the skew
  plus the longest delay, where rounding towards zero keeps it (`PtpInv`, `TenthIs`).
  `TransitionsLead` is its hypothesis and concerns the configured chart: a transition to a
  step that does not exist takes the token away, in the code as in the model. A scan visits the
  steps in a recursive function; `ScanKeeps` carries invariant and history through its iteration.
* `ConversionsAgree` for every full scale above 7: that writing returns the count that was read
  rests on a bound for the two quotients (`WrittenBack`, `ReadBack`), the order of extracted roots on
  `RootGrows`. `AcceptedMeansDisjoint` for any number of domains; the total of stations is a sum
  over the domains, of which one gains one (`TotalOfOne`).
* `EcsMovesSafelyHolds`: takeovers at least a grace period apart (the end of the grace
  period goes with the last takeover, which is in `EcsPairInv`), outputs within rate and limits for every
  tuning (`Smooth`), steps left after their dwell time only (`Stayed`).
* `ControllerIsSound`, `StationIsSound`: all of `ControllerSound` and `StationSound`, from `ExperionInv`. Its parts
  are `ControllerInv` (CEE, C300, system, failover log, FTE paths, bumpless ramp), `BlockInv` and `TableInv`
  (PID block, characterizer), `LibraryInv` (custom blocks, moving average, deadband, rate limit, workbook)
  and `HmiInv` (alarm summary, pen, faceplate, displays). What is added to the properties:
  the number of executions of a task is a difference of two quotients of the frame number, now and
  when the task was created (`CeeInv`, for `NoFrameMissed`); a channel holds what was written last unless its
  module fails (`C300Inv`); the ring of failovers holds its events by position (`LogInv`); the sum kept by
  a moving average is that of the samples in its window, as a sum over their places (`AverageInv`);
  the counters of the summary are the numbers of its records per state, under records that
  are added, changed and dropped, until an alarm was miscounted (`SummaryInv`).
* `BlockStepsSoundHolds`: a transfer to AUTO starts at the output it finds, the rate limiter stays within its
  rates, the deadband passes changes up and down in turn, and clearing the summary drops nothing that
  is active, shelved or unacknowledged; for any tuning and limits.

### Lemmas

`InductionLemmas` states induction over naturals and over finite sets in a form the
provers can use: the library's theorems take an operator as parameter, these take a set
(the numbers, or subsets, for which a fact holds) and argue on a least counterexample. On
them rest the sums over sets and sequences, iterated operators, and what removing an entry leaves of
a sequence. No module of the project uses a RECURSIVE operator.

### Only model-checked

* Liveness (`CrashDetected`, `DirtyDrains`, `ConditionAnnounced`, `ShelvesEnd`, `BatchEnds`, `DcsRecovers`,
  `SplitBrainNoticed`): fairness and ENABLED are out of the prover's reach.
* `DamageIsRefused`, `DamageIsSeen` and `PacketDamageIsRefused`: the distance of a CRC is a fact of arithmetic modulo
  a polynomial, for which there is no theory here. `AcceptedSchedulesMeetDeadlines` is the theorem
  of Liu and Layland, `TopologyIsTrue` compares formulas with shortest paths in graphs.
  For this reason they stand outside `CentumSound`, `DcsSound`, `FieldSound` and `EcsSound`.

## 5. Plan

The modelling follows the inventory to its end; what is left out is in section 7. Every invariant
the runs check has a theorem, but for the three named above that have an obstacle of principle:
`PacketDamageIsRefused`, `DamageIsRefused`, and `AcceptedIsFit` with the schedules and topologies.

## 6. Where code and comments part

Three disagreements are shown by runs:

* **`leader`**: `failover_engine.c:248` says "When the primary fails, a new primary
  must be elected." After a total loss the old primary is OFFLINE by role. When
  the modules come back through heartbeats their health is restored, and since
  `failover_check_timeouts` (line 137) looks at the health of the indexed slot
  only, it never fails over: the group has no PRIMARY for ever.
* **`alarm_delay`**: `alarm_engine.c:290` announces an alarm when
  "condition_active AND !suppressed AND !shelved AND on_delay expired". The scan
  (line 446) computes the expiry from the current time in every scan, so an
  on-delay of a second or more never expires.
* **`hold`**: `centum_vp_batch.c:298` says "HOLD — Pause execution gracefully
  (complete current phase)". HOLD sets HOLDING, and the scan returns at once in
  that state (line 376): HELD is never reached, nor is STOPPED after STOP, and
  only ABORT leads on.

Others were met while modelling; the modules follow the code.

### Redundancy library

* `failover_engine.c:401-402` grants quorum to ceil(N / 2) healthy modules, the code
  (line 420) asks for N / 2 + 1. The quorum query is not in the model.
* A primary reported DEGRADED, FAIL_SAFE, MAINT or TESTING keeps its role while
  `redundancy_module_set_health` (`redundancy_core.c:153`) promotes a peer; lines
  157-158 of `failover_engine.c` promise the demotion of the old primary.
  `FailStop` excludes this, `SplitBrainResolved` shows how it is repaired.
* Voting: 2oo3 without an agreeing pair returns DISCREPANCY where
  `voting_mechanism.c:86` says NO_MAJORITY; the mid-value of an even count is an
  average where `voting_mechanism.h:169` says "position floor(N/2)"; the Byzantine vote
  returns the best supported input where line 253 has a median; the generic MAJORITY
  never works; 2oo3 and 2oo4 ignore the valid flags; a weighted vote without inputs
  leaves the last result. Hence `InvalidHasNoVote` speaks of some algorithms only.
* Diagnostics: nothing increments the watchdog's timeout count, so it never expires;
  the extremes of the cycle time are those from the first overrun on
  (`ExtremesAreReached`); a self test passes the memory although the ROM check failed.
* Availability: adding a child clears the cache of its gate and not of those above
  (`CachedIsTrue` says where this ends); an empty voting gate divides by zero; with OR
  gates what is returned as a cut set need not be one (`CutSetIsNecessary`); an
  iteration that is cut off counts as solved.

### Alarms

* `isa18_unshelve_alarm` (`alarm_shelving_suppression.c:140`) sets an active alarm
  NORMAL and leaves `active_alarms` one too high, hence `ActiveCountCovers` and not
  equality; `active_alarm_count` of the indicators drifts up likewise (`CountsCover`).
* `isa18_extend_shelve` (line 231) moves the end in the record,
  `isa18_auto_unshelve_expired` reads the one in the alarm: an extension has no
  effect. It also marks the record approved when no approver is named (line 243),
  where line 205 says "Requires re-approval."; an empty name erases the approver of a HIGH alarm
  (line 240) and the record still counts as approved (`ShelvePolicy`).
* `isa18_check_high_alarm` ignores its deadband (`alarm_engine.c:52`, comment at 44).
* A shelved alarm that returned unacknowledged activates again
  (`alarm_engine.c:355`, comment at 310).
* `isa18_flood_detector_check` ends a flood with its window and not ten minutes
  after the last alarm (`alarm_engine.c:585`, comment at 569).
* Audit trail: nothing vouches for the newest entry; a call without actor or reason
  keeps the text of the entry it overwrites; "0 on failure (buffer full)"
  (`alarm_audit_trail.c:74`) never happens.
* Chattering: `alarm_kpi_metrics.c:206` says "If count >= CHATTER_THRESHOLD_COUNT (3),
  declare chattering"; one slot of the ring is not looked at, so exactly three
  may be missed (`ChatterIsSeen` asks for one more).
* Database: "assigns it a unique alarm_id" (`alarm_rationalization.c:357`), but it is the
  count plus one and repeats after a removal; `isa18_rat_record_apply_to_alarm` (line
  313) sets the flag and not the count, which a removal can then wrap; validation lists
  "No duplicate alarm IDs" and does not look for them.

### CENTUM VP

* `centum_batch_start` does not reset the phases, so in a second batch every phase
  completes in its first scan, and one that asks for acknowledgement passes on the answer an earlier
  batch was given (`AcknowledgedOnce`), where `centum_vp_batch.c:366-368` says that the phase waits; it walks the manager's procedure table and not
  the recipe's `procedure_indices`.
* An ISOLATED or SYNCING primary becomes STANDBY by a failover; a synchronised standby
  is the application's word, which failovers pass between the two places (`LogIsRight`); no code
  assigns MISMATCH. `is_bumpless_possible` does not look at `memory_consistent`, so an entry may say
  150 ms and unsuccessful; with faulty hardware in the primary, a synchronised standby is
  estimated at 2000 ms and one still TRACKING at 500.
* Manual to automatic is not bumpless in the velocity form
  (`centum_vp_control.c:119-120`); a manual value may leave the limits; a held sequence
  does not resume without a reset; logic elements do not read "previously computed
  outputs" (line 575).
* `vnet_verify_packet` checks neither CRC nor sequence number
  (`centum_vp_communication.c:97-107`); a late Modbus answer is accepted; the smallest
  latency is overwritten after a sample of zero.

### Generic DCS and DeltaV

* The hysteresis filter has static timers (`dcs_alarm.c:154`), so that two alarms
  share them: `ActivationTakesDelay` holds for one.
* An unshelved alarm is NORMAL, where `dcs_alarm.c:234` says "will return to its previous state"; shelving
  is "only for acknowledged alarms" (line 211), but the code shelves unacknowledged ones. An alarm
  nobody acknowledged can vanish so, until a value raises it again: `dropped` in `OwedIsShown`.
* "Old primary must resync as standby" (`dcs_redundancy.c:118`): the flag waits for a
  synchronisation (`FlagMeansResynced`), which may copy nothing, and a graceful
  switchover does not look at the flag but at the former completeness.
* `dcs_sif_verify` ignores the architectural constraint; the two verifications of a
  topology disagree on a STAR or TREE with a redundant backbone.
* DeltaV: a failover writes roles to places and a second one writes the same again;
  HOLDING, PAUSING, STOPPING and ABORTING are left by the abort alone and nothing
  assigns COMPLETE (`NothingComesBack`); a count of faulty channels wraps below zero;
  removing a carrier keeps its channels in the counts; registering counts and
  decommissioning removes nothing; "Median selection" (`README.md:97` of the project),
  but the vote averages.

### H1

* A cycle may start where the last token ended (`ff_h1_datalink.c:73`), where
  `ff_h1_datalink.h:126` says "periodic with period = macrocycle"; when the clock
  wraps, entries are skipped and tokens run past the cycle (`CycleStaysInside`).
* LOCKED, "stable over multiple TD intervals" (`ff_h1_system_mgmt.h:175`), is lost when the
  16-bit count of distributions wraps; the time of a distribution wraps in milliseconds.
* A device fault is never cleared; block types 16 and 17 have no bit in the mask of
  capabilities; the decoder reads an invalid pair as zero (`DamageIsSeen`: the frame check
  notices).

### Experion

* `redundancy_receive_heartbeat` lists "Sequence number is monotonically
  increasing" among its checks (`dcs_redundancy.c:135`); the code does not look at it.
  "Loss of RED_MAX_MISSED_HEARTBEATS consecutive heartbeats triggers failover" (line
  110): the library counts heartbeats of a wrong partner only, the example
  application counts the lost ones itself.
* `redundancy_start_sync` makes any manager SYNCING and `redundancy_sync_complete` makes
  it BACKUP, a running PRIMARY included (lines 254 and 281); `redundancy_set_role`
  refuses both transitions. Hence `DownStaysDown` and not a claim about who leads.
* A manager reports its view of the pair as its own health and adopts its partner's:
  once both are below HEALTHY, the reason for it may be gone and they still keep each
  other DEGRADED (`RecoveryTakesSync`).
* "Task period (must divide frame period)" (`cee_execution.h:71`): a period shorter than a
  frame divides by zero, others work. The overrun flag "for this frame" (line 61) stays;
  `schedule_valid` gates nothing and goes stale.
* A transfer from manual "so output doesn't jump" (`control_blocks.c:120`) jumps with a
  derivative part, and manual to cascade always may (`TransferIsSmooth`).
* The deadband passes inputs in alternating directions only
  (`experion_cab_bulk.c:306`, `BandAlternates`); a workbook stays ready while points are
  added to it.
* `faceplate_update` (`hmiweb_display.c:245`) stores its arguments unclamped, so only entries keep
  to the limits; a logout leaves the level, which alone is asked; an entry leaves the colours of the last report.
* Unshelving, "returning it to its previous state" (`hmiweb_display.c:166`), always gives
  UNACK_ACTIVE; identifiers repeat after clearing; shelving lowers the count of
  unacknowledged alarms even of acknowledged ones (`CountsAreTrue`); a flood never ends.
* RUN is reached without activation; the primary is set even when the mode is refused; a
  clock offset larger than the delay is refused.

### ECS-700

* An open wire cannot be detected, since the current is never below 4 mA; only the first
  transition of a step fires; a chained step runs no action.
* DIRECT, "Output increases as PV increases" (`ecs700_control_station.h:83`), has the
  opposite sign; the ramp of the setpoint overwrites the operator's; a non-latching
  interlock never clears.
* A negative clock offset is cast to an unsigned integer, which is undefined
  (`ClockErrorBounded` leaves the result open); the health score rises from 80 to 81 per
  cent of processor load and falls at 128 MB of memory.

## 7. Not modelled

Every component of section 1 is modelled at least in part; `PROJECT.json` names what is
left out of each. In general these are:

* floating point formulas without a decision or a state behind them: reliability and MTBF,
  Markov models of more than two states, common cause, queueing delays, resistance curves,
  tuning rules and loop performance, means and deviations of finished lists;
* bodies that the source leaves to comments (the PID, AI and ratio algorithms of the H1
  blocks);
* texts, reports, printing, generated code, names, time stamps nothing compares;
* serialisation by `memcpy`, memory allocation and its failure;
* null pointers, except where a call does something else because of one (the audit
  trail), and arguments no caller can mean;
* neural and fuzzy blocks, lead-lag and the simulation of DeltaV, whose arithmetic no
  other function decides on; the event log and statistics of the failover engine; the
  expression evaluator of plant states.

What the model shows is bounded where section 3 says so. Whole numbers stand for
floating point: rounding, overflow to infinity and NaN (except in `alarm_live`) are out of
reach. Every function is atomic, so nothing is said of an application that calls the
libraries from several threads without a lock.
