------------------------------- MODULE H1Link -------------------------------
(***************************************************************************)
(* The H1 segment of mini-fieldbus-foundation-h1: the link active *)
(* scheduler with its schedule, its live list and the tokens it passes *)
(* (ff_h1_datalink.c), and the system management agents of the devices, *)
(* which get their addresses and the time over the bus *)
(* (ff_h1_system_mgmt.c). *)
(* *)
(* Times are in units of 100 us; a clock has the range TimeRange (2^32). *)
(* The bus may duplicate, delay and reorder the messages to an agent. *)
(***************************************************************************)
EXTENDS Integers, Sequences, FiniteSets, FiniteSetsExt, SequencesExt

CONSTANTS Addresses,            \* what is offered as an address
          Macrocycle, TimeRange,
          Offsets, Responses,   \* of the entries of a schedule
          MaxEntries, MaxLive, MaxRemovals, MaxCycles,   \* bounds of a run
          H1Devices, H1Tags,
          LasTimes, SyncRange   \* seconds of a time distribution; range of the flags

PermanentMin == 16              \* FF_DL_ADDR_PERM_MIN, FF_DL_ADDR_PERM_MAX
PermanentMax == 251
IsPermanent(a) == a \in PermanentMin .. PermanentMax
Temporary == 252                \* 0xFC, until an address is assigned
Unassigned == 255               \* 0xFF

CdTime    == 5                  \* a compelled publication, at most
TokenTime == 2 + 3              \* token_pass_overhead_us and a response

ASSUME H1LinkAssumption ==
  /\ {Macrocycle, TimeRange, MaxEntries, MaxLive, MaxRemovals, MaxCycles, SyncRange} \subseteq Nat \ {0}
  /\ Macrocycle < TimeRange /\ Offsets \subseteq 0 .. TimeRange - 1 /\ Responses \subseteq Nat
  /\ Addresses \subseteq 0 .. 255 /\ LasTimes \subseteq Nat

VARIABLES las,        \* ff_las_context_t
          turns,      \* history, of each address in the live list: tokens passed to others
                      \* and removals from the list since it had the token
          overrun,    \* history: the last cycle skipped an entry
          agents,     \* ff_sm_agent_t of every device
          bus,        \* Set Address messages <<device, address>>, which may arrive again
          clocks      \* time of every agent

h1LinkVars == <<las, turns, overrun, agents, bus, clocks>>

LasStates == {"INACTIVE", "STARTUP", "ACTIVE", "SHUTDOWN"}
CdEntry   == [offset : Offsets, max_response : Responses]
Las == [state : LasStates, time : 0 .. TimeRange - 1, start : 0 .. TimeRange - 1,
        live : Seq(Addresses), schedule : Seq(CdEntry), next_pt : 0 .. MaxLive,
        idle : 0 .. TimeRange - 1, cd_overruns : Nat, cycles : 0 .. MaxCycles]

NoTurns == [others |-> 0, removals |-> 0]

SmStates == {"UNINITIALIZED", "INITIALIZING", "OPERATIONAL", "FAULT"}
NoH1Tag == "none"
Agent == [state : SmStates, dl_address : Addresses \union {Temporary},
          permanent : Addresses \union {Unassigned}, tag : H1Tags \union {NoH1Tag}]

-----------------------------------------------------------------------------
(* The schedule and the live list. *)
las_init ==
  [state |-> "STARTUP", time |-> 0, start |-> 0, live |-> << >>, schedule |-> << >>,
   next_pt |-> 0, idle |-> 0, cd_overruns |-> 0, cycles |-> 0]

(* The caller makes the scheduler active when the list is built. *)
Activate ==
  /\ las.state = "STARTUP" /\ las' = [las EXCEPT !.state = "ACTIVE"]
  /\ UNCHANGED <<turns, overrun>>

Ascending(schedule, entry) == schedule # << >> => entry.offset > Last(schedule).offset

cd_add ==
  /\ las.state = "STARTUP" /\ Len(las.schedule) < MaxEntries
  /\ \E entry \in CdEntry :
       /\ Ascending(las.schedule, entry)
       /\ las' = [las EXCEPT !.schedule = Append(@, entry)]
  /\ UNCHANGED <<turns, overrun>>

(* An address that is in the list already is marked operational again, *)
(* which it is: nothing in src marks one as not operational. *)
live_list_add ==
  /\ \E a \in Addresses :
       /\ IsPermanent(a) /\ a \notin ToSet(las.live) /\ Len(las.live) < MaxLive
       /\ las' = [las EXCEPT !.live = Append(@, a)]
       /\ turns' = [turns EXCEPT ![a] = NoTurns]
  /\ UNCHANGED overrun

live_list_remove ==
  /\ \E i \in DOMAIN las.live :
       /\ \A b \in Addresses : turns[b].removals < MaxRemovals
       /\ las' = [las EXCEPT !.live = RemoveAt(@, i)]
       /\ turns' = [b \in Addresses |->
                     IF b \in ToSet(las.live) \ {las.live[i]} THEN [turns[b] EXCEPT !.removals = @ + 1]
                     ELSE NoTurns]
  /\ UNCHANGED overrun

live_list_find(live, a)       == a \in ToSet(live)
live_list_is_full(live)       == Len(live) >= PermanentMax - PermanentMin + 1
lm_holdoff_ms(priority)       == IF priority = 0 THEN 0 ELSE (priority - 1) * 4
lm_election_compare(p, q)     == IF p < q THEN 1 ELSE IF p > q THEN 0 - 1 ELSE 0

(* ff_live_list_next_token: the device at the index, and the index after. *)
(* The index survives a change of the list. *)
next_token(live, index) ==
  LET at == index % Len(live) IN [device |-> live[at + 1], index |-> (at + 1) % Len(live)]

-----------------------------------------------------------------------------
(* One macrocycle: the entries in their order, then tokens while there is *)
(* time, at most one for every device. *)
Wrap(t) == t % TimeRange

(* Entries run one by one: time, end of the last one, entries skipped.  An *)
(* entry is late only when the end of its window wraps around. *)
CdPhase(s) ==
  LET run[k \in 0 .. Len(s.schedule)] ==
        IF k = 0 THEN [time |-> s.time, last |-> s.time, skipped |-> 0]
        ELSE LET was == run[k - 1]
                 e   == s.schedule[k]
                 due == Wrap(s.time + e.offset)
                 end == Wrap(due + Min({CdTime, e.max_response}))
             IN IF due > Wrap(due + e.max_response)
                THEN [was EXCEPT !.time = due, !.skipped = @ + 1]
                ELSE [was EXCEPT !.time = end, !.last = end]
  IN run[Len(s.schedule)]

Tokens(remaining, devices) == Min({remaining \div TokenTime, devices})

(* Who gets the tokens, and the index after them. *)
PtPhase(live, index, tokens) ==
  LET pass[k \in 0 .. tokens] ==
        IF k = 0 THEN [devices |-> << >>, index |-> index]
        ELSE LET was == pass[k - 1]
                 t   == next_token(live, was.index)
             IN [devices |-> Append(was.devices, t.device), index |-> t.index]
  IN pass[tokens]

TurnsAfter(devices) ==
  [a \in Addresses |->
     LET had == {i \in DOMAIN devices : devices[i] = a}
     IN IF a \notin ToSet(las.live) THEN turns[a]
        ELSE IF had = {} THEN [turns[a] EXCEPT !.others = @ + Len(devices)]
        ELSE [NoTurns EXCEPT !.others = Len(devices) - Max(had)]]

las_run_macrocycle ==
  /\ las.state = "ACTIVE" /\ las.cycles < MaxCycles
  /\ LET cd        == CdPhase(las)
         remaining == Wrap(las.time + Macrocycle - cd.last + TimeRange)
         tokens    == Tokens(remaining, Len(las.live))
         pt        == PtPhase(las.live, las.next_pt, tokens)
         used      == tokens * TokenTime
     IN /\ las' = [las EXCEPT !.start = las.time, !.time = Wrap(cd.time + used),
                              !.next_pt = pt.index, !.idle = Wrap(@ + remaining - used + TimeRange),
                              !.cd_overruns = @ + cd.skipped, !.cycles = @ + 1]
        /\ turns' = TurnsAfter(pt.devices)
        /\ overrun' = (cd.skipped > 0)

las_cd_utilization(s) == <<Len(s.schedule) * CdTime, Macrocycle>>
las_has_idle_time(s, least) == Wrap(Macrocycle - Len(s.schedule) * CdTime + TimeRange) >= least

LasNext == Activate \/ cd_add \/ live_list_add \/ live_list_remove \/ las_run_macrocycle

-----------------------------------------------------------------------------
(* The agents.  Whoever assigns the addresses never gives one to two *)
(* devices; the message goes to every agent on the bus, any time later. *)
sm_init == [state |-> "UNINITIALIZED", dl_address |-> Temporary, permanent |-> Unassigned,
            tag |-> NoH1Tag]

sm_start_initialization ==
  /\ \E d \in H1Devices :
       /\ agents[d].state = "UNINITIALIZED"
       /\ agents' = [agents EXCEPT ![d].state = "INITIALIZING"]
  /\ UNCHANGED bus

SendSetAddress ==
  /\ \E d \in H1Devices, a \in Addresses :
       /\ \A m \in bus : m[2] # a
       /\ bus' = bus \union {<<d, a>>}
  /\ UNCHANGED agents

(* Mutant: every agent takes the address. *)
TakesAnyAddress(agent, d, message) ==
  agent.state = "INITIALIZING" /\ IsPermanent(message[2])
TakesAddress(agent, d, message) ==
  agent.state = "INITIALIZING" /\ message[1] = d /\ IsPermanent(message[2])

sm_process_set_address ==
  /\ \E d \in H1Devices, m \in bus :
       /\ TakesAddress(agents[d], d, m)
       /\ agents' = [agents EXCEPT ![d].permanent = m[2], ![d].dl_address = m[2],
                                   ![d].state = "OPERATIONAL"]
  /\ UNCHANGED bus

(* Commissioning by hand, in whatever state, with an address of its own. *)
sm_set_operational ==
  /\ \E d \in H1Devices, a \in Addresses, t \in H1Tags :
       /\ IsPermanent(a) /\ (<<d, a>> \in bus \/ \A m \in bus : m[2] # a)
       /\ agents' = [agents EXCEPT ![d] = [state |-> "OPERATIONAL", dl_address |-> a,
                                           permanent |-> a, tag |-> t]]
       /\ bus' = bus \union {<<d, a>>}

sm_set_fault ==
  /\ \E d \in H1Devices : agents' = [agents EXCEPT ![d].state = "FAULT"]
  /\ UNCHANGED bus

sm_has_permanent_address(agent)  == IsPermanent(agent.permanent)
sm_find_tag_match(agent, tag)    == agent.state = "OPERATIONAL" /\ agent.tag = tag

AgentNext ==
  \/ sm_start_initialization \/ SendSetAddress \/ sm_process_set_address
  \/ sm_set_operational \/ sm_set_fault

(* The time: seconds to milliseconds, in 32 bits.  No sequence number is *)
(* looked at, so that a late distribution sets the clock back. *)
sm_time_sync_quality(flags) ==
  CASE flags = 0 -> "NONE" [] flags \in 1 .. 2 -> "COARSE" [] flags \in 3 .. 9 -> "FINE"
    [] OTHER -> "LOCKED"

sm_process_td ==
  \E d \in H1Devices, seconds \in LasTimes, delay \in 0 .. 1 :
    clocks' = [clocks EXCEPT ![d] = [time |-> Wrap(seconds * 1000 + delay),
                                     flags |-> (@.flags + 1) % SyncRange]]

nm_error_rate(tx, rx, errors) == IF tx + rx = 0 THEN 0 - 1 ELSE <<errors, tx + rx>>
nm_efficiency(tx, rx, errors) ==
  IF tx + rx = 0 THEN 0 - 1 ELSE <<Wrap(tx + rx - errors + TimeRange), tx + rx>>

(* Bytes an entry of the SMIB takes; the others are unknown. *)
smib_size == [DEVICE_ID |-> 32, DEVICE_TAG |-> 32, DEVICE_ADDRESS |-> 1, DEVICE_STATE |-> 1,
              OPERATIONAL_POWERUP |-> 4, DEVICE_CAPABILITY |-> 2, TIME_SYNC |-> 1]
smib_read(entry, room) == entry \in DOMAIN smib_size /\ room >= smib_size[entry]

-----------------------------------------------------------------------------
H1LinkInit ==
  /\ las = las_init /\ overrun = FALSE
  /\ turns = [a \in Addresses |-> NoTurns]
  /\ agents = [d \in H1Devices |-> sm_init] /\ bus = {}
  /\ clocks = [d \in H1Devices |-> [time |-> 0, flags |-> 0]]

H1LinkTypeOK ==
  /\ las \in Las /\ Len(las.live) <= MaxLive /\ overrun \in BOOLEAN
  /\ turns \in [Addresses -> [others : Nat, removals : Nat]]
  /\ agents \in [H1Devices -> Agent] /\ bus \subseteq H1Devices \X Addresses
  /\ clocks \in [H1Devices -> [time : 0 .. TimeRange - 1, flags : 0 .. SyncRange - 1]]

(* Between two tokens of a device every other one has at most one, and *)
(* each device that leaves the list in between may cost it one round more: *)
(* the entries behind it move up and the index of next_token does not. *)
TokenIsFair ==
  \A a \in ToSet(las.live) : turns[a].others <= (MaxLive - 1) * (1 + turns[a].removals)

(* A schedule that fits the macrocycle leaves its tokens inside it, unless *)
(* the clock wrapped around and entries were skipped. *)
CycleStaysInside ==
  [][/\ las'.cycles # las.cycles /\ ~overrun'
     /\ \A i \in DOMAIN las.schedule : las.schedule[i].offset + CdTime <= Macrocycle
     => Wrap(las'.time - las'.start + TimeRange) <= Macrocycle]_<<las, overrun>>

(* However the Set Address messages are delayed or repeated, no two *)
(* devices have the same permanent address. *)
AddressesAreUnique ==
  \A d, e \in H1Devices :
    d # e /\ sm_has_permanent_address(agents[d]) => agents[d].permanent # agents[e].permanent
=============================================================================
