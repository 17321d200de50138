---------------------------- MODULE CentumStation ---------------------------
(***************************************************************************)
(* Configuration and communication of CENTUM VP: domains and stations *)
(* (centum_vp_system.c), nodes and I/O modules of a control station *)
(* (centum_vp_fcs.c), the gateway with its Modbus requests and H1 segments *)
(* (centum_vp_communication.c), recipes (centum_vp_batch.c); and the *)
(* redundant pair of a station (centum_vp_redundancy.c): roles, *)
(* synchronisation, failover, manual switchover, the ring of logged ones. *)
(* *)
(* The two members of a pair are structs that a failover swaps; `unit` *)
(* says which controller a struct describes.  The application sets the *)
(* health and consistency flags; Conditions are the ones that occur. *)
(* An array with a count is a sequence.  Times and names are left out. *)
(***************************************************************************)
EXTENDS Integers, Sequences, FiniteSets, FiniteSetsExt, SequencesExt

CONSTANTS MaxDomains, MaxStations, StationIds,   \* limits of the configuration
          MaxNodes, MaxModules, Slots,           \* limits of an FCS
          MaxDevices, Addresses,                 \* limits of an H1 segment
          FrameBits,                             \* bits of a Modbus answer
          Sizes                                  \* batch sizes recipes are scaled to

ASSUME CentumStationAssumption ==
  /\ {MaxDomains, MaxStations, MaxNodes, MaxModules, MaxDevices, FrameBits} \subseteq Nat \ {0}
  /\ StationIds \subseteq Nat /\ Slots \subseteq Nat /\ Addresses \subseteq Nat
  /\ Sizes \subseteq Nat \ {0}

VARIABLES plant,    \* centum_system_config_t: the domains
          fcs,      \* centum_fcs_config_t: nodes and I/O modules
          segment,  \* ff_h1_segment_t: devices and macrocycle
          gateway,  \* counts of centum_cgw_config_t and port statistics
          request,  \* modbus_request_t and whether the last answer was damaged
          recipe    \* centum_batch_recipe_t

stationVars == <<plant, fcs, segment, gateway, request, recipe>>

DomainIds == 1 .. MaxDomains
Domain == [id : DomainIds, stations : Seq(StationIds)]
Fcs == [nodes : Seq(Nat), modules : Seq([slot : Slots, channels : Nat])]
Segment == [devices : Seq([address : Addresses, vcrs : Nat]), macrocycle : Nat]
Request == [success : BOOLEAN, exception : BOOLEAN, data : Nat, damaged : BOOLEAN, sent : Nat]
Gateway == [opc : 0 .. 16, modbus : 0 .. 8, segments : 0 .. 4]
PortStatistics == [received : Nat, dropped : Nat, min : Nat, max : Nat]

-----------------------------------------------------------------------------
(* centum_system_add_station and _remove_station. *)
StationInUse(id) == \E d \in DOMAIN plant : \E s \in DOMAIN plant[d].stations : plant[d].stations[s] = id

Joined(p, domain, id) ==
  IF \E d \in DOMAIN p : p[d].id = domain
  THEN LET d == SelectInSeq(p, LAMBDA x : x.id = domain)
       IN IF Len(p[d].stations) < MaxStations
          THEN [p EXCEPT ![d].stations = Append(@, id)] ELSE p
  ELSE IF Len(p) < MaxDomains THEN Append(p, [id |-> domain, stations |-> <<id>>]) ELSE p

add_station ==
  /\ \E domain \in DomainIds, id \in StationIds :
       ~StationInUse(id) /\ plant' = Joined(plant, domain, id)
  /\ UNCHANGED <<fcs, segment, gateway, request, recipe>>

Left(p, d, s) ==
  IF Len(p[d].stations) = 1 THEN RemoveAt(p, d)
  ELSE [p EXCEPT ![d].stations = RemoveAt(@, s)]

remove_station ==
  /\ \E d \in DOMAIN plant : \E s \in DOMAIN plant[d].stations : plant' = Left(plant, d, s)
  /\ UNCHANGED <<fcs, segment, gateway, request, recipe>>

system_validate(p) ==
  IF p = <<>> THEN "WARNING"
  ELSE IF \/ \E d \in DOMAIN p : ~IsInjective(p[d].stations)
          \/ \E d, e \in DOMAIN p : d < e /\ ToSet(p[d].stations) \intersect ToSet(p[e].stations) # {}
       THEN "TAG_DUP"
  ELSE IF \E d, e \in DOMAIN p : d # e /\ p[d].id = p[e].id THEN "TAG_DUP" ELSE "OK"

total_io_count(p) == 100 * MapThenSumSet(LAMBDA d : Len(p[d].stations), DOMAIN p)

(* Half of the stations of a domain count as FCS, a quarter as HIS; the *)
(* sums are uint8_t. *)
license_check(p, l) ==
  /\ l.valid /\ ~l.expired /\ total_io_count(p) <= l.tags
  /\ MapThenSumSet(LAMBDA d : Len(p[d].stations) \div 2, DOMAIN p) % 256 <= l.fcs
  /\ MapThenSumSet(LAMBDA d : Len(p[d].stations) \div 4, DOMAIN p) % 256 <= l.his

vnet_calc_ip_address(domain, station) ==
  << 172, 16, IF domain \in 1 .. 16 THEN domain ELSE 1, IF station > 254 THEN 254 ELSE station >>

-----------------------------------------------------------------------------
(* centum_fcs_add_nio_node, _add_io_module and _remove_io_module.  A module*)
(* does not say on which node it sits, so that a slot is unique in the *)
(* whole station. *)
add_nio_node ==
  /\ Len(fcs.nodes) < MaxNodes
  /\ \E address \in 1 .. MaxNodes + 1 :
       address \notin ToSet(fcs.nodes) /\ fcs' = [fcs EXCEPT !.nodes = Append(@, address)]
  /\ UNCHANGED <<plant, segment, gateway, request, recipe>>

SlotsUsed(f) == {f.modules[i].slot : i \in DOMAIN f.modules}

add_io_module ==
  /\ Len(fcs.modules) < MaxModules /\ fcs.nodes # <<>>
  /\ \E slot \in Slots \ SlotsUsed(fcs), channels \in {0, 8} :
       fcs' = [fcs EXCEPT !.modules = Append(@, [slot |-> slot, channels |-> channels])]
  /\ UNCHANGED <<plant, segment, gateway, request, recipe>>

remove_io_module ==
  /\ \E i \in DOMAIN fcs.modules : fcs' = [fcs EXCEPT !.modules = RemoveAt(@, i)]
  /\ UNCHANGED <<plant, segment, gateway, request, recipe>>

total_io_points(f) == MapThenSumSet(LAMBDA i : f.modules[i].channels, DOMAIN f.modules)

validate_configuration(f, blocks, scanUs) ==
  /\ ~(blocks > 0 /\ f.nodes = <<>>)
  /\ scanUs \in 10000 .. 10000000
  /\ \A i \in DOMAIN f.modules : f.modules[i].slot <= 11 /\ f.modules[i].channels # 0

(* centum_signal_convert_raw_to_eu and back, for a range [lo, hi] -> 0..eu *)
raw_to_eu(raw, lo, hi, eu) == IF hi = lo THEN 0 ELSE ((raw - lo) * eu) \div (hi - lo)
eu_to_raw(x, lo, hi, eu) ==
  IF eu = 0 THEN lo
  ELSE LET raw == (2 * (lo * eu + x * (hi - lo)) + eu) \div (2 * eu)
       IN IF raw > hi THEN hi ELSE IF raw < lo THEN lo ELSE raw

(* Microseconds of one execution of all blocks, the same number of each of *)
(* the twenty types: a PID takes 50, LC64 35, SEBOL 25, CALCU 20, others 10*)
execution_time(blocks) == (blocks \div 20) * (50 + 35 + 25 + 20 + 16 * 10)
overruns(blocks, scanUs) ==
  IF execution_time(blocks) > scanUs THEN (execution_time(blocks) - scanUs) \div 1000 ELSE 0

-----------------------------------------------------------------------------
(* ff_h1_add_device, _remove_device and _schedule_rebuild. *)
add_device ==
  /\ Len(segment.devices) < MaxDevices
  /\ \E address \in Addresses, vcrs \in 0 .. 2 :
       /\ \A i \in DOMAIN segment.devices : segment.devices[i].address # address
       /\ segment' = [segment EXCEPT !.devices = Append(@, [address |-> address, vcrs |-> vcrs])]
  /\ UNCHANGED <<plant, fcs, gateway, request, recipe>>

remove_device ==
  /\ \E i \in DOMAIN segment.devices : segment' = [segment EXCEPT !.devices = RemoveAt(@, i)]
  /\ UNCHANGED <<plant, fcs, gateway, request, recipe>>

(* A millisecond for each VCR and a reserve of a fifth. *)
Scheduled(s) ==
  MapThenSumSet(LAMBDA i : s.devices[i].vcrs * 1000, DOMAIN s.devices)

schedule_rebuild ==
  /\ segment.devices # <<>>
  /\ segment' = [segment EXCEPT !.macrocycle = (Scheduled(segment) * 120) \div 100]
  /\ UNCHANGED <<plant, fcs, gateway, request, recipe>>

-----------------------------------------------------------------------------
(* The gateway: centum_cgw_add_*, vnet_update_statistics. *)
GatewayLimit == [opc |-> 16, modbus |-> 8, segments |-> 4]
cgw_add ==
  /\ \E kind \in DOMAIN GatewayLimit :
       /\ gateway.counts[kind] < GatewayLimit[kind]
       /\ gateway' = [gateway EXCEPT !.counts[kind] = @ + 1]
  /\ UNCHANGED <<plant, fcs, segment, request, recipe>>

(* A minimum of zero counts as "no packet yet". *)
Counted(s, success, latency) ==
  IF ~success THEN [s EXCEPT !.dropped = @ + 1]
  ELSE [s EXCEPT !.received = @ + 1,
                 !.max = IF latency > @ THEN latency ELSE @,
                 !.min = IF latency < @ \/ @ = 0 THEN latency ELSE @]

update_statistics ==
  /\ gateway.port.received + gateway.port.dropped < 5
  /\ \E success \in BOOLEAN, latency \in 0 .. 3 :
       gateway' = [gateway EXCEPT !.port = Counted(@, success, latency)]
  /\ UNCHANGED <<plant, fcs, segment, request, recipe>>

(* vnet_verify_packet: no checksum, no sequence number. *)
verify_packet(header, payloadGiven, length) ==
  /\ payloadGiven \/ header.length = 0
  /\ length = header.length
  /\ 0 \notin {header.dest[1], header.dest[2], header.src[1], header.src[2]}

opc_is_good(quality) == (quality \div 64) % 4 = 3

-----------------------------------------------------------------------------
(* modbus_crc16 over bits, least significant first; the register is the set*)
(* of its bits that are one. *)
(* Mutant: the bit shifted out is forgotten. *)
ShiftedOut(crc) == {b - 1 : b \in crc \ {0}}
ShiftedDown(crc) ==
  LET down == {b - 1 : b \in crc \ {0}}
  IN IF 0 \in crc THEN SymDiff(down, {0, 13, 15}) ELSE down

modbus_crc16(bits) ==
  LET crc[n \in 0 .. Len(bits)] ==
        IF n = 0 THEN 0 .. 15
        ELSE ShiftedDown(IF bits[n] = 1 THEN SymDiff(crc[n - 1], {0}) ELSE crc[n - 1])
  IN crc[Len(bits)]

(* The answer to a read: FrameBits of data and the checksum the slave sent,*)
(* some bits of which are wrong when it arrives. *)
Damaged(bits, damage) == [i \in DOMAIN bits |-> IF i \in damage THEN 1 - bits[i] ELSE bits[i]]

parse_response(bits, exceptionBit, damage) ==
  IF modbus_crc16(Damaged(bits, damage))
       # SymDiff(modbus_crc16(bits), {d - FrameBits - 1 : d \in damage \ (1 .. FrameBits)})
  THEN [request EXCEPT !.success = FALSE]
  ELSE IF exceptionBit THEN [request EXCEPT !.success = FALSE, !.exception = TRUE]
  ELSE [request EXCEPT !.success = TRUE, !.data = request.sent]

modbus_exchange ==
  /\ \E bits \in [1 .. FrameBits -> {0, 1}], exceptionBit \in BOOLEAN,
        damage \in UNION {kSubset(k, 1 .. FrameBits + 16) : k \in 0 .. 2} :
       request' = [parse_response(bits, exceptionBit, damage)
                     EXCEPT !.damaged = (damage # {}), !.sent = 1 - @]
  /\ UNCHANGED <<plant, fcs, segment, gateway, recipe>>

(* The length of a request frame and the byte count it carries. *)
frame_length(function, quantity) ==
  CASE function = "WRITE_SINGLE_REG" -> 4 + 2 * quantity + 2
    [] function = "WRITE_MULTI_REGS" -> 7 + 2 * quantity + 2
    [] OTHER -> 8
byte_count(quantity) == (2 * quantity) % 256

-----------------------------------------------------------------------------
(* centum_batch_scale_recipe: every quantity by the same factor, and the *)
(* next scaling starts from the new size. *)
add_formula_item ==
  /\ Len(recipe.formula) < 2
  /\ \E parts \in 1 .. 2 : recipe' = [recipe EXCEPT !.formula = Append(@, parts * recipe.target)]
  /\ UNCHANGED <<plant, fcs, segment, gateway, request>>

Scaled(r, size) ==
  [r EXCEPT !.formula = [i \in DOMAIN @ |-> (@[i] * size) \div r.target], !.target = size]

scale_recipe ==
  /\ \E size \in Sizes : recipe' = Scaled(recipe, size)
  /\ UNCHANGED <<plant, fcs, segment, gateway, request>>

validate_recipe(r, procedures, min, max) ==
  /\ procedures # 0 /\ min <= max /\ r.target \in min .. max
  /\ r.target > 0 => r.formula # <<>>

-----------------------------------------------------------------------------
StationInit ==
  /\ plant = <<>> /\ fcs = [nodes |-> <<>>, modules |-> <<>>]
  /\ segment = [devices |-> <<>>, macrocycle |-> 0]
  /\ gateway = [counts |-> [opc |-> 0, modbus |-> 0, segments |-> 0],
                port |-> [received |-> 0, dropped |-> 0, min |-> 0, max |-> 0]]
  /\ request = [success |-> FALSE, exception |-> FALSE, data |-> 0, damaged |-> FALSE, sent |-> 0]
  /\ \E size \in Sizes : recipe = [target |-> size, formula |-> <<>>]

PlantNext == add_station \/ remove_station
FcsNext == add_nio_node \/ add_io_module \/ remove_io_module
SegmentNext == add_device \/ remove_device \/ schedule_rebuild
GatewayNext == cgw_add \/ update_statistics
RecipeNext == add_formula_item \/ scale_recipe

(* Tables, gateway and recipe are well formed. *)
StationTypeOK ==
  /\ plant \in Seq(Domain) /\ fcs \in Fcs /\ segment \in Segment /\ request \in Request
  /\ gateway.counts \in Gateway /\ gateway.port \in PortStatistics
  /\ gateway.port.min <= gateway.port.max

(* Whatever is added and removed, the tables stay what their checks ask *)
(* for: no station in two domains, no domain twice or empty, no slot or *)
(* address taken twice; so validation refuses a system only for being empty*)
(* (centum_vp_system.c:148) and a removed entry takes no other with it. *)
TablesStayValid ==
  /\ system_validate(plant) = IF plant = <<>> THEN "WARNING" ELSE "OK"
  /\ \A d \in DOMAIN plant : plant[d].stations # <<>>
  /\ Cardinality(SlotsUsed(fcs)) = Len(fcs.modules) /\ IsInjective(fcs.nodes)
  /\ \A i, j \in DOMAIN segment.devices :
       i # j => segment.devices[i].address # segment.devices[j].address
  /\ segment.macrocycle % 1200 = 0

(* An answer with one or two wrong bits, in its data or its checksum, is *)
(* never taken for the answer of the slave. *)
DamageIsRefused == request.success => ~request.damaged

(* However often a recipe is scaled, its items keep their proportions to *)
(* the size of the batch. *)
ProportionsKept ==
  \A i \in DOMAIN recipe.formula : recipe.formula[i] \in {recipe.target, 2 * recipe.target}

-----------------------------------------------------------------------------
(* The redundant pair. *)

CONSTANTS Conditions,    \* flags of a member: [hw, sw, mem, db : BOOLEAN]
          SyncWritten,   \* sync_state values the application writes itself
          Causes,        \* failover types it passes besides MANUAL
          LogSize,       \* CENTUM_REDUN_MAX_FAILOVER_LOG
          MaxFailovers   \* bound on failover_count

SyncState == {"IDLE", "COPYING", "EQUALIZING", "TRACKING", "SYNCHRONIZED", "MISMATCH"}

ASSUME CentumPairAssumption ==
  /\ Conditions \subseteq [hw : BOOLEAN, sw : BOOLEAN, mem : BOOLEAN, db : BOOLEAN]
  /\ SyncWritten \subseteq SyncState /\ Causes \subseteq {"AUTO", "SCHEDULED", "FAULT"}
  /\ LogSize \in Nat \ {0} /\ MaxFailovers \in Nat

VARIABLES cpair,       \* primary and standby of centum_redundancy_pair_t
          failovers,   \* failover_count
          log,         \* centum_failover_log_t
          declared,    \* (model) units declared synchronised since last copied to
          newest       \* (model) the last event handed to the log, and whether
                       \* the unit that took over was declared

centumPairVars == <<cpair, failovers, log, declared, newest>>

CRole == {"PRIMARY", "STANDBY", "OFFLINE", "SYNCING", "MAINT", "ISOLATED"}
FailoverType == {"MANUAL"} \cup Causes
Units == {"left", "right"}
Member == [unit : Units, role : CRole, sync : SyncState, flags : Conditions]
NoEvent == [type |-> "MANUAL", success |-> FALSE, ms |-> 0]
Event == [type : FailoverType, success : BOOLEAN, ms : {0, 150, 500, 2000}]
Log == [ring : [0 .. LogSize - 1 -> Event], write : 0 .. LogSize - 1, count : 0 .. LogSize]

-----------------------------------------------------------------------------
pair_init(flags) ==
  [primary |-> [unit |-> "left", role |-> "OFFLINE", sync |-> "IDLE", flags |-> flags],
   standby |-> [unit |-> "right", role |-> "OFFLINE", sync |-> "IDLE", flags |-> flags]]

log_init == [ring |-> [i \in 0 .. LogSize - 1 |-> NoEvent], write |-> 0, count |-> 0]

CentumPairInit ==
  /\ \E flags \in Conditions : cpair = pair_init(flags)
  /\ failovers = 0 /\ log = log_init
  /\ declared = {} /\ newest = [event |-> NoEvent, declared |-> FALSE]

-----------------------------------------------------------------------------
SyncOfRole(role) ==
  CASE role = "PRIMARY" -> "SYNCHRONIZED"
    [] role = "STANDBY" -> "TRACKING"
    [] role = "SYNCING" -> "COPYING"
    [] OTHER -> "IDLE"

(* The declarations when the unit at m gets a state of synchronisation. *)
Declares(m, sync) ==
  CASE sync = "SYNCHRONIZED" -> declared \cup {cpair[m].unit}
    [] sync = "COPYING"      -> declared \ {cpair[m].unit}
    [] OTHER                 -> declared

RoleAllowed(prev, role) ==
  /\ ~(prev = "OFFLINE" /\ role = "PRIMARY")
  /\ prev = "ISOLATED" => role \in {"OFFLINE", "MAINT"}

set_role(m) ==
  /\ \E role \in CRole :
       /\ RoleAllowed(cpair[m].role, role)
       /\ cpair' = [cpair EXCEPT ![m].role = role, ![m].sync = SyncOfRole(role)]
       /\ declared' = Declares(m, SyncOfRole(role))
  /\ UNCHANGED <<failovers, log, newest>>

initiate_sync ==
  /\ cpair.primary.role # "OFFLINE" /\ cpair.standby.role # "OFFLINE"
  /\ cpair' = [cpair EXCEPT !.standby.role = "SYNCING", !.standby.sync = "COPYING"]
  /\ declared' = Declares("standby", "COPYING")
  /\ UNCHANGED <<failovers, log, newest>>

(* The application finds a member changed. *)
flags_change(m) ==
  /\ \E flags \in Conditions : cpair' = [cpair EXCEPT ![m].flags = flags]
  /\ UNCHANGED <<failovers, log, declared, newest>>

(* It brings a member up in its place without set_role, and declares how *)
(* far its synchronisation has come: the library ends no copying. *)
role_written(m) ==
  /\ cpair' = [cpair EXCEPT ![m].role = IF m = "primary" THEN "PRIMARY" ELSE "STANDBY"]
  /\ UNCHANGED <<failovers, log, declared, newest>>

sync_written(m) ==
  /\ \E sync \in SyncWritten :
       /\ cpair' = [cpair EXCEPT ![m].sync = sync]
       /\ declared' = Declares(m, sync)
  /\ UNCHANGED <<failovers, log, newest>>

-----------------------------------------------------------------------------
check_sync_health(p) ==
  \A m \in {p.primary, p.standby} :
    m.sync \in {"SYNCHRONIZED", "TRACKING"} /\ m.flags.mem /\ m.flags.db

validate_pair_health(p) ==
  /\ \A m \in {p.primary, p.standby} : m.flags.hw /\ m.flags.sw
  /\ check_sync_health(p)

is_bumpless_possible(p) ==
  /\ p.standby.sync = "SYNCHRONIZED"
  /\ \A m \in {p.primary, p.standby} : m.flags.hw /\ m.flags.db

switchover_time(p) ==
  IF is_bumpless_possible(p) THEN 150
  ELSE IF p.standby.sync = "TRACKING" THEN 500 ELSE 2000

log_add(l, event) ==
  [ring |-> [l.ring EXCEPT ![l.write] = event],
   write |-> (l.write + 1) % LogSize,
   count |-> IF l.count < LogSize THEN l.count + 1 ELSE l.count]

get_latest(l) == l.ring[IF l.write = 0 THEN LogSize - 1 ELSE l.write - 1]

(* Mutant: the new primary gets the synchronisation of the old one. *)
SwappedButSync(p) ==
  [primary |-> [p.standby EXCEPT !.role = "PRIMARY", !.sync = p.primary.sync],
   standby |-> [p.primary EXCEPT !.role = "STANDBY", !.sync = p.standby.sync]]

Swapped(p) ==
  [primary |-> [p.standby EXCEPT !.role = "PRIMARY"],
   standby |-> [p.primary EXCEPT !.role = "STANDBY"]]

perform_failover(type) ==
  /\ cpair.standby.role = "STANDBY" /\ cpair.standby.sync # "MISMATCH"
  /\ LET event == [type |-> type, success |-> check_sync_health(cpair),
                   ms |-> switchover_time(cpair)]
     IN /\ log' = log_add(log, event)
        /\ newest' = [event |-> event, declared |-> cpair.standby.unit \in declared]
  /\ cpair' = Swapped(cpair)
  /\ failovers' = failovers + 1
  /\ UNCHANGED declared

manual_switchover == validate_pair_health(cpair) /\ perform_failover("MANUAL")

(* A behaviour ends with the last failover of the bound. *)
CentumPairNext ==
  /\ failovers < MaxFailovers
  /\ \/ \E m \in {"primary", "standby"} :
          set_role(m) \/ flags_change(m) \/ role_written(m) \/ sync_written(m)
     \/ initiate_sync
     \/ \E type \in Causes : perform_failover(type)
     \/ manual_switchover

-----------------------------------------------------------------------------
(* Members, log and the last event are well formed. *)
CentumPairTypeOK ==
  /\ cpair \in [primary : Member, standby : Member]
  /\ cpair.primary.unit # cpair.standby.unit
  /\ failovers \in 0 .. MaxFailovers /\ log \in Log
  /\ declared \subseteq Units /\ newest \in [event : Event, declared : BOOLEAN]

(* What the log says.  However often it wraps round, it holds as many *)
(* entries as there were failovers or fit, the latest of them the last *)
(* failover; a manual switchover is always a success that takes at most *)
(* half a second (centum_vp_redundancy.c:316); and the 150 ms of a bumpless*)
(* transfer are reported only for a unit that was declared synchronised, *)
(* by the application or by being primary, since its last copying began, *)
(* whichever of the two places it has held meanwhile. *)
LogIsRight ==
  /\ log.count = IF failovers < LogSize THEN failovers ELSE LogSize
  /\ failovers > 0 => get_latest(log) = newest.event
  /\ \A i \in 0 .. LogSize - 1 :
       LET e == log.ring[i] IN
         i < log.count /\ e.type = "MANUAL" => e.success /\ e.ms <= 500
  /\ newest.event.ms = 150 => newest.declared
=============================================================================
