------------------------------ MODULE DcsDesign -----------------------------
(***************************************************************************)
(* The design rules of mini-dcs-system-architecture: hierarchy, topology, *)
(* sizing and verification of a system configuration (dcs_architecture.c), *)
(* its networks (dcs_network_analysis.c), the sizing rules of three vendors*)
(* (dcs_industrial_applications.c), and the safety functions: probability *)
(* of failure on demand, integrity level, verification (dcs_safety.c).  An *)
(* engineer changes the configuration, or a safety function, one figure at *)
(* a time. *)
(* *)
(* Bandwidth is in bits per second or kilobits, times in microseconds. *)
(* Probabilities are millionths, rounded down; rates times test interval *)
(* are given as the product lambda_du * ti, in millionths; common cause *)
(* factors and safe failure fractions are per cent. *)
(* Left out: availability estimates and queueing delays, which nothing *)
(* else reads, and prices. *)
(***************************************************************************)
EXTENDS Integers, FiniteSetsExt

CONSTANTS
  ControllerCounts, StationCounts, IoCounts,  \* figures that are tried
  BackboneSpeeds,                             \* backbone_speed_mbps
  MaxNodes                                    \* bound: largest network compared with its graph

ASSUME DesignAssumption ==
  /\ ControllerCounts \subseteq Nat /\ StationCounts \subseteq Nat /\ IoCounts \subseteq Nat
  /\ BackboneSpeeds \subseteq Nat /\ MaxNodes \in Nat \ {0}
  /\ {} \notin {ControllerCounts, StationCounts, IoCounts, BackboneSpeeds}

Topologies == {"BUS", "STAR", "RING", "DUAL_RING", "MESH", "TREE", "DUAL_STAR"}

VARIABLE plan   \* dcs_system_config_t

(* Scan periods, and availability targets in hundredths of a per cent. *)
ScanPeriods == {100, 500, 1000}
AvailabilityTargets == {9990, 9995, 9999}

DesignTypeOK ==
  plan \in [controllers : ControllerCounts, stations : StationCounts, io_subsystems : 0 .. 1,
            io : IoCounts, scan_ms : ScanPeriods, topology : Topologies,
            speed : BackboneSpeeds, backbone_redundant : BOOLEAN,
            controller_redundancy : BOOLEAN, server_redundancy : BOOLEAN,
            target : AvailabilityTargets]

-----------------------------------------------------------------------------
(* Hierarchy. *)

dcs_map_node_to_isa95_level ==
  [IO_SUBSYSTEM |-> 0,
   CONTROLLER |-> 1, SAFETY_CONTROLLER |-> 1, COMM_GATEWAY |-> 1,
   OPERATOR_STATION |-> 2, ALARM_SERVER |-> 2, APPLICATION_STATION |-> 2,
   ENGINEERING_STATION |-> 2,
   HISTORIAN |-> 3, BATCH_SERVER |-> 3, ASSET_MANAGER |-> 3,
   DOMAIN_CONTROLLER |-> 4]

(* Engineering stations count with the operator stations here. *)
dcs_check_isa95_level_present(p, level) ==
  CASE level = 0 -> p.io_subsystems > 0
    [] level = 1 -> p.controllers > 0
    [] level = 2 -> p.stations > 0
    [] OTHER     -> TRUE

-----------------------------------------------------------------------------
(* Topology. *)

dcs_verify_topology_redundancy(topology, redundant) ==
  redundant => topology \in {"RING", "DUAL_RING", "MESH", "DUAL_STAR"}

(* The logarithm of n rounded to the nearest whole number: n is at least *)
(* the square root of two times that power of two. *)
RoundedLog(n) == Max({k \in 0 .. n : n * n * 2 >= 4 ^ k})

dcs_network_diameter(topology, n) ==
  IF n <= 1 THEN 0
  ELSE CASE topology = "BUS"                   -> n - 1
         [] topology \in {"STAR", "DUAL_STAR"} -> 2
         [] topology \in {"RING", "DUAL_RING"} -> n \div 2
         [] topology = "MESH"                  -> 1
         [] topology = "TREE"                  -> 2 * RoundedLog(n)

(* Hops take the time of the frame and, between them, 5 microseconds. *)
dcs_worst_case_latency(topology, n, mbps, bytes) ==
  LET hops == dcs_network_diameter(topology, n)
  IN  IF mbps = 0 \/ bytes = 0 THEN 0
      ELSE (hops * bytes * 8) \div mbps + (IF hops > 1 THEN (hops - 1) * 5 ELSE 0)

(* The network as a graph: nodes 1 .. n, switches 0 and -1; a tree is the *)
(* binary heap. *)
Nodes(topology, n) ==
  (1 .. n) \cup (CASE topology = "STAR" -> {0} [] topology = "DUAL_STAR" -> {0, -1} [] OTHER -> {})

Linked(topology, n, a, b) ==
  LET lo == Min({a, b})  hi == Max({a, b}) IN
  /\ lo # hi
  /\ CASE topology = "BUS"                   -> hi = lo + 1
       [] topology \in {"RING", "DUAL_RING"} -> hi = lo + 1 \/ (lo = 1 /\ hi = n)
       [] topology \in {"STAR", "DUAL_STAR"} -> lo <= 0 /\ hi > 0
       [] topology = "MESH"                  -> TRUE
       [] topology = "TREE"                  -> lo = hi \div 2

(* Nodes within k links of a in the graph without the nodes of lost. *)
Within(topology, n, a, lost) ==
  LET at[k \in 0 .. n + 1] ==
        IF k = 0 THEN {a}
        ELSE LET was == at[k - 1]
             IN  was \cup {b \in Nodes(topology, n) \ lost :
                             \E c \in was : Linked(topology, n, b, c)}
  IN  at

-----------------------------------------------------------------------------
(* Sizing. *)

CeilDiv(a, b) == (a + b - 1) \div b

(* I/O points per controller less 30 per cent, by the period of the scan. *)
io_per_controller(scan_ms) ==
  CASE scan_ms <= 100 -> 350 [] scan_ms <= 500 -> 1050 [] OTHER -> 2100

dcs_calculate_controller_count(io, scan_ms) ==
  IF io = 0 THEN 0 ELSE Max({2, CeilDiv(io, io_per_controller(scan_ms))})

(* In kilobits per second: 800 bits per point and scan, 800 a second per *)
(* station, five per cent of events, two megabits of engineering, a fifth *)
(* in reserve. *)
dcs_calculate_bandwidth_requirement(p) ==
  LET cyclic == ((((p.io * 800) \div p.scan_ms) + p.stations * 800) * 105) \div 100
  IN  ((cyclic + 2000) * 12) \div 10

dcs_calculate_network_load(p, kilobits) ==
  IF p.speed = 0 THEN 100 ELSE kilobits \div (p.speed * 10)

(* Microseconds of a scan: loops, inputs and outputs, 15 per cent more. *)
dcs_analyze_controller_loading(pid, ai, ao, d, scan_ms) ==
  IF scan_ms = 0 THEN 100
  ELSE Min({100, ((pid * 150 + ai * 50 + ao * 40 + d * 10) * 115) \div (scan_ms * 1000)})

Violations(p) ==
  {v \in {"level 0", "level 1", "level 2", "controllers", "bus", "network", "load",
          "operators", "servers"} :
     CASE v = "level 0"     -> ~dcs_check_isa95_level_present(p, 0)
       [] v = "level 1"     -> ~dcs_check_isa95_level_present(p, 1)
       [] v = "level 2"     -> ~dcs_check_isa95_level_present(p, 2)
       [] v = "controllers" -> p.controllers > 2 /\ ~p.controller_redundancy
       [] v = "bus"         -> p.backbone_redundant /\ p.topology = "BUS"
       [] v = "network"     -> ~p.backbone_redundant /\ p.controllers > 3
       [] v = "load"        ->
            dcs_calculate_network_load(p, dcs_calculate_bandwidth_requirement(p)) > 60
       [] v = "operators"   -> p.stations = 0 /\ p.controllers > 0
       [] v = "servers"     -> p.target > 9990 /\ ~p.server_redundancy}

dcs_verify_architecture(p) == Violations(p) = {}

(* The order of the topologies in their enumeration. *)
TopologyRank ==
  [BUS |-> 0, STAR |-> 1, RING |-> 2, DUAL_RING |-> 3, MESH |-> 4, TREE |-> 5, DUAL_STAR |-> 6]

recommended_topo(p) ==
  LET by_size == CASE p.controllers > 20 -> "MESH" [] p.controllers > 10 -> "DUAL_RING"
                   [] p.controllers > 3 -> "RING"  [] OTHER -> "STAR"
  IN  CASE p.target > 9999 -> "MESH"
        [] p.target \in 9991 .. 9999 /\ TopologyRank[by_size] < TopologyRank["DUAL_RING"] -> "DUAL_RING"
        [] OTHER -> by_size

dcs_recommend_system_sizing(p) ==
  [controllers |-> dcs_calculate_controller_count(p.io, p.scan_ms),
   stations |-> Max({2, p.controllers \div 2}), topology |-> recommended_topo(p)]

-----------------------------------------------------------------------------
DesignInit ==
  plan = [controllers |-> Min(ControllerCounts), stations |-> Min(StationCounts),
          io_subsystems |-> 0, io |-> Min(IoCounts), scan_ms |-> 500, topology |-> "STAR",
          speed |-> Min(BackboneSpeeds), backbone_redundant |-> FALSE,
          controller_redundancy |-> FALSE, server_redundancy |-> FALSE, target |-> 9990]

DesignNext ==
  \/ \E c \in ControllerCounts : plan' = [plan EXCEPT !.controllers = c]
  \/ \E s \in StationCounts : plan' = [plan EXCEPT !.stations = s]
  \/ \E i \in IoCounts : plan' = [plan EXCEPT !.io = i, !.io_subsystems = IF i > 0 THEN 1 ELSE 0]
  \/ \E ms \in ScanPeriods : plan' = [plan EXCEPT !.scan_ms = ms]
  \/ \E t \in AvailabilityTargets : plan' = [plan EXCEPT !.target = t, !.server_redundancy = t > 9990]
  \/ \E t \in Topologies : plan' = [plan EXCEPT !.topology = t]
  \/ \E s \in BackboneSpeeds : plan' = [plan EXCEPT !.speed = s]
  \/ plan' = [plan EXCEPT !.topology = recommended_topo(plan),
                          !.backbone_redundant = plan.controllers > 3,
                          !.controller_redundancy = plan.controllers > 2]

-----------------------------------------------------------------------------
(* Networks and vendors: further rules, each a function of its arguments. *)

traffic == <<"CYCLIC_IO", "ALARM_EVENT", "HMI_REFRESH", "ENGINEERING", "TIME_SYNC",
             "SAFETY", "OPC_DATA">>

(* Shares of the bandwidth in per cent. *)
dcs_design_bandwidth_allocation ==
  [CYCLIC_IO |-> 40, ALARM_EVENT |-> 10, HMI_REFRESH |-> 15, ENGINEERING |-> 10,
   TIME_SYNC |-> 5, SAFETY |-> 10, OPC_DATA |-> 10]

dcs_map_traffic_to_vlan_priority ==
  [SAFETY |-> 6, TIME_SYNC |-> 7, CYCLIC_IO |-> 4, ALARM_EVENT |-> 3, HMI_REFRESH |-> 2,
   OPC_DATA |-> 0, ENGINEERING |-> 1]

dcs_calculate_token_rotation(n, hold, propagation) ==
  IF n <= 1 THEN hold ELSE n * hold + (n - 1) * propagation

dcs_token_ring_throughput(n, hold, propagation, speed) ==
  LET rotation == dcs_calculate_token_rotation(n, hold, propagation)
  IN  IF rotation = 0 THEN 0 ELSE (n * hold * speed) \div rotation

dcs_recommend_segmentation(nodes, limit) ==
  IF nodes = 0 THEN [segments |-> 0, per_segment |-> 0]
  ELSE LET segs == CeilDiv(nodes, IF limit = 0 THEN 50 ELSE limit)
       IN  [segments |-> segs, per_segment |-> CeilDiv(nodes, segs)]

(* The share of the scan in per cent, 80 if it is none. *)
dcs_verify_realtime_deadline(latency, jitter, scan_ms, share) ==
  /\ scan_ms > 0
  /\ latency + jitter <= scan_ms * 10 * (IF share \in 1 .. 100 THEN share ELSE 80)

dcs_honeywell_max_io_capacity(controllers, racks) == Min({controllers * 800, racks * 1024})

dcs_honeywell_recommend_sizing(io) ==
  LET ctrl == Max({2, CeilDiv(io, 560)})
  IN  [controllers |-> ctrl, racks |-> CeilDiv(io, 819), servers |-> Max({2, CeilDiv(ctrl, 10)})]

(* 512 bits a second for a tag, of 400 megabits. *)
dcs_yokogawa_vnet_bandwidth_check(tags) == tags * 512 <= 400000000

(* Thousandths of the 50 ms scan: loops of 50, 200 and 1000 ms. *)
dcs_yokogawa_fcs_utilization(fast, med, slow) ==
  Min({1000, ((fast * 20 + med * 5 + slow) * 12 * 10) \div 1000})

dcs_deltav_charm_capacity(controllers) == controllers * 8 * 96

tiers == {50, 100, 250, 500, 1000, 2500, 5000, 10000}

dcs_deltav_dst_tier(io, tags) ==
  LET total == ((io + tags) * 125) \div 100
  IN  IF total <= Max(tiers) THEN Min({t \in tiers : total <= t}) ELSE CeilDiv(total, 5000) * 5000

dcs_compare_vendor_sizing(io) ==
  [honeywell |-> CeilDiv(io, 560), yokogawa |-> CeilDiv(io, 840),
   emerson |-> CeilDiv(io * 10, 6144)]

-----------------------------------------------------------------------------
(* Properties. *)

(* What the topology functions say of a network is true of its graph: no *)
(* two stations are further apart than the diameter (and for other than *)
(* trees some are that far), and a topology that is said to support *)
(* redundancy stays connected when one node or switch is lost.  (The *)
(* controllers of the plan are the stations of its backbone.) *)
TopologyIsTrue ==
  LET n == plan.controllers
      t == plan.topology
      d == dcs_network_diameter(t, n)
  IN
  n \in 2 .. MaxNodes =>
    /\ \A a \in 1 .. n : 1 .. n \subseteq Within(t, n, a, {})[Min({d, n + 1})]
    /\ t # "TREE" => \E a \in 1 .. n : ~(1 .. n \subseteq Within(t, n, a, {})[d - 1])
    /\ dcs_verify_topology_redundancy(t, TRUE) =>
         \A x \in Nodes(t, n), a \in 1 .. n :
           a # x => (1 .. n) \ {x} \subseteq Within(t, n, a, {x})[n + 1]

(* Following the recommendation leads to a verified system, as far as the *)
(* recommendation goes: what is left to complain of is the speed of the *)
(* backbone or a missing level. *)
RecommendedIsVerified ==
  LET p == [plan EXCEPT !.topology = recommended_topo(plan),
                        !.backbone_redundant = plan.controllers > 3,
                        !.controller_redundancy = plan.controllers > 2,
                        !.server_redundancy = TRUE]
      r == dcs_recommend_system_sizing(plan)
  IN  /\ Violations(p) \subseteq {"level 0", "level 1", "level 2", "load", "operators"}
      /\ p.backbone_redundant => dcs_verify_topology_redundancy(p.topology, TRUE)
      /\ r.controllers * io_per_controller(plan.scan_ms) >= plan.io

-----------------------------------------------------------------------------
(* Safety functions. *)

CONSTANTS
  Rates,         \* lambda_du * ti of one hour, for the components
  Intervals,     \* proof_test_interval_hours
  Betas,         \* common_cause_beta
  Targets,       \* target_sil
  Reductions     \* required_rrf

ASSUME SafetyAssumption ==
  /\ Rates \subseteq Nat /\ Intervals \subseteq Nat /\ Betas \subseteq 0 .. 100
  /\ Targets \subseteq 0 .. 4 /\ Reductions \subseteq Nat
  /\ {} \notin {Rates, Intervals, Betas}

Architectures == {"1oo1", "1oo2", "1oo2D", "2oo2", "2oo3"}
Parts == {"sensor", "logic", "actuator"}

VARIABLE sif   \* dcs_sif_definition_t with the rate and factor of its parts

SafetyTypeOK ==
  sif \in [arch : [Parts -> Architectures], rate : [Parts -> Rates],
           beta : [Parts -> Betas], interval : Intervals, target_sil : Targets,
           required_rrf : Reductions]

Million == 1000000

Capped(p) == Min({p, Million})

dcs_pfd_1oo1(x) == Capped(x \div 2)

dcs_pfd_1oo2(x, beta) == Capped((x * x) \div (3 * Million) + (beta * x) \div 200)

dcs_pfd_2oo3(x, beta) == Capped((x * x) \div Million + (beta * x) \div 200)

dcs_pfd_2oo2(x, beta) == Capped(x + (beta * x) \div 200)

dcs_subsystem_pfd(x, arch, beta) ==
  CASE arch = "1oo1"             -> dcs_pfd_1oo1(x)
    [] arch \in {"1oo2", "1oo2D"} -> dcs_pfd_1oo2(x, beta)
    [] arch = "2oo3"             -> dcs_pfd_2oo3(x, beta)
    [] arch = "2oo2"             -> dcs_pfd_2oo2(x, beta)

(* The largest common cause factor is taken for every part; a tenth is *)
(* added. *)
dcs_sif_calculate_pfd(s) ==
  LET beta == Max({s.beta[p] : p \in Parts})
      pfd(p) == dcs_subsystem_pfd(s.rate[p] * s.interval, s.arch[p], beta)
  IN  Capped(((pfd("sensor") + pfd("logic") + pfd("actuator")) * 11) \div 10)

(* Level 4 to 1 below 10^-5, 10^-4, 10^-3 and 10^-2. *)
SilByPfd(pfd) ==
  CASE pfd < 10 -> 4 [] pfd < 100 -> 3 [] pfd < 1000 -> 2 [] pfd < 10000 -> 1 [] OTHER -> 0

(* Rows: safe failure fraction at least 99, 90, 60 per cent or less; *)
(* columns: hardware fault tolerance 0, 1, 2. *)
ArchConstraint ==
  [A |-> << <<3, 4, 4>>, <<3, 4, 4>>, <<2, 3, 4>>, <<1, 2, 3>> >>,
   B |-> << <<3, 4, 4>>, <<2, 3, 4>>, <<1, 2, 3>>, <<0, 0, 0>> >>]

SilByArch(hft, sff, type) ==
  LET row == CASE sff >= 99 -> 1 [] sff >= 90 -> 2 [] sff >= 60 -> 3 [] OTHER -> 4
  IN  ArchConstraint[type][row][hft + 1]

dcs_determine_sil(pfd, hft, sff, type) == Min({SilByPfd(pfd), SilByArch(hft, sff, type)})

dcs_calculate_rrf(tolerable, process) ==
  IF process = 0 THEN 1 ELSE IF tolerable = 0 THEN Million ELSE Max({1, process \div tolerable})

(* The architectural constraint is not asked.  A probability of zero has *)
(* an infinite reduction. *)
dcs_sif_verify(s) ==
  LET pfd == dcs_sif_calculate_pfd(s)
  IN  /\ SilByPfd(pfd) >= s.target_sil
      /\ s.interval <= 87600
      /\ s.required_rrf > 0 /\ pfd > 0 => Million >= s.required_rrf * pfd

-----------------------------------------------------------------------------
SafetyInit ==
  sif \in [arch : [Parts -> {"1oo1"}], rate : [Parts -> {Min(Rates)}],
           beta : [Parts -> {Min(Betas)}], interval : {Min(Intervals)},
           target_sil : Targets, required_rrf : Reductions]

(* One decision of the engineer. *)
SafetyNext ==
  \/ \E p \in Parts, a \in Architectures : sif' = [sif EXCEPT !.arch[p] = a]
  \/ \E p \in Parts, r \in Rates : sif' = [sif EXCEPT !.rate[p] = r]
  \/ \E b \in Betas : sif' = [sif EXCEPT !.beta["sensor"] = b]
  \/ \E i \in Intervals : sif' = [sif EXCEPT !.interval = i]

-----------------------------------------------------------------------------
(* Properties. *)

(* Architectures with no better a probability of failure on demand.  One *)
(* channel is worse than one of two up to one expected failure a test *)
(* interval and a third of common causes, which its formula leaves out. *)
OneIsWorse(s, p) ==
  Max({s.beta[q] : q \in Parts}) <= 33 /\ s.rate[p] * s.interval <= Million

Weaker(s, p) ==
  CASE s.arch[p] \in {"1oo2", "1oo2D"} -> {"2oo3", "2oo2"} \union {a \in {"1oo1"} : OneIsWorse(s, p)}
    [] s.arch[p] \in {"2oo3", "1oo1"}  -> {"2oo2"}
    [] OTHER                           -> {}

(* Worse parts never make a better function: testing less often, a higher *)
(* rate, a larger common cause factor or demanding both of two channels *)
(* instead of one of two does not turn a rejected safety function into an *)
(* accepted one. *)
WorseIsNotAccepted ==
  [][dcs_sif_verify(sif)' /\ ~dcs_sif_verify(sif) =>
       /\ sif'.interval <= sif.interval
       /\ \A p \in Parts : /\ sif'.rate[p] <= sif.rate[p]
                           /\ sif'.beta[p] <= sif.beta[p]
                           /\ sif'.arch[p] \notin Weaker(sif, p)]_sif
=============================================================================
