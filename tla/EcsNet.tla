------------------------------- MODULE EcsNet -------------------------------
(***************************************************************************)
(* Communication and configuration of the ECS-700: the statistics of a *)
(* node, the CRC of a packet, the slave of the IEEE 1588 clock and the NTP *)
(* offset (ecs700_communication.c), the table of domains and its *)
(* validation (ecs700_system_core.c). *)
(***************************************************************************)
EXTENDS Integers, FiniteSets, Sequences, FiniteSetsExt

CONSTANTS Skew,         \* local clock minus master clock, constant
          MaxDelay,     \* longest way of a message
          MaxSyncs,     \* bound on sync_sequence
          MaxDomains, MaxStations, StationIds,  \* sizes of the configuration
          MessageBits   \* bits of the packets whose checksum is looked at

ASSUME EcsNetAssumption ==
  /\ Skew \in Int /\ MaxDelay \in Nat /\ MaxSyncs \in Nat
  /\ MaxDomains \in Nat \ {0} /\ MaxStations \in Nat \ {0}
  /\ IsFiniteSet(StationIds) /\ MessageBits \in Nat \ {0}

VARIABLES ptp,      \* ecs700_ptp_state_t of a slave
          stats,    \* ecs700_comms_stats_t
          domains,  \* the domains of ecs700_system_config_t
          total,    \* total_control_stations
          exchange  \* a packet damaged on its way, an NTP exchange

netVars == <<ptp, stats, domains, total, exchange>>

PtpType == [synchronized : BOOLEAN, offset : Int, syncs : 0 .. MaxSyncs]
StatsType == [tx : Nat, rx : Nat, txErrors : Nat, rxErrors : Nat, crcErrors : Nat, seqErrors : Nat]
DomainType == Seq(Seq(StationIds))

-----------------------------------------------------------------------------
(* ecs700_ptp_process_sync: mean_path_delay_ns is 0 and never computed. *)
Toward0(n, d) == IF n >= 0 THEN n \div d ELSE -((-n) \div d)

(* Casting a negative double to uint64_t is undefined: builds keep the *)
(* value modulo 2^64 or saturate at zero. *)
Casts(x) == IF x < 0 THEN {x, 0} ELSE {x}

Filtered(p, measured) ==
  IF p.synchronized THEN Toward0(9 * p.offset + measured, 10) ELSE measured

PtpInit == ptp = [synchronized |-> FALSE, offset |-> 0, syncs |-> 0]

ProcessSync ==
  /\ ptp.syncs < MaxSyncs
  /\ \E delay \in 0 .. MaxDelay :
       \E offset \in IF ptp.synchronized THEN Casts(Filtered(ptp, Skew + delay))
                     ELSE {Filtered(ptp, Skew + delay)} :
         ptp' = [synchronized |-> TRUE, offset |-> offset, syncs |-> ptp.syncs + 1]
  /\ UNCHANGED <<stats, domains, total, exchange>>

(* ecs700_ptp_get_corrected_time, relative to the master clock. *)
corrected_error == IF ptp.synchronized THEN Skew - ptp.offset ELSE Skew

(* ecs700_time_offset_ntp. *)
ntp_offset(t1, t2, t3, t4) == Toward0((t2 - t1) + (t3 - t4), 2)
ntp_delay(t1, t2, t3, t4) == (t4 - t1) - (t3 - t2)

-----------------------------------------------------------------------------
(* ecs700_crc16_ccitt over a sequence of bits, most significant first. *)
(* The register is the set of its bits that are one, so that an exclusive *)
(* or is a symmetric difference. *)
Polynomial == {0, 5, 12}

(* Mutant: the bit that is shifted out is not fed back. *)
ShiftedOut(crc) == {b + 1 : b \in crc \ {15}}

Shifted(crc) ==
  LET up == {b + 1 : b \in crc \ {15}}
  IN IF 15 \in crc THEN SymDiff(up, Polynomial) ELSE up

crc16(message) ==
  LET crc[n \in 0 .. Len(message)] ==
        IF n = 0 THEN {}
        ELSE Shifted(IF message[n] = 1 THEN SymDiff(crc[n - 1], {15}) ELSE crc[n - 1])
  IN crc[Len(message)]

verify_crc(header, payload, crc) == SymDiff(crc16(header), crc16(payload)) = crc

Flipped(message, at) == [i \in DOMAIN message |-> IF i \in at THEN 1 - message[i] ELSE message[i]]

(* The priority of a header is clamped, its version fixed. *)
header_init(priority) == [priority |-> IF priority > 7 THEN 7 ELSE priority, version |-> 1]

-----------------------------------------------------------------------------
(* ecs700_comms_stats_record_tx and _rx. *)
StatsInit == stats = [tx |-> 0, rx |-> 0, txErrors |-> 0, rxErrors |-> 0,
                      crcErrors |-> 0, seqErrors |-> 0]

One(b) == IF b THEN 1 ELSE 0
RecordTx ==
  /\ stats.tx < MaxSyncs
  /\ \E ok \in BOOLEAN : stats' = [stats EXCEPT !.tx = @ + 1, !.txErrors = @ + One(~ok)]
  /\ UNCHANGED <<ptp, domains, total, exchange>>

Received(s, crcError, seqError) ==
  [s EXCEPT !.rx = @ + 1, !.crcErrors = @ + One(crcError), !.seqErrors = @ + One(seqError),
            !.rxErrors = @ + One(crcError \/ seqError)]
RecordRx ==
  /\ stats.rx < MaxSyncs
  /\ \E crcError, seqError \in BOOLEAN : stats' = Received(stats, crcError, seqError)
  /\ UNCHANGED <<ptp, domains, total, exchange>>

-----------------------------------------------------------------------------
(* ecs700_domain_register, ecs700_domain_add_cs, ecs700_validate_config. *)
ConfigInit == domains = <<>> /\ total = 0

DomainRegister ==
  /\ Len(domains) < MaxDomains
  /\ domains' = Append(domains, <<>>)
  /\ UNCHANGED <<ptp, stats, total, exchange>>

AddStation(d, id) ==
  /\ Len(domains[d]) < MaxStations
  /\ \A i \in DOMAIN domains[d] : domains[d][i] # id
  /\ domains' = [domains EXCEPT ![d] = Append(@, id)]
  /\ total' = total + 1
  /\ UNCHANGED <<ptp, stats, exchange>>

SharedStation ==
  \E d \in DOMAIN domains : \E e \in d + 1 .. Len(domains) :
    \E i \in DOMAIN domains[d], j \in DOMAIN domains[e] : domains[d][i] = domains[e][j]

validate_config(scanPeriod, fast, normal, slow) ==
  IF domains = <<>> THEN 2
  ELSE IF scanPeriod < 10 THEN 4 ELSE IF scanPeriod > 5000 THEN 5
  ELSE IF \E d \in DOMAIN domains : domains[d] = <<>> THEN 20
  ELSE IF SharedStation THEN 40
  ELSE IF fast >= normal THEN 50 ELSE IF normal >= slow THEN 60 ELSE 0

(* ecs700_estimate_network_bandwidth in bits per scan, and the load of a *)
(* network or of a processor in percent. *)
bits_per_scan(points, bytesPerPoint) == 8 * (((points + 49) \div 50) * 82 + points * bytesPerPoint)
load_percent(used, available) ==
  IF available <= 0 THEN 100
  ELSE IF used < 0 THEN 0 ELSE IF used > available THEN 100 ELSE (100 * used) \div available

-----------------------------------------------------------------------------
ExchangeInit ==
  exchange = [message |-> [i \in 1 .. MessageBits |-> 0], damage |-> {}, out |-> 0, back |-> 0]

(* A packet is damaged in up to two bits, an NTP request and its answer *)
(* take `out` and `back`. *)
Exchange ==
  /\ exchange' \in [message : [1 .. MessageBits -> {0, 1}],
                    damage : UNION {kSubset(k, 1 .. MessageBits) : k \in 1 .. 2},
                    out : {0}, back : {0}]
                   \union [message : {[i \in 1 .. MessageBits |-> 0]}, damage : {{}},
                           out : 0 .. MaxDelay, back : 0 .. MaxDelay]
  /\ UNCHANGED <<ptp, stats, domains, total>>

NetInit == PtpInit /\ StatsInit /\ ConfigInit /\ ExchangeInit
NetNext ==
  ProcessSync \/ RecordTx \/ RecordRx
ConfigNext == DomainRegister \/ \E d \in DOMAIN domains, id \in StationIds : AddStation(d, id)

-----------------------------------------------------------------------------
(* Clock, statistics and configuration are well formed. *)
NetTypeOK ==
  /\ ptp \in PtpType /\ stats \in StatsType
  /\ Len(domains) <= MaxDomains /\ total \in Nat
  /\ stats.rxErrors <= stats.crcErrors + stats.seqErrors
  /\ stats.crcErrors <= stats.rxErrors /\ stats.rxErrors <= stats.rx

(* The clock of a slave: however the delays vary and the filter rounds, the*)
(* corrected time of a synchronised slave is late by at most the longest *)
(* delay and never early.  It takes Skew >= 0: for a slave behind its *)
(* master the cast of the filter is undefined (ecs700_communication.c:451).*)
ClockErrorBounded ==
  (ptp.synchronized /\ Skew >= 0) => corrected_error \in -MaxDelay .. 0

(* The NTP offset is off by at most half the measured delay, which is the *)
(* whole round trip. *)
ExchangeSound ==
  LET t1 == 100
      t2 == t1 + exchange.out + Skew
      t4 == t2 + exchange.back - Skew
      n  == ntp_offset(t1, t2, t2, t4) - Skew
  IN /\ ntp_delay(t1, t2, t2, t4) = exchange.out + exchange.back
     /\ 2 * n <= exchange.out + exchange.back + 1 /\ -2 * n <= exchange.out + exchange.back + 1

(* A packet that was damaged in one or two bits on its way is refused by *)
(* the check of its CRC (ecs700_communication.c:145). *)
PacketDamageIsRefused ==
  exchange.damage # {} =>
    ~verify_crc(Flipped(exchange.message, exchange.damage), <<>>, crc16(exchange.message))

(* A configuration that validation accepts gives every station to exactly *)
(* one domain, and the total of stations is the sum over the domains. *)
AcceptedMeansDisjoint ==
  /\ total = MapThenSumSet(LAMBDA d : Len(domains[d]), DOMAIN domains)
  /\ validate_config(200, 50, 200, 1000) = 0 =>
       \A d, e \in DOMAIN domains :
         d # e => {domains[d][i] : i \in DOMAIN domains[d]}
                    \intersect {domains[e][i] : i \in DOMAIN domains[e]} = {}
=============================================================================
