------------------------------ MODULE EcsPair ------------------------------
(***************************************************************************)
(* The 1:1 hot standby pair of a SUPCON ECS-700 control station *)
(* (ecs700_redundancy.c): heartbeats that carry the partner's health, the *)
(* failover with its grace period, state synchronisation and the health of *)
(* a network path that is fed with packet counts. *)
(* *)
(* Real numbers are integers: percentages and degrees are whole, voltages *)
(* and scores are in tenths.  Counters of a path are uint32 in the code *)
(* and wrap at CounterRange here. *)
(***************************************************************************)
EXTENDS Integers

CONSTANTS Healths,        \* health records a controller may report
          Grace,          \* ECS700_FAILOVER_GRACE_US
          EndOfTime,      \* bound on the clock
          CounterRange,   \* 2^32 in the code
          PacketsPerUpdate \* packets sent between two updates of a path

EcsHealth == [cpu : Nat, mem : Nat, net : Nat, io : Nat, volts : Nat,
              temp : Nat, watchdogs : Nat, ecc : Nat]

ASSUME EcsPairAssumption ==
  /\ Healths \subseteq EcsHealth
  /\ Grace \in Nat /\ EndOfTime \in Nat
  /\ CounterRange \in Nat \ {0} /\ PacketsPerUpdate \in Nat \ {0}

VARIABLES pair,    \* ecs700_redundancy_pair_t of one controller
          path,    \* ecs700_path_health_t
          ecsTime  \* current_time_us, passed in by the caller

pairVars == <<pair, path, ecsTime>>

Nominal == [cpu |-> 30, mem |-> 256, net |-> 0, io |-> 0, volts |-> 240,
            temp |-> 40, watchdogs |-> 0, ecc |-> 0]

EcsPairType == [primary : {1, 2}, secondary : {1, 2}, partnerHealthy : BOOLEAN,
                local : EcsHealth, failovers : Nat, lastFailover : Nat,
                graceEnd : Nat, syncs : Nat, lastHeartbeat : Nat]

PathType == [sent : 0 .. CounterRange - 1, received : 0 .. CounterRange - 1,
             lost : 0 .. CounterRange - 1, up : BOOLEAN, degraded : BOOLEAN,
             inFlight : Nat]

-----------------------------------------------------------------------------
(* The components of the health score, in tenths of a point. *)
Banded(value, bands, otherwise) ==
  IF \E b \in DOMAIN bands : value <= bands[b][1]
  THEN bands[CHOOSE b \in DOMAIN bands :
               value <= bands[b][1] /\ \A c \in 1 .. b - 1 : value > bands[c][1]][2]
  ELSE otherwise

CpuScore(cpu) ==
  Banded(cpu, << <<60, 250>>, <<80, (250 * (80 - cpu)) \div 20>>,
                 <<95, (125 * (95 - cpu)) \div 15>> >>, 0)
MemScore(mem) ==
  IF mem >= 256 THEN 200
  ELSE IF mem >= 128 THEN (200 * (mem - 128)) \div 128
  ELSE IF mem >= 64 THEN (100 * mem) \div 64 ELSE 0
NetScore(errors) == Banded(errors, << <<0, 200>>, <<9, 180>>, <<49, 150>>, <<99, 100>>, <<499, 50>> >>, 0)
IoScore(faults) == Banded(faults, << <<0, 150>>, <<2, 100>>, <<5, 50>> >>, 0)
PowerScore(volts) ==
  LET off == IF volts >= 240 THEN volts - 240 ELSE 240 - volts
  IN Banded(off, << <<12, 100>>, <<24, (100 * (24 - off)) \div 12>> >>, 0)
TempScore(temp) == Banded(temp, << <<65, 100>>, <<85, (100 * (85 - temp)) \div 20>> >>, 0)

HealthScore(h) ==
  LET sum == CpuScore(h.cpu) + MemScore(h.mem) + NetScore(h.net) + IoScore(h.io)
             + PowerScore(h.volts) + TempScore(h.temp) - 100 * h.watchdogs - 50 * h.ecc
  IN IF sum < 0 THEN 0 ELSE IF sum > 1000 THEN 1000 ELSE sum

-----------------------------------------------------------------------------
path_health_init ==
  [sent |-> 0, received |-> 0, lost |-> 0, up |-> TRUE, degraded |-> FALSE, inFlight |-> 0]

PairInit ==
  /\ pair = [primary |-> 1, secondary |-> 2, partnerHealthy |-> FALSE,
             local |-> Nominal, failovers |-> 0, lastFailover |-> 0,
             graceEnd |-> 0, syncs |-> 0, lastHeartbeat |-> 0]
  /\ path = path_health_init
  /\ ecsTime = 0

(* A heartbeat with the health of the partner arrives. *)
Heartbeat ==
  /\ \E h \in Healths :
       pair' = [pair EXCEPT !.partnerHealthy = HealthScore(h) >= 500,
                            !.lastHeartbeat = IF ecsTime > 0 THEN ecsTime ELSE @]
  /\ UNCHANGED <<path, ecsTime>>

FailoverAllowed(p, now) == p.graceEnd <= now /\ HealthScore(p.local) >= 400

FailedOver(p, now) ==
  [p EXCEPT !.primary = p.secondary, !.secondary = p.primary,
            !.failovers = @ + 1, !.lastFailover = now,
            !.graceEnd = now + Grace, !.partnerHealthy = FALSE]

Failover ==
  /\ FailoverAllowed(pair, ecsTime)
  /\ pair.failovers < EndOfTime
  /\ pair' = FailedOver(pair, ecsTime)
  /\ UNCHANGED <<path, ecsTime>>

(* ecs700_redundancy_sync_state with a valid block; counted once here. *)
SyncState ==
  /\ pair.syncs = 0
  /\ pair' = [pair EXCEPT !.syncs = @ + 1]
  /\ UNCHANGED <<path, ecsTime>>

(* The station writes its own health into the pair. *)
ReportLocalHealth ==
  /\ \E h \in Healths : pair' = [pair EXCEPT !.local = h]
  /\ UNCHANGED <<path, ecsTime>>

-----------------------------------------------------------------------------
(* The counters of a path; the loss rate decides about the link. *)
LossAbove(percent, lost, sent) == sent > 0 /\ 100 * lost > percent * sent

(* Mutant: an interval with more arrivals than departures loses none. *)
PathUpdatedSaturating(p, sent, received) ==
  LET s == (p.sent + sent) % CounterRange
      l == p.lost + (IF sent > received THEN sent - received ELSE 0)
  IN [p EXCEPT !.sent = s, !.received = (p.received + received) % CounterRange,
               !.lost = l % CounterRange, !.up = ~LossAbove(70, l, s),
               !.degraded = LossAbove(30, l, s)]

PathUpdated(p, sent, received) ==
  LET s == (p.sent + sent) % CounterRange
      l == (p.lost + (sent - received)) % CounterRange
  IN [p EXCEPT !.sent = s, !.received = (p.received + received) % CounterRange,
               !.lost = l, !.up = ~LossAbove(70, l, s), !.degraded = LossAbove(30, l, s)]

(* One interval: packets are sent, and of these and of those still under *)
(* way some arrive, some are dropped and the rest stays under way. *)
UpdatePath ==
  /\ path.sent + PacketsPerUpdate < CounterRange
  /\ \E received \in 0 .. path.inFlight + PacketsPerUpdate :
       \E left \in 0 .. path.inFlight + PacketsPerUpdate - received :
         path' = [PathUpdated(path, PacketsPerUpdate, received) EXCEPT !.inFlight = left]
  /\ UNCHANGED <<pair, ecsTime>>

Tick ==
  /\ ecsTime < EndOfTime
  /\ ecsTime' = ecsTime + 1
  /\ UNCHANGED <<pair, path>>

PairNext ==
  Heartbeat \/ Failover \/ SyncState \/ ReportLocalHealth \/ UpdatePath \/ Tick

-----------------------------------------------------------------------------
(* The state is well formed, and the two identifiers stay distinct. *)
PairTypeOK ==
  /\ pair \in EcsPairType
  /\ pair.primary # pair.secondary
  /\ path \in PathType
  /\ ecsTime \in 0 .. EndOfTime

(* Oscillation: two takeovers of a pair are at least the grace period *)
(* apart, whatever heartbeats, health reports and synchronisations come *)
(* between them (ecs700_redundancy.c:133). *)
GraceSeparates ==
  [][pair'.failovers # pair.failovers /\ pair.failovers > 0
       => pair'.lastFailover - pair.lastFailover >= Grace]_pairVars

(* Packets that arrive an interval late make the difference sent - received*)
(* of that interval negative, and it is computed in uint32.  The total *)
(* must still be what was sent and has not arrived, and the link is up *)
(* exactly while at least 30 % of all packets came through. *)
LostIsTheDifference ==
  /\ path.lost = path.sent - path.received
  /\ path.sent > 0 => (path.up <=> 100 * path.received >= 30 * path.sent)
=============================================================================
