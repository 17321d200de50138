----------------------------- MODULE StationProofs ----------------------------
(***************************************************************************)
(* Theorems about the stations of MCEcsExperion: the ECS-700 and the *)
(* Experion, for any tuning, limits, tables and messages. *)
(***************************************************************************)
EXTENDS MCEcsExperion, InductionLemmas

-----------------------------------------------------------------------------
(* The pair of the ECS-700 and the counters of a path. *)

(* The end of the grace period goes with the last failover, and what has *)
(* arrived or is under way was sent. *)
EcsPairInv ==
  /\ PairTypeOK /\ LostIsTheDifference
  /\ pair.failovers > 0 => pair.graceEnd = pair.lastFailover + Grace
  /\ path.received + path.inFlight <= path.sent

LEMMA EcsPairNumbers ==
  /\ Healths \subseteq EcsHealth /\ Grace \in Nat /\ EndOfTime \in Nat
  /\ CounterRange \in Nat /\ CounterRange > 0 /\ PacketsPerUpdate \in Nat /\ PacketsPerUpdate > 0
BY EcsPairAssumption

LEMMA EcsPairStarts == PairInit => EcsPairInv
<1> SUFFICES ASSUME PairInit PROVE EcsPairInv
  OBVIOUS
<1>1. Nominal \in EcsHealth
  BY DEF Nominal, EcsHealth
<1>2. pair \in EcsPairType
  BY <1>1 DEF PairInit, EcsPairType
<1>3. path \in PathType
  BY EcsPairNumbers DEF PairInit, path_health_init, PathType
<1>4. pair.primary # pair.secondary /\ ecsTime \in 0 .. EndOfTime
  BY EcsPairNumbers DEF PairInit
<1>5. LostIsTheDifference /\ path.received + path.inFlight <= path.sent
  BY DEF PairInit, path_health_init, LostIsTheDifference
<1>6. pair.failovers > 0 => pair.graceEnd = pair.lastFailover + Grace
  BY DEF PairInit
<1> QED BY <1>2, <1>3, <1>4, <1>5, <1>6 DEF EcsPairInv, PairTypeOK

LEMMA NoWrap ==
  ASSUME NEW n \in Nat, NEW x \in 0 .. n - 1
  PROVE  x % n = x
OBVIOUS

LEMMA PathKept ==
  ASSUME EcsPairInv, UpdatePath
  PROVE  EcsPairInv'
<1>1. /\ path \in PathType /\ path.lost = path.sent - path.received
      /\ path.received + path.inFlight <= path.sent
      /\ pair' = pair /\ ecsTime' = ecsTime
  BY DEF EcsPairInv, PairTypeOK, LostIsTheDifference, UpdatePath
<1>2. PICK received \in 0 .. path.inFlight + PacketsPerUpdate :
        \E left \in 0 .. path.inFlight + PacketsPerUpdate - received :
          path' = [PathUpdated(path, PacketsPerUpdate, received) EXCEPT !.inFlight = left]
  BY DEF UpdatePath
<1>3. PICK left \in 0 .. path.inFlight + PacketsPerUpdate - received :
        path' = [PathUpdated(path, PacketsPerUpdate, received) EXCEPT !.inFlight = left]
  BY <1>2
<1>4. /\ path.sent \in Nat /\ path.received \in Nat /\ path.lost \in Nat /\ path.inFlight \in Nat
      /\ path.sent + PacketsPerUpdate < CounterRange
  BY <1>1, EcsPairNumbers DEF PathType, UpdatePath
<1> DEFINE s == path.sent + PacketsPerUpdate
           r == path.received + received
           l == path.lost + (PacketsPerUpdate - received)
<1>5. /\ s \in 0 .. CounterRange - 1 /\ r \in 0 .. CounterRange - 1 /\ l \in 0 .. CounterRange - 1
      /\ l = s - r /\ r + left <= s /\ left \in Nat
  BY <1>1, <1>4, EcsPairNumbers
<1>6. s % CounterRange = s /\ r % CounterRange = r /\ l % CounterRange = l
  BY <1>5, EcsPairNumbers, NoWrap
<1> DEFINE up == ~LossAbove(70, l, s)
           degraded == LossAbove(30, l, s)
<1>7. up \in BOOLEAN /\ degraded \in BOOLEAN
  BY DEF LossAbove
<1>8. s > 0 => (up <=> 100 * r >= 30 * s)
  BY <1>5 DEF LossAbove
<1>9. path' = [path EXCEPT !.sent = s, !.received = r, !.lost = l, !.up = up,
                           !.degraded = degraded, !.inFlight = left]
  BY <1>3, <1>6 DEF PathUpdated
<1> HIDE DEF s, r, l, up, degraded
<1>10. path' = [sent |-> s, received |-> r, lost |-> l, up |-> up, degraded |-> degraded,
                inFlight |-> left]
  BY <1>1, <1>9 DEF PathType
<1>11. path' \in PathType
  BY <1>5, <1>7, <1>10 DEF PathType
<1> QED BY <1>1, <1>5, <1>8, <1>10, <1>11 DEF EcsPairInv, PairTypeOK, LostIsTheDifference

LEMMA EcsPairKept ==
  ASSUME EcsPairInv, PairNext
  PROVE  /\ EcsPairInv'
         /\ pair'.failovers # pair.failovers /\ pair.failovers > 0
              => pair'.lastFailover - pair.lastFailover >= Grace
<1>1. /\ pair \in EcsPairType /\ pair.primary # pair.secondary /\ ecsTime \in Nat
      /\ path \in PathType /\ ecsTime \in 0 .. EndOfTime
      /\ pair.failovers \in Nat /\ pair.lastFailover \in Nat /\ pair.graceEnd \in Nat
  BY EcsPairNumbers DEF EcsPairInv, PairTypeOK, EcsPairType
<1>2. CASE Heartbeat
  <2>1. PICK h \in Healths :
          pair' = [pair EXCEPT !.partnerHealthy = HealthScore(h) >= 500,
                               !.lastHeartbeat = IF ecsTime > 0 THEN ecsTime ELSE @]
    BY <1>2 DEF Heartbeat
  <2> DEFINE b == HealthScore(h) >= 500
             t == IF ecsTime > 0 THEN ecsTime ELSE pair.lastHeartbeat
  <2>2. b \in BOOLEAN /\ t \in Nat
    BY <1>1 DEF EcsPairType
  <2>3. pair' = [pair EXCEPT !.partnerHealthy = b, !.lastHeartbeat = t]
    BY <2>1
  <2> HIDE DEF b, t
  <2>4. pair' \in EcsPairType
    BY <1>1, <2>2, <2>3 DEF EcsPairType
  <2>5. /\ pair'.failovers = pair.failovers /\ pair'.lastFailover = pair.lastFailover
        /\ pair'.graceEnd = pair.graceEnd /\ pair'.primary = pair.primary
        /\ pair'.secondary = pair.secondary /\ path' = path /\ ecsTime' = ecsTime
    BY <1>1, <1>2, <2>3 DEF EcsPairType, Heartbeat
  <2> QED BY <2>4, <2>5 DEF EcsPairInv, PairTypeOK, LostIsTheDifference
<1>3. CASE Failover
  <2>1. /\ pair' = [pair EXCEPT !.primary = pair.secondary, !.secondary = pair.primary,
                       !.failovers = pair.failovers + 1, !.lastFailover = ecsTime,
                       !.graceEnd = ecsTime + Grace, !.partnerHealthy = FALSE]
        /\ pair.graceEnd <= ecsTime /\ path' = path /\ ecsTime' = ecsTime
    BY <1>3 DEF Failover, FailedOver, FailoverAllowed
  <2>2. pair' \in EcsPairType
    <3>1. /\ pair.primary \in {1, 2} /\ pair.secondary \in {1, 2} /\ pair.failovers + 1 \in Nat
          /\ ecsTime + Grace \in Nat
      BY <1>1, EcsPairNumbers DEF EcsPairType
    <3> QED BY <1>1, <2>1, <3>1 DEF EcsPairType
  <2>3. /\ pair'.failovers = pair.failovers + 1 /\ pair'.lastFailover = ecsTime
        /\ pair'.graceEnd = ecsTime + Grace /\ pair'.primary = pair.secondary
        /\ pair'.secondary = pair.primary
    BY <1>1, <2>1 DEF EcsPairType
  <2>4. pair.failovers > 0 => ecsTime - pair.lastFailover >= Grace
    BY <1>1, <2>1, EcsPairNumbers DEF EcsPairInv
  <2> QED BY <1>1, <2>1, <2>2, <2>3, <2>4 DEF EcsPairInv, PairTypeOK, LostIsTheDifference
<1>4. CASE SyncState
  <2>1. /\ pair' = [pair EXCEPT !.syncs = pair.syncs + 1] /\ path' = path /\ ecsTime' = ecsTime
    BY <1>4 DEF SyncState
  <2>2. pair' \in EcsPairType
    BY <1>1, <2>1 DEF EcsPairType
  <2>3. /\ pair'.failovers = pair.failovers /\ pair'.lastFailover = pair.lastFailover
        /\ pair'.graceEnd = pair.graceEnd /\ pair'.primary = pair.primary
        /\ pair'.secondary = pair.secondary
    BY <1>1, <2>1 DEF EcsPairType
  <2> QED BY <2>1, <2>2, <2>3 DEF EcsPairInv, PairTypeOK, LostIsTheDifference
<1>5. CASE ReportLocalHealth
  <2>1. PICK h \in Healths : pair' = [pair EXCEPT !.local = h]
    BY <1>5 DEF ReportLocalHealth
  <2>2. pair' \in EcsPairType
    BY <1>1, <2>1, EcsPairNumbers DEF EcsPairType
  <2>3. /\ pair'.failovers = pair.failovers /\ pair'.lastFailover = pair.lastFailover
        /\ pair'.graceEnd = pair.graceEnd /\ pair'.primary = pair.primary
        /\ pair'.secondary = pair.secondary /\ path' = path /\ ecsTime' = ecsTime
    BY <1>1, <1>5, <2>1 DEF EcsPairType, ReportLocalHealth
  <2> QED BY <2>2, <2>3 DEF EcsPairInv, PairTypeOK, LostIsTheDifference
<1>6. CASE UpdatePath
  <2>1. EcsPairInv' /\ pair' = pair
    BY <1>6, PathKept DEF UpdatePath
  <2> QED BY <2>1
<1>7. CASE Tick
  <2>1. pair' = pair /\ path' = path /\ ecsTime' \in 0 .. EndOfTime
    BY <1>1, <1>7, EcsPairNumbers DEF Tick
  <2> QED BY <2>1 DEF EcsPairInv, PairTypeOK, LostIsTheDifference
<1> QED BY <1>2, <1>3, <1>4, <1>5, <1>6, <1>7 DEF PairNext

-----------------------------------------------------------------------------
(* The I/O modules of the ECS-700 and the conversions. *)

Reading == [raw : 0 .. FullScale, span : {1, 7, FullScale, 2 * FullScale + 3}]

IoInv == IoTypeOK /\ reading \in Reading

LEMMA IoNumbers ==
  /\ FullScale \in Nat /\ FullScale > 7 /\ Counts \subseteq 0 .. FullScale
  /\ IsFiniteSet(EcsChannels) /\ EcsChannels \subseteq Nat /\ MaxScans \in Nat
  /\ Cardinality(EcsChannels) \in Nat
BY EcsIoAssumption, FS_CardinalityType

LEMMA IoStarts == IoInit => IoInv
<1> SUFFICES ASSUME IoInit PROVE IoInv
  OBVIOUS
<1>1. PICK kind \in [EcsChannels -> {"AI_4_20MA", "AI_0_10V"}] :
        channel = [c \in EcsChannels |-> channel_init(kind[c])]
  BY DEF IoInit
<1>2. ASSUME NEW c \in EcsChannels PROVE channel_init(kind[c]) \in ChannelType
  <2>1. kind[c] \in EcsSignals
    BY DEF EcsSignals, CurrentSignals
  <2> QED BY <2>1, IoNumbers DEF channel_init, ChannelType, Quality
<1>3. channel \in [EcsChannels -> ChannelType]
  BY <1>1, <1>2
<1>4. ioModule \in ModuleType
  BY IoNumbers DEF IoInit, module_init, ModuleType, ModuleState
<1>5. reading \in Reading
  BY IoNumbers DEF IoInit, Reading
<1>6. reading.raw \in 0 .. FullScale
  BY <1>5 DEF Reading
<1> QED BY <1>3, <1>4, <1>5, <1>6 DEF IoInv, IoTypeOK

LEMMA InputProcessed ==
  ASSUME NEW c \in ChannelType, NEW counts \in 0 .. FullScale
  PROVE  process_input(c, counts) \in ChannelType
<1> DEFINE current == RawCurrent(counts)
           watched == c.signal \in CurrentSignals
           open    == watched /\ detect_open_wire(current)
           over    == watched /\ ~open /\ detect_overrange(current)
           faults  == IF open THEN c.faults + 1
                      ELSE IF watched /\ ~over THEN 0 ELSE c.faults
           wire    == IF open THEN TRUE
                      ELSE IF watched /\ ~over THEN FALSE ELSE c.openWire
           range   == IF over THEN TRUE
                      ELSE IF watched /\ ~open THEN FALSE ELSE c.overrange
<1>1. /\ c.faults \in Nat /\ c.openWire \in BOOLEAN /\ c.overrange \in BOOLEAN
  BY DEF ChannelType
<1>2. faults \in Nat /\ wire \in BOOLEAN /\ range \in BOOLEAN
  <2> HIDE DEF open, over, watched
  <2>1. c.faults + 1 \in Nat /\ 0 \in Nat
    BY <1>1
  <2>2. faults \in Nat
    BY <1>1, <2>1, Zenon
  <2>3. wire \in BOOLEAN
    BY <1>1, Zenon
  <2>4. range \in BOOLEAN
    BY <1>1, Zenon
  <2> QED BY <2>2, <2>3, <2>4, Zenon
<1>3. Assessed(faults, wire) \in Quality
  BY DEF Assessed, Quality
<1>4. process_input(c, counts)
        = IF ~c.enabled THEN c
          ELSE [c EXCEPT !.counts = counts, !.faults = faults, !.openWire = wire,
                         !.overrange = range, !.quality = Assessed(faults, wire)]
  BY DEF process_input
<1> HIDE DEF faults, wire, range
<1> QED BY <1>2, <1>3, <1>4 DEF ChannelType

LEMMA OutputIsCount ==
  ASSUME NEW eu \in {0, 7, 13}
  PROVE  OutputCounts(eu, 2, 10) \in 0 .. FullScale
<1> DEFINE x == Clamp(eu, 2, 10) - 2
<1>1. x \in {0, 5, 8}
  BY DEF Clamp
<1>2. OutputCounts(eu, 2, 10) = (2 * x * FullScale + 8) \div 16
  BY DEF OutputCounts
<1> HIDE DEF x
<1> QED BY <1>1, <1>2, IoNumbers

LEMMA IoKept ==
  ASSUME IoInv, IoNext \/ Convert
  PROVE  IoInv'
<1>1. /\ channel \in [EcsChannels -> ChannelType] /\ ioModule \in ModuleType
      /\ reading \in Reading /\ reading.raw \in 0 .. FullScale
  BY DEF IoInv, IoTypeOK
<1>2. CASE ModuleScan
  <2>1. PICK n \in 1 .. Cardinality(EcsChannels), values \in [EcsChannels -> Counts] :
          LET scanned == {c \in EcsChannels : c < n /\ channel[c].enabled}
              after   == [c \in EcsChannels |-> IF c \in scanned
                                             THEN process_input(channel[c], values[c])
                                             ELSE channel[c]]
              failed  == Cardinality({c \in scanned : after[c].quality = "BAD"})
              state   == StateAfterScan(failed, ioModule.enabledCount)
          IN /\ channel' = after
             /\ ioModule' = [ioModule EXCEPT
                   !.state = state, !.scans = @ + 1,
                   !.errors = IF state = "FAULT" THEN @ + 1 ELSE @]
    BY <1>2 DEF ModuleScan
  <2> DEFINE scanned == {c \in EcsChannels : c < n /\ channel[c].enabled}
             after   == [c \in EcsChannels |-> IF c \in scanned
                                            THEN process_input(channel[c], values[c])
                                            ELSE channel[c]]
             failed  == Cardinality({c \in scanned : after[c].quality = "BAD"})
             state   == StateAfterScan(failed, ioModule.enabledCount)
             errors  == IF state = "FAULT" THEN ioModule.errors + 1 ELSE ioModule.errors
  <2>2. /\ channel' = after /\ reading' = reading
        /\ ioModule' = [ioModule EXCEPT !.state = state, !.scans = ioModule.scans + 1,
                                        !.errors = errors]
    BY <1>2, <2>1 DEF ModuleScan
  <2>3. channel' \in [EcsChannels -> ChannelType]
    <3>1. ASSUME NEW c \in EcsChannels PROVE process_input(channel[c], values[c]) \in ChannelType
      <4>1. values[c] \in 0 .. FullScale /\ channel[c] \in ChannelType
        BY <1>1, IoNumbers
      <4> QED BY <4>1, InputProcessed
    <3> HIDE DEF scanned
    <3> QED BY <1>1, <2>2, <3>1
  <2>4. state \in ModuleState
    BY DEF StateAfterScan, ModuleState
  <2>5. errors \in Nat /\ ioModule.scans + 1 \in 0 .. MaxScans
    <3>1. ioModule.errors \in Nat /\ ioModule.scans \in 0 .. MaxScans /\ ioModule.scans < MaxScans
      BY <1>1, <1>2 DEF ModuleType, ModuleScan
    <3> HIDE DEF state
    <3> QED BY <3>1, IoNumbers
  <2>6. ioModule' \in ModuleType
    <3> HIDE DEF state, errors
    <3> QED BY <1>1, <2>2, <2>4, <2>5 DEF ModuleType
  <2> QED BY <1>1, <2>2, <2>3, <2>6 DEF IoInv, IoTypeOK
<1>3. CASE SetEnabled
  <2>1. PICK c \in EcsChannels, on \in BOOLEAN : channel' = [channel EXCEPT ![c].enabled = on]
    BY <1>3 DEF SetEnabled
  <2>2. channel' \in [EcsChannels -> ChannelType]
    BY <1>1, <2>1 DEF ChannelType
  <2> QED BY <1>1, <1>3, <2>2 DEF IoInv, IoTypeOK, SetEnabled
<1>4. CASE SetOutput
  <2>1. PICK c \in EcsChannels, eu \in {0, 7, 13} :
          channel' = [channel EXCEPT ![c].counts = OutputCounts(eu, 2, 10)]
    BY <1>4 DEF SetOutput
  <2>2. OutputCounts(eu, 2, 10) \in 0 .. FullScale
    BY OutputIsCount
  <2>3. channel' \in [EcsChannels -> ChannelType]
    BY <1>1, <2>1, <2>2 DEF ChannelType
  <2> QED BY <1>1, <1>4, <2>3 DEF IoInv, IoTypeOK, SetOutput
<1>5. CASE Convert
  <2>1. reading' \in Reading /\ channel' = channel /\ ioModule' = ioModule
    BY <1>5 DEF Convert, Reading
  <2>2. reading'.raw \in 0 .. FullScale
    BY <2>1 DEF Reading
  <2> QED BY <1>1, <2>1, <2>2 DEF IoInv, IoTypeOK
<1> QED BY <1>2, <1>3, <1>4, <1>5 DEF IoNext

LEMMA RootIs ==
  ASSUME NEW n \in Nat
  PROVE  Root(n) \in 0 .. n /\ Root(n) * Root(n) <= n /\ (Root(n) + 1) * (Root(n) + 1) > n
<1>1. \E r \in 0 .. n : r * r <= n /\ (r + 1) * (r + 1) > n
  BY RootExists
<1> QED BY <1>1, Zenon DEF Root

LEMMA RootGrows ==
  ASSUME NEW m \in Nat, NEW n \in Nat, m <= n
  PROVE  Root(m) <= Root(n)
<1> DEFINE a == Root(m)
           b == Root(n)
<1>1. a \in Nat /\ b \in Nat /\ a * a <= m /\ (b + 1) * (b + 1) > n
  BY RootIs
<1> HIDE DEF a, b
<1>2. ASSUME b + 1 <= a PROVE FALSE
  <2>1. b + 1 \in Nat
    BY <1>1
  <2>2. (b + 1) * (b + 1) <= a * (b + 1) /\ (b + 1) * a <= a * a
    BY <1>1, <1>2, <2>1, ProductGrows
  <2>3. a * (b + 1) = (b + 1) * a /\ (b + 1) * (b + 1) \in Nat /\ a * a \in Nat /\ (b + 1) * a \in Nat
    BY <1>1, <2>1
  <2> QED BY <1>1, <2>2, <2>3
<1>3. a <= b
  BY <1>1, <1>2
<1> QED BY <1>3 DEF a, b

(* What is read is the quotient, and writing it back gives the count, when *)
(* the range is at least as fine as the counts. *)
LEMMA WrittenBack ==
  ASSUME NEW f \in Nat, f > 7, NEW x \in 0 .. f, NEW s \in {1, 7, f, 2 * f + 3}
  PROVE  /\ (x * s) \div f \in 0 .. s
         /\ s >= f => (2 * ((x * s) \div f) * f + s) \div (2 * s) = x
<1> DEFINE q == (x * s) \div f
<1>1. x \in Nat /\ s \in Nat /\ s > 0 /\ x * s \in Nat
  OBVIOUS
<1>2. q \in Nat /\ f * q <= x * s /\ x * s < f * q + f
  BY <1>1, QuotientSpans
<1>3. q <= s
  <2>1. x * s <= f * s /\ f * s = s * f
    BY <1>1, ProductGrows
  <2>2. (f * s) \div f = s
    <3>1. f * s \in Nat /\ f * s < f * s + f
      BY <1>1
    <3> QED BY <1>1, <3>1, QuotientUnique
  <2>3. (x * s) \div f <= (f * s) \div f
    <3>1. f * s \in Nat
      BY <1>1
    <3> QED BY <1>1, <2>1, <3>1, QuotientGrows
  <2> QED BY <2>2, <2>3
<1>4. ASSUME s >= f PROVE (2 * q * f + s) \div (2 * s) = x
  <2> DEFINE a == 2 * q * f + s
  <2>1. q * f \in Nat /\ f * q = q * f /\ a = 2 * (q * f) + s /\ a \in Nat
    <3> HIDE DEF q
    <3> QED BY <1>1, <1>2
  <2>2. 2 * (x * s) <= a
    <3>1. CASE s = f
      <4>1. x * s = f * x
        BY <1>1, <3>1
      <4>2. q = x
        <5>1. f * x <= f * x /\ f * x < f * x + f /\ f * x \in Nat
          BY <1>1
        <5> QED BY <1>1, <4>1, <5>1, QuotientUnique
      <4> HIDE DEF q
      <4> QED BY <1>1, <2>1, <4>1, <4>2
    <3>2. CASE s = 2 * f + 3
      <4> HIDE DEF q, a
      <4> QED BY <1>1, <1>2, <2>1, <3>2
    <3> QED BY <1>4, <3>1, <3>2
  <2>3. a < 2 * (x * s) + 2 * s
    <3> HIDE DEF q, a
    <3> QED BY <1>1, <1>2, <2>1
  <2>4. (2 * s) * x = 2 * (x * s)
    BY <1>1
  <2> HIDE DEF a
  <2>5. (2 * s) * x <= a /\ a < (2 * s) * x + 2 * s /\ 2 * s \in Nat /\ 2 * s > 0
    BY <1>1, <2>1, <2>2, <2>3, <2>4
  <2>6. a \div (2 * s) = x
    BY <1>1, <2>1, <2>5, QuotientUnique
  <2> QED BY <2>6 DEF a
<1> HIDE DEF q
<1>5. q \in 0 .. s
  BY <1>1, <1>2, <1>3
<1> QED BY <1>4, <1>5 DEF q

(* The two ends of a range and what is read between them. *)
LEMMA ReadBack ==
  ASSUME NEW x \in 0 .. FullScale, NEW s \in {1, 7, FullScale, 2 * FullScale + 3},
         NEW lo \in Int, NEW hi \in Int, hi = lo + s
  PROVE  LET r == [rawLo |-> 0, rawHi |-> FullScale, euLo |-> lo, euHi |-> hi]
             q == (x * s) \div FullScale
         IN /\ raw_to_eu(x, r) = lo + q /\ q \in 0 .. s
            /\ s >= FullScale => eu_to_raw(lo + q, r) = x
<1> DEFINE r == [rawLo |-> 0, rawHi |-> FullScale, euLo |-> lo, euHi |-> hi]
           q == (x * s) \div FullScale
           w == (2 * q * FullScale + s) \div (2 * s)
<1>1. FullScale \in Nat /\ FullScale > 7 /\ x \in Nat /\ s \in Nat /\ s > 0
  BY IoNumbers
<1>2. q \in 0 .. s /\ (s >= FullScale => w = x)
  BY <1>1, WrittenBack
<1>3. Clamp(x, 0, FullScale) = x
  BY <1>1 DEF Clamp
<1>4. raw_to_eu(x, r) = lo + ((Clamp(x, 0, FullScale) - 0) * (hi - lo)) \div (FullScale - 0)
  BY <1>1 DEF raw_to_eu
<1>5. x - 0 = x /\ FullScale - 0 = FullScale /\ hi - lo = s
  BY <1>1
<1>6. raw_to_eu(x, r) = lo + q
  BY <1>3, <1>4, <1>5
<1>7. ASSUME s >= FullScale PROVE eu_to_raw(lo + q, r) = x
  <2> DEFINE eu == lo + q
  <2> HIDE DEF q
  <2>1. eu \in Int /\ lo <= eu /\ eu <= hi
    BY <1>1, <1>2
  <2>2. Clamp(eu, lo, hi) = eu
    <3> HIDE DEF eu
    <3> QED BY <2>1 DEF Clamp
  <2>3. eu - lo = q
    BY <1>2
  <2> HIDE DEF eu
  <2>4. eu_to_raw(eu, r)
          = Clamp(0 + (2 * (Clamp(eu, lo, hi) - lo) * (FullScale - 0) + (hi - lo)) \div (2 * (hi - lo)), 0, FullScale)
    BY <1>1 DEF eu_to_raw
  <2>5. eu_to_raw(eu, r) = Clamp(0 + w, 0, FullScale)
    BY <1>5, <2>2, <2>3, <2>4
  <2>6. w = x /\ 0 + x = x
    BY <1>1, <1>2, <1>7
  <2> HIDE DEF w
  <2>7. eu_to_raw(eu, r) = x
    BY <1>3, <2>5, <2>6
  <2> QED BY <2>7 DEF eu
<1> QED BY <1>2, <1>6, <1>7

(* A current that stands for a value in the range is no open wire. *)
LEMMA WireHolds ==
  ASSUME NEW lo \in Int, NEW hi \in Int, lo < hi, NEW eu \in Int, eu >= lo
  PROVE  ~detect_open_wire(eu_to_transmitter(eu, lo, hi) \div 10)
<1> DEFINE k == (1600 * (eu - lo)) \div (hi - lo)
           current == eu_to_transmitter(eu, lo, hi)
<1>1. k \in Nat
  <2>1. 1600 * (eu - lo) \in Nat /\ hi - lo \in Nat /\ hi - lo > 0
    OBVIOUS
  <2> QED BY <2>1, QuotientSpans
<1> HIDE DEF k
<1>2. current = 2100 \/ current = 400 + k
  <2>1. ~(1000 * (eu - lo) < -25 * (hi - lo)) /\ ~(hi <= lo)
    OBVIOUS
  <2> QED BY <2>1 DEF eu_to_transmitter, k
<1> HIDE DEF current
<1>3. current \in Nat /\ current >= 400
  BY <1>1, <1>2
<1> DEFINE d == current \div 10
<1>4. d \in Nat /\ d >= 40
  <2>1. d \in Nat /\ 10 * d <= current /\ current < 10 * d + 10
    BY <1>3, QuotientSpans
  <2> HIDE DEF d
  <2> QED BY <1>3, <2>1
<1> HIDE DEF d
<1>5. ~detect_open_wire(d)
  BY <1>4 DEF detect_open_wire
<1> QED BY <1>5 DEF d, current

LEMMA Converted ==
  ASSUME reading \in Reading
  PROVE  ConversionsAgree
<1> DEFINE x == reading.raw
           s == reading.span
           lo == -20
           hi == -20 + s
           r == [rawLo |-> 0, rawHi |-> FullScale, euLo |-> lo, euHi |-> hi]
           q(y) == (y * s) \div FullScale
<1>1. x \in 0 .. FullScale /\ s \in {1, 7, FullScale, 2 * FullScale + 3} /\ x \in Nat /\ s \in Nat /\ s > 0
  BY IoNumbers DEF Reading
<1>2. lo \in Int /\ hi \in Int /\ hi = lo + s /\ lo < hi
  BY <1>1
<1>3. ConversionsAgree
        <=> /\ s >= FullScale => eu_to_raw(raw_to_eu(x, r), r) = x
            /\ x < FullScale => raw_to_eu(x, r) <= raw_to_eu(x + 1, r)
            /\ sqrt_extract(x, 2) <= sqrt_extract(x + 1, 2)
            /\ detect_open_wire(eu_to_transmitter(raw_to_eu(x, r), lo, hi) \div 10) => raw_to_eu(x, r) < lo
  BY DEF ConversionsAgree
<1> HIDE DEF lo, hi, x, s
<1>4. ASSUME NEW y \in 0 .. FullScale
      PROVE  raw_to_eu(y, r) = lo + q(y) /\ q(y) \in 0 .. s
             /\ (s >= FullScale => eu_to_raw(lo + q(y), r) = y)
  BY <1>1, <1>2, ReadBack
<1>5. raw_to_eu(x, r) = lo + q(x) /\ q(x) \in 0 .. s /\ (s >= FullScale => eu_to_raw(lo + q(x), r) = x)
  BY <1>1, <1>4
<1>6. ASSUME x < FullScale PROVE raw_to_eu(x, r) <= raw_to_eu(x + 1, r)
  <2>1. x + 1 \in 0 .. FullScale /\ x + 1 \in Nat /\ x <= x + 1
    BY <1>1, <1>6, IoNumbers
  <2>2. x * s <= (x + 1) * s
    BY <1>1, <2>1, ProductGrows
  <2>3. q(x) <= q(x + 1)
    <3>1. x * s \in Nat /\ (x + 1) * s \in Nat
      BY <1>1, <2>1
    <3> QED BY <2>2, <3>1, IoNumbers, QuotientGrows
  <2>4. raw_to_eu(x + 1, r) = lo + q(x + 1) /\ q(x + 1) \in 0 .. s
    BY <1>4, <2>1
  <2> DEFINE a == q(x)
             b == q(x + 1)
  <2>5. /\ a \in Int /\ b \in Int /\ a <= b
        /\ raw_to_eu(x, r) = lo + a /\ raw_to_eu(x + 1, r) = lo + b
    BY <1>1, <1>5, <2>3, <2>4
  <2> HIDE DEF a, b, r
  <2> QED BY <1>2, <2>5
<1>7. sqrt_extract(x, 2) <= sqrt_extract(x + 1, 2)
  <2> DEFINE m == 100 * x
             n == 100 * (x + 1)
  <2>1. m \in Nat /\ n \in Nat /\ m <= n
    BY <1>1
  <2>2. sqrt_extract(x, 2) = (IF x < 2 THEN 0 ELSE Root(m))
        /\ sqrt_extract(x + 1, 2) = (IF x + 1 < 2 THEN 0 ELSE Root(n))
    <3>1. (x <= 0 \/ x < 2 <=> x < 2) /\ (x + 1 <= 0 \/ x + 1 < 2 <=> x + 1 < 2)
      BY <1>1
    <3> QED BY <3>1 DEF sqrt_extract
  <2> HIDE DEF m, n
  <2>3. Root(m) <= Root(n)
    BY <2>1, RootGrows
  <2>4. Root(n) \in 0 .. n
    BY <2>1, RootIs
  <2> QED BY <1>1, <2>1, <2>2, <2>3, <2>4
<1>8. raw_to_eu(x, r) \in Int
  <2> DEFINE a == q(x)
  <2>1. a \in Int /\ raw_to_eu(x, r) = lo + a
    BY <1>1, <1>5
  <2> HIDE DEF a, r
  <2> QED BY <1>2, <2>1
<1>9. detect_open_wire(eu_to_transmitter(raw_to_eu(x, r), lo, hi) \div 10) => raw_to_eu(x, r) < lo
  <2> DEFINE eu == raw_to_eu(x, r)
  <2>1. eu \in Int
    BY <1>8
  <2> HIDE DEF eu, r
  <2>2. CASE eu >= lo
    <3>1. ~detect_open_wire(eu_to_transmitter(eu, lo, hi) \div 10)
      BY <1>2, <2>1, <2>2, WireHolds
    <3> QED BY <3>1 DEF eu
  <2>3. CASE eu < lo
    BY <2>3 DEF eu
  <2> QED BY <1>2, <2>1, <2>2, <2>3
<1> QED BY <1>3, <1>5, <1>6, <1>7, <1>9

-----------------------------------------------------------------------------
(* The charts of the ECS-700. *)

(* The transitions of the chart lead to steps of it: the code enters no *)
(* step it does not have, and the token is lost. *)
TransitionsLead == \A s \in Steps : NextStep[s] # <<>> => NextStep[s][1] \in Steps

TokenAt(c, x) == \A s \in Steps : c.active[s] <=> s = x

(* A scan that started in c0: the time in an active step is the number of *)
(* its scans, and a step that had the token keeps it or has stayed long *)
(* enough. *)
ChartInv(c) ==
  /\ c \in ChartType
  /\ \A s \in Steps : c.active[s] => c.acted[s] = c.elapsed[s]
  /\ TransitionsLead => \E x \in Steps : TokenAt(c, x)

Stayed(c0, c) ==
  \A s \in Steps : c0.active[s] => /\ c.active[s] => c.elapsed[s] <= c0.acted[s] + 1
                                   /\ ~c.active[s] => c0.acted[s] + 1 >= MinDwell[s]

LEMMA ControlNumbers ==
  /\ Kp \in Nat /\ TwoTi \in Nat /\ KpTd \in Nat /\ Tf \in Nat /\ Tf > 0
  /\ OutHi \in Nat /\ OutHi > 0 /\ Rate \in Nat /\ SpRate \in Nat /\ EcsDeadband \in Nat
  /\ EcsPvs \subseteq Int /\ Setpoints \subseteq Int /\ InitialStep \in Steps
  /\ NextStep \in [Steps -> Seq(Nat)] /\ MinDwell \in [Steps -> Nat]
BY EcsControlAssumption

LEMMA StepsAre ==
  /\ IsFiniteSet(Steps) /\ Cardinality(Steps) \in Nat /\ Steps = 0 .. Cardinality(Steps) - 1
BY EcsControlAssumption, FS_CardinalityType

LEMMA ChartStarts == ChartInit => ChartInv(chart)
<1> SUFFICES ASSUME ChartInit PROVE ChartInv(chart)
  OBVIOUS
<1>1. chart = [active |-> [s \in Steps |-> s = InitialStep],
               elapsed |-> [s \in Steps |-> 0], acted |-> [s \in Steps |-> 0]]
  BY DEF ChartInit
<1>2. \A s \in Steps : (s = InitialStep) \in BOOLEAN /\ 0 \in Nat
  OBVIOUS
<1>3. chart \in ChartType
  BY <1>1, <1>2 DEF ChartType
<1>4. TokenAt(chart, InitialStep)
  BY <1>1 DEF TokenAt
<1> QED BY <1>1, <1>3, <1>4, ControlNumbers DEF ChartInv

LEMMA ActedKeeps ==
  ASSUME NEW c, ChartInv(c)
  PROVE  ChartInv(Acted(c)) /\ Stayed(c, Acted(c))
<1> DEFINE e == [s \in Steps |-> IF c.active[s] THEN c.elapsed[s] + 1 ELSE c.elapsed[s]]
           a == [s \in Steps |-> IF c.active[s] THEN c.acted[s] + 1 ELSE c.acted[s]]
<1>1. /\ c \in ChartType /\ c.active \in [Steps -> BOOLEAN]
      /\ c.elapsed \in [Steps -> Nat] /\ c.acted \in [Steps -> Nat]
  BY DEF ChartInv, ChartType
<1>2. \A s \in Steps : c.active[s] \in BOOLEAN /\ c.elapsed[s] \in Nat /\ c.acted[s] \in Nat
  BY <1>1
<1>3. e \in [Steps -> Nat] /\ a \in [Steps -> Nat]
  <2>1. \A s \in Steps : c.elapsed[s] + 1 \in Nat /\ c.acted[s] + 1 \in Nat
    BY <1>2
  <2> QED BY <1>2, <2>1
<1>4. Acted(c) = [c EXCEPT !.elapsed = e, !.acted = a]
  BY DEF Acted
<1>5. \A s \in Steps : c.active[s] => e[s] = c.elapsed[s] + 1 /\ a[s] = c.acted[s] + 1
  OBVIOUS
<1> HIDE DEF e, a
<1>6. Acted(c) = [active |-> c.active, elapsed |-> e, acted |-> a]
  BY <1>1, <1>4 DEF ChartType
<1>7. Acted(c) \in ChartType
  BY <1>1, <1>3, <1>6 DEF ChartType
<1>8. Acted(c).active = c.active /\ Acted(c).elapsed = e /\ Acted(c).acted = a
  BY <1>6
<1>9. \A s \in Steps : c.active[s] => c.acted[s] = c.elapsed[s]
  BY DEF ChartInv
<1>10. \A s \in Steps : Acted(c).active[s] => Acted(c).acted[s] = Acted(c).elapsed[s]
  BY <1>5, <1>8, <1>9
<1>11. TransitionsLead => \E x \in Steps : TokenAt(Acted(c), x)
  BY <1>8 DEF ChartInv, TokenAt
<1>12. Stayed(c, Acted(c))
  <2>1. \A s \in Steps : c.active[s] => e[s] <= c.acted[s] + 1
    BY <1>2, <1>5, <1>9
  <2> QED BY <1>8, <2>1 DEF Stayed
<1> QED BY <1>7, <1>10, <1>11, <1>12 DEF ChartInv

LEMMA VisitedKeeps ==
  ASSUME NEW c0, NEW c, ChartInv(c0), ChartInv(c), Stayed(c0, c), NEW s \in Steps
  PROVE  ChartInv(Visited(c, s)) /\ Stayed(c0, Visited(c, s))
<1>1. CASE ~Fires(c, s)
  BY <1>1 DEF Visited
<1>2. CASE Fires(c, s)
  <2> DEFINE off  == [c.active EXCEPT ![s] = FALSE]
             left == [c EXCEPT !.active = off]
             next == NextStep[s][1]
             on   == [off EXCEPT ![next] = TRUE]
             e    == [c.elapsed EXCEPT ![next] = 0]
             a    == [c.acted EXCEPT ![next] = 0]
  <2>1. /\ c \in ChartType /\ c.active \in [Steps -> BOOLEAN]
        /\ c.elapsed \in [Steps -> Nat] /\ c.acted \in [Steps -> Nat]
        /\ c.active[s] /\ c.elapsed[s] >= MinDwell[s] /\ NextStep[s] # <<>>
        /\ c.elapsed[s] \in Nat /\ MinDwell[s] \in Nat
        /\ \A t \in Steps : c.active[t] => c.acted[t] = c.elapsed[t]
    BY <1>2, ControlNumbers DEF ChartInv, ChartType, Fires
  <2>2. c0.acted \in [Steps -> Nat]
    BY DEF ChartInv, ChartType
  <2>3. Visited(c, s) = IF next \in Steps THEN [c EXCEPT !.active = on, !.elapsed = e, !.acted = a]
                        ELSE left
    BY <1>2 DEF Visited, Entered
  <2>4. off \in [Steps -> BOOLEAN] /\ off[s] = FALSE /\ \A t \in Steps : t # s => off[t] = c.active[t]
    BY <2>1
  <2>5. c0.active[s] => c0.acted[s] + 1 >= MinDwell[s]
    <3>1. c0.active[s] => c.elapsed[s] <= c0.acted[s] + 1
      BY <2>1 DEF Stayed
    <3>2. c0.acted[s] \in Nat
      BY <2>2
    <3> QED BY <2>1, <3>1, <3>2
  <2>6. CASE next \in Steps
    <3>1. /\ on \in [Steps -> BOOLEAN] /\ on[next] = TRUE
          /\ e \in [Steps -> Nat] /\ a \in [Steps -> Nat] /\ e[next] = 0 /\ a[next] = 0
          /\ \A t \in Steps : t # next => on[t] = off[t] /\ e[t] = c.elapsed[t] /\ a[t] = c.acted[t]
      BY <2>1, <2>4, <2>6
    <3>2. Visited(c, s) = [c EXCEPT !.active = on, !.elapsed = e, !.acted = a]
      BY <2>3, <2>6
    <3> DEFINE n == next
    <3>3. n \in Steps
      BY <2>6
    <3>4. on[n] = TRUE /\ e[n] = 0 /\ a[n] = 0
          /\ \A t \in Steps : t # n => on[t] = off[t] /\ e[t] = c.elapsed[t] /\ a[t] = c.acted[t]
      BY <3>1
    <3> HIDE DEF on, e, a, off, n
    <3>5. Visited(c, s) = [active |-> on, elapsed |-> e, acted |-> a]
      BY <2>1, <3>2 DEF ChartType
    <3>6. Visited(c, s) \in ChartType /\ Visited(c, s).active = on
          /\ Visited(c, s).elapsed = e /\ Visited(c, s).acted = a
      BY <3>1, <3>5 DEF ChartType
    <3>7. \A t \in Steps : on[t] => a[t] = e[t]
      <4> SUFFICES ASSUME NEW t \in Steps, on[t] PROVE a[t] = e[t]
        OBVIOUS
      <4>1. CASE t = n
        BY <3>4, <4>1
      <4>2. CASE t # n
        <5>1. off[t] /\ a[t] = c.acted[t] /\ e[t] = c.elapsed[t]
          BY <3>4, <4>2
        <5>2. t # s /\ c.active[t]
          BY <2>4, <5>1
        <5> QED BY <2>1, <5>1, <5>2
      <4> QED BY <4>1, <4>2
    <3>8. TransitionsLead => \E x \in Steps : TokenAt(Visited(c, s), x)
      <4> SUFFICES ASSUME TransitionsLead PROVE TokenAt(Visited(c, s), n)
        BY <3>3
      <4>1. PICK x \in Steps : TokenAt(c, x)
        BY DEF ChartInv
      <4>2. x = s
        BY <2>1, <4>1 DEF TokenAt
      <4>3. \A t \in Steps : ~off[t]
        BY <2>4, <4>1, <4>2 DEF TokenAt
      <4>4. \A t \in Steps : on[t] <=> t = n
        BY <3>4, <4>3
      <4> QED BY <3>6, <4>4 DEF TokenAt
    <3>9. Stayed(c0, Visited(c, s))
      <4> SUFFICES ASSUME NEW t \in Steps, c0.active[t]
                   PROVE  /\ on[t] => e[t] <= c0.acted[t] + 1
                          /\ ~on[t] => c0.acted[t] + 1 >= MinDwell[t]
        BY <3>6 DEF Stayed
      <4>1. c0.acted[t] \in Nat
        BY <2>2
      <4>2. CASE t = n
        BY <3>4, <4>1, <4>2
      <4>3. CASE t # n /\ t = s
        <5>1. on[t] = FALSE
          BY <2>4, <3>4, <4>3
        <5> QED BY <2>5, <4>3, <5>1
      <4>4. CASE t # n /\ t # s
        <5>1. on[t] = c.active[t] /\ e[t] = c.elapsed[t]
          BY <2>4, <3>4, <4>4
        <5> QED BY <5>1 DEF Stayed
      <4> QED BY <4>2, <4>3, <4>4
    <3> QED BY <3>6, <3>7, <3>8, <3>9 DEF ChartInv
  <2>7. CASE next \notin Steps
    <3>1. Visited(c, s) = [c EXCEPT !.active = off]
      BY <2>3, <2>7
    <3>2. ~TransitionsLead
      BY <2>1, <2>7 DEF TransitionsLead
    <3> HIDE DEF off
    <3>3. Visited(c, s) = [active |-> off, elapsed |-> c.elapsed, acted |-> c.acted]
      BY <2>1, <3>1 DEF ChartType
    <3>4. Visited(c, s) \in ChartType /\ Visited(c, s).active = off
          /\ Visited(c, s).elapsed = c.elapsed /\ Visited(c, s).acted = c.acted
      BY <2>1, <2>4, <3>3 DEF ChartType
    <3>5. \A t \in Steps : off[t] => c.acted[t] = c.elapsed[t]
      BY <2>1, <2>4
    <3>6. Stayed(c0, Visited(c, s))
      <4> SUFFICES ASSUME NEW t \in Steps, c0.active[t]
                   PROVE  /\ off[t] => c.elapsed[t] <= c0.acted[t] + 1
                          /\ ~off[t] => c0.acted[t] + 1 >= MinDwell[t]
        BY <3>4 DEF Stayed
      <4>1. CASE t = s
        BY <2>4, <2>5, <4>1
      <4>2. CASE t # s
        <5>1. off[t] = c.active[t]
          BY <2>4, <4>2
        <5> QED BY <5>1 DEF Stayed
      <4> QED BY <4>1, <4>2
    <3> QED BY <3>2, <3>4, <3>5, <3>6 DEF ChartInv
  <2> QED BY <2>6, <2>7
<1> QED BY <1>1, <1>2

LEMMA ScanKeeps ==
  ASSUME ChartInv(chart)
  PROVE  ChartInv(AfterScan(chart)) /\ Stayed(chart, AfterScan(chart))
<1> DEFINE n == Cardinality(Steps)
           start == Acted(chart)
           run == CHOOSE f : f = [k \in 0 .. n |-> IF k = 0 THEN start ELSE Visited(f[k - 1], k - 1)]
           S == {c \in ChartType : ChartInv(c) /\ Stayed(chart, c)}
<1>1. n \in Nat /\ \A k \in 1 .. n : k - 1 \in Steps
  BY StepsAre
<1>2. AfterScan(chart) = run[n]
  BY Zenon DEF AfterScan
<1>3. start \in S
  BY ActedKeeps DEF ChartInv
<1>4. PICK g \in [0 .. n -> S] :
        g[0] = start /\ \A k \in 1 .. n : g[k] = Visited(g[k - 1], k - 1)
  <2> DEFINE F == [k \in 1 .. n |-> [c \in S |-> Visited(c, k - 1)]]
  <2>1. ASSUME NEW k \in 1 .. n, NEW c \in S PROVE Visited(c, k - 1) \in S
    <3>1. k - 1 \in Steps /\ ChartInv(c) /\ Stayed(chart, c)
      BY <1>1
    <3>2. ChartInv(Visited(c, k - 1)) /\ Stayed(chart, Visited(c, k - 1))
      BY <3>1, VisitedKeeps
    <3> QED BY <3>2 DEF ChartInv
  <2> HIDE DEF start, n, S
  <2>2. F \in [1 .. n -> [S -> S]]
    BY <2>1
  <2> HIDE DEF F
  <2>3. PICK g \in Courses(n, S, start, F) : TRUE
    BY <1>1, <1>3, <2>2, Iteration
  <2>4. \A k \in 1 .. n : g[k] = Visited(g[k - 1], k - 1)
    <3> TAKE k \in 1 .. n
    <3>1. k - 1 \in 0 .. n
      BY <1>1
    <3>2. g[k] = F[k][g[k - 1]] /\ g[k - 1] \in S
      BY <2>3, <3>1 DEF Courses
    <3> QED BY <3>2 DEF F
  <2>5. g \in [0 .. n -> S] /\ g[0] = start
    BY <2>3 DEF Courses
  <2> QED BY <2>4, <2>5
<1>5. run = [k \in 0 .. n |-> IF k = 0 THEN start ELSE Visited(run[k - 1], k - 1)]
  <2> HIDE DEF start, n, S
  <2>1. g = [k \in 0 .. n |-> IF k = 0 THEN start ELSE Visited(g[k - 1], k - 1)]
    BY <1>1, <1>4
  <2> QED BY <2>1, Zenon
<1> HIDE DEF run, start, n
<1>6. run[0] \in S
  <2>1. run[0] = start
    BY <1>1, <1>5
  <2> QED BY <1>3, <2>1
<1>7. ASSUME NEW k \in 0 .. n - 1, run[k] \in S PROVE run[k + 1] \in S
  <2>1. k + 1 \in 0 .. n /\ k + 1 \in 1 .. n /\ k + 1 # 0 /\ (k + 1) - 1 = k
    BY <1>1
  <2>2. run[k + 1] = Visited(run[k], k) /\ k \in Steps
    BY <1>1, <1>5, <2>1
  <2>3. ChartInv(Visited(run[k], k)) /\ Stayed(chart, Visited(run[k], k))
    BY <1>7, <2>2, VisitedKeeps
  <2> QED BY <2>2, <2>3 DEF ChartInv
<1>8. run[n] \in S
  <2> DEFINE T == {k \in 0 .. n : run[k] \in S}
  <2>1. 0 \in T /\ \A k \in 0 .. n - 1 : k \in T => k + 1 \in T
    BY <1>1, <1>6, <1>7
  <2> HIDE DEF S
  <2>2. 0 .. n \subseteq T
    <3> HIDE DEF T
    <3> QED BY <1>1, <2>1, SetInduction
  <2> QED BY <1>1, <2>2
<1> QED BY <1>2, <1>8

-----------------------------------------------------------------------------
(* The PID blocks of the ECS-700. *)

LEMMA ClipIs ==
  ASSUME NEW x \in Int, NEW lo \in Int, NEW hi \in Int
  PROVE  /\ Clip(x, lo, hi) \in Int
         /\ lo <= hi => lo <= Clip(x, lo, hi) /\ Clip(x, lo, hi) <= hi
         /\ lo <= x /\ x <= hi => Clip(x, lo, hi) = x
BY DEF Clip

(* What moves by a limited step from inside the range stays inside it and *)
(* moves by no more than the step. *)
LEMMA LimitedStep ==
  ASSUME NEW out \in Int, NEW hi \in Int, out \in 0 .. hi, NEW d \in Int, NEW step \in Nat,
         -step <= d, d <= step
  PROVE  /\ Clip(out + d, 0, hi) \in 0 .. hi
         /\ Abs(Clip(out + d, 0, hi) - out) <= step
BY DEF Clip, Abs

LEMMA InBandIs ==
  ASSUME NEW e \in Int
  PROVE  InBand(e) \in Int
BY DEF InBand

LEMMA DtIs ==
  ASSUME NEW b, NEW delta \in {0, 2, 11}
  PROVE  EffectiveDt(b, delta) \in {1, 2}
BY DEF EffectiveDt

(* An automatic execution keeps the block well formed and moves the output *)
(* by no more than the rate. *)
LEMMA AutomaticIs ==
  ASSUME NEW b \in PidBlock, NEW dt \in {1, 2}
  PROVE  /\ Automatic(b, dt) \in PidBlock
         /\ Automatic(b, dt).hi = b.hi /\ Automatic(b, dt).mode = b.mode
         /\ b.out \in 0 .. b.hi =>
              /\ Automatic(b, dt).out \in 0 .. b.hi
              /\ Rate > 0 => Abs(Automatic(b, dt).out - b.out) <= 2 * Rate
<1> DEFINE sp    == LimitedSetpoint(b, dt)
           error == InBand(sp - b.pv)
           i     == IntegralTerm(b, sp, error, dt)
           d     == DerivativeTerm(b, dt)
           der   == IF KpTd > 0 THEN d ELSE b.derivative
           raw   == Sign(b) * (Kp * error + i + d)
           out   == LimitedOutput(b, raw, dt)
<1>1. /\ b.sp \in Int /\ b.pv \in Int /\ b.out \in Int /\ b.error \in Int /\ b.integral \in Int
      /\ b.derivative \in Int /\ b.pvPrev \in Int /\ b.hi \in Int
      /\ b.mode \in Mode /\ b.reverse \in BOOLEAN /\ b.enabled \in BOOLEAN
      /\ b = [mode |-> b.mode, reverse |-> b.reverse, sp |-> b.sp, pv |-> b.pv, out |-> b.out,
              error |-> b.error, integral |-> b.integral, derivative |-> b.derivative,
              pvPrev |-> b.pvPrev, hi |-> b.hi, enabled |-> b.enabled, first |-> b.first]
  BY DEF PidBlock
<1>2. Automatic(b, dt) = [b EXCEPT !.sp = sp, !.error = error, !.integral = i, !.derivative = der,
                                   !.pvPrev = b.pv, !.out = out, !.first = FALSE]
  BY DEF Automatic
<1>3. sp \in Int
  <2> DEFINE most == SpRate * dt
             least == -most
             move == Clip(b.sp - b.pv, least, most)
  <2>1. most \in Int /\ b.sp - b.pv \in Int
    BY SMTT(30), <1>1, ControlNumbers
  <2>2. sp = IF SpRate > 0 THEN b.pv + move ELSE b.sp
    BY DEF LimitedSetpoint
  <2> HIDE DEF most
  <2>3. move \in Int
    <3>1. least \in Int
      BY <2>1
    <3> HIDE DEF least
    <3> QED BY <2>1, <3>1, ClipIs
  <2> HIDE DEF move, sp
  <2> QED BY <1>1, <2>2, <2>3
<1> HIDE DEF sp
<1>4. error \in Int
  <2>1. sp - b.pv \in Int
    BY <1>1, <1>3
  <2> QED BY <2>1, InBandIs
<1> HIDE DEF error
<1>5. i \in Int
  <2> DEFINE e2 == InBand(sp - b.pvPrev)
  <2>1. e2 \in Int
    <3>1. sp - b.pvPrev \in Int
      BY <1>1, <1>3
    <3> QED BY <3>1, InBandIs
  <2> HIDE DEF e2
  <2> DEFINE p == Kp * (error + e2) * dt
             c == TwoTi = 0 \/ Saturated(b, error)
  <2>2. p \in Int
    <3>1. error + e2 \in Int
      BY <1>4, <2>1
    <3>2. Kp * (error + e2) \in Int
      BY <3>1, ControlNumbers
    <3> QED BY <3>2
  <2> HIDE DEF p
  <2>3. i = IF c THEN b.integral ELSE b.integral + p \div TwoTi
    BY DEF IntegralTerm, p, e2
  <2>4. ASSUME ~c PROVE p \div TwoTi \in Int
    BY <2>2, <2>4, ControlNumbers
  <2> HIDE DEF c, i
  <2>5. CASE c
    BY <1>1, <2>3, <2>5
  <2>6. CASE ~c
    <3>1. i = b.integral + p \div TwoTi /\ p \div TwoTi \in Int
      BY <2>3, <2>4, <2>6
    <3> QED BY <1>1, <3>1
  <2> QED BY <2>5, <2>6
<1> HIDE DEF i
<1>6. d \in Int
  <2> DEFINE n == Tf * b.derivative - KpTd * (b.pv - b.pvPrev)
             k == KpTd \div 2
             q == n \div (Tf + dt)
  <2>1. n \in Int
    <3>1. Tf * b.derivative \in Int /\ KpTd * (b.pv - b.pvPrev) \in Int
      BY SMTT(30), <1>1, ControlNumbers
    <3> QED BY <3>1
  <2>2. k \in Int /\ -k \in Int
    BY ControlNumbers
  <2> HIDE DEF n, k
  <2>3. q \in Int
    <3>1. Tf + dt \in Nat /\ Tf + dt > 0
      BY ControlNumbers
    <3> QED BY <2>1, <3>1
  <2>4. d = IF KpTd = 0 THEN 0 ELSE Clip(q, -k, k)
    BY DEF DerivativeTerm, n, k
  <2> HIDE DEF q
  <2>5. Clip(q, -k, k) \in Int
    BY <2>2, <2>3, ClipIs
  <2> HIDE DEF d
  <2> QED BY <2>4, <2>5
<1> HIDE DEF d
<1>7. raw \in Int
  <2>1. Kp * error \in Int
    BY <1>4, ControlNumbers
  <2>2. Kp * error + i + d \in Int
    BY <1>5, <1>6, <2>1
  <2> DEFINE v == Kp * error + i + d
  <2> HIDE DEF v
  <2>3. Sign(b) \in Int
    BY DEF Sign
  <2>4. Sign(b) * v \in Int
    BY <2>2, <2>3 DEF v
  <2> QED BY <2>4 DEF v
<1> HIDE DEF raw
<1> DEFINE step == Rate * dt
           low  == -step
           move == Clip(raw - b.out, low, step)
<1>8. step \in Nat /\ step <= 2 * Rate /\ -step \in Int /\ -step <= step
  BY ControlNumbers
<1>9. move \in Int /\ -step <= move /\ move <= step
  <2>1. raw - b.out \in Int
    BY <1>1, <1>7
  <2>2. low \in Int /\ low <= step
    BY <1>8
  <2>3. move \in Int /\ low <= move /\ move <= step
    <3> DEFINE x == raw - b.out
    <3>1. x \in Int /\ low \in Int /\ step \in Int /\ low <= step
      BY <1>8, <2>1, <2>2
    <3> HIDE DEF step, low, x
    <3>2. Clip(x, low, step) \in Int /\ low <= Clip(x, low, step) /\ Clip(x, low, step) <= step
      BY <3>1, ClipIs
    <3> QED BY <3>2 DEF x
  <2> QED BY <2>3
<1>10. out = Clip(IF Rate > 0 THEN b.out + move ELSE raw, 0, b.hi)
  BY DEF LimitedOutput
<1> HIDE DEF step, low, move, out
<1>11. out \in Int
  <2>1. b.out + move \in Int /\ 0 \in Int
    BY <1>1, <1>9
  <2>2. Clip(b.out + move, 0, b.hi) \in Int /\ Clip(raw, 0, b.hi) \in Int
    BY <1>1, <1>7, <2>1, ClipIs
  <2> QED BY <1>10, <2>2
<1>12. ASSUME b.out \in 0 .. b.hi
       PROVE  out \in 0 .. b.hi /\ (Rate > 0 => Abs(out - b.out) <= 2 * Rate)
  <2>1. CASE Rate > 0
    <3>1. out = Clip(b.out + move, 0, b.hi)
      BY <1>10, <2>1
    <3>2. out \in 0 .. b.hi /\ Abs(out - b.out) <= step
      BY <1>1, <1>8, <1>9, <1>12, <3>1, LimitedStep
    <3>3. Abs(out - b.out) \in Int
      BY <1>1, <1>11 DEF Abs
    <3> QED BY <1>8, <3>2, <3>3, ControlNumbers
  <2>2. CASE ~(Rate > 0)
    <3>1. out = Clip(raw, 0, b.hi) /\ 0 <= b.hi
      BY <1>1, <1>10, <1>12, <2>2
    <3>2. 0 <= out /\ out <= b.hi
      BY <1>1, <1>7, <3>1, ClipIs
    <3> QED BY <1>1, <1>11, <2>2, <3>2
  <2> QED BY <2>1, <2>2
<1>13. der \in Int
  BY <1>1, <1>6
<1> HIDE DEF der
<1> DEFINE x == Automatic(b, dt)
<1>14. x = [b EXCEPT !.sp = sp, !.error = error, !.integral = i, !.derivative = der,
                     !.pvPrev = b.pv, !.out = out, !.first = FALSE]
  BY <1>2
<1> HIDE DEF x
<1>15. x \in PidBlock
  BY <1>1, <1>3, <1>4, <1>5, <1>6, <1>11, <1>13, <1>14 DEF PidBlock
<1>16. x.hi = b.hi /\ x.mode = b.mode /\ x.out = out
  BY <1>14 DEF PidBlock
<1> QED BY <1>12, <1>15, <1>16 DEF x

(* Between two outputs of a block: in automatic mode, inside the limits. *)
Smooth(b, c) ==
  (c.out # b.out /\ b.mode = "AUTO" /\ c.hi = b.hi /\ b.out \in 0 .. b.hi)
    => c.out \in 0 .. c.hi /\ (Rate > 0 => Abs(c.out - b.out) <= 2 * Rate)

LEMMA PidExecuteIs ==
  ASSUME NEW b \in PidBlock, NEW delta \in {0, 2, 11}, NEW track \in Tracks
  PROVE  /\ PidExecute(b, delta, track) \in PidBlock
         /\ PidExecute(b, delta, track).hi = b.hi
         /\ Smooth(b, PidExecute(b, delta, track))
<1>1. /\ b.sp \in Int /\ b.pv \in Int /\ b.out \in Int /\ b.error \in Int /\ b.hi \in Int
      /\ b.mode \in Mode
  BY DEF PidBlock
<1>2. CASE ~b.enabled
  BY <1>2 DEF PidExecute, Smooth
<1>3. CASE b.enabled /\ b.mode = "MANUAL"
  <2> DEFINE e == b.sp - b.pv
             i == b.out - Kp * (b.sp - b.pv)
             d == 0
             pv == b.pv
             x == PidExecute(b, delta, track)
  <2>1. e \in Int /\ i \in Int /\ d \in Int /\ pv \in Int
    <3>1. b.sp - b.pv \in Int
      BY <1>1
    <3>2. Kp * (b.sp - b.pv) \in Int
      BY <3>1, ControlNumbers
    <3> QED BY <1>1, <3>1, <3>2
  <2>2. x = [b EXCEPT !.error = e, !.integral = i, !.derivative = d, !.pvPrev = pv,
                      !.first = FALSE]
    BY <1>3 DEF PidExecute
  <2> HIDE DEF e, i, d, pv, x
  <2>3. x \in PidBlock
    BY <1>1, <2>1, <2>2 DEF PidBlock
  <2>4. x.hi = b.hi /\ x.out = b.out
    BY <2>2 DEF PidBlock
  <2> QED BY <2>3, <2>4 DEF Smooth, x
<1>4. CASE b.enabled /\ b.mode = "TRACK" /\ track.enable
  <2> DEFINE i == 0 - Kp * b.error
             d == 0
             pv == b.pv
             x == PidExecute(b, delta, track)
  <2>0. track.value = 0
    BY DEF Tracks
  <2>1. i \in Int /\ d \in Int /\ pv \in Int
    <3>1. Kp * b.error \in Int
      BY <1>1, ControlNumbers
    <3> QED BY <1>1, <3>1
  <2>2. x = [b EXCEPT !.out = d, !.integral = i, !.derivative = d, !.pvPrev = pv, !.first = FALSE]
    BY <1>4, <2>0 DEF PidExecute
  <2> HIDE DEF i, d, pv, x
  <2>3. x \in PidBlock
    BY <1>1, <2>1, <2>2 DEF PidBlock
  <2>4. x.hi = b.hi
    BY <2>2 DEF PidBlock
  <2> QED BY <1>4, <2>3, <2>4 DEF Smooth, x
<1>5. CASE b.enabled /\ b.mode # "MANUAL" /\ ~(b.mode = "TRACK" /\ track.enable)
  <2> DEFINE dt == EffectiveDt(b, delta)
  <2>1. dt \in {1, 2}
    BY DtIs
  <2>2. PidExecute(b, delta, track) = Automatic(b, dt)
    BY <1>5 DEF PidExecute
  <2> HIDE DEF dt
  <2> QED BY <2>1, <2>2, AutomaticIs DEF Smooth
<1> QED BY <1>2, <1>3, <1>4, <1>5

LEMMA TransitionIs ==
  ASSUME NEW b \in PidBlock, NEW mode \in Mode
  PROVE  mode_transition(b, mode) \in PidBlock /\ mode_transition(b, mode).out = b.out
<1> DEFINE i == Sign(b) * b.out - Kp * InBand(b.sp - b.pv) - b.derivative
           on == mode # "MANUAL"
           x == mode_transition(b, mode)
<1>1. /\ b.sp \in Int /\ b.pv \in Int /\ b.out \in Int /\ b.derivative \in Int
  BY DEF PidBlock
<1>2. i \in Int
  <2> DEFINE e == InBand(b.sp - b.pv)
  <2>1. e \in Int
    <3>1. b.sp - b.pv \in Int
      BY <1>1
    <3> QED BY <3>1, InBandIs
  <2> HIDE DEF e
  <2>2. Kp * e \in Int
    BY <2>1, ControlNumbers
  <2> DEFINE g == Sign(b)
  <2>3. g \in Int
    BY DEF Sign
  <2> HIDE DEF g
  <2>4. g * b.out \in Int
    BY <1>1, <2>3
  <2>5. g * b.out - Kp * e - b.derivative \in Int
    BY <1>1, <2>2, <2>4
  <2> QED BY <2>5 DEF g, e
<1>3. on \in BOOLEAN
  OBVIOUS
<1>4. \/ x = b
      \/ x = [b EXCEPT !.mode = mode, !.enabled = TRUE, !.integral = i]
      \/ x = [b EXCEPT !.mode = mode, !.enabled = on]
  BY Zenon DEF mode_transition
<1> HIDE DEF i, on, x
<1>5. x \in PidBlock /\ x.out = b.out
  <2>1. CASE x = b
    BY <2>1
  <2>2. CASE x = [b EXCEPT !.mode = mode, !.enabled = TRUE, !.integral = i]
    BY <1>2, <2>2 DEF PidBlock
  <2>3. CASE x = [b EXCEPT !.mode = mode, !.enabled = on]
    BY <1>3, <2>3 DEF PidBlock
  <2> QED BY <1>4, <2>1, <2>2, <2>3
<1> QED BY <1>5 DEF x

LEMMA LimitsAre ==
  ASSUME NEW b \in PidBlock, NEW hi \in Int
  PROVE  set_output_limits(b, hi) \in PidBlock /\ Smooth(b, set_output_limits(b, hi))
<1> DEFINE out == Clip(b.out, 0, hi)
           x == set_output_limits(b, hi)
<1>1. b.out \in Int /\ b.hi \in Int
  BY DEF PidBlock
<1>2. out \in Int /\ (0 <= b.out /\ b.out <= hi => out = b.out)
  BY <1>1 DEF Clip
<1>3. CASE hi <= 0
  BY <1>3 DEF set_output_limits, Smooth
<1>4. CASE ~(hi <= 0)
  <2>1. x = [b EXCEPT !.hi = hi, !.out = out]
    BY <1>4 DEF set_output_limits
  <2> HIDE DEF x, out
  <2>2. x \in PidBlock /\ x.hi = hi /\ x.out = out
    BY <1>2, <2>1 DEF PidBlock
  <2>3. Smooth(b, x)
    BY <1>1, <1>2, <2>2 DEF Smooth
  <2> QED BY <2>2, <2>3 DEF x
<1> QED BY <1>3, <1>4

PidInv == ecsPid \in [Loops -> PidBlock] /\ cascadeOn \in BOOLEAN

LEMMA PidStarts == PidInit => PidInv
<1> SUFFICES ASSUME PidInit PROVE PidInv
  OBVIOUS
<1>1. PICK reverse \in BOOLEAN : ecsPid = [l \in Loops |-> pid_init(l = "secondary" /\ reverse)]
  BY DEF PidInit
<1>2. ASSUME NEW r \in BOOLEAN PROVE pid_init(r) \in PidBlock
  BY ControlNumbers DEF pid_init, PidBlock, Mode
<1>3. \A l \in Loops : (l = "secondary" /\ reverse) \in BOOLEAN
  OBVIOUS
<1>4. ecsPid \in [Loops -> PidBlock]
  <2>1. ASSUME NEW l \in Loops PROVE pid_init(l = "secondary" /\ reverse) \in PidBlock
    BY <1>2, <1>3
  <2> QED BY <1>1, <2>1
<1> QED BY <1>4 DEF PidInit, PidInv

LEMMA PidKept ==
  ASSUME PidInv, EcsPidNext
  PROVE  PidInv' /\ \A l \in Loops : Smooth(ecsPid[l], ecsPid'[l])
<1>1. /\ ecsPid \in [Loops -> PidBlock] /\ cascadeOn \in BOOLEAN
      /\ ecsPid["primary"] \in PidBlock /\ ecsPid["secondary"] \in PidBlock
      /\ Loops = {"primary", "secondary"}
  BY DEF PidInv, Loops
<1>2. CASE CascadeExecute
  <2>1. PICK pv1, pv2 \in EcsPvs, delta \in {0, 2, 11}, track \in Tracks :
          LET first  == PidExecute([ecsPid["primary"] EXCEPT !.pv = pv1], delta, track)
              given  == [ecsPid["secondary"] EXCEPT !.pv = pv2]
              second == PidExecute(IF cascadeOn
                                   THEN [given EXCEPT !.sp = Clip(first.out, 0, OutHi)]
                                   ELSE given, delta, track)
          IN /\ Bounded(first) /\ Bounded(second)
             /\ ecsPid' = [ecsPid EXCEPT !["primary"] = first, !["secondary"] = second]
    BY <1>2 DEF CascadeExecute
  <2> DEFINE p1     == ecsPid["primary"]
             p2     == ecsPid["secondary"]
             b1     == [p1 EXCEPT !.pv = pv1]
             first  == PidExecute(b1, delta, track)
             given  == [p2 EXCEPT !.pv = pv2]
             sp     == Clip(first.out, 0, OutHi)
             b2     == IF cascadeOn THEN [given EXCEPT !.sp = sp] ELSE given
             second == PidExecute(b2, delta, track)
  <2>2. ecsPid' = [ecsPid EXCEPT !["primary"] = first, !["secondary"] = second]
    BY <2>1
  <2>3. p1 \in PidBlock /\ p2 \in PidBlock /\ pv1 \in Int /\ pv2 \in Int
    BY <1>1, ControlNumbers
  <2> HIDE DEF p1, p2
  <2>4. b1 \in PidBlock /\ b1.out = p1.out /\ b1.hi = p1.hi /\ b1.mode = p1.mode
    BY <2>3 DEF PidBlock
  <2>5. first \in PidBlock /\ first.hi = b1.hi /\ Smooth(b1, first)
    <3> HIDE DEF b1
    <3> QED BY <2>4, PidExecuteIs
  <2>6. Smooth(p1, first)
    <3> HIDE DEF b1, first
    <3> QED BY <2>4, <2>5 DEF Smooth
  <2>7. sp \in Int
    <3>1. first.out \in Int
      <4> HIDE DEF first
      <4> QED BY <2>5 DEF PidBlock
    <3> HIDE DEF first
    <3> QED BY <3>1, ControlNumbers DEF Clip
  <2> HIDE DEF sp
  <2>8. given \in PidBlock /\ given.out = p2.out /\ given.hi = p2.hi /\ given.mode = p2.mode
    BY <2>3 DEF PidBlock
  <2>9. b2 \in PidBlock /\ b2.out = p2.out /\ b2.hi = p2.hi /\ b2.mode = p2.mode
    <3> HIDE DEF given
    <3>1. CASE cascadeOn
      <4>1. b2 = [given EXCEPT !.sp = sp]
        BY <3>1
      <4> HIDE DEF b2
      <4> QED BY <2>7, <2>8, <4>1 DEF PidBlock
    <3>2. CASE ~cascadeOn
      BY <2>8, <3>2
    <3> QED BY <3>1, <3>2
  <2>10. second \in PidBlock /\ second.hi = b2.hi /\ Smooth(b2, second)
    <3> HIDE DEF b2
    <3> QED BY <2>9, PidExecuteIs
  <2>11. Smooth(p2, second)
    <3> HIDE DEF b2, second
    <3> QED BY <2>9, <2>10 DEF Smooth
  <2> HIDE DEF first, second
  <2>12. /\ ecsPid' \in [Loops -> PidBlock]
         /\ ecsPid'["primary"] = first /\ ecsPid'["secondary"] = second
    BY <1>1, <2>2, <2>5, <2>10
  <2>13. cascadeOn' = cascadeOn
    BY <1>2 DEF CascadeExecute
  <2> QED BY <1>1, <2>6, <2>11, <2>12, <2>13 DEF PidInv, p1, p2
<1>3. CASE Operate("primary")
  <2> DEFINE b == ecsPid["primary"]
  <2>1. \E c \in PidBlock : Smooth(b, c) /\ ecsPid' = [ecsPid EXCEPT !["primary"] = c]
    <3>1. CASE \E mode \in Mode \ {"CASCADE"} :
                 ecsPid' = [ecsPid EXCEPT !["primary"] = mode_transition(@, mode)]
      <4>1. PICK mode \in Mode : ecsPid' = [ecsPid EXCEPT !["primary"] = mode_transition(b, mode)]
        BY <3>1
      <4>2. mode_transition(b, mode) \in PidBlock /\ mode_transition(b, mode).out = b.out
        BY <1>1, TransitionIs
      <4>3. Smooth(b, mode_transition(b, mode))
        BY <4>2 DEF Smooth
      <4> QED BY <4>1, <4>2, <4>3
    <3>2. CASE \E sp \in Setpoints : ecsPid' = [ecsPid EXCEPT !["primary"].sp = sp]
      <4>1. PICK sp \in Setpoints : ecsPid' = [ecsPid EXCEPT !["primary"].sp = sp]
        BY <3>2
      <4> DEFINE c == [b EXCEPT !.sp = sp]
      <4>2. c \in PidBlock /\ c.out = b.out
        BY <1>1, ControlNumbers DEF PidBlock
      <4>3. ecsPid' = [ecsPid EXCEPT !["primary"] = c]
        BY <4>1
      <4> HIDE DEF c
      <4> QED BY <4>2, <4>3 DEF Smooth
    <3>3. CASE \E hi \in {1, OutHi} :
                 ecsPid' = [ecsPid EXCEPT !["primary"] = set_output_limits(@, hi)]
      <4>1. PICK hi \in {1, OutHi} : ecsPid' = [ecsPid EXCEPT !["primary"] = set_output_limits(b, hi)]
        BY <3>3
      <4>2. set_output_limits(b, hi) \in PidBlock /\ Smooth(b, set_output_limits(b, hi))
        BY <1>1, ControlNumbers, LimitsAre
      <4> QED BY <4>1, <4>2
    <3> QED BY <1>3, <3>1, <3>2, <3>3 DEF Operate
  <2>2. PICK c \in PidBlock : Smooth(b, c) /\ ecsPid' = [ecsPid EXCEPT !["primary"] = c]
    BY <2>1
  <2>3. /\ ecsPid' \in [Loops -> PidBlock] /\ ecsPid'["primary"] = c
        /\ ecsPid'["secondary"] = ecsPid["secondary"]
    BY <1>1, <2>2
  <2>4. cascadeOn' = cascadeOn
    BY <1>3 DEF Operate
  <2>5. Smooth(ecsPid["secondary"], ecsPid["secondary"])
    BY DEF Smooth
  <2> QED BY <1>1, <2>2, <2>3, <2>4, <2>5 DEF PidInv
<1>4. CASE EnableCascade
  <2>1. ecsPid' = ecsPid /\ cascadeOn' \in BOOLEAN
    BY <1>4 DEF EnableCascade
  <2> QED BY <1>1, <2>1 DEF PidInv, Smooth
<1> QED BY <1>2, <1>3, <1>4 DEF EcsPidNext

-----------------------------------------------------------------------------
(* Communication and configuration of the ECS-700. *)

LEMMA NetNumbers ==
  /\ Skew \in Int /\ MaxDelay \in Nat /\ MaxSyncs \in Nat
  /\ MaxDomains \in Nat /\ MaxDomains > 0 /\ MaxStations \in Nat
BY EcsNetAssumption

(* Rounding towards zero: twice the half of v is v but for one. *)
LEMMA HalfIs ==
  ASSUME NEW v \in Int
  PROVE  /\ Toward0(v, 2) \in Int
         /\ v - 1 <= 2 * Toward0(v, 2) /\ 2 * Toward0(v, 2) <= v + 1
BY DEF Toward0

(* A tenth that lies between ten times two whole numbers lies between them.*)
LEMMA TenthIs ==
  ASSUME NEW v \in Int, NEW lo \in Nat, NEW hi \in Nat, 10 * lo <= v, v <= 10 * hi
  PROVE  Toward0(v, 10) \in lo .. hi
BY DEF Toward0

(* The clock: a whole number, and the filtered one lies between those it *)
(* mixes when the slave is not behind its master. *)
PtpInv ==
  /\ ptp \in PtpType
  /\ ptp.synchronized /\ Skew >= 0 => ptp.offset \in Skew .. Skew + MaxDelay

LEMMA PtpKept ==
  ASSUME PtpInv, ProcessSync
  PROVE  PtpInv'
<1>1. /\ ptp.synchronized \in BOOLEAN /\ ptp.offset \in Int /\ ptp.syncs \in 0 .. MaxSyncs
      /\ ptp.syncs < MaxSyncs
  BY DEF PtpInv, PtpType, ProcessSync
<1>2. PICK delay \in 0 .. MaxDelay :
        \E offset \in IF ptp.synchronized THEN Casts(Filtered(ptp, Skew + delay))
                      ELSE {Filtered(ptp, Skew + delay)} :
          ptp' = [synchronized |-> TRUE, offset |-> offset, syncs |-> ptp.syncs + 1]
  BY DEF ProcessSync
<1> DEFINE f == Filtered(ptp, Skew + delay)
<1>3. PICK offset \in IF ptp.synchronized THEN Casts(f) ELSE {f} :
          ptp' = [synchronized |-> TRUE, offset |-> offset, syncs |-> ptp.syncs + 1]
  BY <1>2
<1>4. Skew + delay \in Int /\ 9 * ptp.offset + (Skew + delay) \in Int
  BY <1>1, NetNumbers
<1>5. f \in Int /\ (Skew >= 0 => f \in Skew .. Skew + MaxDelay)
  <2>1. CASE ptp.synchronized
    <3> DEFINE v == 9 * ptp.offset + (Skew + delay)
    <3>1. f = Toward0(v, 10) /\ v \in Int
      BY <1>4, <2>1 DEF Filtered
    <3>2. f \in Int
      <4> HIDE DEF v, f
      <4> QED BY <3>1 DEF Toward0
    <3>3. ASSUME Skew >= 0 PROVE f \in Skew .. Skew + MaxDelay
      <4>1. ptp.offset \in Skew .. Skew + MaxDelay
        BY <2>1, <3>3 DEF PtpInv
      <4> DEFINE hi == Skew + MaxDelay
      <4>2. 10 * Skew <= v /\ v <= 10 * hi /\ Skew \in Nat /\ hi \in Nat
        BY <3>3, <4>1, NetNumbers
      <4> HIDE DEF v, f, hi
      <4>3. f \in Skew .. hi
        BY <3>1, <4>2, TenthIs
      <4> QED BY <4>3 DEF hi
    <3> QED BY <3>2, <3>3
  <2>2. CASE ~ptp.synchronized
    <3>1. f = Skew + delay
      BY <2>2 DEF Filtered
    <3> HIDE DEF f
    <3> QED BY <3>1, NetNumbers
  <2> QED BY <2>1, <2>2
<1> HIDE DEF f
<1>6. offset \in Int /\ (Skew >= 0 => offset = f)
  <2>1. offset = f \/ (f < 0 /\ offset = 0)
    BY <1>3 DEF Casts
  <2>2. Skew >= 0 => ~(f < 0)
    BY <1>5, NetNumbers
  <2> QED BY <1>5, <2>1, <2>2
<1>7. ptp' \in PtpType
  BY <1>1, <1>3, <1>6, NetNumbers DEF PtpType
<1>8. ptp'.offset = offset
  BY <1>3
<1> QED BY <1>5, <1>6, <1>7, <1>8 DEF PtpInv

(* The statistics of a node. *)
StatsInv ==
  /\ stats \in StatsType
  /\ stats.rxErrors <= stats.crcErrors + stats.seqErrors
  /\ stats.crcErrors <= stats.rxErrors /\ stats.rxErrors <= stats.rx

LEMMA StatsKept ==
  ASSUME StatsInv, RecordTx \/ RecordRx
  PROVE  StatsInv'
<1>1. /\ stats.tx \in Nat /\ stats.rx \in Nat /\ stats.txErrors \in Nat /\ stats.rxErrors \in Nat
      /\ stats.crcErrors \in Nat /\ stats.seqErrors \in Nat /\ stats \in StatsType
  BY DEF StatsInv, StatsType
<1>2. \A b \in BOOLEAN : One(b) \in {0, 1}
  BY DEF One
<1>3. CASE RecordTx
  <2>1. PICK ok \in BOOLEAN :
          stats' = [stats EXCEPT !.tx = stats.tx + 1, !.txErrors = stats.txErrors + One(~ok)]
    BY <1>3 DEF RecordTx
  <2> DEFINE n == stats.tx + 1
             e == stats.txErrors + One(~ok)
  <2>2. n \in Nat /\ e \in Nat
    <3>1. One(~ok) \in {0, 1}
      BY DEF One
    <3> QED BY <1>1, <3>1
  <2>3. stats' = [stats EXCEPT !.tx = n, !.txErrors = e]
    BY <2>1
  <2> HIDE DEF n, e
  <2>4. stats' \in StatsType
    BY <1>1, <2>2, <2>3 DEF StatsType
  <2>5. /\ stats'.rx = stats.rx /\ stats'.rxErrors = stats.rxErrors
        /\ stats'.crcErrors = stats.crcErrors /\ stats'.seqErrors = stats.seqErrors
    BY <1>1, <2>3 DEF StatsType
  <2> QED BY <2>4, <2>5 DEF StatsInv
<1>4. CASE RecordRx
  <2>1. PICK crcError \in BOOLEAN, seqError \in BOOLEAN : stats' = Received(stats, crcError, seqError)
    BY <1>4 DEF RecordRx
  <2> DEFINE a == One(crcError)
             b == One(seqError)
             c == One(crcError \/ seqError)
             n == stats.rx + 1
             x == stats.crcErrors + a
             y == stats.seqErrors + b
             z == stats.rxErrors + c
  <2>2. a \in {0, 1} /\ b \in {0, 1} /\ c \in {0, 1} /\ c <= a + b /\ a <= c
    BY DEF One
  <2>3. stats' = [stats EXCEPT !.rx = n, !.crcErrors = x, !.seqErrors = y, !.rxErrors = z]
    BY <2>1 DEF Received
  <2> HIDE DEF a, b, c
  <2>4. /\ n \in Nat /\ x \in Nat /\ y \in Nat /\ z \in Nat
        /\ z <= x + y /\ x <= z /\ z <= n
    BY <1>1, <2>2 DEF StatsInv
  <2> HIDE DEF n, x, y, z
  <2>5. stats' \in StatsType
    BY <1>1, <2>3, <2>4 DEF StatsType
  <2>6. stats'.rx = n /\ stats'.rxErrors = z /\ stats'.crcErrors = x /\ stats'.seqErrors = y
    BY <1>1, <2>3 DEF StatsType
  <2> QED BY <2>4, <2>5, <2>6 DEF StatsInv
<1> QED BY <1>3, <1>4

(* The NTP exchange. *)
NtpInv == exchange.out \in Nat /\ exchange.back \in Nat

LEMMA OffsetIsHalf ==
  ASSUME NEW out \in Nat, NEW back \in Nat, NEW t1 \in Int
  PROVE  LET t2 == t1 + out + Skew
             t4 == t2 + back - Skew
             n  == ntp_offset(t1, t2, t2, t4) - Skew
         IN /\ ntp_delay(t1, t2, t2, t4) = out + back
            /\ 2 * n <= out + back + 1 /\ -2 * n <= out + back + 1
<1> DEFINE t2 == t1 + out + Skew
           t4 == t2 + back - Skew
           v  == (t2 - t1) + (t2 - t4)
           h  == Toward0(v, 2)
<1>1. v \in Int /\ v = out - back + 2 * Skew
  BY NetNumbers
<1>2. ntp_delay(t1, t2, t2, t4) = out + back
  BY NetNumbers DEF ntp_delay
<1>3. ntp_offset(t1, t2, t2, t4) = h
  BY DEF ntp_offset
<1> HIDE DEF v
<1>4. h \in Int /\ v - 1 <= 2 * h /\ 2 * h <= v + 1
  BY <1>1, HalfIs
<1> HIDE DEF h
<1>5. 2 * (h - Skew) <= out + back + 1 /\ -2 * (h - Skew) <= out + back + 1
  BY <1>1, <1>4, NetNumbers
<1> QED BY <1>2, <1>3, <1>5

(* A configuration that is accepted shares no station. *)
LEMMA AcceptedSharesNone ==
  ASSUME NEW p \in Int, NEW fast \in Int, NEW normal \in Int, NEW slow \in Int,
         validate_config(p, fast, normal, slow) = 0
  PROVE  ~SharedStation
<1> DEFINE v == validate_config(p, fast, normal, slow)
           A == domains = <<>>
           B == p < 10
           C == p > 5000
           D == \E d \in DOMAIN domains : domains[d] = <<>>
           E == fast >= normal
           F == normal >= slow
<1>1. v = IF A THEN 2
          ELSE IF B THEN 4 ELSE IF C THEN 5
          ELSE IF D THEN 20
          ELSE IF SharedStation THEN 40
          ELSE IF E THEN 50 ELSE IF F THEN 60 ELSE 0
  BY Zenon DEF validate_config
<1> HIDE DEF A, B, C, D, E, F, v
<1>2. SUFFICES ASSUME SharedStation PROVE FALSE
  OBVIOUS
<1>3. v = 2 \/ v = 4 \/ v = 5 \/ v = 20 \/ v = 40
  BY <1>1, <1>2
<1> QED BY <1>3 DEF v

(* The stations of a configuration, counted over its domains. *)
Sizes(ds) == [d \in DOMAIN ds |-> Len(ds[d])]
Total(ds) == MapThenSumSet(LAMBDA d : Len(ds[d]), DOMAIN ds)

LEMMA SizesAre ==
  ASSUME NEW ds \in Seq(Seq(StationIds))
  PROVE  /\ DOMAIN ds = 1 .. Len(ds) /\ Len(ds) \in Nat /\ IsFiniteSet(DOMAIN ds)
         /\ Sizes(ds) \in [DOMAIN ds -> Nat] /\ Sizes(ds) \in [DOMAIN ds -> Int]
         /\ \A d \in DOMAIN ds : Sizes(ds)[d] = Len(ds[d]) /\ ds[d] \in Seq(StationIds)
<1>1. DOMAIN ds = 1 .. Len(ds) /\ Len(ds) \in Nat
  BY LenProperties
<1>2. IsFiniteSet(DOMAIN ds)
  <2>1. 1 \in Int /\ Len(ds) \in Int
    BY <1>1
  <2> QED BY <1>1, <2>1, FS_Interval
<1>3. ASSUME NEW d \in DOMAIN ds PROVE ds[d] \in Seq(StationIds) /\ Len(ds[d]) \in Nat
  <2>1. ds[d] \in Seq(StationIds)
    BY <1>1, ElementOfSeq
  <2> QED BY <2>1, LenProperties
<1> QED BY <1>1, <1>2, <1>3 DEF Sizes

LEMMA TotalIs ==
  ASSUME NEW ds \in Seq(Seq(StationIds)), NEW g \in Sums(DOMAIN ds, Sizes(ds))
  PROVE  Total(ds) = g[DOMAIN ds]
<1> DEFINE S == DOMAIN ds
           f == Sizes(ds)
           Eq(h) == h = [t \in SUBSET S |->
                           IF t = {} THEN 0
                           ELSE LET x == CHOOSE y \in t : TRUE IN Len(ds[x]) + h[t \ {x}]]
           iter == CHOOSE h : Eq(h)
<1>1. Total(ds) = iter[S]
  BY Zenon DEF Total, MapThenSumSet, MapThenFoldSet
<1>2. IsFiniteSet(S) /\ \A d \in S : f[d] = Len(ds[d])
  BY SizesAre
<1> HIDE DEF f
<1>3. /\ g \in [SUBSET S -> Int]
      /\ \A t \in SUBSET S : g[t] = IF t = {} THEN 0 ELSE f[Picked(t)] + g[t \ {Picked(t)}]
  BY DEF Sums, f
<1>4. ASSUME NEW t \in SUBSET S
      PROVE  g[t] = IF t = {} THEN 0 ELSE Len(ds[Picked(t)]) + g[t \ {Picked(t)}]
  <2>1. t # {} => Picked(t) \in t
    BY Zenon DEF Picked
  <2>2. t # {} => f[Picked(t)] = Len(ds[Picked(t)])
    BY <1>2, <2>1
  <2> QED BY <1>3, <2>2
<1>5. Eq(g)
  <2>1. g = [t \in SUBSET S |-> IF t = {} THEN 0 ELSE Len(ds[Picked(t)]) + g[t \ {Picked(t)}]]
    <3> HIDE DEF S
    <3> QED BY <1>3, <1>4
  <2> QED BY <2>1, Zenon DEF Picked
<1>6. Eq(iter)
  BY <1>5, Zenon
<1>7. ASSUME NEW h, Eq(h), NEW t \in SUBSET S
      PROVE  h[t] = IF t = {} THEN 0 ELSE Len(ds[Picked(t)]) + h[t \ {Picked(t)}]
  BY <1>7 DEF Picked
<1> HIDE DEF iter, Eq, S
<1> DEFINE T == {t \in SUBSET S : iter[t] = g[t]}
<1>8. {} \in T
  <2>1. {} \in SUBSET S
    OBVIOUS
  <2>2. iter[{}] = 0 /\ g[{}] = 0
    BY <1>4, <1>6, <1>7, <2>1
  <2> QED BY <2>2
<1>9. ASSUME NEW t \in SUBSET S, t # {}, \A x \in t : t \ {x} \in T
      PROVE  t \in T
  <2>1. Picked(t) \in t
    BY <1>9 DEF Picked
  <2>2. iter[t \ {Picked(t)}] = g[t \ {Picked(t)}]
    BY <1>9, <2>1
  <2>3. /\ iter[t] = Len(ds[Picked(t)]) + iter[t \ {Picked(t)}]
        /\ g[t] = Len(ds[Picked(t)]) + g[t \ {Picked(t)}]
    BY <1>4, <1>6, <1>7, <1>9
  <2> QED BY <2>2, <2>3
<1>10. SUBSET S \subseteq T
  <2> HIDE DEF T
  <2> QED BY <1>2, <1>8, <1>9, SubsetInduction
<1>11. S \in T
  <2>1. S \in SUBSET S
    OBVIOUS
  <2> HIDE DEF T
  <2> QED BY <1>10, <2>1
<1>12. iter[S] = g[S]
  BY <1>11
<1> QED BY <1>1, <1>12 DEF S

(* A new domain brings no station, a new station brings one. *)
LEMMA TotalOfNone ==
  ASSUME NEW ds \in Seq(Seq(StationIds))
  PROVE  /\ Append(ds, <<>>) \in Seq(Seq(StationIds))
         /\ Total(Append(ds, <<>>)) = Total(ds)
<1> DEFINE es == Append(ds, <<>>)
           n  == Len(ds)
<1>1. /\ es \in Seq(Seq(StationIds)) /\ Len(es) = n + 1 /\ es[n + 1] = <<>>
      /\ \A d \in 1 .. n : es[d] = ds[d]
      /\ DOMAIN ds = 1 .. n /\ DOMAIN es = 1 .. n + 1 /\ n \in Nat
  <2>1. <<>> \in Seq(StationIds)
    OBVIOUS
  <2>2. /\ es \in Seq(Seq(StationIds)) /\ Len(es) = n + 1 /\ es[n + 1] = <<>>
        /\ \A d \in 1 .. n : es[d] = ds[d]
    BY <2>1, AppendProperties
  <2> QED BY <2>2, LenProperties
<1> HIDE DEF es
<1>2. /\ IsFiniteSet(DOMAIN es) /\ Sizes(es) \in [DOMAIN es -> Int]
      /\ \A d \in DOMAIN es : Sizes(es)[d] = Len(es[d])
  BY <1>1, SizesAre
<1>3. PICK g : g \in Sums(DOMAIN es, Sizes(es))
  BY <1>2, SumsExist
<1>4. Total(es) = g[DOMAIN es]
  BY <1>1, <1>3, TotalIs
<1> HIDE DEF n
<1>5. DOMAIN ds \in SUBSET DOMAIN es /\ n + 1 \in DOMAIN es /\ DOMAIN es \ {n + 1} = DOMAIN ds
  BY <1>1
<1>6. IsFiniteSet(DOMAIN ds) /\ Sizes(ds) \in [DOMAIN ds -> Int]
      /\ \A d \in DOMAIN ds : Sizes(ds)[d] = Sizes(es)[d]
  <2>1. \A d \in DOMAIN ds : Sizes(ds)[d] = Len(ds[d])
    BY SizesAre
  <2> QED BY <1>1, <1>2, <1>5, <2>1, SizesAre
<1>7. PICK h : h \in Sums(DOMAIN ds, Sizes(ds))
  BY <1>6, SumsExist
<1>8. Total(ds) = g[DOMAIN ds]
  <2>1. Total(ds) = h[DOMAIN ds]
    BY <1>7, TotalIs
  <2> DEFINE S == DOMAIN es
             P == DOMAIN ds
             f == Sizes(es)
             e == Sizes(ds)
  <2>2. /\ IsFiniteSet(S) /\ f \in [S -> Int] /\ g \in Sums(S, f) /\ P \in SUBSET S
        /\ e \in [P -> Int] /\ h \in Sums(P, e) /\ \A x \in P : e[x] = f[x]
    BY <1>2, <1>3, <1>5, <1>6, <1>7
  <2>3. h[P] = g[P]
    <3> HIDE DEF S, P, f, e
    <3> QED BY <2>2, SumsOfPart
  <2> QED BY <2>1, <2>3
<1>9. g[DOMAIN es] = Sizes(es)[n + 1] + g[DOMAIN ds]
  <2>1. AnyOrder(DOMAIN es, Sizes(es), g)
    BY <1>2, <1>3, SumsAnyOrder
  <2>2. DOMAIN es \in SUBSET DOMAIN es
    OBVIOUS
  <2> QED BY <1>5, <2>1, <2>2 DEF AnyOrder
<1>10. Sizes(es)[n + 1] = 0
  BY <1>1, <1>2, <1>5
<1>11. g[DOMAIN ds] \in Int
  BY <1>3, <1>5 DEF Sums
<1>12. Total(es) = Total(ds)
  BY <1>4, <1>8, <1>9, <1>10, <1>11
<1> QED BY <1>1, <1>12 DEF es

LEMMA TotalOfOne ==
  ASSUME NEW ds \in Seq(Seq(StationIds)), NEW d \in DOMAIN ds, NEW id \in StationIds
  PROVE  /\ [ds EXCEPT ![d] = Append(ds[d], id)] \in Seq(Seq(StationIds))
         /\ Len([ds EXCEPT ![d] = Append(ds[d], id)]) = Len(ds)
         /\ Total([ds EXCEPT ![d] = Append(ds[d], id)]) = Total(ds) + 1
         /\ Total(ds) \in Int
<1> DEFINE es == [ds EXCEPT ![d] = Append(ds[d], id)]
           D  == DOMAIN ds
           R  == D \ {d}
<1>1. /\ IsFiniteSet(D) /\ Sizes(ds) \in [D -> Int] /\ D = 1 .. Len(ds)
      /\ \A x \in D : Sizes(ds)[x] = Len(ds[x]) /\ ds[x] \in Seq(StationIds)
  BY SizesAre
<1>2. Append(ds[d], id) \in Seq(StationIds) /\ Len(Append(ds[d], id)) = Len(ds[d]) + 1
      /\ Len(ds[d]) \in Nat
  BY <1>1, AppendProperties, LenProperties
<1>3. es \in Seq(Seq(StationIds)) /\ Len(es) = Len(ds) /\ DOMAIN es = D
  BY <1>2, ExceptSeq, LenProperties
<1>4. es[d] = Append(ds[d], id) /\ \A x \in R : es[x] = ds[x]
  OBVIOUS
<1> HIDE DEF es
<1>5. Sizes(es) \in [D -> Int] /\ \A x \in D : Sizes(es)[x] = Len(es[x])
  BY <1>3, SizesAre
<1>6. PICK g : g \in Sums(D, Sizes(ds))
  BY <1>1, SumsExist
<1>7. PICK h : h \in Sums(D, Sizes(es))
  BY <1>1, <1>5, SumsExist
<1>8. Total(ds) = g[D] /\ Total(es) = h[D]
  <2>1. h \in Sums(DOMAIN es, Sizes(es))
    BY <1>3, <1>7
  <2>2. Total(es) = h[DOMAIN es]
    BY <1>3, <2>1, TotalIs
  <2> QED BY <1>3, <1>6, <2>2, TotalIs
<1>9. g[D] = Len(ds[d]) + g[R] /\ h[D] = Len(ds[d]) + 1 + h[R]
  <2>1. AnyOrder(D, Sizes(ds), g) /\ AnyOrder(D, Sizes(es), h)
    BY <1>1, <1>5, <1>6, <1>7, SumsAnyOrder
  <2>2. D \in SUBSET D /\ d \in D
    OBVIOUS
  <2>3. g[D] = Sizes(ds)[d] + g[R] /\ h[D] = Sizes(es)[d] + h[R]
    BY <2>1, <2>2 DEF AnyOrder
  <2>4. Sizes(ds)[d] = Len(ds[d]) /\ Sizes(es)[d] = Len(ds[d]) + 1
    BY <1>1, <1>2, <1>4, <1>5
  <2> QED BY <2>3, <2>4
<1>10. g[R] = h[R] /\ g[R] \in Int
  <2> DEFINE a == Sizes(ds)
             b == Sizes(es)
             T == {s \in SUBSET R : g[s] = h[s]}
  <2>1. R \in SUBSET D /\ \A x \in R : a[x] = b[x]
    BY <1>1, <1>4, <1>5
  <2>2. IsFiniteSet(R)
    BY <1>1, FS_Subset
  <2>3. AnyOrder(D, a, g) /\ AnyOrder(D, b, h)
    BY <1>1, <1>5, <1>6, <1>7, SumsAnyOrder
  <2>4. g[{}] = 0 /\ h[{}] = 0 /\ g[R] \in Int
    BY <1>6, <1>7 DEF Sums
  <2> HIDE DEF a, b, D, R
  <2>5. {} \in T
    BY <2>4
  <2>6. ASSUME NEW s \in SUBSET R, s # {}, \A x \in s : s \ {x} \in T PROVE s \in T
    <3>1. PICK x \in s : TRUE
      BY <2>6
    <3>2. s \in SUBSET D
      BY <2>1
    <3>3. g[s] = a[x] + g[s \ {x}] /\ h[s] = b[x] + h[s \ {x}]
      BY <2>3, <3>1, <3>2 DEF AnyOrder
    <3>4. g[s \ {x}] = h[s \ {x}] /\ a[x] = b[x]
      BY <2>1, <2>6, <3>1
    <3> QED BY <3>3, <3>4
  <2>7. SUBSET R \subseteq T
    <3> HIDE DEF T
    <3> QED BY <2>2, <2>5, <2>6, SubsetInduction
  <2> QED BY <2>4, <2>7
<1>11. Total(es) = Total(ds) + 1 /\ Total(ds) \in Int
  <2> DEFINE a == Total(ds)
             b == Total(es)
             l == Len(ds[d])
             r == g[R]
  <2>1. l \in Nat /\ r \in Int /\ a = l + r /\ b = l + 1 + r
    BY <1>2, <1>8, <1>9, <1>10, Zenon
  <2> HIDE DEF a, b, l, r
  <2>2. b = a + 1 /\ a \in Int
    BY <2>1
  <2> QED BY <2>2 DEF a, b
<1> QED BY <1>3, <1>11 DEF es

ConfigInv ==
  /\ domains \in Seq(Seq(StationIds)) /\ Len(domains) <= MaxDomains
  /\ total \in Nat /\ total = Total(domains)

LEMMA ConfigStarts == ConfigInit => ConfigInv
<1> SUFFICES ASSUME ConfigInit PROVE ConfigInv
  OBVIOUS
<1>1. domains = <<>> /\ total = 0
  BY DEF ConfigInit
<1>2. domains \in Seq(Seq(StationIds)) /\ Len(domains) = 0 /\ DOMAIN domains = {}
  BY <1>1
<1>3. Total(domains) = 0
  <2>1. /\ IsFiniteSet(DOMAIN domains) /\ Sizes(domains) \in [DOMAIN domains -> Int]
    BY <1>2, SizesAre
  <2>2. PICK g : g \in Sums(DOMAIN domains, Sizes(domains))
    BY <2>1, SumsExist
  <2>3. Total(domains) = g[DOMAIN domains]
    BY <1>2, <2>2, TotalIs
  <2>4. g[{}] = 0
    BY <1>2, <2>2 DEF Sums
  <2> QED BY <1>2, <2>3, <2>4
<1> QED BY <1>1, <1>2, <1>3, NetNumbers DEF ConfigInv

LEMMA ConfigKept ==
  ASSUME ConfigInv, ConfigNext
  PROVE  ConfigInv'
<1>1. domains \in Seq(Seq(StationIds)) /\ Len(domains) <= MaxDomains /\ total \in Nat
      /\ total = Total(domains)
  BY DEF ConfigInv
<1>2. CASE DomainRegister
  <2>1. domains' = Append(domains, <<>>) /\ total' = total /\ Len(domains) < MaxDomains
    BY <1>2 DEF DomainRegister
  <2>2. domains' \in Seq(Seq(StationIds)) /\ Total(domains') = Total(domains)
    BY <1>1, <2>1, TotalOfNone
  <2>3. Len(domains') = Len(domains) + 1 /\ Len(domains) \in Nat
    <3>1. <<>> \in Seq(StationIds)
      OBVIOUS
    <3> QED BY <1>1, <2>1, <3>1, AppendProperties, LenProperties
  <2>4. Len(domains') <= MaxDomains
    BY <2>1, <2>3, NetNumbers
  <2> QED BY <1>1, <2>1, <2>2, <2>4 DEF ConfigInv
<1>3. ASSUME NEW d \in DOMAIN domains, NEW id \in StationIds, AddStation(d, id) PROVE ConfigInv'
  <2>1. domains' = [domains EXCEPT ![d] = Append(domains[d], id)] /\ total' = total + 1
    BY <1>3 DEF AddStation
  <2>2. domains' \in Seq(Seq(StationIds)) /\ Total(domains') = Total(domains) + 1
        /\ Len(domains') = Len(domains)
    BY <1>1, <2>1, TotalOfOne
  <2> QED BY <1>1, <2>1, <2>2 DEF ConfigInv
<1> QED BY <1>2, <1>3 DEF ConfigNext

LEMMA AcceptedIsDisjoint ==
  ASSUME ConfigInv
  PROVE  AcceptedMeansDisjoint
<1>1. total = MapThenSumSet(LAMBDA d : Len(domains[d]), DOMAIN domains)
  BY Zenon DEF ConfigInv, Total
<1>2. DOMAIN domains = 1 .. Len(domains) /\ Len(domains) \in Nat
  BY LenProperties DEF ConfigInv
<1>3. ASSUME validate_config(200, 50, 200, 1000) = 0,
             NEW d \in DOMAIN domains, NEW e \in DOMAIN domains, d # e
      PROVE  {domains[d][i] : i \in DOMAIN domains[d]}
               \intersect {domains[e][i] : i \in DOMAIN domains[e]} = {}
  <2>1. ~SharedStation
    BY <1>3, AcceptedSharesNone
  <2>2. ASSUME NEW i \in DOMAIN domains[d], NEW j \in DOMAIN domains[e],
               domains[d][i] = domains[e][j]
        PROVE  FALSE
    <3>1. CASE d < e
      <4>1. e \in d + 1 .. Len(domains)
        BY <1>2, <3>1
      <4> QED BY <2>1, <2>2, <4>1 DEF SharedStation
    <3>2. CASE e < d
      <4>1. d \in e + 1 .. Len(domains)
        BY <1>2, <3>2
      <4>2. domains[e][j] = domains[d][i]
        BY <2>2
      <4> QED BY <2>1, <4>1, <4>2 DEF SharedStation
    <3> QED BY <1>2, <1>3, <3>1, <3>2
  <2> QED BY <2>2
<1> QED BY <1>1, <1>3, Zenon DEF AcceptedMeansDisjoint

-----------------------------------------------------------------------------
(* The stations as a whole. *)

LEMMA InterlockKept ==
  /\ InterlockInit => interlock \in InterlockType
  /\ interlock \in InterlockType /\ (InterlockEvaluate \/ InterlockReset)
       => interlock' \in InterlockType
<1>1. InterlockInit => interlock \in InterlockType
  BY DEF InterlockInit, InterlockType
<1>2. ASSUME interlock \in InterlockType, InterlockEvaluate PROVE interlock' \in InterlockType
  <2>1. PICK condition \in 0 .. 5, pv \in 1 .. 3 :
          interlock' = [interlock EXCEPT !.active = interlock.active \/ Triggered(condition, pv)]
    BY <1>2 DEF InterlockEvaluate
  <2> DEFINE b == interlock.active \/ Triggered(condition, pv)
  <2>2. b \in BOOLEAN
    OBVIOUS
  <2>3. interlock' = [interlock EXCEPT !.active = b]
    BY <2>1
  <2> HIDE DEF b
  <2> QED BY <1>2, <2>2, <2>3 DEF InterlockType
<1>3. ASSUME interlock \in InterlockType, InterlockReset PROVE interlock' \in InterlockType
  BY <1>3 DEF InterlockReset, InterlockType
<1> QED BY <1>1, <1>2, <1>3

(* A chart with one token has one active step. *)
LEMMA TokenIsOne ==
  ASSUME ChartInv(chart), TransitionsLead
  PROVE  OneToken
<1>1. PICK x \in Steps : TokenAt(chart, x)
  BY DEF ChartInv
<1>2. {s \in Steps : chart.active[s]} = {x}
  BY <1>1 DEF TokenAt
<1> QED BY <1>2, FS_Singleton DEF OneToken

(* The ECS-700 together: a part that does not run stays as it is. *)
EcsInv ==
  /\ EcsPairInv /\ IoInv
  /\ PidInv /\ ChartInv(chart) /\ interlock \in InterlockType
  /\ PtpInv /\ StatsInv /\ ConfigInv /\ NtpInv

LEMMA EcsFrame ==
  ASSUME [StationNext]_stationVars
  PROVE  /\ PairNext \/ UNCHANGED pairVars
         /\ IoNext \/ Convert \/ UNCHANGED ioVars
         /\ EcsPidNext \/ SequenceNext \/ UNCHANGED controlVars
         /\ NetNext \/ ConfigNext \/ Exchange \/ UNCHANGED netVars
BY Zenon DEF StationNext, stationVars, EcsStep, ExperionStep, ecsVars, PairStep, IoStep,
   ControlStep, NetStep

LEMMA ControlFrames ==
  /\ EcsPidNext => UNCHANGED <<chart, interlock>>
  /\ SfcExecute => UNCHANGED <<ecsPid, cascadeOn, interlock>>
  /\ InterlockEvaluate \/ InterlockReset => UNCHANGED <<ecsPid, cascadeOn, chart>>
BY DEF EcsPidNext, CascadeExecute, Operate, EnableCascade, SfcExecute, InterlockEvaluate,
   InterlockReset

LEMMA NetFrames ==
  /\ ProcessSync => UNCHANGED <<stats, domains, total, exchange>>
  /\ RecordTx \/ RecordRx => UNCHANGED <<ptp, domains, total, exchange>>
  /\ ConfigNext => UNCHANGED <<ptp, stats, exchange>>
  /\ Exchange => UNCHANGED <<ptp, stats, domains, total>>
BY DEF ProcessSync, RecordTx, RecordRx, ConfigNext, DomainRegister, AddStation, Exchange

LEMMA ExchangeKept ==
  /\ ExchangeInit => NtpInv
  /\ Exchange => NtpInv'
<1>1. ExchangeInit => NtpInv
  BY DEF ExchangeInit, NtpInv
<1>2. ASSUME Exchange PROVE NtpInv'
  <2> DEFINE M == [1 .. MessageBits -> {0, 1}]
             D == UNION {kSubset(k, 1 .. MessageBits) : k \in 1 .. 2}
             Z == {[i \in 1 .. MessageBits |-> 0]}
  <2>1. exchange' \in [message : M, damage : D, out : {0}, back : {0}]
                      \union [message : Z, damage : {{}}, out : 0 .. MaxDelay, back : 0 .. MaxDelay]
    BY <1>2 DEF Exchange
  <2> HIDE DEF M, D, Z
  <2>2. exchange'.out \in {0} \union 0 .. MaxDelay /\ exchange'.back \in {0} \union 0 .. MaxDelay
    BY <2>1
  <2> QED BY <2>2, NetNumbers DEF NtpInv
<1> QED BY <1>1, <1>2

LEMMA EcsStarts == StationInit => EcsInv
<1> SUFFICES ASSUME StationInit PROVE EcsInv
  OBVIOUS
<1>1. PtpInv
  BY NetNumbers DEF StationInit, NetInit, PtpInit, PtpInv, PtpType
<1>2. StatsInv
  BY DEF StationInit, NetInit, StatsInit, StatsInv, StatsType
<1> QED BY <1>1, <1>2, EcsPairStarts, IoStarts, PidStarts, ChartStarts, InterlockKept, ConfigStarts,
           ExchangeKept DEF StationInit, ControlInit, NetInit, EcsInv

LEMMA EcsStays ==
  ASSUME EcsInv, [StationNext]_stationVars
  PROVE  EcsInv'
<1>1. EcsPairInv'
  <2>1. CASE UNCHANGED pairVars
    BY <2>1 DEF EcsInv, EcsPairInv, PairTypeOK, LostIsTheDifference, pairVars
  <2> QED BY <2>1, EcsFrame, EcsPairKept DEF EcsInv
<1>2. IoInv'
  <2>1. CASE UNCHANGED ioVars
    BY <2>1 DEF EcsInv, IoInv, IoTypeOK, ioVars
  <2> QED BY <2>1, EcsFrame, IoKept DEF EcsInv
<1>3. PidInv'
  <2>1. CASE UNCHANGED <<ecsPid, cascadeOn>>
    BY <2>1 DEF EcsInv, PidInv
  <2>2. CASE UNCHANGED controlVars
    BY <2>1, <2>2 DEF controlVars
  <2> QED BY <2>1, <2>2, EcsFrame, ControlFrames, PidKept DEF EcsInv, SequenceNext
<1>4. ChartInv(chart)'
  <2>1. CASE UNCHANGED chart
    BY <2>1 DEF EcsInv
  <2>2. CASE UNCHANGED controlVars
    BY <2>1, <2>2 DEF controlVars
  <2>3. CASE SfcExecute
    <3>1. chart' = AfterScan(chart) /\ ChartInv(AfterScan(chart))
      BY <2>3, ScanKeeps DEF EcsInv, SfcExecute
    <3> QED BY <3>1
  <2> QED BY <2>1, <2>2, <2>3, EcsFrame, ControlFrames DEF SequenceNext
<1>5. interlock' \in InterlockType
  <2>1. CASE UNCHANGED interlock
    BY <2>1 DEF EcsInv
  <2>2. CASE UNCHANGED controlVars
    BY <2>1, <2>2 DEF controlVars
  <2> QED BY <2>1, <2>2, EcsFrame, ControlFrames, InterlockKept DEF EcsInv, SequenceNext
<1>6. PtpInv'
  <2>1. CASE UNCHANGED ptp
    BY <2>1 DEF EcsInv, PtpInv
  <2>2. CASE UNCHANGED netVars
    BY <2>1, <2>2 DEF netVars
  <2> QED BY <2>1, <2>2, EcsFrame, NetFrames, PtpKept DEF EcsInv, NetNext
<1>7. StatsInv'
  <2>1. CASE UNCHANGED stats
    BY <2>1 DEF EcsInv, StatsInv
  <2>2. CASE UNCHANGED netVars
    BY <2>1, <2>2 DEF netVars
  <2> QED BY <2>1, <2>2, EcsFrame, NetFrames, StatsKept DEF EcsInv, NetNext
<1>8. ConfigInv'
  <2>1. CASE UNCHANGED <<domains, total>>
    <3>1. domains' = domains /\ total' = total /\ ConfigInv
      BY <2>1 DEF EcsInv
    <3> QED BY <3>1 DEF ConfigInv
  <2>2. CASE UNCHANGED netVars
    BY <2>1, <2>2 DEF netVars
  <2> QED BY <2>1, <2>2, EcsFrame, NetFrames, ConfigKept DEF EcsInv, NetNext
<1>9. NtpInv'
  <2>1. CASE UNCHANGED exchange
    BY <2>1 DEF EcsInv, NtpInv
  <2>2. CASE UNCHANGED netVars
    BY <2>1, <2>2 DEF netVars
  <2> QED BY <2>1, <2>2, EcsFrame, NetFrames, ExchangeKept DEF NetNext
<1> QED BY <1>1, <1>2, <1>3, <1>4, <1>5, <1>6, <1>7, <1>8, <1>9 DEF EcsInv

LEMMA EcsInvHolds == StationSpec => []EcsInv
<1>1. EcsInv /\ [StationNext]_stationVars => EcsInv'
  BY EcsStays
<1> QED BY <1>1, EcsStarts, PTL DEF StationSpec

LEMMA ClockIsBounded ==
  ASSUME PtpInv
  PROVE  ClockErrorBounded
<1> SUFFICES ASSUME ptp.synchronized, Skew >= 0 PROVE corrected_error \in -MaxDelay .. 0
  BY DEF ClockErrorBounded
<1>1. ptp.offset \in Skew .. Skew + MaxDelay
  BY DEF PtpInv
<1>2. corrected_error = Skew - ptp.offset
  BY DEF corrected_error
<1> QED BY <1>1, <1>2, NetNumbers

LEMMA ExchangeIsSound ==
  ASSUME NtpInv
  PROVE  ExchangeSound
<1>1. exchange.out \in Nat /\ exchange.back \in Nat /\ 100 \in Int
  BY DEF NtpInv
<1> QED BY <1>1, OffsetIsHalf DEF ExchangeSound

LEMMA AlarmBits ==
  ASSUME NEW b
  PROVE  check_alarms(b) \subseteq {"HIHI", "HI", "LOLO", "LO", "DEV"}
BY Zenon DEF check_alarms

LEMMA EcsInvSuffices ==
  ASSUME EcsInv, TransitionsLead
  PROVE  EcsSound
<1>1. PairTypeOK /\ LostIsTheDifference
  BY DEF EcsInv, EcsPairInv
<1>2. IoTypeOK /\ ConversionsAgree
  BY Converted DEF EcsInv, IoInv
<1>3. ControlTypeOK /\ OneToken
  BY AlarmBits, TokenIsOne DEF EcsInv, PidInv, ChartInv, ControlTypeOK
<1>4. NetTypeOK
  BY DEF EcsInv, PtpInv, StatsInv, ConfigInv, NetTypeOK
<1>5. ClockErrorBounded /\ ExchangeSound /\ AcceptedMeansDisjoint
  BY ClockIsBounded, ExchangeIsSound, AcceptedIsDisjoint DEF EcsInv
<1> QED BY <1>1, <1>2, <1>3, <1>4, <1>5 DEF EcsSound

(* What the station, its communication and its configuration promise, for *)
(* every tuning, every chart whose transitions lead to steps of it, every *)
(* counter width and every skew of the clock. *)
THEOREM EcsIsSound ==
  ASSUME TransitionsLead
  PROVE  StationSpec => []EcsSound
<1>1. EcsInv => EcsSound
  BY EcsInvSuffices
<1> QED BY <1>1, EcsInvHolds, PTL

GraceOrder ==
  pair'.failovers # pair.failovers /\ pair.failovers > 0
    => pair'.lastFailover - pair.lastFailover >= Grace

OutputOrder ==
  \A l \in Loops :
    (/\ ecsPid'[l].out # ecsPid[l].out
     /\ ecsPid[l].mode = "AUTO" /\ ecsPid'[l].hi = ecsPid[l].hi
     /\ ecsPid[l].out \in 0 .. ecsPid[l].hi)
    => /\ ecsPid'[l].out \in 0 .. ecsPid'[l].hi
       /\ Rate > 0 => Abs(ecsPid'[l].out - ecsPid[l].out) <= 2 * Rate

DwellOrder ==
  \A s \in Steps : (chart.active[s] /\ ~chart'.active[s]) => chart.acted[s] + 1 >= MinDwell[s]

LEMMA EcsStepsAre ==
  ASSUME EcsInv, [StationNext]_stationVars
  PROVE  /\ [GraceOrder]_pairVars
         /\ [OutputOrder]_controlVars
         /\ [DwellOrder]_controlVars
<1>1. [GraceOrder]_pairVars
  BY EcsFrame, EcsPairKept DEF EcsInv, GraceOrder
<1>2. [OutputOrder]_controlVars
  <2>1. CASE EcsPidNext
    <3>1. \A l \in Loops : Smooth(ecsPid[l], ecsPid'[l])
      BY <2>1, PidKept DEF EcsInv
    <3> QED BY <3>1 DEF OutputOrder, Smooth
  <2>2. CASE SequenceNext
    <3>1. ecsPid' = ecsPid
      BY <2>2, ControlFrames DEF SequenceNext
    <3> QED BY <3>1 DEF OutputOrder
  <2> QED BY <2>1, <2>2, EcsFrame
<1>3. [DwellOrder]_controlVars
  <2>1. CASE SfcExecute
    <3>1. chart' = AfterScan(chart) /\ Stayed(chart, AfterScan(chart))
      BY <2>1, ScanKeeps DEF EcsInv, SfcExecute
    <3> QED BY <3>1 DEF DwellOrder, Stayed
  <2>2. CASE chart' = chart
    BY <2>2 DEF DwellOrder
  <2> QED BY <2>1, <2>2, EcsFrame, ControlFrames DEF SequenceNext
<1> QED BY <1>1, <1>2, <1>3

(* Two takeovers of a pair are a grace period apart; an automatic execution*)
(* moves the output within rate and limits; a step of a chart is left only *)
(* after its dwell time. *)
THEOREM EcsMovesSafelyHolds == StationSpec => EcsMovesSafely
<1>1. EcsInv /\ [StationNext]_stationVars
        => /\ [GraceOrder]_pairVars
           /\ [OutputOrder]_controlVars
           /\ [DwellOrder]_controlVars
  BY EcsStepsAre
<1>2. /\ GraceSeparates <=> [][GraceOrder]_pairVars
      /\ OutputSmooth <=> [][OutputOrder]_controlVars
      /\ DwellRespected <=> [][DwellOrder]_controlVars
  BY DEF GraceSeparates, OutputSmooth, DwellRespected, GraceOrder, OutputOrder, DwellOrder
<1> QED BY <1>1, <1>2, EcsInvHolds, PTL DEF StationSpec, EcsMovesSafely

-----------------------------------------------------------------------------
(* The system record of the Experion. *)

LEMMA SystemNumbers ==
  /\ NodeIds \subseteq Nat /\ MaxSysNodes \in Nat /\ HistorySize \in Nat /\ HistorySize > 0
  /\ MaxFailovers \in Nat /\ Scores \subseteq Nat /\ OutputValues \subseteq Int
  /\ RampSteps \in Nat /\ RampSteps > 0
BY SystemAssumption

SystemNode == [id : NodeIds, type : NodeTypes]

SystemRecord ==
  [mode : SystemMode, nodes : Seq(SystemNode), primary : NodeIds \cup {0},
   redundancy_active : BOOLEAN]

SystemInv ==
  /\ system \in SystemRecord /\ stopped \in BOOLEAN
  /\ system.primary # 0 => \E i \in Servers(system.nodes) : system.nodes[i].id = system.primary
  /\ stopped => system.mode = "EMERGENCY_STOP"

LEMMA SystemStarts == experion_system_init => SystemInv
<1> SUFFICES ASSUME experion_system_init PROVE SystemInv
  OBVIOUS
<1> DEFINE nodes == << >>
           z == 0
<1>1. nodes \in Seq(SystemNode) /\ z \in NodeIds \cup {0}
  OBVIOUS
<1>2. system = [mode |-> "INITIALIZING", nodes |-> nodes, primary |-> z, redundancy_active |-> FALSE]
      /\ stopped = FALSE
  BY DEF experion_system_init
<1>3. z = 0
  OBVIOUS
<1> HIDE DEF nodes, z
<1> QED BY <1>1, <1>2, <1>3 DEF SystemInv, SystemRecord, SystemMode

(* A change of mode keeps the nodes and the primary server. *)
LEMMA ModeIs ==
  ASSUME NEW sys \in SystemRecord, NEW mode \in SystemMode
  PROVE  /\ InMode(sys, mode) \in SystemRecord
         /\ InMode(sys, mode).nodes = sys.nodes /\ InMode(sys, mode).primary = sys.primary
         /\ InMode(sys, mode).mode \in {sys.mode, mode}
         /\ sys.mode = "EMERGENCY_STOP" => InMode(sys, mode).mode \in {"EMERGENCY_STOP", "MAINTENANCE"}
         /\ sys.mode = "EMERGENCY_STOP" /\ mode # "MAINTENANCE" => InMode(sys, mode) = sys
<1> DEFINE b == sys.redundancy_active /\ mode # "EMERGENCY_STOP"
           t == [sys EXCEPT !.mode = mode, !.redundancy_active = b]
<1>1. b \in BOOLEAN
  BY DEF SystemRecord
<1>2. InMode(sys, mode) = IF mode \notin mode_transition_allowed(sys.mode) THEN sys ELSE t
  BY DEF InMode
<1>3. sys.mode = "EMERGENCY_STOP" => mode_transition_allowed(sys.mode) = {"MAINTENANCE"}
  BY DEF mode_transition_allowed
<1> HIDE DEF b
<1>4. t \in SystemRecord /\ t.nodes = sys.nodes /\ t.primary = sys.primary /\ t.mode = mode
  BY <1>1 DEF SystemRecord
<1> HIDE DEF t
<1> QED BY <1>2, <1>3, <1>4

LEMMA SystemKept ==
  ASSUME SystemInv, SystemNext
  PROVE  SystemInv' /\ UNCHANGED <<history, fte, ramp>>
<1>1. /\ system \in SystemRecord /\ stopped \in BOOLEAN
      /\ system.primary # 0 => \E i \in Servers(system.nodes) : system.nodes[i].id = system.primary
      /\ stopped => system.mode = "EMERGENCY_STOP"
      /\ system.nodes \in Seq(SystemNode) /\ system.primary \in NodeIds \cup {0}
      /\ DOMAIN system.nodes = 1 .. Len(system.nodes) /\ Len(system.nodes) \in Nat
  BY LenProperties DEF SystemInv, SystemRecord
<1>2. ASSUME NEW id \in NodeIds, NEW type \in NodeTypes, experion_system_register_node(id, type)
      PROVE  SystemInv'
  <2> DEFINE r == [id |-> id, type |-> type]
             ns == Append(system.nodes, r)
  <2>1. r \in SystemNode
    BY DEF SystemNode
  <2> HIDE DEF r
  <2>2. /\ ns \in Seq(SystemNode) /\ DOMAIN ns = 1 .. Len(system.nodes) + 1
        /\ \A i \in 1 .. Len(system.nodes) : ns[i] = system.nodes[i]
    BY <1>1, <2>1, AppendProperties, LenProperties
  <2>3. system' = [system EXCEPT !.nodes = ns] /\ stopped' = stopped
    BY <1>2 DEF experion_system_register_node, r
  <2> HIDE DEF ns
  <2>4. /\ system' \in SystemRecord /\ system'.nodes = ns /\ system'.primary = system.primary
        /\ system'.mode = system.mode
    BY <1>1, <2>2, <2>3 DEF SystemRecord
  <2>5. \A i \in Servers(system.nodes) : i \in Servers(ns) /\ ns[i] = system.nodes[i]
    BY <1>1, <2>2 DEF Servers
  <2> QED BY <1>1, <2>3, <2>4, <2>5 DEF SystemInv
<1>3. ASSUME NEW mode \in SystemMode, experion_system_set_mode(mode)
      PROVE  SystemInv'
  <2>1. /\ system' = InMode(system, mode)
        /\ stopped' = (\/ system'.mode = "EMERGENCY_STOP"
                       \/ stopped /\ system'.mode # "MAINTENANCE")
    BY <1>3 DEF experion_system_set_mode
  <2>2. /\ system' \in SystemRecord
        /\ system'.nodes = system.nodes /\ system'.primary = system.primary
        /\ system.mode = "EMERGENCY_STOP" => system'.mode \in {"EMERGENCY_STOP", "MAINTENANCE"}
    BY <1>1, <2>1, ModeIs
  <2>3. stopped' \in BOOLEAN /\ (stopped' => system'.mode = "EMERGENCY_STOP")
    BY <1>1, <2>1, <2>2
  <2> QED BY <1>1, <2>2, <2>3 DEF SystemInv
<1>4. ASSUME experion_system_activate
      PROVE  SystemInv'
  <2> DEFINE p == primary_esvt(system)
             s == [system EXCEPT !.primary = p]
             named == {i \in Servers(system.nodes) : system.nodes[i].id # 0}
  <2>1. named # {} => Min(named) \in named
    <3>1. named \subseteq Nat
      BY <1>1 DEF Servers
    <3> HIDE DEF named
    <3> QED BY <3>1, MinOfNats
  <2>2. p = IF system.primary # 0 \/ named = {} THEN system.primary
            ELSE system.nodes[Min(named)].id
    BY DEF primary_esvt
  <2>3. /\ p \in NodeIds \cup {0}
        /\ p # 0 => \E i \in Servers(system.nodes) : system.nodes[i].id = p
    <3>1. CASE system.primary # 0 \/ named = {}
      BY <1>1, <2>2, <3>1
    <3>2. CASE ~(system.primary # 0 \/ named = {})
      <4>1. Min(named) \in Servers(system.nodes) /\ p = system.nodes[Min(named)].id
        BY <2>1, <2>2, <3>2
      <4>2. Min(named) \in DOMAIN system.nodes
        BY <4>1 DEF Servers
      <4>3. system.nodes[Min(named)] \in SystemNode
        BY <1>1, <4>2, ElementOfSeq
      <4> HIDE DEF p, named
      <4> QED BY <4>1, <4>3 DEF SystemNode
    <3> QED BY <3>1, <3>2
  <2> HIDE DEF p
  <2>4. /\ s \in SystemRecord /\ s.nodes = system.nodes /\ s.primary = p /\ s.mode = system.mode
    BY <1>1, <2>3 DEF SystemRecord
  <2>5. system' = InMode(s, "RUN") /\ stopped' = stopped
    BY <1>4 DEF experion_system_activate, p
  <2> HIDE DEF s
  <2>6. "RUN" \in SystemMode
    BY DEF SystemMode
  <2>7. /\ system' \in SystemRecord /\ system'.nodes = system.nodes /\ system'.primary = p
        /\ system.mode = "EMERGENCY_STOP" => system'.mode = system.mode
    <3> DEFINE mode == "RUN"
    <3>1. mode # "MAINTENANCE" /\ mode \in SystemMode /\ system' = InMode(s, mode)
      BY <2>5, <2>6
    <3> HIDE DEF mode
    <3> QED BY <2>4, <3>1, ModeIs
  <2> QED BY <1>1, <2>3, <2>5, <2>7 DEF SystemInv
<1>5. ASSUME UseRedundancy PROVE SystemInv'
  <2>1. system' = [system EXCEPT !.redundancy_active = TRUE] /\ stopped' = stopped
    BY <1>5 DEF UseRedundancy
  <2>2. /\ system' \in SystemRecord /\ system'.nodes = system.nodes
        /\ system'.primary = system.primary /\ system'.mode = system.mode
    BY <1>1, <2>1 DEF SystemRecord
  <2> QED BY <1>1, <2>1, <2>2 DEF SystemInv
<1>6. UNCHANGED <<history, fte, ramp>>
  BY DEF SystemNext, experion_system_register_node, experion_system_set_mode,
     experion_system_activate, UseRedundancy
<1> QED BY <1>2, <1>3, <1>4, <1>5, <1>6 DEF SystemNext

-----------------------------------------------------------------------------
(* The failover log of the Experion. *)

(* The event that place i of the ring holds, if it is not negative. *)
EventAt(h, i) == (h.count - h.index) + i - (IF i < h.index THEN 0 ELSE HistorySize)

LogInv ==
  /\ history.ring \in [0 .. HistorySize - 1 -> Int]
  /\ history.count \in Nat /\ history.index \in 0 .. HistorySize - 1
  /\ history.index <= history.count
  /\ \A i \in 0 .. HistorySize - 1 :
       history.ring[i] = IF EventAt(history, i) >= 0 THEN EventAt(history, i) ELSE -1

LEMMA LogStarts == experion_system_init => LogInv
<1> SUFFICES ASSUME experion_system_init PROVE LogInv
  OBVIOUS
<1>1. history.ring = [i \in 0 .. HistorySize - 1 |-> -1] /\ history.count = 0 /\ history.index = 0
  BY DEF experion_system_init
<1>2. \A i \in 0 .. HistorySize - 1 : EventAt(history, i) < 0
  BY <1>1, SystemNumbers DEF EventAt
<1>3. history.ring \in [0 .. HistorySize - 1 -> Int] /\ \A i \in 0 .. HistorySize - 1 : history.ring[i] = -1
  BY <1>1
<1>4. \A i \in 0 .. HistorySize - 1 : EventAt(history, i) \in Int
  BY <1>1, SystemNumbers DEF EventAt
<1> QED BY <1>1, <1>2, <1>3, <1>4, SystemNumbers DEF LogInv

LEMMA LogKept ==
  ASSUME LogInv, redundancy_log_failover
  PROVE  LogInv' /\ UNCHANGED <<system, stopped, fte, ramp>>
<1> DEFINE c == history.count
           x == history.index
           r == history.ring
           y == (x + 1) % HistorySize
<1>1. /\ c \in Nat /\ x \in 0 .. HistorySize - 1 /\ x <= c
      /\ r \in [0 .. HistorySize - 1 -> Int]
      /\ \A i \in 0 .. HistorySize - 1 :
           r[i] = IF EventAt(history, i) >= 0 THEN EventAt(history, i) ELSE -1
  BY DEF LogInv
<1>2. y = IF x + 1 = HistorySize THEN 0 ELSE x + 1
  <2> HIDE DEF x
  <2> QED BY <1>1, SystemNumbers, RingOrder
<1>3. /\ history'.ring = [r EXCEPT ![x] = c] /\ history'.count = c + 1 /\ history'.index = y
      /\ UNCHANGED <<system, stopped, fte, ramp>>
  BY DEF redundancy_log_failover
<1> HIDE DEF y
<1>4. y \in 0 .. HistorySize - 1 /\ y <= c + 1
  BY <1>1, <1>2, SystemNumbers
<1>5. /\ EventAt(history', x) = c
      /\ \A i \in 0 .. HistorySize - 1 : i # x => EventAt(history', i) = EventAt(history, i)
  <2>1. ASSUME NEW i \in 0 .. HistorySize - 1
        PROVE  /\ EventAt(history', i) = ((c + 1) - y) + i - (IF i < y THEN 0 ELSE HistorySize)
               /\ EventAt(history, i) = (c - x) + i - (IF i < x THEN 0 ELSE HistorySize)
    BY <1>3 DEF EventAt
  <2> DEFINE new(i) == EventAt(history', i)
             old(i) == EventAt(history, i)
             H == HistorySize
  <2>2. /\ c \in Nat /\ x \in 0 .. H - 1 /\ H \in Nat /\ H > 0
        /\ y = IF x + 1 = H THEN 0 ELSE x + 1
    BY <1>1, <1>2, SystemNumbers
  <2>3. \A i \in 0 .. H - 1 : /\ new(i) = ((c + 1) - y) + i - (IF i < y THEN 0 ELSE H)
                              /\ old(i) = (c - x) + i - (IF i < x THEN 0 ELSE H)
    BY <2>1
  <2> HIDE DEF c, x, r, new, old, H
  <2>4. new(x) = c
    BY <2>2, <2>3
  <2>5. ASSUME NEW i \in 0 .. H - 1, i # x PROVE new(i) = old(i)
    <3>1. /\ new(i) = ((c + 1) - y) + i - (IF i < y THEN 0 ELSE H)
          /\ old(i) = (c - x) + i - (IF i < x THEN 0 ELSE H)
      BY <2>3
    <3> QED BY <2>2, <2>5, <3>1
  <2> QED BY <2>4, <2>5 DEF new, old, H
<1>6. history'.ring \in [0 .. HistorySize - 1 -> Int]
  BY <1>1, <1>3
<1>7. ASSUME NEW i \in 0 .. HistorySize - 1
      PROVE  history'.ring[i] = IF EventAt(history', i) >= 0 THEN EventAt(history', i) ELSE -1
  <2>1. CASE i = x
    <3>1. history'.ring[i] = c
      BY <1>1, <1>3, <2>1
    <3> QED BY <1>1, <1>5, <2>1, <3>1
  <2>2. CASE i # x
    <3>1. history'.ring[i] = r[i]
      BY <1>1, <1>3, <2>2
    <3>2. EventAt(history', i) = EventAt(history, i)
      BY <1>5, <2>2
    <3>3. r[i] = IF EventAt(history, i) >= 0 THEN EventAt(history, i) ELSE -1
      BY <1>1
    <3> HIDE DEF r
    <3> QED BY <3>1, <3>2, <3>3
  <2> QED BY <2>1, <2>2
<1>8. c + 1 \in Nat
  BY <1>1
<1> QED BY <1>3, <1>4, <1>6, <1>7, <1>8 DEF LogInv

LEMMA LogSuffices ==
  ASSUME LogInv
  PROVE  LogKeepsTheLast
<1> DEFINE c == history.count
           x == history.index
           r == history.ring
           H == HistorySize
           L == IF x > 0 THEN x - 1 ELSE H - 1
<1>1. /\ c \in Nat /\ x \in 0 .. H - 1 /\ x <= c /\ H \in Nat /\ H > 0
      /\ r \in [0 .. H - 1 -> Int]
      /\ \A i \in 0 .. H - 1 : r[i] = IF EventAt(history, i) >= 0 THEN EventAt(history, i) ELSE -1
  BY SystemNumbers DEF LogInv
<1>2. \A i \in 0 .. H - 1 : EventAt(history, i) = (c - x) + i - (IF i < x THEN 0 ELSE H)
  BY DEF EventAt
<1>3. redundancy_get_last_failover = c - 1
  <2>1. redundancy_get_last_failover = IF c = 0 THEN -1 ELSE r[L]
    BY DEF redundancy_get_last_failover
  <2> HIDE DEF c, x, r, H
  <2>2. L \in 0 .. H - 1
    BY <1>1
  <2>3. EventAt(history, L) = c - 1
    BY <1>1, <1>2, <2>2
  <2>4. r[L] = IF EventAt(history, L) >= 0 THEN EventAt(history, L) ELSE -1
    BY <1>1, <2>2
  <2> HIDE DEF L
  <2> QED BY <1>1, <2>1, <2>3, <2>4
<1>4. DOMAIN r = 0 .. H - 1
  BY <1>1
<1> HIDE DEF c, x, r, H, L
<1>5. ASSUME NEW i \in 0 .. H - 1, r[i] # -1
      PROVE  r[i] \in {k \in 0 .. c - 1 : k >= c - H}
  <2>1. r[i] = EventAt(history, i) /\ r[i] >= 0
    <3> DEFINE e == EventAt(history, i)
    <3>1. r[i] = IF e >= 0 THEN e ELSE -1
      BY <1>1
    <3> HIDE DEF e
    <3> QED BY <1>5, <3>1 DEF e
  <2>2. r[i] = (c - x) + i - (IF i < x THEN 0 ELSE H)
    BY <1>2, <2>1
  <2> QED BY <1>1, <2>1, <2>2
<1>6. ASSUME NEW k \in 0 .. c - 1, k >= c - H
      PROVE  \E i \in 0 .. H - 1 : r[i] = k /\ k # -1
  <2> DEFINE d == c - k
             i == IF d <= x THEN x - d ELSE x - d + H
  <2>1. d \in 1 .. H /\ k = c - d /\ k >= 0 /\ k \in Int
    BY <1>1, <1>6
  <2> HIDE DEF d
  <2>2. i \in 0 .. H - 1
    BY <1>1, <2>1
  <2>3. EventAt(history, i) = k
    <3>1. EventAt(history, i) = (c - x) + i - (IF i < x THEN 0 ELSE H)
      BY <1>2, <2>2
    <3> QED BY <1>1, <2>1, <3>1
  <2>4. r[i] = IF EventAt(history, i) >= 0 THEN EventAt(history, i) ELSE -1
    BY <1>1, <2>2
  <2> HIDE DEF i
  <2>5. r[i] = k /\ k # -1
    BY <2>1, <2>3, <2>4
  <2> QED BY <2>2, <2>5
<1>7. {r[i] : i \in DOMAIN r} \ {-1} = {k \in 0 .. c - 1 : k >= c - H}
  BY <1>4, <1>5, <1>6
<1> QED BY <1>3, <1>7 DEF LogKeepsTheLast, c, r, H

-----------------------------------------------------------------------------
(* The FTE network. *)

NetworkType ==
  [up : [FTEPath -> BOOLEAN], score : [FTEPath -> Nat], active : 0 .. 4, healthy : BOOLEAN]

NetworkInv ==
  /\ fte \in NetworkType
  /\ fte.healthy <=> \E p, q \in Paths(fte) : p # q

LEMMA UpIsCounted ==
  ASSUME NEW S \in SUBSET FTEPath
  PROVE  /\ Cardinality(S) \in 0 .. 4
         /\ Cardinality(S) >= 2 <=> \E p, q \in S : p # q
<1>1. IsFiniteSet(FTEPath) /\ Cardinality(FTEPath) = 4
  <2>1. 0 \in Int /\ 3 \in Int
    OBVIOUS
  <2>2. IsFiniteSet(0 .. 3) /\ Cardinality(0 .. 3) = IF 0 > 3 THEN 0 ELSE 3 - 0 + 1
    BY <2>1, FS_Interval, Zenon
  <2> QED BY <2>2 DEF FTEPath
<1>2. IsFiniteSet(S) /\ Cardinality(S) \in 0 .. 4
  <2>1. IsFiniteSet(S) /\ Cardinality(S) <= Cardinality(FTEPath)
    BY <1>1, FS_Subset
  <2>2. Cardinality(S) \in Nat
    BY <2>1, FS_CardinalityType
  <2> QED BY <1>1, <2>1, <2>2
<1>3. ASSUME NEW p \in S, NEW q \in S, p # q PROVE Cardinality(S) >= 2
  <2>1. IsFiniteSet(S \ {p}) /\ Cardinality(S \ {p}) = Cardinality(S) - 1
    BY <1>2, FS_RemoveElement
  <2>2. Cardinality((S \ {p}) \ {q}) = Cardinality(S \ {p}) - 1 /\ IsFiniteSet((S \ {p}) \ {q})
    BY <1>3, <2>1, FS_RemoveElement
  <2>3. Cardinality((S \ {p}) \ {q}) \in Nat
    BY <2>2, FS_CardinalityType
  <2> QED BY <1>2, <2>1, <2>2, <2>3
<1>4. ASSUME Cardinality(S) >= 2 PROVE \E p, q \in S : p # q
  <2>1. S # {}
    BY <1>4, FS_EmptySet
  <2>2. PICK p \in S : TRUE
    BY <2>1
  <2>3. Cardinality(S \ {p}) = Cardinality(S) - 1
    BY <1>2, FS_RemoveElement
  <2>4. S \ {p} # {}
    BY <1>2, <1>4, <2>3, FS_EmptySet
  <2> QED BY <2>2, <2>4
<1> QED BY <1>2, <1>3, <1>4

LEMMA NetworkStarts == experion_system_init => NetworkInv
<1> SUFFICES ASSUME experion_system_init PROVE NetworkInv
  OBVIOUS
<1> DEFINE none == [p \in FTEPath |-> FALSE]
           z == 0
<1>1. PICK score \in [FTEPath -> Scores] :
        fte = [up |-> none, score |-> score, active |-> z, healthy |-> FALSE]
  BY DEF experion_system_init
<1>2. none \in [FTEPath -> BOOLEAN] /\ score \in [FTEPath -> Nat] /\ z \in 0 .. 4
  <2>1. none \in [FTEPath -> BOOLEAN] /\ z \in 0 .. 4
    OBVIOUS
  <2>2. score \in [FTEPath -> Nat]
    BY SystemNumbers
  <2> QED BY <2>1, <2>2
<1>3. \A p \in FTEPath : ~none[p]
  OBVIOUS
<1> HIDE DEF none, z
<1> QED BY <1>1, <1>2, <1>3 DEF NetworkInv, NetworkType, Paths

LEMMA NetworkKept ==
  ASSUME NetworkInv, NetworkNext
  PROVE  NetworkInv' /\ UNCHANGED <<system, stopped, history, ramp>>
<1>1. PICK p \in FTEPath, link \in BOOLEAN : fte_status_update(p, link)
  BY DEF NetworkNext
<1> DEFINE up == [fte.up EXCEPT ![p] = link]
           S == {q \in FTEPath : up[q]}
           n == Cardinality(S)
           b == n >= 2
<1>2. /\ fte' = [fte EXCEPT !.up = up, !.active = n, !.healthy = b]
      /\ UNCHANGED <<system, stopped, history, ramp>>
  BY <1>1 DEF fte_status_update
<1>3. up \in [FTEPath -> BOOLEAN]
  BY DEF NetworkInv, NetworkType
<1>4. n \in 0 .. 4 /\ (b <=> \E x, y \in S : x # y)
  <2>1. S \in SUBSET FTEPath
    OBVIOUS
  <2> HIDE DEF S
  <2> QED BY <2>1, UpIsCounted
<1>5. b \in BOOLEAN
  OBVIOUS
<1> HIDE DEF up, n, b
<1>6. /\ fte' \in NetworkType /\ fte'.up = up /\ fte'.healthy = b
  BY <1>2, <1>3, <1>4, <1>5 DEF NetworkInv, NetworkType
<1>7. Paths(fte') = S
  BY <1>6 DEF Paths
<1> HIDE DEF S
<1> QED BY <1>2, <1>4, <1>6, <1>7 DEF NetworkInv

(* Among the paths that are up there is a best one. *)
LEMMA NetworkSuffices ==
  ASSUME NetworkInv
  PROVE  NetworkIsTrue
<1>1. fte.score \in [FTEPath -> Nat] /\ Paths(fte) \subseteq FTEPath /\ FTEPath \subseteq Nat
  BY DEF NetworkInv, NetworkType, Paths, FTEPath
<1>2. ASSUME Paths(fte) # {}
      PROVE  /\ fte_best_path \in Paths(fte)
             /\ \A q \in Paths(fte) : fte.score[fte_best_path] <= fte.score[q]
  <2> DEFINE P == Paths(fte)
             V == {fte.score[p] : p \in P}
             best == {p \in P : \A q \in P : fte.score[p] <= fte.score[q]}
  <2>1. V \subseteq Nat /\ V # {}
    BY <1>1, <1>2
  <2>2. PICK v \in V : \A w \in V : v <= w
    <3> HIDE DEF V
    <3> QED BY <2>1, LeastNat
  <2>3. best # {}
    BY <2>2
  <2>4. best \subseteq Nat
    BY <1>1
  <2>5. fte_best_path = Min(best)
    BY <2>3 DEF fte_best_path
  <2>6. Min(best) \in best
    <3> HIDE DEF best
    <3> QED BY <2>3, <2>4, MinOfNats
  <2> QED BY <2>5, <2>6
<1> QED BY <1>2 DEF NetworkInv, NetworkIsTrue

-----------------------------------------------------------------------------
(* The bumpless ramp. *)

RampType ==
  [step : 0 .. RampSteps, tracked : Int, computed : Int, transition : Int, in_transition : BOOLEAN]

Between(r) ==
  LET ends == {r.tracked * RampSteps, r.computed * RampSteps} IN
  /\ Min(ends) <= r.transition /\ r.transition <= Max(ends)
  /\ ~r.in_transition => r.transition = r.computed * RampSteps

RampInv ==
  /\ ramp \in RampType
  /\ ramp.in_transition => ramp.step < RampSteps
  /\ Between(ramp)

LEMMA RampIs ==
  ASSUME NEW r \in RampType,
         \/ /\ r.tracked * RampSteps <= r.transition
            /\ r.transition <= r.computed * RampSteps
         \/ /\ r.computed * RampSteps <= r.transition
            /\ r.transition <= r.tracked * RampSteps,
         ~r.in_transition => r.transition = r.computed * RampSteps
  PROVE  Between(r)
<1> DEFINE a == r.tracked * RampSteps
           b == r.computed * RampSteps
           t == r.transition
<1>1. a \in Int /\ b \in Int /\ t \in Int
  BY SystemNumbers DEF RampType
<1>2. Between(r) <=> /\ Min({a, b}) <= t /\ t <= Max({a, b})
                     /\ ~r.in_transition => t = b
  BY DEF Between
<1>3. Min({a, b}) = (IF a <= b THEN a ELSE b) /\ Max({a, b}) = IF a >= b THEN a ELSE b
  <2> HIDE DEF a, b
  <2> QED BY <1>1, MinOfTwo, MaxOfTwo
<1>4. /\ \/ a <= t /\ t <= b
         \/ b <= t /\ t <= a
      /\ ~r.in_transition => t = b
  OBVIOUS
<1> HIDE DEF a, b, t
<1>5. Min({a, b}) <= t /\ t <= Max({a, b})
  BY <1>1, <1>3, <1>4
<1> QED BY <1>2, <1>4, <1>5

LEMMA RampStarts == experion_system_init => RampInv
<1> SUFFICES ASSUME experion_system_init PROVE RampInv
  OBVIOUS
<1> DEFINE z == 0
<1>1. ramp = [step |-> z, tracked |-> z, computed |-> z, transition |-> z, in_transition |-> FALSE]
  BY DEF experion_system_init
<1>2. z \in 0 .. RampSteps /\ z \in Int /\ z * RampSteps = z /\ z <= z
  BY SystemNumbers
<1> HIDE DEF z
<1>3. ramp \in RampType
  BY <1>1, <1>2 DEF RampType
<1>4. Between(ramp)
  <2>1. /\ ramp.tracked = z /\ ramp.computed = z /\ ramp.transition = z
    BY <1>1
  <2> QED BY <1>2, <1>3, <2>1, RampIs
<1> QED BY <1>1, <1>3, <1>4 DEF RampInv

(* k of n steps of the way to b from a. *)
LEMMA OnTheWay ==
  ASSUME NEW a \in Int, NEW b \in Int, NEW n \in Nat, NEW k \in 0 .. n
  PROVE  LET t == a * n + (b - a) * k IN
         /\ t \in Int
         /\ \/ a * n <= t /\ t <= b * n
            \/ b * n <= t /\ t <= a * n
         /\ k = n => t = b * n
<1> DEFINE t == a * n + (b - a) * k
<1>1. t \in Int /\ a * n \in Int /\ b * n \in Int /\ (b - a) * k \in Int
  OBVIOUS
<1>2. k = n => t = b * n
  <2>1. a * n + (b - a) * n = b * n
    OBVIOUS
  <2> QED BY <2>1
<1>3. CASE a <= b
  <2> DEFINE d == b - a
  <2>1. d \in Nat /\ b = a + d
    BY <1>3
  <2> HIDE DEF d
  <2>2. k * d <= n * d /\ k * d \in Nat /\ n * d \in Nat
    BY <2>1, ProductGrows
  <2>3. b * n = a * n + n * d /\ (b - a) * k = k * d
    <3>1. b - a = d
      BY <2>1
    <3> QED BY <2>1, <3>1
  <2> QED BY <1>1, <1>2, <2>2, <2>3
<1>4. CASE b <= a
  <2> DEFINE d == a - b
  <2>1. d \in Nat /\ b = a - d
    BY <1>4
  <2> HIDE DEF d
  <2>2. k * d <= n * d /\ k * d \in Nat /\ n * d \in Nat
    BY <2>1, ProductGrows
  <2>3. b * n = a * n - n * d /\ (b - a) * k = -(k * d)
    <3>1. b - a = -d
      BY <2>1
    <3> QED BY <2>1, <3>1
  <2> QED BY <1>1, <1>2, <2>2, <2>3
<1> QED BY <1>3, <1>4

LEMMA RampKept ==
  ASSUME RampInv, RampNext
  PROVE  RampInv' /\ UNCHANGED <<system, stopped, history, fte>>
<1>1. ASSUME NEW from \in OutputValues, NEW to \in OutputValues, bumpless_transfer_start(from, to)
      PROVE  RampInv'
  <2> DEFINE t == from * RampSteps
             z == 0
  <2>1. ramp' = [step |-> z, tracked |-> from, computed |-> to, transition |-> t,
                 in_transition |-> TRUE]
    BY <1>1 DEF bumpless_transfer_start
  <2>2. t \in Int /\ from \in Int /\ to \in Int /\ z \in 0 .. RampSteps /\ z < RampSteps
        /\ to * RampSteps \in Int
    BY SystemNumbers
  <2>3. ramp'.step = z /\ ramp'.tracked = from /\ ramp'.computed = to /\ ramp'.transition = t
        /\ ramp'.in_transition = TRUE
    BY <2>1
  <2> HIDE DEF z
  <2>4. ramp' \in RampType
    BY <2>1, <2>2 DEF RampType
  <2>5. \/ t <= t /\ t <= to * RampSteps
        \/ to * RampSteps <= t /\ t <= t
    <3> DEFINE u == to * RampSteps
    <3>1. t \in Int /\ u \in Int
      BY <2>2
    <3> HIDE DEF t, u
    <3>2. \/ t <= t /\ t <= u
          \/ u <= t /\ t <= t
      BY <3>1
    <3> QED BY <3>2 DEF u
  <2>6. Between(ramp')
    <3> DEFINE r == ramp'
    <3>1. /\ r \in RampType
          /\ \/ r.tracked * RampSteps <= r.transition /\ r.transition <= r.computed * RampSteps
             \/ r.computed * RampSteps <= r.transition /\ r.transition <= r.tracked * RampSteps
          /\ ~r.in_transition => r.transition = r.computed * RampSteps
      BY <2>3, <2>4, <2>5
    <3> HIDE DEF r
    <3>2. Between(r)
      BY <3>1, RampIs
    <3> QED BY <3>2 DEF r
  <2> QED BY <2>2, <2>3, <2>4, <2>6 DEF RampInv
<1>2. ASSUME NEW to \in OutputValues, bumpless_transfer_update(to)
      PROVE  RampInv'
  <2> DEFINE k == ramp.step + 1
             b == k < RampSteps
             t == ramp.tracked * RampSteps + (to - ramp.tracked) * k
  <2>1. /\ ramp \in RampType /\ ramp.step < RampSteps /\ ramp.in_transition
    BY <1>2 DEF RampInv, bumpless_transfer_update
  <2>2. ramp' = [ramp EXCEPT !.step = k, !.computed = to, !.in_transition = b, !.transition = t]
    BY <1>2 DEF bumpless_transfer_update
  <2>3. ramp.step \in 0 .. RampSteps /\ ramp.tracked \in Int /\ to \in Int
    BY <2>1, SystemNumbers DEF RampType
  <2>4. k \in 0 .. RampSteps /\ (b <=> k < RampSteps) /\ b \in BOOLEAN /\ (~b => k = RampSteps)
    BY <2>1, <2>3, SystemNumbers
  <2> HIDE DEF k, b
  <2>5. /\ t \in Int
        /\ \/ ramp.tracked * RampSteps <= t /\ t <= to * RampSteps
           \/ to * RampSteps <= t /\ t <= ramp.tracked * RampSteps
        /\ k = RampSteps => t = to * RampSteps
    BY <2>3, <2>4, SystemNumbers, OnTheWay
  <2> HIDE DEF t
  <2>6. /\ ramp' \in RampType /\ ramp'.step = k /\ ramp'.tracked = ramp.tracked
        /\ ramp'.computed = to /\ ramp'.in_transition = b /\ ramp'.transition = t
    BY <2>1, <2>2, <2>3, <2>4, <2>5 DEF RampType
  <2>7. Between(ramp')
    <3> DEFINE r == ramp'
    <3>1. /\ r \in RampType
          /\ \/ r.tracked * RampSteps <= r.transition /\ r.transition <= r.computed * RampSteps
             \/ r.computed * RampSteps <= r.transition /\ r.transition <= r.tracked * RampSteps
          /\ ~r.in_transition => r.transition = r.computed * RampSteps
      BY <2>4, <2>5, <2>6
    <3> HIDE DEF r
    <3>2. Between(r)
      BY <3>1, RampIs
    <3> QED BY <3>2 DEF r
  <2> QED BY <2>4, <2>6, <2>7 DEF RampInv
<1>3. UNCHANGED <<system, stopped, history, fte>>
  BY DEF RampNext, bumpless_transfer_start, bumpless_transfer_update
<1> QED BY <1>1, <1>2, <1>3 DEF RampNext

-----------------------------------------------------------------------------
(* The inputs and outputs of the C300. *)

C300Record ==
  [online : BOOLEAN, module : [Slots -> ModuleTypes \cup {NoModule}],
   channel : [Slots \X Channels -> Channel], peers : SUBSET PeerPeriods]

(* An output that was written is on an output module, and its channel holds*)
(* the value, which the filter cannot move: raw and filtered are the same. *)
Held(ch, module, value, sc) ==
  value[sc] # NoValue =>
    /\ module[sc[1]] \in AnalogOutput /\ module[sc[1]] # NoModule
    /\ sc[2] < channel_count(module[sc[1]])
    /\ ch[sc].raw = value[sc] /\ ch[sc].filtered = value[sc]

C300Inv ==
  /\ c300 \in C300Record /\ written \in [Slots \X Channels -> Int]
  /\ \A sc \in Slots \X Channels :
       /\ c300.channel[sc].quality = "GOOD" <=> c300.channel[sc].tagged
       /\ Held(c300.channel, c300.module, written, sc)

LEMMA C300Numbers ==
  /\ Signals \subseteq Nat /\ Ranges \subseteq Nat \X Nat /\ NoModule \notin ModuleTypes
  /\ Channels \subseteq Nat
BY C300Assumption DEF NoModule

LEMMA C300Starts == c300_init => C300Inv
<1> SUFFICES ASSUME c300_init PROVE C300Inv
  OBVIOUS
<1> DEFINE m == [s \in Slots |-> NoModule]
           ch == [sc \in Slots \X Channels |-> Unconfigured]
           none == {}
<1>1. c300 = [online |-> FALSE, module |-> m, channel |-> ch, peers |-> none]
      /\ written = [sc \in Slots \X Channels |-> NoValue]
  BY DEF c300_init
<1>2. Unconfigured \in Channel /\ Unconfigured.quality # "GOOD" /\ ~Unconfigured.tagged
  <2> DEFINE z == <<0, 0>>
             y == 0
  <2>1. z \in Ranges \cup {<<0, 0>>} /\ y \in Int
    OBVIOUS
  <2>2. Unconfigured = [tagged |-> FALSE, quality |-> "BAD_CONFIG", eu |-> z, raw |-> y,
                        filtered |-> y, filtering |-> FALSE, scan_disabled |-> FALSE]
    BY DEF Unconfigured
  <2> HIDE DEF z, y
  <2> QED BY <2>1, <2>2 DEF Channel
<1>3. m \in [Slots -> ModuleTypes \cup {NoModule}] /\ ch \in [Slots \X Channels -> Channel]
      /\ none \in SUBSET PeerPeriods /\ \A sc \in Slots \X Channels : ch[sc] = Unconfigured
  BY <1>2
<1>4. written \in [Slots \X Channels -> Int] /\ \A sc \in Slots \X Channels : written[sc] = NoValue
  BY <1>1 DEF NoValue
<1> HIDE DEF m, ch, none
<1>5. c300 \in C300Record /\ c300.channel = ch
  BY <1>1, <1>3 DEF C300Record
<1>6. \A sc \in Slots \X Channels : Held(c300.channel, c300.module, written, sc)
  BY <1>4 DEF Held
<1> QED BY <1>2, <1>3, <1>4, <1>5, <1>6 DEF C300Inv

(* One channel changes, and keeps what was written to it. *)
LEMMA ChannelKept ==
  ASSUME C300Inv, NEW s \in Slots, NEW c \in Channels, NEW new \in Channel,
         SetChannel(s, c, new),
         new.quality = "GOOD" <=> new.tagged,
         written' \in [Slots \X Channels -> Int],
         \A sc \in Slots \X Channels : sc # <<s, c>> => written'[sc] = written[sc],
         written'[<<s, c>>] # NoValue =>
           /\ c300.module[s] \in AnalogOutput /\ Exists(s, c)
           /\ new.raw = written'[<<s, c>>] /\ new.filtered = written'[<<s, c>>]
  PROVE  C300Inv'
<1> DEFINE p == <<s, c>>
           ch == [c300.channel EXCEPT ![p] = new]
<1>1. c300' = [c300 EXCEPT !.channel = ch]
  BY DEF SetChannel
<1>2. /\ c300 \in C300Record /\ c300.channel \in [Slots \X Channels -> Channel]
      /\ p \in Slots \X Channels /\ p[1] = s /\ p[2] = c
      /\ \A sc \in Slots \X Channels :
           /\ c300.channel[sc].quality = "GOOD" <=> c300.channel[sc].tagged
           /\ Held(c300.channel, c300.module, written, sc)
  BY DEF C300Inv, C300Record
<1>3. /\ ch \in [Slots \X Channels -> Channel] /\ ch[p] = new
      /\ \A sc \in Slots \X Channels : sc # p => ch[sc] = c300.channel[sc]
  BY <1>2
<1>4. /\ written'[p] # NoValue =>
           /\ c300.module[s] \in AnalogOutput /\ Exists(s, c)
           /\ new.raw = written'[p] /\ new.filtered = written'[p]
      /\ \A sc \in Slots \X Channels : sc # p => written'[sc] = written[sc]
  OBVIOUS
<1> HIDE DEF p, ch
<1>5. c300' \in C300Record /\ c300'.channel = ch /\ c300'.module = c300.module
  BY <1>1, <1>2, <1>3 DEF C300Record
<1>6. ASSUME NEW sc \in Slots \X Channels
      PROVE  /\ ch[sc].quality = "GOOD" <=> ch[sc].tagged
             /\ Held(ch, c300.module, written', sc)
  <2>1. CASE sc = p
    BY <1>2, <1>3, <1>4, <2>1 DEF Held, Exists
  <2>2. CASE sc # p
    BY <1>2, <1>3, <1>4, <2>2 DEF Held
  <2> QED BY <2>1, <2>2
<1> QED BY <1>5, <1>6 DEF C300Inv

LEMMA ClampedIs ==
  ASSUME NEW v \in Int, NEW eu \in Int \X Int
  PROVE  Clamped(v, eu) \in Int
BY DEF Clamped

(* Between two equal values there is only that one. *)
LEMMA BlendIs ==
  ASSUME NEW v \in Int
  PROVE  Blend(v, v) = {v}
<1>1. Min({v, v}) = v /\ Max({v, v}) = v
  BY MinOfTwo, MaxOfTwo
<1> QED BY <1>1 DEF Blend

LEMMA BlendIsInt ==
  ASSUME NEW v \in Int, NEW w \in Int
  PROVE  Blend(v, w) \subseteq Int
<1>1. Min({v, w}) \in Int /\ Max({v, w}) \in Int
  BY MinOfTwo, MaxOfTwo
<1> QED BY <1>1 DEF Blend

LEMMA C300Kept ==
  ASSUME C300Inv, C300Next
  PROVE  C300Inv'
<1>1. /\ c300 \in C300Record /\ written \in [Slots \X Channels -> Int]
      /\ c300.channel \in [Slots \X Channels -> Channel]
      /\ c300.module \in [Slots -> ModuleTypes \cup {NoModule}] /\ c300.peers \in SUBSET PeerPeriods
      /\ \A sc \in Slots \X Channels :
           /\ c300.channel[sc].quality = "GOOD" <=> c300.channel[sc].tagged
           /\ Held(c300.channel, c300.module, written, sc)
  BY DEF C300Inv, C300Record
<1>2. ASSUME NEW s \in Slots, NEW c \in Channels
      PROVE  /\ <<s, c>> \in Slots \X Channels /\ At(s, c) = c300.channel[<<s, c>>]
             /\ At(s, c) \in Channel /\ (At(s, c).quality = "GOOD" <=> At(s, c).tagged)
             /\ At(s, c).raw \in Int /\ At(s, c).filtered \in Int
             /\ At(s, c).eu \in Int \X Int
             /\ written[<<s, c>>] # NoValue =>
                  /\ c300.module[s] \in AnalogOutput
                  /\ At(s, c).raw = written[<<s, c>>] /\ At(s, c).filtered = written[<<s, c>>]
  <2> DEFINE p == <<s, c>>
  <2>1. p \in Slots \X Channels /\ p[1] = s
    OBVIOUS
  <2>2. At(s, c) = c300.channel[p]
    BY DEF At
  <2> HIDE DEF p
  <2>3. /\ c300.channel[p] \in Channel
        /\ (c300.channel[p].quality = "GOOD" <=> c300.channel[p].tagged)
        /\ written[p] # NoValue =>
             /\ c300.module[s] \in AnalogOutput
             /\ c300.channel[p].raw = written[p] /\ c300.channel[p].filtered = written[p]
    BY <1>1, <2>1 DEF Held
  <2>4. /\ c300.channel[p].raw \in Int /\ c300.channel[p].filtered \in Int
        /\ c300.channel[p].eu \in Ranges \cup {<<0, 0>>}
    BY <2>3 DEF Channel
  <2>5. c300.channel[p].eu \in Int \X Int
    BY <2>4, C300Numbers
  <2> QED BY <2>1, <2>2, <2>3, <2>4, <2>5 DEF p
<1>3. ASSUME NEW s \in Slots, NEW type \in ModuleTypes, c300_configure_io_slot(s, type)
      PROVE  C300Inv'
  <2> DEFINE m == [c300.module EXCEPT ![s] = type]
             ch == [sc \in DOMAIN c300.channel |->
                      IF sc[1] = s /\ sc[2] < channel_count(type)
                      THEN Unconfigured ELSE c300.channel[sc]]
  <2>1. c300' = [c300 EXCEPT !.module = m, !.channel = ch] /\ written' = written
        /\ c300.module[s] = NoModule
    BY <1>3 DEF c300_configure_io_slot
  <2>2. Unconfigured \in Channel /\ Unconfigured.quality # "GOOD" /\ ~Unconfigured.tagged
    <3> DEFINE z == <<0, 0>>
               y == 0
    <3>1. z \in Ranges \cup {<<0, 0>>} /\ y \in Int
      OBVIOUS
    <3>2. Unconfigured = [tagged |-> FALSE, quality |-> "BAD_CONFIG", eu |-> z, raw |-> y,
                          filtered |-> y, filtering |-> FALSE, scan_disabled |-> FALSE]
      BY DEF Unconfigured
    <3> HIDE DEF z, y
    <3> QED BY <3>1, <3>2 DEF Channel
  <2>3. m \in [Slots -> ModuleTypes \cup {NoModule}] /\ \A x \in Slots : x # s => m[x] = c300.module[x]
    BY <1>1
  <2>4. /\ DOMAIN c300.channel = Slots \X Channels
        /\ \A sc \in Slots \X Channels : ch[sc] \in {Unconfigured, c300.channel[sc]}
        /\ \A sc \in Slots \X Channels : sc[1] # s => ch[sc] = c300.channel[sc]
    BY <1>1
  <2>5. ch \in [Slots \X Channels -> Channel]
    BY <1>1, <2>2
  <2> HIDE DEF m, ch
  <2>6. c300' \in C300Record /\ c300'.module = m /\ c300'.channel = ch
    BY <1>1, <2>1, <2>3, <2>5 DEF C300Record
  <2>7. ASSUME NEW sc \in Slots \X Channels
        PROVE  /\ ch[sc].quality = "GOOD" <=> ch[sc].tagged
               /\ Held(ch, m, written, sc)
    <3>1. ch[sc].quality = "GOOD" <=> ch[sc].tagged
      BY <1>1, <2>2, <2>4
    <3>2. CASE sc[1] = s
      <4>1. c300.module[sc[1]] = NoModule
        BY <2>1, <3>2
      <4>2. written[sc] = NoValue
        BY <1>1, <4>1 DEF Held
      <4> QED BY <3>1, <4>2 DEF Held
    <3>3. CASE sc[1] # s
      <4>1. sc[1] \in Slots
        OBVIOUS
      <4> QED BY <1>1, <2>3, <2>4, <3>1, <3>3, <4>1 DEF Held
    <3> QED BY <3>2, <3>3
  <2> QED BY <1>1, <2>1, <2>6, <2>7 DEF C300Inv
<1>4. ASSUME NEW s \in Slots, NEW c \in Channels, NEW range \in Ranges,
             c300_configure_channel(s, c, range)
      PROVE  C300Inv'
  <2> DEFINE old == At(s, c)
             w == written[<<s, c>>]
  <2>0. /\ old \in Channel /\ (old.quality = "GOOD" <=> old.tagged)
        /\ old.raw \in Int /\ old.filtered \in Int /\ old.eu \in Int \X Int
        /\ w # NoValue => /\ c300.module[s] \in AnalogOutput
                          /\ old.raw = w /\ old.filtered = w
    BY <1>2
  <2> DEFINE new == [old EXCEPT !.tagged = TRUE, !.eu = range, !.quality = "GOOD",
                                     !.scan_disabled = FALSE]
  <2>1. SetChannel(s, c, new) /\ Exists(s, c) /\ written' = written
    BY <1>4 DEF c300_configure_channel
  <2>2. /\ new \in Channel /\ new.quality = "GOOD" /\ new.tagged
        /\ new.raw = old.raw /\ new.filtered = old.filtered
    <3> HIDE DEF old
    <3> QED BY <2>0 DEF Channel
  <2> HIDE DEF new
  <2> QED BY <1>1, <2>0, <2>1, <2>2, ChannelKept
<1>5. ASSUME NEW s \in Slots, NEW c \in Channels, NEW long \in BOOLEAN,
             c300_apply_filter(s, c, long)
      PROVE  C300Inv'
  <2> DEFINE old == At(s, c)
             w == written[<<s, c>>]
  <2>0. /\ old \in Channel /\ (old.quality = "GOOD" <=> old.tagged)
        /\ old.raw \in Int /\ old.filtered \in Int /\ old.eu \in Int \X Int
        /\ w # NoValue => /\ c300.module[s] \in AnalogOutput
                          /\ old.raw = w /\ old.filtered = w
    BY <1>2
  <2>1. PICK f \in IF long THEN Blend(old.filtered, old.raw) ELSE {old.raw} :
          SetChannel(s, c, [old EXCEPT !.filtered = f, !.filtering = long])
    BY <1>5 DEF c300_apply_filter
  <2> DEFINE new == [old EXCEPT !.filtered = f, !.filtering = long]
  <2>2. SetChannel(s, c, new) /\ Exists(s, c) /\ written' = written
    BY <1>5, <2>1 DEF c300_apply_filter
  <2>3. f \in Int
    <3> HIDE DEF old
    <3> QED BY <2>0, <2>1, BlendIsInt
  <2>4. old.filtered = old.raw => f = old.raw
    <3> HIDE DEF old
    <3> QED BY <2>0, <2>1, BlendIs
  <2>5. /\ new \in Channel /\ (new.quality = "GOOD" <=> new.tagged)
        /\ new.raw = old.raw /\ new.filtered = f
    <3> HIDE DEF old
    <3> QED BY <2>0, <2>3 DEF Channel
  <2> HIDE DEF new
  <2> QED BY <1>1, <2>0, <2>2, <2>4, <2>5, ChannelKept
<1>6. ASSUME NEW s \in Slots, NEW c \in Channels, NEW value \in Signals,
             c300_write_analog_output(s, c, value)
      PROVE  C300Inv'
  <2> DEFINE old == At(s, c)
             w == written[<<s, c>>]
  <2>0. /\ old \in Channel /\ (old.quality = "GOOD" <=> old.tagged)
        /\ old.raw \in Int /\ old.filtered \in Int /\ old.eu \in Int \X Int
        /\ w # NoValue => /\ c300.module[s] \in AnalogOutput
                          /\ old.raw = w /\ old.filtered = w
    BY <1>2
  <2> DEFINE v == Clamped(value, old.eu)
             new == [old EXCEPT !.raw = v, !.filtered = v]
  <2>1. /\ SetChannel(s, c, new) /\ Exists(s, c) /\ c300.module[s] \in AnalogOutput
        /\ written' = [written EXCEPT ![<<s, c>>] = v]
    BY <1>6 DEF c300_write_analog_output, Output
  <2>2. v \in Int
    <3> HIDE DEF old
    <3> QED BY <2>0, C300Numbers, ClampedIs
  <2> HIDE DEF v
  <2>3. /\ new \in Channel /\ (new.quality = "GOOD" <=> new.tagged)
        /\ new.raw = v /\ new.filtered = v
    <3> HIDE DEF old
    <3> QED BY <2>0, <2>2 DEF Channel
  <2>4. /\ written' \in [Slots \X Channels -> Int] /\ written'[<<s, c>>] = v
        /\ \A sc \in Slots \X Channels : sc # <<s, c>> => written'[sc] = written[sc]
    BY <1>1, <1>2, <2>1, <2>2
  <2> HIDE DEF new
  <2> QED BY <2>1, <2>3, <2>4, ChannelKept
<1>7. ASSUME NEW s \in Slots, NEW c \in Channels, NEW value \in Signals,
             FieldSignal(s, c, value)
      PROVE  C300Inv'
  <2> DEFINE old == At(s, c)
             w == written[<<s, c>>]
  <2>0. /\ old \in Channel /\ (old.quality = "GOOD" <=> old.tagged)
        /\ old.raw \in Int /\ old.filtered \in Int /\ old.eu \in Int \X Int
        /\ w # NoValue => /\ c300.module[s] \in AnalogOutput
                          /\ old.raw = w /\ old.filtered = w
    BY <1>2
  <2> DEFINE new == [old EXCEPT !.raw = value]
  <2>1. SetChannel(s, c, new) /\ c300.module[s] \notin AnalogOutput /\ written' = written
    BY <1>7 DEF FieldSignal
  <2>2. value \in Int
    BY C300Numbers
  <2>3. new \in Channel /\ (new.quality = "GOOD" <=> new.tagged)
    <3> HIDE DEF old
    <3> QED BY <2>0, <2>2 DEF Channel
  <2>4. written'[<<s, c>>] = NoValue
    BY <1>2, <2>1
  <2> HIDE DEF new
  <2> QED BY <1>1, <2>1, <2>3, <2>4, ChannelKept
<1>8. ASSUME NEW s \in Slots, NEW c \in Channels, DisableScan(s, c)
      PROVE  C300Inv'
  <2> DEFINE old == At(s, c)
             w == written[<<s, c>>]
  <2>0. /\ old \in Channel /\ (old.quality = "GOOD" <=> old.tagged)
        /\ old.raw \in Int /\ old.filtered \in Int /\ old.eu \in Int \X Int
        /\ w # NoValue => /\ c300.module[s] \in AnalogOutput
                          /\ old.raw = w /\ old.filtered = w
    BY <1>2
  <2> DEFINE new == [old EXCEPT !.scan_disabled = TRUE]
  <2>1. SetChannel(s, c, new) /\ Exists(s, c) /\ written' = written
    BY <1>8 DEF DisableScan
  <2>2. /\ new \in Channel /\ (new.quality = "GOOD" <=> new.tagged)
        /\ new.raw = old.raw /\ new.filtered = old.filtered
    <3> HIDE DEF old
    <3> QED BY <2>0 DEF Channel
  <2> HIDE DEF new
  <2> QED BY <1>1, <2>0, <2>1, <2>2, ChannelKept
<1>9. ASSUME NEW period \in PeerPeriods, c300_add_peer_subscription(period)
      PROVE  C300Inv'
  <2> DEFINE ps == c300.peers \cup {period}
  <2>1. c300' = [c300 EXCEPT !.peers = ps] /\ written' = written
    BY <1>9 DEF c300_add_peer_subscription
  <2>2. ps \in SUBSET PeerPeriods
    BY <1>1
  <2> HIDE DEF ps
  <2>3. c300' \in C300Record /\ c300'.channel = c300.channel /\ c300'.module = c300.module
    BY <1>1, <2>1, <2>2 DEF C300Record
  <2> QED BY <1>1, <2>1, <2>3 DEF C300Inv
<1>10. ASSUME c300_execute_scan PROVE C300Inv'
  <2> DEFINE E == {sc \in Slots \X Channels : Exists(sc[1], sc[2])}
  <2>1. PICK f \in [E -> Signals \cup {0}] :
          /\ \A sc \in DOMAIN f : f[sc] \in Blend(c300.channel[sc].filtered, c300.channel[sc].raw)
          /\ c300' = [c300 EXCEPT !.channel =
                        [sc \in DOMAIN c300.channel |->
                           IF sc \in DOMAIN f /\ ~c300.channel[sc].scan_disabled
                           THEN Processed(c300.channel[sc], f[sc]) ELSE c300.channel[sc]]]
    BY <1>10 DEF c300_execute_scan
  <2> DEFINE ch == [sc \in DOMAIN c300.channel |->
                      IF sc \in DOMAIN f /\ ~c300.channel[sc].scan_disabled
                      THEN Processed(c300.channel[sc], f[sc]) ELSE c300.channel[sc]]
  <2>2. c300' = [c300 EXCEPT !.channel = ch] /\ written' = written
    BY <1>10, <2>1 DEF c300_execute_scan
  <2>3. DOMAIN c300.channel = Slots \X Channels /\ DOMAIN f = E /\ E \subseteq Slots \X Channels
    BY <1>1
  <2>4. ASSUME NEW sc \in E
        PROVE  LET new == Processed(c300.channel[sc], f[sc]) IN
               /\ new \in Channel /\ (new.quality = "GOOD" <=> new.tagged)
               /\ new.raw = c300.channel[sc].raw
               /\ c300.channel[sc].filtered = c300.channel[sc].raw
                    => new.filtered = c300.channel[sc].raw
    <3> DEFINE old == c300.channel[sc]
               v == IF old.filtering THEN f[sc] ELSE old.raw
               q == IF old.tagged THEN "GOOD" ELSE old.quality
               new == Processed(old, f[sc])
    <3>1. sc \in Slots \X Channels /\ sc \in DOMAIN f
      BY <2>3
    <3>2. old \in Channel /\ (old.quality = "GOOD" <=> old.tagged)
      BY <1>1, <3>1
    <3>3. f[sc] \in Blend(old.filtered, old.raw)
      BY <2>1, <3>1
    <3> HIDE DEF old
    <3>4. old.raw \in Int /\ old.filtered \in Int /\ old.quality \in {"BAD_CONFIG", "GOOD"}
          /\ old.tagged \in BOOLEAN
      BY <3>2 DEF Channel
    <3>5. f[sc] \in Int /\ (old.filtered = old.raw => f[sc] = old.raw)
      BY <3>3, <3>4, BlendIsInt, BlendIs
    <3>6. v \in Int /\ (old.filtered = old.raw => v = old.raw)
          /\ q \in {"BAD_CONFIG", "GOOD"} /\ (q = "GOOD" <=> old.tagged)
      BY <3>2, <3>4, <3>5
    <3>7. new = [old EXCEPT !.filtered = v, !.quality = q]
      BY DEF Processed
    <3> HIDE DEF v, q, new
    <3>8. /\ new \in Channel /\ new.quality = q /\ new.tagged = old.tagged
          /\ new.raw = old.raw /\ new.filtered = v
      BY <3>2, <3>6, <3>7 DEF Channel
    <3> QED BY <3>6, <3>8 DEF new, old
  <2>5. ASSUME NEW sc \in Slots \X Channels
        PROVE  /\ ch[sc] \in Channel /\ (ch[sc].quality = "GOOD" <=> ch[sc].tagged)
               /\ ch[sc].raw = c300.channel[sc].raw
               /\ c300.channel[sc].filtered = c300.channel[sc].raw
                    => ch[sc].filtered = c300.channel[sc].raw
    <3>1. CASE sc \in E /\ ~c300.channel[sc].scan_disabled
      <4>1. ch[sc] = Processed(c300.channel[sc], f[sc])
        BY <2>3, <3>1
      <4> HIDE DEF ch
      <4> QED BY <2>4, <3>1, <4>1
    <3>2. CASE ~(sc \in E /\ ~c300.channel[sc].scan_disabled)
      <4>1. ch[sc] = c300.channel[sc]
        BY <2>3, <3>2
      <4> HIDE DEF ch
      <4> QED BY <1>1, <4>1
    <3> QED BY <3>1, <3>2
  <2>6. ch \in [Slots \X Channels -> Channel]
    <3>1. ch = [sc \in Slots \X Channels |-> ch[sc]]
      BY <2>3
    <3> HIDE DEF ch
    <3> QED BY <2>5, <3>1
  <2> HIDE DEF ch, E
  <2>7. c300' \in C300Record /\ c300'.channel = ch /\ c300'.module = c300.module
    BY <1>1, <2>2, <2>6 DEF C300Record
  <2>8. \A sc \in Slots \X Channels : Held(ch, c300.module, written, sc)
    BY <1>1, <2>5 DEF Held
  <2> QED BY <1>1, <2>2, <2>5, <2>7, <2>8 DEF C300Inv
<1>11. ASSUME GoOnline PROVE C300Inv'
  <2>1. c300' = [c300 EXCEPT !.online = TRUE] /\ written' = written
    BY <1>11 DEF GoOnline
  <2>2. c300' \in C300Record /\ c300'.channel = c300.channel /\ c300'.module = c300.module
    BY <1>1, <2>1 DEF C300Record
  <2> QED BY <1>1, <2>1, <2>2 DEF C300Inv
<1> QED BY <1>3, <1>4, <1>5, <1>6, <1>7, <1>8, <1>9, <1>10, <1>11 DEF C300Next

LEMMA C300Suffices ==
  ASSUME C300Inv
  PROVE  C300TypeOK /\ OutputsHold
<1>1. C300TypeOK
  BY DEF C300Inv, C300Record, C300TypeOK
<1>2. ASSUME NEW s \in Slots, NEW c \in Channels
      PROVE  LET value == c300_read_analog_input(s, c) IN
             /\ value # NoValue /\ written[<<s, c>>] # NoValue => value = written[<<s, c>>]
             /\ Exists(s, c) => (At(s, c).quality = "GOOD" <=> At(s, c).tagged)
  <2> DEFINE p == <<s, c>>
  <2>1. p \in Slots \X Channels /\ At(s, c) = c300.channel[p]
    BY DEF At
  <2>2. (At(s, c).quality = "GOOD" <=> At(s, c).tagged)
    BY <2>1 DEF C300Inv
  <2>3. written[p] # NoValue => At(s, c).filtered = written[p]
    BY <2>1 DEF C300Inv, Held
  <2>4. c300_read_analog_input(s, c) \in {At(s, c).filtered, NoValue}
    BY DEF c300_read_analog_input
  <2> QED BY <2>2, <2>3, <2>4
<1> QED BY <1>1, <1>2 DEF OutputsHold

-----------------------------------------------------------------------------
(* The control execution environment. *)

LEMMA CeeNumbers ==
  /\ FramePeriod \in Nat /\ FramePeriod > 0 /\ Durations \subseteq Nat
  /\ CeeTaskKinds \subseteq [phase_id : Nat, period : Nat, priority : Nat, wcet : Nat]
BY CeeAssumption

Gap(task) == IF task.period = 0 THEN 1 ELSE Divisor(task)

(* A task is enabled until the emergency stop.  A task with a period below *)
(* that of the frame has no gap between its executions: it traps. *)
CeeInv ==
  /\ cee \in CeeManager /\ born \in Seq(Nat) /\ Len(born) = Len(cee.tasks)
  /\ \A t \in DOMAIN cee.tasks :
       LET task == cee.tasks[t] IN
       /\ task.enabled \/ cee.emergency_stop
       /\ Gap(task) # 0 =>
            task.execution_count = (cee.frame_number \div Gap(task)) - (born[t] \div Gap(task))

LEMMA GapIs ==
  ASSUME NEW task \in CeeTask
  PROVE  Gap(task) \in Nat
<1>1. task.period \in Nat
  BY DEF CeeTask
<1>2. task.period \div FramePeriod \in Nat
  BY <1>1, CeeNumbers, QuotientSpans
<1> QED BY <1>2 DEF Gap, Divisor

LEMMA QuotientIs ==
  ASSUME NEW a \in Nat, NEW b \in Nat
  PROVE  b # 0 => a \div b \in Nat
<1>1. b # 0 => b > 0
  OBVIOUS
<1> QED BY <1>1, QuotientSpans

LEMMA OneDivides == ASSUME NEW n \in Nat PROVE n % 1 = 0
OBVIOUS

(* One more frame, and a period ends with it or does not. *)
LEMMA NextQuotient ==
  ASSUME NEW n \in Nat, NEW d \in Nat, d > 0
  PROVE  /\ n \div d \in Nat
         /\ (n + 1) \div d = IF (n + 1) % d = 0 THEN n \div d + 1 ELSE n \div d
<1> DEFINE q == (n + 1) \div d
           r == (n + 1) % d
<1>1. q \in Nat /\ d * q <= n + 1 /\ n + 1 < d * q + d
  BY QuotientSpans
<1>2. n + 1 = d * q + r /\ r \in Nat
  OBVIOUS
<1> HIDE DEF q, r
<1>3. d * q \in Nat
  BY <1>1
<1>4. CASE r # 0
  <2>1. d * q <= n /\ n < d * q + d
    BY <1>1, <1>2, <1>3, <1>4
  <2>2. n \div d = q
    BY <1>1, <2>1, QuotientUnique
  <2> QED BY <1>1, <1>4, <2>2 DEF q, r
<1>5. CASE r = 0
  <2>1. n + 1 = d * q
    BY <1>2, <1>3, <1>5
  <2>2. q > 0
    <3>1. q = 0 => d * q = 0
      OBVIOUS
    <3> QED BY <1>1, <2>1, <3>1
  <2> DEFINE p == q - 1
  <2>3. p \in Nat /\ q = p + 1
    BY <1>1, <2>2
  <2> HIDE DEF p
  <2>4. d * q = d * p + d /\ d * p \in Nat
    BY <2>3
  <2>5. d * p <= n /\ n < d * p + d
    BY <2>1, <2>4
  <2>6. n \div d = p
    BY <2>3, <2>5, QuotientUnique
  <2> QED BY <1>1, <1>5, <2>3, <2>6 DEF q, r
<1> QED BY <1>4, <1>5

(* The time that tasks take is a number. *)
LEMMA TimeIs ==
  ASSUME NEW ts \in Seq(CeeTask)
  PROVE  TimeOf(ts, DOMAIN ts) \in Int
<1> DEFINE S == DOMAIN ts
           f == [t \in S |-> ts[t].current_duration]
           Eq(h) == h = [t \in SUBSET S |->
                           IF t = {} THEN 0
                           ELSE LET x == CHOOSE y \in t : TRUE
                                IN  ts[x].current_duration + h[t \ {x}]]
           iter == CHOOSE h : Eq(h)
<1>1. TimeOf(ts, S) = iter[S]
  BY Zenon DEF TimeOf, MapThenSumSet, MapThenFoldSet
<1>2. IsFiniteSet(S)
  <2>1. S = 1 .. Len(ts) /\ Len(ts) \in Nat
    BY LenProperties
  <2>2. 1 \in Int /\ Len(ts) \in Int
    BY <2>1
  <2> QED BY <2>1, <2>2, FS_Interval
<1>3. f \in [S -> Int] /\ \A t \in S : f[t] = ts[t].current_duration
  <2>1. ASSUME NEW t \in S PROVE ts[t].current_duration \in Int
    <3>1. ts[t] \in CeeTask
      BY ElementOfSeq
    <3> QED BY <3>1 DEF CeeTask
  <2> QED BY <2>1
<1> HIDE DEF f
<1>4. PICK g : g \in Sums(S, f)
  BY <1>2, <1>3, SumsExist
<1>5. /\ g \in [SUBSET S -> Int]
      /\ \A t \in SUBSET S : g[t] = IF t = {} THEN 0 ELSE f[Picked(t)] + g[t \ {Picked(t)}]
  BY <1>4 DEF Sums
<1>6. ASSUME NEW t \in SUBSET S
      PROVE  g[t] = IF t = {} THEN 0
                    ELSE ts[Picked(t)].current_duration + g[t \ {Picked(t)}]
  <2>1. t # {} => Picked(t) \in t
    BY Zenon DEF Picked
  <2>2. t # {} => f[Picked(t)] = ts[Picked(t)].current_duration
    BY <1>3, <2>1
  <2> QED BY <1>5, <2>2
<1>7. Eq(g)
  <2>1. g = [t \in SUBSET S |-> IF t = {} THEN 0
                                ELSE ts[Picked(t)].current_duration + g[t \ {Picked(t)}]]
    <3> HIDE DEF S
    <3> QED BY <1>5, <1>6
  <2> QED BY <2>1, Zenon DEF Picked
<1>8. Eq(iter)
  BY <1>7, Zenon
<1>9. ASSUME NEW h, Eq(h), NEW t \in SUBSET S
      PROVE  h[t] = IF t = {} THEN 0
                    ELSE ts[Picked(t)].current_duration + h[t \ {Picked(t)}]
  BY <1>9 DEF Picked
<1> HIDE DEF iter, Eq, S
<1> DEFINE T == {t \in SUBSET S : iter[t] = g[t]}
<1>10. {} \in T
  <2>1. {} \in SUBSET S
    OBVIOUS
  <2>2. iter[{}] = 0 /\ g[{}] = 0
    BY <1>6, <1>8, <1>9, <2>1
  <2> QED BY <2>2
<1>11. ASSUME NEW t \in SUBSET S, t # {}, \A x \in t : t \ {x} \in T
       PROVE  t \in T
  <2>1. Picked(t) \in t
    BY <1>11 DEF Picked
  <2>2. iter[t \ {Picked(t)}] = g[t \ {Picked(t)}]
    BY <1>11, <2>1
  <2>3. /\ iter[t] = ts[Picked(t)].current_duration + iter[t \ {Picked(t)}]
        /\ g[t] = ts[Picked(t)].current_duration + g[t \ {Picked(t)}]
    BY <1>6, <1>8, <1>9, <1>11
  <2> QED BY <2>2, <2>3
<1>12. SUBSET S \subseteq T
  <2> HIDE DEF T
  <2> QED BY <1>2, <1>10, <1>11, SubsetInduction
<1>13. iter[S] = g[S] /\ g[S] \in Int
  <2>1. S \in SUBSET S
    OBVIOUS
  <2>2. S \in T
    <3> HIDE DEF T
    <3> QED BY <1>12, <2>1
  <2> QED BY <1>5, <2>1, <2>2
<1>14. TimeOf(ts, S) \in Int
  BY <1>1, <1>13
<1> QED BY <1>14 DEF S

LEMMA CeeStarts == cee_init => CeeInv
<1> SUFFICES ASSUME cee_init PROVE CeeInv
  OBVIOUS
<1> DEFINE none == << >>
           z == 0
<1>1. /\ cee = [phases |-> none, tasks |-> none, frame_number |-> z, overrun_count |-> z,
                registered_blocks |-> z, idle_time |-> z, schedule_valid |-> FALSE,
                emergency_stop |-> FALSE, trapped |-> FALSE]
      /\ born = none
  BY DEF cee_init
<1>2. none \in Seq(CeePhase) /\ none \in Seq(CeeTask) /\ none \in Seq(Nat) /\ DOMAIN none = {}
      /\ z \in Nat
  OBVIOUS
<1> HIDE DEF none, z
<1>3. cee \in CeeManager /\ cee.tasks = none
  BY <1>1, <1>2 DEF CeeManager
<1> QED BY <1>1, <1>2, <1>3 DEF CeeInv

(* The facts on the manager that the handlers' lemmas start from. *)
LEMMA CeeFields ==
  ASSUME CeeInv
  PROVE  /\ cee.phases \in Seq(CeePhase) /\ DOMAIN cee.phases = 1 .. Len(cee.phases)
         /\ Len(cee.phases) \in Nat
         /\ cee.tasks \in Seq(CeeTask) /\ DOMAIN cee.tasks = 1 .. Len(cee.tasks)
         /\ Len(cee.tasks) \in Nat /\ \A t \in DOMAIN cee.tasks : cee.tasks[t] \in CeeTask
         /\ born \in Seq(Nat) /\ Len(born) = Len(cee.tasks) /\ DOMAIN born = DOMAIN cee.tasks
         /\ \A t \in DOMAIN cee.tasks : born[t] \in Nat
         /\ cee.frame_number \in Nat /\ cee.overrun_count \in Nat
         /\ cee.registered_blocks \in Nat
<1>1. /\ cee.phases \in Seq(CeePhase) /\ cee.tasks \in Seq(CeeTask)
      /\ cee.frame_number \in Nat /\ cee.overrun_count \in Nat /\ cee.registered_blocks \in Nat
      /\ born \in Seq(Nat) /\ Len(born) = Len(cee.tasks)
  BY DEF CeeInv, CeeManager
<1>2. /\ DOMAIN cee.phases = 1 .. Len(cee.phases) /\ Len(cee.phases) \in Nat
      /\ DOMAIN cee.tasks = 1 .. Len(cee.tasks) /\ Len(cee.tasks) \in Nat
      /\ DOMAIN born = DOMAIN cee.tasks
  BY <1>1, LenProperties
<1>3. \A t \in DOMAIN cee.tasks : cee.tasks[t] \in CeeTask /\ born[t] \in Nat
  BY <1>1, <1>2, ElementOfSeq
<1> QED BY <1>1, <1>2, <1>3

LEMMA CreatedTask ==
  ASSUME CeeInv, NEW kind \in CeeTaskKinds, cee_create_task(kind)
  PROVE  CeeInv'
<1> DEFINE new == NewTask(kind)
           n == Len(cee.tasks)
           ts == Append(cee.tasks, new)
           p == kind.phase_id
           k == cee.phases[p].task_count + 1
           phase == [cee.phases[p] EXCEPT !.task_count = k]
           ps == [cee.phases EXCEPT ![p] = phase]
           bs == Append(born, cee.frame_number)
<1>1. cee' = [cee EXCEPT !.tasks = ts, !.phases = ps] /\ born' = bs /\ p \in DOMAIN cee.phases
  BY DEF cee_create_task
<1>2. new \in CeeTask /\ new.enabled = TRUE /\ new.execution_count = 0
  <2>1. kind.phase_id \in Nat /\ kind.period \in Nat /\ kind.priority \in Nat /\ kind.wcet \in Nat
    BY CeeNumbers
  <2> DEFINE z == 0
  <2>2. new = [phase_id |-> kind.phase_id, period |-> kind.period, priority |-> kind.priority,
               wcet |-> kind.wcet, enabled |-> TRUE, block_count |-> z, execution_count |-> z,
               current_duration |-> z]
        /\ z \in Nat
    BY DEF NewTask
  <2>3. z = 0
    OBVIOUS
  <2> HIDE DEF new, z
  <2> QED BY <2>1, <2>2, <2>3 DEF CeeTask
<1>3. ps \in Seq(CeePhase)
  <2>1. cee.phases[p] \in CeePhase
    BY <1>1, CeeFields, ElementOfSeq
  <2>2. k \in Nat
    BY <2>1 DEF CeePhase
  <2> HIDE DEF k
  <2>3. phase \in CeePhase
    BY <2>1, <2>2 DEF CeePhase
  <2> HIDE DEF phase, p
  <2> QED BY <1>1, <2>3, CeeFields, ExceptSeq
<1> HIDE DEF new
<1>4. /\ ts \in Seq(CeeTask) /\ Len(ts) = n + 1 /\ DOMAIN ts = 1 .. n + 1
      /\ ts[n + 1] = new /\ \A t \in 1 .. n : ts[t] = cee.tasks[t]
  BY <1>2, CeeFields, AppendProperties, LenProperties
<1>5. /\ bs \in Seq(Nat) /\ Len(bs) = n + 1
      /\ bs[n + 1] = cee.frame_number /\ \A t \in 1 .. n : bs[t] = born[t]
  BY CeeFields, AppendProperties
<1> HIDE DEF ts, ps, bs
<1>6. /\ cee' \in CeeManager /\ cee'.tasks = ts /\ cee'.frame_number = cee.frame_number
      /\ cee'.emergency_stop = cee.emergency_stop
  BY <1>1, <1>3, <1>4 DEF CeeInv, CeeManager
<1>7. ASSUME NEW t \in DOMAIN ts
      PROVE  /\ ts[t].enabled \/ cee.emergency_stop
             /\ Gap(ts[t]) # 0 =>
                  ts[t].execution_count
                    = (cee.frame_number \div Gap(ts[t])) - (bs[t] \div Gap(ts[t]))
  <2>1. CASE t = n + 1
    <3>1. Gap(new) \in Nat
      BY <1>2, GapIs
    <3> DEFINE d == Gap(new)
               q == cee.frame_number \div d
    <3>2. d # 0 => q \in Nat
      <4> DEFINE f == cee.frame_number
      <4>1. d \in Nat /\ f \in Nat
        BY <3>1, CeeFields
      <4> HIDE DEF d, f
      <4>2. d # 0 => f \div d \in Nat
        BY <4>1, QuotientIs
      <4> QED BY <4>2 DEF f
    <3>3. d # 0 => new.execution_count = q - q
      <4> HIDE DEF q, d
      <4> QED BY <1>2, <3>2
    <3> QED BY <1>2, <1>4, <1>5, <2>1, <3>3
  <2>2. CASE t \in 1 .. n
    BY <1>4, <1>5, <2>2, CeeFields DEF CeeInv
  <2> QED BY <1>4, <2>1, <2>2, CeeFields
<1> QED BY <1>1, <1>4, <1>5, <1>6, <1>7 DEF CeeInv

LEMMA ExecutedFrame ==
  ASSUME CeeInv, cee_execute_frame
  PROVE  CeeInv'
<1> DEFINE frame == cee.frame_number + 1
           ran == {t \in DOMAIN cee.tasks : Runs(cee.tasks[t], frame)}
           after == [t \in DOMAIN cee.tasks |->
                       IF t \in ran
                       THEN [cee.tasks[t] EXCEPT !.current_duration = cee.tasks[t].wcet,
                                                 !.execution_count = @ + 1]
                       ELSE cee.tasks[t]]
           over == {p \in DOMAIN cee.phases :
                      TimeOf(after, {t \in ran : after[t].phase_id = p}) > cee.phases[p].duration}
           busy == TimeOf(after, DOMAIN after)
           ps == [p \in DOMAIN cee.phases |->
                    [cee.phases[p] EXCEPT !.overrun_detected = @ \/ p \in over]]
           count == cee.overrun_count + Cardinality(over)
           idle == IF busy < FramePeriod THEN FramePeriod - busy ELSE 0
           trap == \E t \in DOMAIN cee.tasks : Traps(cee.tasks[t])
<1>1. ~cee.emergency_stop /\ born' = born
  BY DEF cee_execute_frame
<1>2. cee' = IF trap THEN [cee EXCEPT !.trapped = TRUE]
             ELSE [cee EXCEPT !.frame_number = frame, !.tasks = after, !.phases = ps,
                              !.overrun_count = count, !.idle_time = idle]
  <2>1. trap => cee' = [cee EXCEPT !.trapped = TRUE]
    BY DEF cee_execute_frame
  <2>2. ~trap => cee' = [cee EXCEPT !.frame_number = frame, !.tasks = after, !.phases = ps,
                              !.overrun_count = count, !.idle_time = idle]
    BY Zenon DEF cee_execute_frame
  <2> HIDE DEF trap, frame, after, ps, count, idle
  <2> QED BY <2>1, <2>2
<1>3. /\ frame \in Nat /\ DOMAIN after = DOMAIN cee.tasks
      /\ \A t \in DOMAIN cee.tasks :
           after[t] = IF t \in ran
                      THEN [cee.tasks[t] EXCEPT !.current_duration = cee.tasks[t].wcet,
                                                !.execution_count = cee.tasks[t].execution_count + 1]
                      ELSE cee.tasks[t]
  <2>1. frame \in Nat
    BY CeeFields
  <2>2. DOMAIN after = DOMAIN cee.tasks
    OBVIOUS
  <2>3. ASSUME NEW t \in DOMAIN cee.tasks
        PROVE  after[t] = IF t \in ran
                      THEN [cee.tasks[t] EXCEPT !.current_duration = cee.tasks[t].wcet,
                                                !.execution_count = cee.tasks[t].execution_count + 1]
                      ELSE cee.tasks[t]
    <3> HIDE DEF ran
    <3> QED OBVIOUS
  <2> HIDE DEF after, ran
  <2> QED BY <2>1, <2>2, <2>3
<1>4. ASSUME NEW t \in DOMAIN cee.tasks
      PROVE  /\ after[t] \in CeeTask /\ after[t].enabled = cee.tasks[t].enabled
             /\ after[t].period = cee.tasks[t].period
             /\ after[t].execution_count
                  = cee.tasks[t].execution_count + (IF t \in ran THEN 1 ELSE 0)
  <2> DEFINE old == cee.tasks[t]
  <2>1. old \in CeeTask
    BY CeeFields
  <2>2. after[t] = IF t \in ran
                   THEN [old EXCEPT !.current_duration = old.wcet,
                                    !.execution_count = old.execution_count + 1]
                   ELSE old
    BY <1>3
  <2> HIDE DEF after, old
  <2>3. old.wcet \in Nat /\ old.execution_count \in Nat
    BY <2>1 DEF CeeTask
  <2> DEFINE m == old.execution_count + 1
  <2>4. m \in Nat
    BY <2>3
  <2>5. CASE t \in ran
    <3>1. after[t] = [old EXCEPT !.current_duration = old.wcet, !.execution_count = m]
      BY <2>2, <2>5
    <3> HIDE DEF m, ran
    <3>2. /\ after[t] \in CeeTask /\ after[t].enabled = old.enabled
          /\ after[t].period = old.period /\ after[t].execution_count = m
      BY <2>1, <2>3, <2>4, <3>1 DEF CeeTask
    <3> QED BY <2>5, <3>2 DEF m, old
  <2>6. CASE t \notin ran
    <3>1. after[t] = old
      BY <2>2, <2>6
    <3> HIDE DEF ran
    <3> QED BY <2>1, <2>3, <2>6, <3>1 DEF old
  <2> QED BY <2>5, <2>6
<1>5. after \in Seq(CeeTask) /\ Len(after) = Len(cee.tasks)
  <2> DEFINE n == Len(cee.tasks)
  <2>1. DOMAIN after = 1 .. n /\ n \in Nat
    BY <1>3, CeeFields
  <2>2. after = [t \in 1 .. n |-> after[t]]
    BY <2>1
  <2>3. \A t \in 1 .. n : after[t] \in CeeTask
    BY <1>4, CeeFields
  <2> HIDE DEF after, n
  <2>4. after \in [1 .. n -> CeeTask]
    BY <2>2, <2>3
  <2>5. after \in Seq(CeeTask)
    BY <2>1, <2>4, SeqDef
  <2> QED BY <2>1, <2>5, LenProperties DEF n
<1>6. CASE trap
  <2>1. cee' = [cee EXCEPT !.trapped = TRUE]
    BY <1>2, <1>6
  <2>2. /\ cee' \in CeeManager /\ cee'.tasks = cee.tasks /\ cee'.frame_number = cee.frame_number
        /\ cee'.emergency_stop = cee.emergency_stop
    BY <2>1 DEF CeeInv, CeeManager
  <2> QED BY <1>1, <2>2 DEF CeeInv
<1>7. CASE ~trap
  <2>1. cee' = [cee EXCEPT !.frame_number = frame, !.tasks = after, !.phases = ps,
                           !.overrun_count = count, !.idle_time = idle]
    BY <1>2, <1>7
  <2>2. ps \in Seq(CeePhase)
    <3> DEFINE n == Len(cee.phases)
    <3>1. DOMAIN cee.phases = 1 .. n /\ n \in Nat
      BY CeeFields
    <3>2. ASSUME NEW p \in 1 .. n
          PROVE  [cee.phases[p] EXCEPT !.overrun_detected = @ \/ p \in over] \in CeePhase
      <4> DEFINE old == cee.phases[p]
                 b == old.overrun_detected \/ p \in over
      <4>1. old \in CeePhase
        BY <3>1, <3>2, CeeFields, ElementOfSeq
      <4>2. b \in BOOLEAN
        OBVIOUS
      <4> HIDE DEF old, over
      <4>3. [old EXCEPT !.overrun_detected = b] \in CeePhase
        <5> HIDE DEF b
        <5> QED BY <4>1, <4>2 DEF CeePhase
      <4> QED BY <4>3 DEF old
    <3> HIDE DEF over, n
    <3>3. ps \in [1 .. n -> CeePhase]
      BY <3>1, <3>2
    <3> HIDE DEF ps
    <3> QED BY <3>1, <3>3, SeqDef
  <2>3. count \in Nat
    <3>1. IsFiniteSet(DOMAIN cee.phases)
      <4>1. 1 \in Int /\ Len(cee.phases) \in Int
        BY CeeFields
      <4> QED BY <4>1, CeeFields, FS_Interval
    <3>2. over \subseteq DOMAIN cee.phases
      OBVIOUS
    <3> HIDE DEF over
    <3>3. Cardinality(over) \in Nat
      BY <3>1, <3>2, FS_Subset, FS_CardinalityType
    <3> QED BY <3>3, CeeFields
  <2>4. idle \in Nat
    <3> HIDE DEF after
    <3>1. busy \in Int
      BY <1>5, TimeIs
    <3> HIDE DEF busy
    <3> QED BY <3>1, CeeNumbers
  <2> HIDE DEF count, idle, ps
  <2>5. /\ cee' \in CeeManager /\ cee'.tasks = after /\ cee'.frame_number = frame
        /\ cee'.emergency_stop = cee.emergency_stop
    <3> HIDE DEF after, frame
    <3> QED BY <1>3, <1>5, <2>1, <2>2, <2>3, <2>4 DEF CeeInv, CeeManager
  <2>6. ASSUME NEW t \in DOMAIN cee.tasks
        PROVE  /\ after[t].enabled \/ cee.emergency_stop
               /\ Gap(after[t]) # 0 =>
                    after[t].execution_count
                      = (frame \div Gap(after[t])) - (born[t] \div Gap(after[t]))
    <3> DEFINE old == cee.tasks[t]
               d == Gap(old)
               f == cee.frame_number
               c == old.execution_count
    <3>1. old \in CeeTask /\ d \in Nat /\ old.enabled
      BY <1>1, CeeFields, GapIs DEF CeeInv
    <3>2. Gap(after[t]) = d
      <4> HIDE DEF after
      <4> QED BY <1>4 DEF Gap, Divisor
    <3>3. d # 0 => (t \in ran <=> frame % d = 0)
      <4>1. ~Traps(old)
        BY <1>7
      <4>2. t \in ran <=> Runs(old, frame)
        OBVIOUS
      <4>3. Runs(old, frame) <=> (old.period = 0 \/ frame % Divisor(old) = 0)
        BY <3>1 DEF Runs, Due
      <4>4. frame % 1 = 0
        <5>1. frame \in Nat
          BY <1>3
        <5> HIDE DEF frame
        <5> QED BY <5>1, OneDivides
      <4> QED BY <4>2, <4>3, <4>4 DEF Gap
    <3>4. d # 0 => c = (f \div d) - (born[t] \div d)
      BY DEF CeeInv
    <3>5. d # 0 => /\ frame \div d = IF frame % d = 0 THEN f \div d + 1 ELSE f \div d
                   /\ f \div d \in Nat
      <4> HIDE DEF d, f
      <4>1. f \in Nat /\ frame = f + 1
        BY CeeFields DEF f
      <4> QED BY <3>1, <4>1, NextQuotient
    <3>6. d # 0 => born[t] \div d \in Nat
      <4> DEFINE b0 == born[t]
      <4>1. d \in Nat /\ b0 \in Nat
        BY <3>1, CeeFields
      <4> HIDE DEF d, b0
      <4>2. d # 0 => b0 \div d \in Nat
        BY <4>1, QuotientIs
      <4> QED BY <4>2 DEF b0
    <3>7. after[t].execution_count = c + (IF t \in ran THEN 1 ELSE 0)
      BY <1>4
    <3> DEFINE x == f \div d
               y == born[t] \div d
               z == frame \div d
               due == frame % d = 0
               m == after[t].execution_count
    <3>8. d # 0 => m = z - y
      <4>1. d # 0 => /\ c = x - y /\ x \in Nat /\ y \in Nat
                     /\ z = IF due THEN x + 1 ELSE x
                     /\ (t \in ran <=> due)
        BY <3>3, <3>4, <3>5, <3>6
      <4>2. m = c + (IF t \in ran THEN 1 ELSE 0)
        BY <3>7
      <4> HIDE DEF x, y, z, due, m, c, d, ran
      <4> QED BY <4>1, <4>2
    <3> HIDE DEF after
    <3> QED BY <1>4, <3>1, <3>2, <3>8
  <2> HIDE DEF after, frame
  <2> QED BY <1>1, <1>3, <1>5, <2>5, <2>6, CeeFields DEF CeeInv
<1> QED BY <1>6, <1>7

LEMMA CeeKept ==
  ASSUME CeeInv, CeeNext
  PROVE  CeeInv'
<1>1. ASSUME NEW duration \in Durations, cee_add_phase(duration)
      PROVE  CeeInv'
  <2> DEFINE z == 0
             new == [duration |-> duration, task_count |-> z, overrun_detected |-> FALSE]
             ps == Append(cee.phases, new)
  <2>1. cee' = [cee EXCEPT !.phases = ps] /\ born' = born
    BY <1>1 DEF cee_add_phase
  <2>2. z \in Nat /\ duration \in Nat
    BY CeeNumbers
  <2> HIDE DEF z
  <2>3. new \in CeePhase
    BY <2>2 DEF CeePhase
  <2> HIDE DEF new
  <2>4. ps \in Seq(CeePhase)
    BY <2>3, CeeFields, AppendProperties
  <2> HIDE DEF ps
  <2>5. /\ cee' \in CeeManager /\ cee'.tasks = cee.tasks /\ cee'.frame_number = cee.frame_number
        /\ cee'.emergency_stop = cee.emergency_stop
    BY <2>1, <2>4 DEF CeeInv, CeeManager
  <2> QED BY <2>1, <2>5 DEF CeeInv
<1>2. ASSUME NEW t \in 1 .. MaxCeeTasks, cee_assign_block_to_task(t)
      PROVE  CeeInv'
  <2> DEFINE old == cee.tasks[t]
             b == old.block_count + 1
             new == [old EXCEPT !.block_count = b]
             ts == [cee.tasks EXCEPT ![t] = new]
             r == IF cee.registered_blocks < MaxRegistry THEN cee.registered_blocks + 1
                  ELSE cee.registered_blocks
  <2>1. cee' = [cee EXCEPT !.tasks = ts, !.registered_blocks = r] /\ born' = born
        /\ t \in DOMAIN cee.tasks
    BY <1>2 DEF cee_assign_block_to_task
  <2>2. old \in CeeTask
    BY <2>1, CeeFields
  <2>3. r \in Nat
    BY CeeFields
  <2>4. /\ new \in CeeTask /\ new.enabled = old.enabled
        /\ new.execution_count = old.execution_count /\ new.period = old.period
    <3> HIDE DEF old
    <3>1. b \in Nat
      BY <2>2 DEF CeeTask
    <3> HIDE DEF b
    <3> QED BY <2>2, <3>1 DEF CeeTask
  <2> HIDE DEF new, r
  <2>5. /\ ts \in Seq(CeeTask) /\ Len(ts) = Len(cee.tasks) /\ DOMAIN ts = DOMAIN cee.tasks
        /\ ts[t] = new /\ \A u \in DOMAIN cee.tasks : u # t => ts[u] = cee.tasks[u]
    BY <2>1, <2>4, CeeFields, ExceptSeq, LenProperties
  <2> HIDE DEF ts
  <2>6. /\ cee' \in CeeManager /\ cee'.tasks = ts /\ cee'.frame_number = cee.frame_number
        /\ cee'.emergency_stop = cee.emergency_stop
    BY <2>1, <2>3, <2>5 DEF CeeInv, CeeManager
  <2>7. Gap(new) = Gap(old)
    BY <2>4 DEF Gap, Divisor
  <2>8. \A u \in DOMAIN ts :
          /\ ts[u].enabled = cee.tasks[u].enabled /\ Gap(ts[u]) = Gap(cee.tasks[u])
          /\ ts[u].execution_count = cee.tasks[u].execution_count
    BY <2>4, <2>5, <2>7
  <2> QED BY <2>1, <2>5, <2>6, <2>8 DEF CeeInv
<1>3. ASSUME cee_analyze_schedulability PROVE CeeInv'
  <2> DEFINE b == rms_schedulable(cee.tasks)
  <2>1. cee' = [cee EXCEPT !.schedule_valid = b] /\ born' = born
    BY <1>3 DEF cee_analyze_schedulability
  <2>2. b \in BOOLEAN
    BY DEF rms_schedulable
  <2> HIDE DEF b
  <2>3. /\ cee' \in CeeManager /\ cee'.tasks = cee.tasks /\ cee'.frame_number = cee.frame_number
        /\ cee'.emergency_stop = cee.emergency_stop
    BY <2>1, <2>2 DEF CeeInv, CeeManager
  <2> QED BY <2>1, <2>3 DEF CeeInv
<1>4. ASSUME cee_emergency_stop PROVE CeeInv'
  <2> DEFINE ts == [t \in DOMAIN cee.tasks |-> [cee.tasks[t] EXCEPT !.enabled = FALSE]]
             n == Len(cee.tasks)
  <2>1. cee' = [cee EXCEPT !.emergency_stop = TRUE, !.tasks = ts] /\ born' = born
    BY <1>4 DEF cee_emergency_stop
  <2>2. DOMAIN ts = 1 .. n /\ n \in Nat /\ DOMAIN cee.tasks = 1 .. n
    BY CeeFields
  <2>3. ASSUME NEW t \in 1 .. n
        PROVE  /\ ts[t] \in CeeTask /\ ts[t].execution_count = cee.tasks[t].execution_count
               /\ Gap(ts[t]) = Gap(cee.tasks[t])
    <3> DEFINE old == cee.tasks[t]
               new == [old EXCEPT !.enabled = FALSE]
    <3>1. old \in CeeTask /\ ts[t] = new
      BY <2>2, CeeFields
    <3> HIDE DEF old, ts
    <3>2. /\ new \in CeeTask /\ new.execution_count = old.execution_count
          /\ new.period = old.period
      BY <3>1 DEF CeeTask
    <3> HIDE DEF new
    <3>3. Gap(new) = Gap(old)
      BY <3>2 DEF Gap, Divisor
    <3> QED BY <3>1, <3>2, <3>3 DEF old
  <2>4. ts \in Seq(CeeTask) /\ Len(ts) = n
    <3>1. ts = [t \in 1 .. n |-> ts[t]]
      BY <2>2
    <3> HIDE DEF ts, n
    <3>2. ts \in [1 .. n -> CeeTask]
      BY <2>3, <3>1
    <3>3. ts \in Seq(CeeTask)
      BY <2>2, <3>2, SeqDef
    <3> QED BY <2>2, <3>3, LenProperties
  <2> HIDE DEF ts
  <2>5. /\ cee' \in CeeManager /\ cee'.tasks = ts /\ cee'.frame_number = cee.frame_number
        /\ cee'.emergency_stop = TRUE
    BY <2>1, <2>4 DEF CeeInv, CeeManager
  <2> QED BY <2>1, <2>2, <2>3, <2>4, <2>5 DEF CeeInv
<1>5. ASSUME NEW p \in 1 .. MaxPhases, cee_reorder_by_priority(p) PROVE CeeInv'
  BY <1>5 DEF cee_reorder_by_priority, ceeVars, CeeInv
<1> QED BY <1>1, <1>2, <1>3, <1>4, <1>5, CreatedTask, ExecutedFrame DEF CeeNext

LEMMA CeeSuffices ==
  ASSUME CeeInv
  PROVE  CeeTypeOK /\ NoFrameMissed
BY DEF CeeInv, CeeTypeOK, NoFrameMissed, Gap

-----------------------------------------------------------------------------
(* The PID block and the signal characterizer. *)

LEMMA BlockNumbers ==
  /\ \A tuning \in Tunings : tuning.kc \in Int /\ tuning.ti \in Nat /\ tuning.td \in Nat
  /\ \A limits \in OpLimits : limits[1] \in Int /\ limits[2] \in Int
  /\ Windup[1] \in Int /\ Windup[2] \in Int
  /\ PVs \subseteq Int /\ Ops \subseteq Int
  /\ RateLimit \in Nat /\ Deadband \in Nat /\ MaxPoints \in Nat
  /\ \A point \in Points : point.x \in Int /\ point.y \in Int
<1>1. /\ Tunings \subseteq [kc : Int, ti : Nat, td : Nat]
      /\ OpLimits \subseteq Int \X Int /\ Windup \in Int \X Int
      /\ PVs \subseteq Int /\ Ops \subseteq Int
      /\ RateLimit \in Nat /\ Deadband \in Nat /\ MaxPoints \in Nat
      /\ Points \subseteq [x : Int, y : Int]
  BY BlocksAssumption
<1>2. \A tuning \in Tunings : tuning.kc \in Int /\ tuning.ti \in Nat /\ tuning.td \in Nat
  BY <1>1
<1>3. \A limits \in OpLimits : limits[1] \in Int /\ limits[2] \in Int
  BY <1>1
<1>4. \A point \in Points : point.x \in Int /\ point.y \in Int
  BY <1>1
<1> QED BY <1>1, <1>2, <1>3, <1>4

PidRecord ==
  [mode : PIDMode, tuning : Tunings, limits : OpLimits, pv : Int, sp : Int, remote_sp : Int,
   op : Int, track_op : Int, prev_error : Int, prev2_error : Int, integral : Int, prev_op : Int]

(* What a transfer to AUTO hands over is what the block holds until it is *)
(* executed. *)
BlockInv ==
  /\ pid \in PidRecord
  /\ handed \in [waiting : BOOLEAN, op : Int, pv : Int]
  /\ handed.waiting => /\ pid.mode = "AUTO" /\ pid.sp = handed.pv
                       /\ pid.op = handed.op /\ pid.integral = handed.op

LEMMA NotHandedIs == NotHanded \in [waiting : BOOLEAN, op : Int, pv : Int] /\ ~NotHanded.waiting
BY DEF NotHanded

LEMMA BlockStarts == pid_block_init => BlockInv /\ table = << >>
<1> SUFFICES ASSUME pid_block_init PROVE BlockInv /\ table = << >>
  OBVIOUS
<1> DEFINE z == 0
<1>1. PICK tuning \in Tunings, limits \in OpLimits :
        pid = [mode |-> "MANUAL", tuning |-> tuning, limits |-> limits, pv |-> z, sp |-> z,
               remote_sp |-> z, op |-> z, track_op |-> z, prev_error |-> z, prev2_error |-> z,
               integral |-> z, prev_op |-> z]
  BY DEF pid_block_init
<1>2. handed = NotHanded /\ table = << >>
  BY DEF pid_block_init
<1>3. z \in Int
  OBVIOUS
<1> HIDE DEF z
<1>4. pid \in PidRecord
  BY <1>1, <1>3 DEF PidRecord, PIDMode
<1> QED BY <1>2, <1>4, NotHandedIs DEF BlockInv

LEMMA WithinIs ==
  ASSUME NEW value \in Int, NEW limits, limits[1] \in Int, limits[2] \in Int
  PROVE  Within(value, limits) \in Int
BY DEF Within

LEMMA LimitedIs ==
  ASSUME NEW change \in Int
  PROVE  Limited(change) \in Int /\ Limited(0) = 0
<1> DEFINE limits == <<-RateLimit, RateLimit>>
<1>1. limits[1] = -RateLimit /\ limits[2] = RateLimit /\ RateLimit \in Nat
  BY BlockNumbers
<1> HIDE DEF limits
<1>2. Within(change, limits) \in Int /\ Within(0, limits) = 0
  BY <1>1 DEF Within
<1>3. \A n : Limited(n) = IF RateLimit = 0 THEN n ELSE Within(n, limits)
  BY DEF Limited, limits
<1> QED BY <1>2, <1>3

LEMMA PidFields ==
  ASSUME BlockInv
  PROVE  /\ pid \in PidRecord
         /\ pid.tuning.kc \in Int /\ pid.tuning.ti \in Nat /\ pid.tuning.td \in Nat
         /\ pid.limits[1] \in Int /\ pid.limits[2] \in Int
         /\ pid.pv \in Int /\ pid.sp \in Int /\ pid.remote_sp \in Int /\ pid.op \in Int
         /\ pid.track_op \in Int /\ pid.prev_error \in Int /\ pid.prev2_error \in Int
         /\ pid.integral \in Int /\ pid.prev_op \in Int
<1>1. /\ pid \in PidRecord /\ pid.tuning \in Tunings /\ pid.limits \in OpLimits
      /\ pid.pv \in Int /\ pid.sp \in Int /\ pid.remote_sp \in Int /\ pid.op \in Int
      /\ pid.track_op \in Int /\ pid.prev_error \in Int /\ pid.prev2_error \in Int
      /\ pid.integral \in Int /\ pid.prev_op \in Int
  BY DEF BlockInv, PidRecord
<1> QED BY <1>1, BlockNumbers

LEMMA ErrorIs ==
  ASSUME BlockInv, NEW pv \in Int
  PROVE  ErrorOf(pv) \in Int
<1>1. pid.sp \in Int
  BY PidFields
<1> DEFINE error == pid.sp - pv
<1>2. error \in Int
  BY <1>1
<1> HIDE DEF error
<1> QED BY <1>2 DEF ErrorOf, error

LEMMA IntegralIs ==
  ASSUME BlockInv, NEW error \in Int
  PROVE  Integral(error) \in Int
<1> DEFINE increment == pid.tuning.kc * error
           projected == pid.integral + increment + pid.tuning.kc * error
           halted    == \/ projected > Windup[2] /\ increment > 0
                        \/ projected < Windup[1] /\ increment < 0
           new == pid.integral + (IF halted THEN 0 ELSE increment)
<1>1. Integral(error) = IF pid.tuning.ti = 0 THEN pid.integral ELSE Within(new, Windup)
  BY DEF Integral
<1>2. increment \in Int /\ pid.integral \in Int
  BY PidFields
<1> HIDE DEF increment
<1>3. new \in Int
  <2> HIDE DEF halted
  <2> QED BY <1>2
<1> HIDE DEF new
<1>4. Within(new, Windup) \in Int
  BY <1>3, BlockNumbers, WithinIs
<1> QED BY <1>1, <1>2, <1>4

LEMMA PositionIs ==
  ASSUME BlockInv, NEW error \in Int
  PROVE  Position(error) \in Int
<1> DEFINE i == Integral(error)
           p == pid.tuning.kc * error
           d == pid.tuning.kc * pid.tuning.td * (error - pid.prev_error)
           raw == Within(p + i + d, pid.limits)
<1>1. i \in Int /\ p \in Int
  BY PidFields, IntegralIs
<1>2. d \in Int
  <2> DEFINE k == pid.tuning.kc * pid.tuning.td
             e == error - pid.prev_error
  <2>1. k \in Int /\ e \in Int
    BY PidFields
  <2> HIDE DEF k, e
  <2>2. k * e \in Int
    BY <2>1
  <2> QED BY <2>2 DEF k, e
<1>3. Position(error) = pid.op + Limited(raw - pid.op)
  BY DEF Position
<1> HIDE DEF i, p, d
<1>4. p + i + d \in Int
  BY <1>1, <1>2
<1>5. raw \in Int /\ pid.op \in Int
  BY <1>4, PidFields, WithinIs
<1> HIDE DEF raw
<1>6. Limited(raw - pid.op) \in Int
  BY <1>5, LimitedIs
<1> QED BY <1>3, <1>5, <1>6

(* An error of zero leaves integral and output alone, without derivative *)
(* action. *)
LEMMA ZeroErrorHolds ==
  ASSUME BlockInv, pid.op = pid.integral, Allowed(pid.op), pid.tuning.td = 0
  PROVE  Position(0) = pid.op
<1> DEFINE kc == pid.tuning.kc
           op == pid.op
           prev == pid.prev_error
<1>1. kc \in Int /\ op \in Int /\ prev \in Int
  BY PidFields
<1>2. Within(op, Windup) = op /\ Within(op, pid.limits) = op
  BY DEF Allowed
<1>3. kc * 0 = 0 /\ kc * 0 * (0 - prev) = 0
  <2> HIDE DEF kc, prev
  <2>1. kc * 0 = 0
    BY <1>1
  <2>2. 0 * (0 - prev) = 0
    BY <1>1
  <2> QED BY <2>1, <2>2
<1>4. Integral(0) = op
  <2> DEFINE increment == kc * 0
             projected == pid.integral + increment + kc * 0
             halted    == \/ projected > Windup[2] /\ increment > 0
                          \/ projected < Windup[1] /\ increment < 0
  <2>1. Integral(0) = IF pid.tuning.ti = 0 THEN op
                      ELSE Within(op + (IF halted THEN 0 ELSE increment), Windup)
    BY DEF Integral
  <2>2. increment = 0
    BY <1>3
  <2> HIDE DEF increment, halted, op
  <2>3. op + (IF halted THEN 0 ELSE increment) = op
    BY <1>1, <2>2
  <2> QED BY <1>2, <2>1, <2>3
<1>5. Position(0) = op + Limited(Within(kc * 0 + Integral(0) + kc * 0 * (0 - prev), pid.limits) - op)
  BY DEF Position
<1>6. kc * 0 + Integral(0) + kc * 0 * (0 - prev) = op
  <2> HIDE DEF kc, prev, op
  <2> QED BY <1>1, <1>3, <1>4
<1>7. Position(0) = op + Limited(op - op)
  BY <1>2, <1>5, <1>6
<1>8. op - op = 0 /\ Limited(0) = 0 /\ op + 0 = op
  BY <1>1, LimitedIs
<1> HIDE DEF op, kc, prev
<1>9. Position(0) = op
  BY <1>7, <1>8
<1> QED BY <1>9 DEF op

(* The first execution after the transfer that finds the process value *)
(* where the transfer found it. *)
LEMMA FirstExecution ==
  ASSUME BlockInv, handed.waiting, pid_execute(handed.pv), Allowed(handed.op), pid.tuning.td = 0
  PROVE  pid'.op = handed.op
<1>1. /\ pid.mode = "AUTO" /\ pid.sp = handed.pv /\ pid.op = handed.op /\ pid.integral = handed.op
      /\ handed.pv \in Int
  BY DEF BlockInv
<1>2. ErrorOf(handed.pv) = 0
  <2> DEFINE error == pid.sp - handed.pv
  <2>1. error = 0
    BY <1>1
  <2> QED BY <2>1 DEF ErrorOf
<1> DEFINE pv == handed.pv
           error == ErrorOf(pv)
           i == Integral(error)
           op == Position(error)
<1>3. pid' = [pid EXCEPT !.pv = pv, !.integral = i, !.prev_error = error, !.op = op, !.prev_op = op]
  BY <1>1 DEF pid_execute, ByHand
<1>4. op = handed.op
  BY <1>1, <1>2, ZeroErrorHolds
<1> HIDE DEF pv, i, op, error
<1>5. pid'.op = op
  BY <1>3, PidFields DEF PidRecord
<1> QED BY <1>4, <1>5

LEMMA BlockKept ==
  ASSUME BlockInv, PidNext
  PROVE  BlockInv' /\ table' = table
<1>1. ASSUME NEW tuning \in Tunings, pid_set_tuning(tuning)
      PROVE  BlockInv' /\ table' = table
  <2>1. pid' = [pid EXCEPT !.tuning = tuning] /\ handed' = handed /\ table' = table
    BY <1>1 DEF pid_set_tuning
  <2>2. /\ pid' \in PidRecord /\ pid'.mode = pid.mode /\ pid'.sp = pid.sp /\ pid'.op = pid.op
        /\ pid'.integral = pid.integral
    BY <2>1, PidFields DEF PidRecord
  <2> QED BY <2>1, <2>2 DEF BlockInv
<1>2. ASSUME NEW limits \in OpLimits, pid_set_limits(limits)
      PROVE  BlockInv' /\ table' = table
  <2>1. pid' = [pid EXCEPT !.limits = limits] /\ handed' = handed /\ table' = table
    BY <1>2 DEF pid_set_limits
  <2>2. /\ pid' \in PidRecord /\ pid'.mode = pid.mode /\ pid'.sp = pid.sp /\ pid'.op = pid.op
        /\ pid'.integral = pid.integral
    BY <2>1, PidFields DEF PidRecord
  <2> QED BY <2>1, <2>2 DEF BlockInv
<1>3. ASSUME NEW mode \in PIDMode, pid_set_mode(mode)
      PROVE  BlockInv' /\ table' = table
  <2> DEFINE waiting == mode = "AUTO" /\ pid.mode = "MANUAL"
             pv == pid.pv
             op == pid.op
  <2>1. pid' = InPidMode(mode) /\ handed' = [waiting |-> waiting, op |-> op, pv |-> pv]
        /\ table' = table
    BY <1>3 DEF pid_set_mode
  <2>2. pv \in Int /\ op \in Int /\ waiting \in BOOLEAN
    BY PidFields
  <2>3. waiting => pid' = [pid EXCEPT !.mode = mode, !.sp = pv, !.integral = op]
    BY <2>1 DEF InPidMode
  <2>4. pid' \in PidRecord
    <3>1. CASE waiting
      <4> HIDE DEF pv, op
      <4> QED BY <2>2, <2>3, <3>1, PidFields DEF PidRecord
    <3>2. CASE ~waiting /\ mode = "CASCADE"
      <4>1. pid' = [pid EXCEPT !.mode = mode, !.sp = pid.remote_sp]
        BY <2>1, <3>2 DEF InPidMode
      <4> QED BY <4>1, PidFields DEF PidRecord
    <3>3. CASE ~waiting /\ mode = "INITIALIZE"
      <4>1. pid' = [pid EXCEPT !.mode = mode, !.op = pid.track_op, !.integral = pid.track_op]
        BY <2>1, <3>3 DEF InPidMode
      <4> QED BY <4>1, PidFields DEF PidRecord
    <3>4. CASE ~waiting /\ mode \notin {"CASCADE", "INITIALIZE"}
      <4>1. pid' = [pid EXCEPT !.mode = mode]
        BY <2>1, <3>4 DEF InPidMode
      <4> QED BY <4>1, PidFields DEF PidRecord
    <3> QED BY <3>1, <3>2, <3>3, <3>4
  <2>5. waiting => /\ pid'.mode = "AUTO" /\ pid'.sp = pv /\ pid'.op = op /\ pid'.integral = op
    <3> SUFFICES ASSUME waiting
                 PROVE  /\ pid'.mode = "AUTO" /\ pid'.sp = pv /\ pid'.op = op
                        /\ pid'.integral = op
      OBVIOUS
    <3>1. pid' = [pid EXCEPT !.mode = mode, !.sp = pv, !.integral = op] /\ mode = "AUTO"
      BY <2>3
    <3> QED BY <3>1, PidFields DEF PidRecord
  <2> HIDE DEF waiting, pv, op
  <2> QED BY <2>1, <2>2, <2>4, <2>5 DEF BlockInv
<1>4. ASSUME NEW v \in PVs, pid_execute(v)
      PROVE  BlockInv' /\ table' = table
  <2> DEFINE error == ErrorOf(v)
             i == Integral(error)
             op == Position(error)
  <2>1. /\ pid' = IF pid.mode \in ByHand THEN [pid EXCEPT !.pv = v]
                  ELSE [pid EXCEPT !.pv = v, !.integral = i, !.prev_error = error,
                                   !.op = op, !.prev_op = op]
        /\ handed' = NotHanded /\ table' = table
    BY <1>4 DEF pid_execute
  <2>2. v \in Int
    BY BlockNumbers
  <2>3. error \in Int
    BY <2>2, ErrorIs
  <2> HIDE DEF error
  <2>4. i \in Int /\ op \in Int
    BY <2>3, IntegralIs, PositionIs
  <2> HIDE DEF i, op
  <2>5. pid' \in PidRecord
    <3>1. CASE pid.mode \in ByHand
      <4>1. pid' = [pid EXCEPT !.pv = v]
        BY <2>1, <3>1
      <4> QED BY <2>2, <4>1, PidFields DEF PidRecord
    <3>2. CASE pid.mode \notin ByHand
      <4>1. pid' = [pid EXCEPT !.pv = v, !.integral = i, !.prev_error = error, !.op = op,
                               !.prev_op = op]
        BY <2>1, <3>2
      <4> QED BY <2>2, <2>3, <2>4, <4>1, PidFields DEF PidRecord
    <3> QED BY <3>1, <3>2
  <2> QED BY <2>1, <2>5, NotHandedIs DEF BlockInv
<1>5. ASSUME NEW v \in PVs, pid_execute_velocity(v)
      PROVE  BlockInv' /\ table' = table
  <2> DEFINE kc == pid.tuning.kc
             td == pid.tuning.td
             error == pid.sp - v
             d2e == error - 2 * pid.prev_error + pid.prev2_error
             sum == error - pid.prev_error + error + td * d2e
             delta == Limited(kc * sum)
             op == Within(pid.prev_op + delta, pid.limits)
             prev == pid.prev_error
  <2>1. /\ pid' = [pid EXCEPT !.pv = v, !.prev2_error = prev, !.prev_error = error,
                              !.prev_op = op, !.op = op]
        /\ handed' = NotHanded /\ table' = table
    BY <1>5 DEF pid_execute_velocity
  <2>2. v \in Int /\ prev \in Int
    BY BlockNumbers, PidFields
  <2>3. error \in Int /\ d2e \in Int
    BY <2>2, PidFields
  <2> HIDE DEF error, d2e
  <2>4. kc \in Int /\ td \in Int
    BY PidFields
  <2>5. sum \in Int
    <3>1. td * d2e \in Int
      <4> HIDE DEF td
      <4> QED BY <2>3, <2>4
    <3> DEFINE p == td * d2e
    <3> HIDE DEF p
    <3>2. error - pid.prev_error + error + p \in Int
      BY <2>3, <3>1, PidFields DEF p
    <3> QED BY <3>2 DEF p
  <2> HIDE DEF sum
  <2>6. kc * sum \in Int
    <3> HIDE DEF kc
    <3> QED BY <2>4, <2>5
  <2>7. delta \in Int
    BY <2>6, LimitedIs
  <2> HIDE DEF delta
  <2>8. op \in Int
    BY <2>7, PidFields, WithinIs
  <2> HIDE DEF op, prev
  <2>9. pid' \in PidRecord
    BY <2>1, <2>2, <2>3, <2>8, PidFields DEF PidRecord
  <2> QED BY <2>1, <2>9, NotHandedIs DEF BlockInv
<1>6. ASSUME NEW v \in PVs, SetRemote(v)
      PROVE  BlockInv' /\ table' = table
  <2>1. pid' = [pid EXCEPT !.remote_sp = v] /\ handed' = handed /\ table' = table /\ v \in Int
    BY <1>6, BlockNumbers DEF SetRemote
  <2>2. /\ pid' \in PidRecord /\ pid'.mode = pid.mode /\ pid'.sp = pid.sp /\ pid'.op = pid.op
        /\ pid'.integral = pid.integral
    BY <2>1, PidFields DEF PidRecord
  <2> QED BY <2>1, <2>2 DEF BlockInv
<1>7. ASSUME NEW v \in Ops, pid_bumpless_transfer(v)
      PROVE  BlockInv' /\ table' = table
  <2> DEFINE z == 0
  <2>1. /\ pid' = [pid EXCEPT !.op = v, !.prev_op = v, !.integral = v, !.sp = pid.pv,
                              !.prev_error = z, !.prev2_error = z]
        /\ handed' = NotHanded /\ table' = table
    BY <1>7 DEF pid_bumpless_transfer
  <2>2. v \in Int /\ z \in Int
    BY BlockNumbers
  <2> HIDE DEF z
  <2>3. pid' \in PidRecord
    BY <2>1, <2>2, PidFields DEF PidRecord
  <2> QED BY <2>1, <2>3, NotHandedIs DEF BlockInv
<1>8. ASSUME NEW v \in Ops, SetByHand(v)
      PROVE  BlockInv' /\ table' = table
  <2> DEFINE op == IF pid.mode = "MANUAL" THEN v ELSE pid.op
             track == IF pid.mode = "MANUAL" THEN pid.track_op ELSE v
  <2>1. pid' = [pid EXCEPT !.op = op, !.track_op = track] /\ handed' = handed /\ table' = table
    BY <1>8 DEF SetByHand
  <2>2. op \in Int /\ track \in Int /\ (pid.mode # "MANUAL" => op = pid.op)
    BY BlockNumbers, PidFields
  <2> HIDE DEF op, track
  <2>3. /\ pid' \in PidRecord /\ pid'.mode = pid.mode /\ pid'.sp = pid.sp /\ pid'.op = op
        /\ pid'.integral = pid.integral
    BY <2>1, <2>2, PidFields DEF PidRecord
  <2> QED BY <2>1, <2>2, <2>3 DEF BlockInv
<1> QED BY <1>1, <1>2, <1>3, <1>4, <1>5, <1>6, <1>7, <1>8 DEF PidNext

TableInv ==
  /\ table \in Seq(Points) /\ Len(table) <= MaxPoints
  /\ \A i, j \in DOMAIN table : i < j => table[i].x < table[j].x

LEMMA PointsOfTable ==
  ASSUME TableInv
  PROVE  /\ Len(table) \in Nat /\ DOMAIN table = 1 .. Len(table)
         /\ \A i \in 1 .. Len(table) : table[i] \in Points /\ table[i].x \in Int /\ table[i].y \in Int
         /\ \A i, j \in 1 .. Len(table) : i < j => table[i].x < table[j].x
<1>1. table \in Seq(Points)
  BY DEF TableInv
<1>2. Len(table) \in Nat /\ DOMAIN table = 1 .. Len(table)
  BY <1>1, LenProperties
<1>3. \A i \in 1 .. Len(table) : table[i] \in Points
  BY <1>1, <1>2, ElementOfSeq
<1> QED BY <1>2, <1>3, BlockNumbers DEF TableInv

(* The place that a new point takes: all before it are below, all from it *)
(* on are above. *)
LEMMA PlaceIs ==
  ASSUME TableInv, NEW point \in Points, \A i \in DOMAIN table : table[i].x # point.x
  PROVE  LET p == Cardinality({i \in DOMAIN table : table[i].x < point.x}) + 1
         IN  /\ p \in 1 .. Len(table) + 1
             /\ \A i \in 1 .. Len(table) : IF i < p THEN table[i].x < point.x
                                           ELSE table[i].x > point.x
<1> DEFINE n == Len(table)
           below == {i \in DOMAIN table : table[i].x < point.x}
           T == {i \in 1 .. n + 1 : i = n + 1 \/ table[i].x > point.x}
<1>1. /\ n \in Nat /\ point.x \in Int /\ DOMAIN table = 1 .. n
      /\ \A i \in 1 .. n : table[i].x \in Int /\ table[i].x # point.x
      /\ \A i, j \in 1 .. n : i < j => table[i].x < table[j].x
  BY PointsOfTable, BlockNumbers
<1>2. T \subseteq Nat /\ n + 1 \in T
  <2> HIDE DEF n
  <2> QED BY <1>1
<1>3. PICK p \in T : \A y \in T : p <= y
  <2> HIDE DEF T
  <2> QED BY <1>2, LeastNat
<1> HIDE DEF n
<1>4. p \in 1 .. n + 1 /\ (p = n + 1 \/ table[p].x > point.x)
  BY <1>3
<1>5. \A i \in 1 .. n : i < p => table[i].x < point.x
  <2> SUFFICES ASSUME NEW i \in 1 .. n, i < p PROVE table[i].x < point.x
    OBVIOUS
  <2>1. i \notin T
    BY <1>1, <1>3, <1>4
  <2> QED BY <1>1, <2>1
<1>6. \A i \in 1 .. n : i >= p => table[i].x > point.x
  <2> SUFFICES ASSUME NEW i \in 1 .. n, i >= p PROVE table[i].x > point.x
    OBVIOUS
  <2>1. p \in 1 .. n /\ table[p].x > point.x
    BY <1>1, <1>4
  <2> DEFINE a == table[p].x
             b == table[i].x
             c == point.x
  <2>2. a \in Int /\ b \in Int /\ c \in Int /\ a > c /\ (p < i => a < b) /\ (p = i => a = b)
    BY <1>1, <2>1
  <2> HIDE DEF a, b, c
  <2>3. b > c
    BY <1>1, <2>1, <2>2
  <2> QED BY <2>3 DEF b, c
<1>7. below = 1 .. p - 1
  <2>1. ASSUME NEW i \in 1 .. n PROVE i \in below <=> i < p
    <3> DEFINE b == table[i].x
               c == point.x
    <3>1. b \in Int /\ c \in Int /\ (i < p => b < c) /\ (i >= p => b > c)
      BY <1>1, <1>5, <1>6
    <3>2. b < c <=> i < p
      <4> HIDE DEF b, c
      <4> QED BY <1>1, <1>4, <3>1
    <3> QED BY <1>1, <3>2
  <2>2. below \subseteq 1 .. n
    BY <1>1
  <2> HIDE DEF below
  <2>3. \A i \in below : i \in 1 .. p - 1
    BY <1>1, <1>4, <2>1, <2>2
  <2>4. \A i \in 1 .. p - 1 : i \in below
    BY <1>1, <1>4, <2>1
  <2> QED BY <2>3, <2>4
<1>8. Cardinality(below) = p - 1
  <2>1. 1 \in Int /\ p - 1 \in Int
    BY <1>4, <1>1
  <2>2. Cardinality(1 .. p - 1) = IF 1 > p - 1 THEN 0 ELSE p - 1 - 1 + 1
    BY <2>1, FS_Interval
  <2> HIDE DEF below
  <2> QED BY <1>1, <1>4, <1>7, <2>2
<1>9. Cardinality(below) + 1 = p
  <2> HIDE DEF below
  <2> QED BY <1>1, <1>4, <1>8
<1>10. ASSUME NEW i \in 1 .. n
       PROVE IF i < p THEN table[i].x < point.x ELSE table[i].x > point.x
  BY <1>1, <1>4, <1>5, <1>6
<1> HIDE DEF below
<1> QED BY <1>1, <1>4, <1>9, <1>10 DEF below, n

LEMMA TableKept ==
  ASSUME TableInv, TableNext
  PROVE  TableInv' /\ UNCHANGED <<pid, handed>>
<1>1. PICK point \in Points : signal_char_add_point(point)
  BY DEF TableNext
<1> DEFINE n == Len(table)
           p == Cardinality({i \in DOMAIN table : table[i].x < point.x}) + 1
           new == InsertAt(table, p, point)
<1>2. /\ n < MaxPoints /\ (\A i \in DOMAIN table : table[i].x # point.x)
      /\ table' = new /\ UNCHANGED <<pid, handed>>
  BY <1>1 DEF signal_char_add_point
<1>3. /\ p \in 1 .. n + 1
      /\ \A i \in 1 .. n : IF i < p THEN table[i].x < point.x ELSE table[i].x > point.x
  BY <1>2, PlaceIs
<1>4. /\ new \in Seq(Points) /\ Len(new) = n + 1
      /\ \A i \in 1 .. n + 1 : new[i] = IF i < p THEN table[i]
                                       ELSE IF i = p THEN point ELSE table[i - 1]
  <2> HIDE DEF p
  <2> QED BY <1>3, InsertedIs DEF TableInv
<1>5. n \in Nat /\ MaxPoints \in Nat /\ \A i \in 1 .. n : table[i] \in Points
  BY PointsOfTable, BlockNumbers
<1> HIDE DEF p
<1>6. DOMAIN new = 1 .. n + 1 /\ \A i \in 1 .. n + 1 : new[i] \in Points
  <2> HIDE DEF new, n
  <2> QED BY <1>4, LenProperties, ElementOfSeq
<1>8. ASSUME NEW i \in 1 .. n + 1, NEW j \in 1 .. n + 1, i < j
      PROVE  new[i].x < new[j].x
  <2> DEFINE a == IF i < p THEN i ELSE i - 1
             b == IF j < p THEN j ELSE j - 1
             xi == new[i].x
             xj == new[j].x
             x == point.x
  <2>1. /\ i # p => a \in 1 .. n /\ new[i] = table[a]
        /\ j # p => b \in 1 .. n /\ new[j] = table[b]
        /\ i = p => new[i] = point
        /\ j = p => new[j] = point
    <3> HIDE DEF n
    <3> QED BY <1>3, <1>4, <1>5
  <2>2. xi \in Int /\ xj \in Int /\ x \in Int
    <3> HIDE DEF new
    <3> QED BY <1>6, BlockNumbers
  <2>3. CASE i = p
    <3>1. b \in 1 .. n /\ ~(b < p) /\ new[j] = table[b] /\ new[i] = point
      <4> HIDE DEF n, new
      <4> QED BY <1>3, <1>5, <1>8, <2>1, <2>3
    <3>2. table[b].x > point.x
      BY <1>3, <3>1
    <3>3. xj > x /\ xi = x
      <4> HIDE DEF new, b
      <4> QED BY <3>1, <3>2
    <3> HIDE DEF xi, xj, x
    <3>4. xi < xj
      BY <2>2, <3>3
    <3> QED BY <3>4 DEF xi, xj
  <2>4. CASE j = p
    <3>1. a \in 1 .. n /\ a < p /\ new[i] = table[a] /\ new[j] = point
      <4> HIDE DEF n, new
      <4> QED BY <1>3, <1>5, <1>8, <2>1, <2>4
    <3>2. table[a].x < point.x
      BY <1>3, <3>1
    <3> HIDE DEF new, a
    <3> QED BY <3>1, <3>2
  <2>5. CASE i # p /\ j # p
    <3>1. a \in 1 .. n /\ b \in 1 .. n /\ a < b /\ new[i] = table[a] /\ new[j] = table[b]
      <4> HIDE DEF n, new
      <4> QED BY <1>3, <1>5, <1>8, <2>1, <2>5
    <3>2. table[a].x < table[b].x
      BY <3>1, PointsOfTable
    <3> HIDE DEF new, a, b
    <3> QED BY <3>1, <3>2
  <2> QED BY <2>3, <2>4, <2>5
<1> HIDE DEF new, n
<1>9. n + 1 <= MaxPoints
  BY <1>2, <1>5
<1> QED BY <1>2, <1>4, <1>6, <1>8, <1>9 DEF TableInv

(* The characterizer at one of its points: on the left of the first, on the*)
(* right of the last, or the end of the segment before it. *)
LEMMA TableSuffices ==
  ASSUME TableInv
  PROVE  CharacterizerHits
<1> DEFINE n == Len(table)
<1>1. /\ n \in Nat /\ DOMAIN table = 1 .. n
      /\ \A i \in 1 .. n : table[i].x \in Int /\ table[i].y \in Int
      /\ \A i, j \in 1 .. n : i < j => table[i].x < table[j].x
  BY PointsOfTable
<1>2. ASSUME n > 1, NEW i \in 1 .. n
      PROVE  LET at == signal_char_evaluate(table[i].x) IN at.value = table[i].y * at.width
  <2> DEFINE x == table[i].x
             at == signal_char_evaluate(x)
             K == {k \in 1 .. n - 1 : table[k].x <= x /\ x <= table[k + 1].x}
             m == Min(K)
             dx == table[m + 1].x - table[m].x
             v == table[m].y * dx + (x - table[m].x) * (table[m + 1].y - table[m].y)
  <2>1. at = CASE x <= table[1].x -> [value |-> table[1].y, width |-> 1]
               [] x >= table[n].x -> [value |-> table[n].y, width |-> 1]
               [] OTHER -> [value |-> v, width |-> dx]
    BY DEF signal_char_evaluate
  <2>2. /\ 1 \in 1 .. n /\ n \in 1 .. n
    BY <1>1, <1>2
  <2>3. CASE i = 1
    <3> DEFINE last == table[n].x
    <3>1. x = table[1].x /\ table[1].y \in Int /\ x \in Int /\ last \in Int /\ x < last
      <4> HIDE DEF n
      <4> QED BY <1>1, <1>2, <2>2, <2>3
    <3>2. at = [value |-> table[1].y, width |-> 1]
      <4>1. x <= table[1].x
        <5> HIDE DEF x
        <5> QED BY <3>1
      <4>2. ~(x >= last)
        <5> HIDE DEF x, last
        <5> QED BY <3>1
      <4> HIDE DEF x, v, dx, at
      <4> QED BY <2>1, <4>1, <4>2
    <3>3. at.value = table[1].y /\ at.width = 1
      <4> HIDE DEF at
      <4> QED BY <3>2
    <3>4. table[1].y * 1 = table[1].y
      BY <3>1
    <3> HIDE DEF at
    <3> QED BY <2>3, <3>3, <3>4 DEF at, x
  <2>4. CASE i # 1 /\ i = n
    <3>1. x >= table[n].x /\ table[n].y \in Int /\ table[1].x < x /\ table[1].x \in Int /\ x \in Int
      <4> HIDE DEF n
      <4> QED BY <1>1, <1>2, <2>2, <2>4
    <3>2. ~(x <= table[1].x)
      <4> HIDE DEF x
      <4> QED BY <3>1
    <3>3. at = [value |-> table[n].y, width |-> 1]
      <4> HIDE DEF x, v, dx
      <4> QED BY <2>1, <3>1, <3>2
    <3>4. at.value = table[n].y /\ at.width = 1
      <4> HIDE DEF at
      <4> QED BY <3>3
    <3>5. table[n].y * 1 = table[n].y
      BY <3>1
    <3> HIDE DEF at, n
    <3> QED BY <2>4, <3>4, <3>5 DEF at, x
  <2>5. CASE i # 1 /\ i # n
    <3> DEFINE p == i - 1
    <3>1. p \in 1 .. n - 1 /\ p + 1 = i /\ p \in 1 .. n
      <4> HIDE DEF n
      <4> QED BY <1>1, <1>2, <2>5
    <3> HIDE DEF p
    <3>2. ~(x <= table[1].x) /\ ~(x >= table[n].x) /\ x \in Int
      <4> DEFINE first == table[1].x
                 last == table[n].x
      <4>1. first \in Int /\ last \in Int /\ x \in Int /\ first < x /\ x < last
        <5> HIDE DEF n
        <5> QED BY <1>1, <1>2, <2>2, <2>5
      <4> HIDE DEF first, last, x
      <4>2. ~(x <= first) /\ ~(x >= last)
        BY <4>1
      <4> QED BY <4>1, <4>2 DEF first, last
    <3>3. p \in K
      <4>1. table[p].x < x /\ table[p].x \in Int /\ table[p + 1].x = x
        <5> HIDE DEF n
        <5> QED BY <1>1, <1>2, <3>1
      <4>2. table[p].x <= x /\ x <= table[p + 1].x
        <5> HIDE DEF x
        <5> QED BY <3>2, <4>1
      <4> HIDE DEF x, n
      <4> QED BY <3>1, <4>2
    <3>4. \A k \in K : p <= k
      <4> SUFFICES ASSUME NEW k \in K PROVE p <= k
        OBVIOUS
      <4>1. k \in 1 .. n - 1 /\ x <= table[k + 1].x
        OBVIOUS
      <4> HIDE DEF K
      <4>2. k + 1 \in 1 .. n
        <5> HIDE DEF n
        <5> QED BY <1>1, <4>1
      <4> DEFINE xk == table[k + 1].x
      <4>3. xk \in Int /\ (k + 1 < i => xk < x) /\ x <= xk
        BY <1>1, <4>1, <4>2
      <4> HIDE DEF xk, x, n
      <4> QED BY <1>1, <3>1, <3>2, <4>1, <4>3
    <3>5. K \subseteq Nat /\ K # {}
      <4>1. 1 .. n - 1 \subseteq Nat
        <5> HIDE DEF n
        <5> QED BY <1>1
      <4>2. K \subseteq 1 .. n - 1
        OBVIOUS
      <4> HIDE DEF K
      <4> QED BY <3>3, <4>1, <4>2
    <3> HIDE DEF K
    <3>6. m \in K /\ \A y \in K : m <= y
      BY <3>5, MinOfNats
    <3>7. m = p
      <4> HIDE DEF m
      <4>1. m \in Nat /\ p \in Nat
        BY <3>3, <3>5, <3>6
      <4>2. m <= p /\ p <= m
        BY <3>3, <3>4, <3>6
      <4> QED BY <4>1, <4>2
    <3> HIDE DEF m
    <3> DEFINE x0 == table[p].x
               y0 == table[p].y
               y1 == table[i].y
               d == x - x0
    <3>8. x0 \in Int /\ y0 \in Int /\ y1 \in Int
      BY <1>1, <3>1
    <3>9. dx = d /\ v = y0 * d + d * (y1 - y0)
      BY <3>1, <3>7
    <3>10. d \in Int
      <4> HIDE DEF x, x0
      <4> QED BY <3>2, <3>8
    <3> HIDE DEF d, y0, y1, dx, v
    <3>11. y0 * d + d * (y1 - y0) = y1 * d
      BY <3>8, <3>10
    <3>12. at = [value |-> v, width |-> dx]
      <4> HIDE DEF x
      <4> QED BY <2>1, <3>2
    <3>13. at.value = v /\ at.width = dx
      <4> HIDE DEF at
      <4> QED BY <3>12
    <3> HIDE DEF at
    <3>14. at.value = y1 * at.width
      BY <3>9, <3>11, <3>13
    <3> QED BY <3>14 DEF at, x, y1
  <2> QED BY <2>3, <2>4, <2>5
<1> QED BY <1>1, <1>2 DEF CharacterizerHits, TableInv

LEMMA BlockSuffices ==
  ASSUME BlockInv, TableInv
  PROVE  BlockTypeOK /\ CharacterizerHits
<1>1. /\ pid.mode \in PIDMode /\ pid.tuning \in Tunings /\ pid.limits \in OpLimits
      /\ pid["pv"] \in Int /\ pid["sp"] \in Int /\ pid["remote_sp"] \in Int /\ pid["op"] \in Int
      /\ pid["track_op"] \in Int /\ pid["prev_error"] \in Int /\ pid["prev2_error"] \in Int
      /\ pid["integral"] \in Int /\ pid["prev_op"] \in Int
  BY DEF BlockInv, PidRecord
<1>2. \A field \in {"pv", "sp", "remote_sp", "op", "track_op", "prev_error", "prev2_error",
                    "integral", "prev_op"} : pid[field] \in Int
  BY <1>1
<1> QED BY <1>1, <1>2, TableSuffices DEF BlockTypeOK, BlockInv, TableInv

-----------------------------------------------------------------------------
(* Custom algorithm blocks, their library, and the workbook. *)

(* The sum of a sequence, as the folds of the library compute it from its *)
(* end. *)
SumOf(s) == FoldLeft(LAMBDA a, b : a + b, 0, s)

LEMMA FoldIsSum ==
  ASSUME NEW s \in Seq(Int), NEW g \in Sums(DOMAIN s, s)
  PROVE  SumOf(s) = g[DOMAIN s]
<1> DEFINE S == DOMAIN s
           Eq(h) == h = [t \in SUBSET S |->
                           IF t = {} THEN 0
                           ELSE LET x == Max(t)
                                IN  h[t \ {x}] + s[x]]
           iter == CHOOSE h : Eq(h)
<1>1. SumOf(s) = iter[S]
  BY Zenon DEF SumOf, FoldLeft, MapThenFoldSet
<1>2. S = 1 .. Len(s) /\ Len(s) \in Nat /\ s \in [S -> Int]
  BY LenProperties
<1>3. IsFiniteSet(S)
  <2>1. 1 \in Int /\ Len(s) \in Int
    BY <1>2
  <2> QED BY <1>2, <2>1, FS_Interval
<1> HIDE DEF S
<1>4. /\ g \in [SUBSET S -> Int] /\ g[{}] = 0
      /\ \A t \in SUBSET S : \A x \in t : g[t] = s[x] + g[t \ {x}]
  <2>1. g \in Sums(S, s)
    BY DEF S
  <2>2. AnyOrder(S, s, g)
    BY <1>2, <1>3, <2>1, SumsAnyOrder
  <2>3. {} \in SUBSET S
    OBVIOUS
  <2> QED BY <2>1, <2>2, <2>3 DEF Sums, AnyOrder
<1>5. ASSUME NEW t \in SUBSET S, t # {} PROVE Max(t) \in t
  <2>1. t \subseteq 0 .. Len(s)
    BY <1>2
  <2> QED BY <1>2, <1>5, <2>1, MaxOfSome
<1>6. ASSUME NEW t \in SUBSET S
      PROVE  g[t] = IF t = {} THEN 0 ELSE g[t \ {Max(t)}] + s[Max(t)]
  <2>1. CASE t = {}
    BY <1>4, <2>1
  <2>2. CASE t # {}
    <3> DEFINE x == Max(t)
               r == t \ {x}
    <3>1. x \in t
      BY <1>5, <2>2
    <3> HIDE DEF x
    <3>2. g[t] = s[x] + g[r] /\ r \in SUBSET S /\ x \in S
      BY <1>4, <3>1
    <3>3. s[x] \in Int /\ g[r] \in Int
      BY <1>2, <1>4, <3>2
    <3> HIDE DEF r
    <3>4. g[t] = g[r] + s[x]
      BY <3>2, <3>3
    <3> QED BY <2>2, <3>4 DEF x, r
  <2> QED BY <2>1, <2>2
<1>7. Eq(g)
  <2>1. g = [t \in SUBSET S |-> IF t = {} THEN 0 ELSE g[t \ {Max(t)}] + s[Max(t)]]
    BY <1>4, <1>6
  <2> QED BY <2>1, Zenon
<1>8. Eq(iter)
  BY <1>7, Zenon
<1>9. ASSUME NEW h, Eq(h), NEW t \in SUBSET S
      PROVE  h[t] = IF t = {} THEN 0 ELSE h[t \ {Max(t)}] + s[Max(t)]
  BY <1>9
<1> HIDE DEF iter, Eq
<1> DEFINE T == {t \in SUBSET S : iter[t] = g[t]}
<1>10. {} \in T
  <2>1. {} \in SUBSET S
    OBVIOUS
  <2>2. iter[{}] = 0
    BY <1>8, <1>9, <2>1
  <2> QED BY <1>4, <2>2
<1>11. ASSUME NEW t \in SUBSET S, t # {}, \A x \in t : t \ {x} \in T
       PROVE  t \in T
  <2>1. Max(t) \in t
    BY <1>5, <1>11
  <2>2. iter[t \ {Max(t)}] = g[t \ {Max(t)}]
    BY <1>11, <2>1
  <2>3. iter[t] = iter[t \ {Max(t)}] + s[Max(t)] /\ g[t] = g[t \ {Max(t)}] + s[Max(t)]
    BY <1>6, <1>8, <1>9, <1>11
  <2> QED BY <2>2, <2>3
<1>12. SUBSET S \subseteq T
  <2> HIDE DEF T
  <2> QED BY <1>3, <1>10, <1>11, SubsetInduction
<1>13. S \in SUBSET S
  OBVIOUS
<1>14. S \in T
  <2> HIDE DEF T
  <2> QED BY <1>12, <1>13
<1> QED BY <1>1, <1>14 DEF S

(* The sum of the last elements of a sequence. *)
LEMMA SumOfLast ==
  ASSUME NEW t \in Seq(Int), NEW n \in Nat, n = Len(t), NEW k \in 0 .. n,
         NEW g \in Sums(1 .. n, t)
  PROVE  SumOf(SubSeq(t, k + 1, n)) = g[k + 1 .. n]
<1> DEFINE m == n - k
           e == SubSeq(t, k + 1, n)
<1>1. m \in Nat /\ k \in Nat /\ k + m = n
  OBVIOUS
<1>2. t \in [1 .. n -> Int]
  BY LenProperties
<1>3. /\ e \in Seq(Int) /\ Len(e) = m /\ \A i \in 1 .. m : e[i] = t[k + i]
  <2> DEFINE a == k + 1
  <2>1. a \in Int /\ n \in Int /\ \A i \in a .. n : t[i] \in Int
    BY <1>2
  <2>2. (IF a <= n THEN n - a + 1 ELSE 0) = m /\ n - a + 1 = m
        /\ \A i \in 1 .. m : a + i - 1 = k + i
    BY <1>1
  <2> HIDE DEF a, m
  <2>3. /\ SubSeq(t, a, n) \in Seq(Int)
        /\ Len(SubSeq(t, a, n)) = IF a <= n THEN n - a + 1 ELSE 0
        /\ \A i \in 1 .. n - a + 1 : SubSeq(t, a, n)[i] = t[a + i - 1]
    BY <2>1, SubSeqProperties
  <2> QED BY <2>2, <2>3 DEF a
<1> HIDE DEF m, e
<1>4. DOMAIN e = 1 .. m /\ e \in [1 .. m -> Int]
  BY <1>3, LenProperties
<1>5. IsFiniteSet(1 .. n) /\ IsFiniteSet(1 .. m)
  <2>1. 1 \in Int /\ n \in Int /\ m \in Int
    BY <1>1
  <2> QED BY <2>1, FS_Interval
<1>6. PICK h : h \in Sums(1 .. m, e)
  BY <1>4, <1>5, SumsExist
<1>7. AnyOrder(1 .. n, t, g) /\ AnyOrder(1 .. m, e, h)
  BY <1>2, <1>4, <1>5, <1>6, SumsAnyOrder
<1>8. g[{}] = 0 /\ h[{}] = 0
  <2>1. OfFew(1 .. n, t, g) /\ OfFew(1 .. m, e, h)
    BY <1>2, <1>4, <1>5, <1>6, SumsOfFew
  <2> QED BY <2>1 DEF OfFew
<1> DEFINE T == {j \in 0 .. m : h[1 .. j] = g[k + 1 .. k + j]}
<1>9. 0 \in T
  <2>1. 1 .. 0 = {} /\ k + 1 .. k + 0 = {} /\ 0 \in 0 .. m
    BY <1>1
  <2> QED BY <1>8, <2>1
<1>10. ASSUME NEW j \in 0 .. m - 1, j \in T PROVE j + 1 \in T
  <2> DEFINE a == 1 .. j
             a1 == 1 .. j + 1
             b == k + 1 .. k + j
             b1 == k + 1 .. k + j + 1
             x == j + 1
             y == k + j + 1
  <2>1. /\ a1 \in SUBSET (1 .. m) /\ x \in a1 /\ a1 \ {x} = a
        /\ b1 \in SUBSET (1 .. n) /\ y \in b1 /\ b1 \ {y} = b
        /\ x \in 1 .. m /\ k + x = y
    BY <1>1
  <2>2. h[a] = g[b]
    BY <1>10
  <2>3. k + 1 .. k + (j + 1) = b1
    BY <1>1
  <2>4. e[x] = t[y]
    BY <1>3, <2>1
  <2> HIDE DEF a, a1, b, b1, x, y
  <2>5. h[a1] = e[x] + h[a] /\ g[b1] = t[y] + g[b]
    BY <1>7, <2>1 DEF AnyOrder
  <2>6. h[a1] = g[b1]
    BY <2>2, <2>4, <2>5
  <2>7. j + 1 \in 0 .. m
    BY <1>1
  <2> QED BY <2>3, <2>6, <2>7 DEF a1
<1>11. m \in T
  <2> HIDE DEF T
  <2>1. 0 .. m \subseteq T
    BY <1>1, <1>9, <1>10, SetInduction
  <2> QED BY <1>1, <2>1
<1>12. SumOf(e) = h[1 .. m]
  <2>1. h \in Sums(DOMAIN e, e)
    BY <1>4, <1>6
  <2>2. SumOf(e) = h[DOMAIN e]
    BY <1>3, <2>1, FoldIsSum
  <2> QED BY <1>4, <2>2
<1> QED BY <1>1, <1>11, <1>12 DEF e

LEMMA CabNumbers ==
  /\ CabValues \subseteq Int /\ \A w \in WindowSizes : w \in Nat /\ w > 0
  /\ MaxSamples \in Nat /\ DeadbandWidth \in Nat /\ Hysteresis \in Nat /\ RiseRate \in Nat
  /\ FallRate \in Nat /\ MaxClock \in Nat /\ MaxRows \in Nat
  /\ WorkbookRows \subseteq WorkbookRow
BY CabAssumption

(* The moving average: the buffer holds the last samples from the place of *)
(* the next one backwards, and the sum is theirs. *)
Place(w, x, j) == IF x >= j THEN x - j ELSE x - j + w

AverageRecord ==
  {m \in [window : WindowSizes, buffer : UNION {[0 .. w - 1 -> Int] : w \in WindowSizes},
          index : Nat, sum : Int, count : Nat] :
     /\ m.buffer \in [0 .. m.window - 1 -> Int] /\ m.index \in 0 .. m.window - 1
     /\ m.count \in 0 .. m.window}

AverageInv ==
  /\ ma \in AverageRecord /\ seen \in Seq(Int)
  /\ ma.count = IF Len(seen) < ma.window THEN Len(seen) ELSE ma.window
  /\ \A j \in 1 .. ma.count :
       ma.buffer[Place(ma.window, ma.index, j)] = seen[Len(seen) + 1 - j]
  /\ \A g \in Sums(1 .. Len(seen), seen) :
       ma.sum = g[Len(seen) - ma.count + 1 .. Len(seen)]

LEMMA AverageFields ==
  ASSUME ma \in AverageRecord
  PROVE  /\ ma.window \in Nat /\ ma.window > 0 /\ ma.window \in WindowSizes
         /\ ma.buffer \in [0 .. ma.window - 1 -> Int] /\ ma.index \in 0 .. ma.window - 1
         /\ ma.sum \in Int /\ ma.count \in 0 .. ma.window
         /\ DOMAIN ma.buffer = 0 .. ma.window - 1
<1>1. /\ ma.window \in WindowSizes /\ ma.index \in 0 .. ma.window - 1
      /\ ma.buffer \in [0 .. ma.window - 1 -> Int]
      /\ ma.sum \in Int /\ ma.count \in 0 .. ma.window
  BY DEF AverageRecord
<1>2. ma.window \in Nat /\ ma.window > 0
  BY <1>1, CabNumbers
<1> QED BY <1>1, <1>2

LEMMA PlaceIsNext ==
  ASSUME NEW w \in Nat, w > 0, NEW x \in 0 .. w - 1, NEW j \in 1 .. w
  PROVE  /\ Place(w, x, j) \in 0 .. w - 1
         /\ Place(w, x, j) = x <=> j = w
         /\ Place(w, (x + 1) % w, 1) = x
         /\ j > 1 => Place(w, (x + 1) % w, j) = Place(w, x, j - 1)
<1> DEFINE y == (x + 1) % w
<1>1. y \in 0 .. w - 1 /\ y = IF x + 1 = w THEN 0 ELSE x + 1
  BY RingOrder
<1> HIDE DEF y
<1>2. /\ Place(w, x, j) \in 0 .. w - 1
      /\ Place(w, x, j) = x <=> j = w
      /\ Place(w, y, 1) = x
      /\ j > 1 => Place(w, y, j) = Place(w, x, j - 1)
  BY <1>1 DEF Place
<1> QED BY <1>2 DEF y

(* Of the samples before the last, a sum does not change by another one. *)
LEMMA SumsBefore ==
  ASSUME NEW n \in Nat, NEW s \in Seq(Int), Len(s) = n, NEW e \in Int,
         NEW g \in Sums(1 .. n, s), NEW h \in Sums(1 .. n + 1, Append(s, e)),
         NEW a \in 1 .. n + 1
  PROVE  h[a .. n + 1] = e + g[a .. n]
<1> DEFINE t == Append(s, e)
           A == a .. n
           f == [i \in A |-> s[i]]
<1>1. /\ t \in Seq(Int) /\ Len(t) = n + 1 /\ t[n + 1] = e /\ \A i \in 1 .. n : t[i] = s[i]
  BY AppendProperties
<1>2. s \in [1 .. n -> Int] /\ t \in [1 .. n + 1 -> Int]
  BY <1>1, LenProperties
<1>3. IsFiniteSet(1 .. n) /\ IsFiniteSet(1 .. n + 1) /\ IsFiniteSet(A)
  <2>1. 1 \in Int /\ n \in Int /\ n + 1 \in Int /\ a \in Int
    OBVIOUS
  <2> QED BY <2>1, FS_Interval
<1> HIDE DEF t
<1>4. A \in SUBSET (1 .. n) /\ A \in SUBSET (1 .. n + 1)
  OBVIOUS
<1>5. f \in [A -> Int] /\ (\A i \in A : f[i] = s[i]) /\ (\A i \in A : f[i] = t[i])
  BY <1>1, <1>2, <1>4
<1> HIDE DEF A, f
<1>6. PICK k : k \in Sums(A, f)
  BY <1>3, <1>5, SumsExist
<1>7. h \in Sums(1 .. n + 1, t)
  BY DEF t
<1>8. k[A] = g[A]
  <2> DEFINE S == 1 .. n
  <2>1. /\ IsFiniteSet(S) /\ s \in [S -> Int] /\ g \in Sums(S, s) /\ A \in SUBSET S
        /\ f \in [A -> Int] /\ k \in Sums(A, f) /\ \A x \in A : f[x] = s[x]
    BY <1>2, <1>3, <1>4, <1>5, <1>6
  <2> HIDE DEF S
  <2> QED BY <2>1, SumsOfPart, SMTT(60)
<1>9. k[A] = h[A]
  <2> DEFINE S == 1 .. n + 1
  <2>1. /\ IsFiniteSet(S) /\ t \in [S -> Int] /\ h \in Sums(S, t) /\ A \in SUBSET S
        /\ f \in [A -> Int] /\ k \in Sums(A, f) /\ \A x \in A : f[x] = t[x]
    BY <1>2, <1>3, <1>4, <1>5, <1>6, <1>7
  <2> HIDE DEF S
  <2> QED BY <2>1, SumsOfPart, SMTT(60)
<1>10. AnyOrder(1 .. n + 1, t, h)
  BY <1>2, <1>3, <1>7, SumsAnyOrder
<1> DEFINE B == a .. n + 1
           x == n + 1
<1>11. B \in SUBSET (1 .. n + 1) /\ x \in B /\ B \ {x} = A
  BY DEF A
<1> HIDE DEF B
<1>12. h[B] = t[x] + h[A]
  BY <1>10, <1>11 DEF AnyOrder
<1> QED BY <1>1, <1>8, <1>9, <1>12 DEF A, B

LEMMA AverageStarts == CabInit => AverageInv
<1> SUFFICES ASSUME CabInit PROVE AverageInv
  OBVIOUS
<1> DEFINE z == 0
           none == << >>
<1>1. PICK w \in WindowSizes :
        ma = [window |-> w, buffer |-> [i \in 0 .. w - 1 |-> z], index |-> z, sum |-> z, count |-> z]
  BY DEF CabInit
<1>2. seen = none
  BY DEF CabInit
<1> DEFINE b == [i \in 0 .. w - 1 |-> z]
<1>3. w \in Nat /\ w > 0 /\ z \in Nat /\ z \in 0 .. w - 1 /\ z \in 0 .. w
  BY CabNumbers
<1>4. b \in [0 .. w - 1 -> Int]
  BY <1>3
<1>5. none \in Seq(Int) /\ Len(none) = 0 /\ z = 0
  OBVIOUS
<1> HIDE DEF z, b, none
<1>6. /\ ma.window = w /\ ma.buffer = b /\ ma.index = z /\ ma.sum = z /\ ma.count = z
  BY <1>1 DEF b
<1>7. ma \in AverageRecord
  <2>1. ma = [window |-> w, buffer |-> b, index |-> z, sum |-> z, count |-> z]
    BY <1>1 DEF b
  <2>2. ma \in [window : WindowSizes, buffer : UNION {[0 .. v - 1 -> Int] : v \in WindowSizes},
                index : Nat, sum : Int, count : Nat]
    BY <1>3, <1>4, <2>1
  <2> QED BY <1>3, <1>4, <1>6, <2>2 DEF AverageRecord
<1>8. \A g \in Sums(1 .. 0, seen) : 0 = g[1 .. 0]
  <2> SUFFICES ASSUME NEW g \in Sums(1 .. 0, seen) PROVE 0 = g[1 .. 0]
    OBVIOUS
  <2>1. 1 .. 0 = {} /\ 1 .. 0 \in SUBSET (1 .. 0)
    OBVIOUS
  <2> DEFINE S == 1 .. 0
  <2>2. S = {} /\ S \in SUBSET S
    BY <2>1
  <2> HIDE DEF S
  <2>3. g \in Sums(S, seen) => g[S] = 0
    BY <2>2 DEF Sums
  <2> QED BY <2>3 DEF S
<1>9. ma.count = 0 /\ Len(seen) = 0 /\ 0 - 0 + 1 = 1 /\ 1 .. 0 = {}
  BY <1>2, <1>5, <1>6
<1>10. /\ ma.count = IF Len(seen) < ma.window THEN Len(seen) ELSE ma.window
       /\ \A j \in 1 .. ma.count :
            ma.buffer[Place(ma.window, ma.index, j)] = seen[Len(seen) + 1 - j]
  BY <1>3, <1>6, <1>9
<1>11. \A g \in Sums(1 .. Len(seen), seen) :
         ma.sum = g[Len(seen) - ma.count + 1 .. Len(seen)]
  BY <1>5, <1>6, <1>8, <1>9
<1> QED BY <1>2, <1>5, <1>7, <1>10, <1>11 DEF AverageInv

LEMMA NextSample ==
  ASSUME AverageInv, NEW sample \in CabValues, cab_moving_average_update(sample)
  PROVE  AverageInv'
<1> DEFINE n == Len(seen)
           w == ma.window
           x == ma.index
           c == ma.count
           b == ma.buffer
           full == c >= w
           oldest == IF full THEN b[oldest_idx] ELSE 0
           sum == ma.sum + sample - oldest
           c1 == IF full THEN c ELSE c + 1
           b1 == [b EXCEPT ![x] = sample]
           x1 == (x + 1) % w
           s1 == Append(seen, sample)
<1>1. ma' = [ma EXCEPT !.sum = sum, !.count = c1, !.buffer = b1, !.index = x1] /\ seen' = s1
  BY DEF cab_moving_average_update
<1>2. /\ w \in Nat /\ w > 0 /\ w \in WindowSizes /\ x \in 0 .. w - 1 /\ c \in 0 .. w
      /\ b \in [0 .. w - 1 -> Int] /\ ma.sum \in Int /\ seen \in Seq(Int) /\ n \in Nat
      /\ sample \in Int
  BY AverageFields, CabNumbers, LenProperties DEF AverageInv
<1>3. /\ c = IF n < w THEN n ELSE w
      /\ \A j \in 1 .. c : b[Place(w, x, j)] = seen[n + 1 - j]
      /\ \A g \in Sums(1 .. n, seen) : ma.sum = g[n - c + 1 .. n]
  BY DEF AverageInv
<1>4. /\ s1 \in Seq(Int) /\ Len(s1) = n + 1 /\ s1[n + 1] = sample
      /\ \A i \in 1 .. n : s1[i] = seen[i] /\ seen[i] \in Int
  BY <1>2, AppendProperties, ElementOfSeq, LenProperties
<1>5. full => c = w /\ n >= w /\ oldest_idx = x /\ oldest = seen[n + 1 - w]
  <2> SUFFICES ASSUME full PROVE c = w /\ n >= w /\ oldest_idx = x /\ oldest = seen[n + 1 - w]
    OBVIOUS
  <2>1. c = w /\ n >= w
    <3> HIDE DEF c, w, n
    <3> QED BY <1>2, <1>3
  <2>2. oldest_idx = (x + w - c + w) % w
    BY DEF oldest_idx
  <2>3. (x + w - c + w) % w = x
    <3> DEFINE y == x + w - c + w
    <3>1. y \in Int /\ y = x + w
      <4> HIDE DEF x, w, c
      <4> QED BY <1>2, <2>1
    <3> HIDE DEF y, x, w
    <3>2. y % w = x
      BY <1>2, <3>1, RingIs
    <3> QED BY <3>2 DEF y
  <2>4. w \in 1 .. c /\ Place(w, x, w) = x
    <3> HIDE DEF w, x, c
    <3> QED BY <1>2, <2>1 DEF Place
  <2>5. b[x] = seen[n + 1 - w]
    <3> HIDE DEF b, n, w, x, c
    <3> QED BY <1>3, <2>4
  <2> QED BY <2>1, <2>2, <2>3, <2>5
<1>6. oldest \in Int
  <2>1. full => n + 1 - w \in 1 .. n
    <3> HIDE DEF full, n, w
    <3> QED BY <1>2, <1>5
  <2>2. full => seen[n + 1 - w] \in Int
    BY <1>4, <2>1
  <2> QED BY <1>5, <2>2
<1> HIDE DEF oldest
<1>7. sum \in Int /\ c1 \in 0 .. w /\ b1 \in [0 .. w - 1 -> Int] /\ x1 \in 0 .. w - 1
      /\ c1 = IF n + 1 < w THEN n + 1 ELSE w
  <2>1. x1 \in 0 .. w - 1
    <3> HIDE DEF w, x
    <3> QED BY <1>2, RingOrder
  <2> HIDE DEF n, w, x, c, b, x1
  <2> QED BY <1>2, <1>3, <1>6, <2>1
<1> HIDE DEF sum, c1, b1, x1, full
<1>8. /\ ma' \in AverageRecord /\ ma'.window = w /\ ma'.buffer = b1 /\ ma'.index = x1
      /\ ma'.sum = sum /\ ma'.count = c1
  <2>1. /\ ma' \in [window : WindowSizes, buffer : UNION {[0 .. v - 1 -> Int] : v \in WindowSizes},
                    index : Nat, sum : Int, count : Nat]
        /\ ma'.window = w /\ ma'.buffer = b1 /\ ma'.index = x1 /\ ma'.sum = sum /\ ma'.count = c1
    <3>1. x1 \in Nat /\ c1 \in Nat
      <4> HIDE DEF w
      <4> QED BY <1>2, <1>7
    <3>2. b1 \in UNION {[0 .. v - 1 -> Int] : v \in WindowSizes}
      BY <1>2, <1>7
    <3>3. ma \in [window : WindowSizes, buffer : UNION {[0 .. v - 1 -> Int] : v \in WindowSizes},
                  index : Nat, sum : Int, count : Nat]
      BY DEF AverageInv, AverageRecord
    <3> DEFINE B == UNION {[0 .. v - 1 -> Int] : v \in WindowSizes}
    <3> HIDE DEF B
    <3>4. ma \in [window : WindowSizes, buffer : B, index : Nat, sum : Int, count : Nat] /\ b1 \in B
      BY <3>2, <3>3 DEF B
    <3>5. /\ ma' \in [window : WindowSizes, buffer : B, index : Nat, sum : Int, count : Nat]
          /\ ma'.window = ma.window /\ ma'.buffer = b1 /\ ma'.index = x1 /\ ma'.sum = sum
          /\ ma'.count = c1
      BY <1>1, <1>7, <3>1, <3>4
    <3> QED BY <3>5 DEF B
  <2> HIDE DEF w
  <2> QED BY <1>7, <2>1 DEF AverageRecord
<1>9. ASSUME NEW j \in 1 .. c1 PROVE b1[Place(w, x1, j)] = s1[n + 1 + 1 - j]
  <2>1. j \in 1 .. w /\ j \in Nat /\ c1 - 1 <= c
    <3> HIDE DEF w, n, c
    <3> QED BY <1>2, <1>3, <1>7
  <2>2. CASE j = 1
    <3>1. Place(w, x1, 1) = x
      <4> HIDE DEF w, x
      <4> QED BY <1>2, <2>1, PlaceIsNext DEF x1
    <3>2. b1[x] = sample
      <4> HIDE DEF b, x, w
      <4> QED BY <1>2 DEF b1
    <3>3. n + 1 + 1 - 1 = n + 1
      <4> HIDE DEF n
      <4> QED BY <1>2
    <3> HIDE DEF n, s1, w, x, b1, x1
    <3>4. b1[Place(w, x1, j)] = sample
      BY <2>2, <3>1, <3>2
    <3>5. s1[n + 1 + 1 - j] = sample
      BY <1>4, <2>2, <3>3
    <3> QED BY <3>4, <3>5
  <2>3. CASE j > 1
    <3> DEFINE i == j - 1
    <3>1. i \in 1 .. c /\ i \in 1 .. w /\ i # w /\ n + 1 + 1 - j = n + 1 - i /\ n + 1 - i \in 1 .. n
      <4> HIDE DEF w, n, c
      <4> QED BY <1>2, <1>3, <1>7, <2>1, <2>3
    <3>2. /\ Place(w, x1, j) = Place(w, x, i) /\ Place(w, x, i) \in 0 .. w - 1
          /\ Place(w, x, i) # x
      <4>1. w \in Nat /\ w > 0 /\ x \in 0 .. w - 1 /\ i = j - 1 /\ x1 = (x + 1) % w
        BY <1>2 DEF x1
      <4> HIDE DEF w, x, x1, i
      <4>2. j > 1 => Place(w, (x + 1) % w, j) = Place(w, x, j - 1)
        BY <2>1, <4>1, PlaceIsNext, Zenon
      <4>3. Place(w, x, i) \in 0 .. w - 1 /\ (Place(w, x, i) = x <=> i = w)
        BY <3>1, <4>1, PlaceIsNext, Zenon
      <4> QED BY <2>3, <3>1, <4>1, <4>2, <4>3
    <3> DEFINE p == Place(w, x, i)
    <3>3. b1[p] = b[p]
      <4>1. p \in 0 .. w - 1 /\ p # x
        BY <3>2
      <4> HIDE DEF b, x, w, p
      <4> QED BY <1>2, <4>1 DEF b1
    <3>4. b[p] = seen[n + 1 - i]
      <4> HIDE DEF i, w, x, n, c, b
      <4> QED BY <1>3, <3>1
    <3>5. s1[n + 1 - i] = seen[n + 1 - i]
      <4> HIDE DEF s1, n
      <4> QED BY <1>4, <3>1
    <3> HIDE DEF s1, n, w, x, b, i
    <3> QED BY <3>1, <3>2, <3>3, <3>4, <3>5
  <2>4. j = 1 \/ j > 1
    <3> HIDE DEF w
    <3> QED BY <2>1
  <2> HIDE DEF n, w, x, c, b, b1, x1, s1
  <2> QED BY <2>2, <2>3, <2>4
<1>10. ASSUME NEW h \in Sums(1 .. n + 1, s1) PROVE sum = h[n + 1 - c1 + 1 .. n + 1]
  <2>1. IsFiniteSet(1 .. n) /\ seen \in [1 .. n -> Int]
    <3>1. 1 \in Int /\ n \in Int
      BY <1>2
    <3> QED BY <1>2, <3>1, FS_Interval, LenProperties
  <2>2. PICK g : g \in Sums(1 .. n, seen)
    <3> HIDE DEF n
    <3> QED BY <2>1, SumsExist
  <2>3. ma.sum = g[n - c + 1 .. n]
    BY <1>3, <2>2
  <2> DEFINE a == n + 1 - c1 + 1
  <2>4. a \in 1 .. n + 1
    <3> HIDE DEF n, w
    <3> QED BY <1>2, <1>7
  <2>5. h[a .. n + 1] = sample + g[a .. n]
    <3> HIDE DEF a
    <3>1. /\ n \in Nat /\ seen \in Seq(Int) /\ Len(seen) = n /\ sample \in Int
          /\ g \in Sums(1 .. n, seen) /\ h \in Sums(1 .. n + 1, Append(seen, sample))
          /\ a \in 1 .. n + 1
      BY <1>2, <2>2, <2>4
    <3> HIDE DEF n, s1, w, x, c, b
    <3> QED BY <3>1, SumsBefore
  <2>6. g[a .. n] = ma.sum - oldest
    <3>1. CASE ~full
      <4>1. a = n - c + 1 /\ oldest = 0
        <5>1. c1 = c + 1
          BY <3>1 DEF c1
        <5>2. a = n - c + 1
          <6> HIDE DEF c, n
          <6> QED BY <1>2, <5>1
        <5> QED BY <3>1, <5>2 DEF oldest
      <4> HIDE DEF a
      <4> QED BY <1>2, <2>3, <4>1
    <3>2. CASE full
      <4> DEFINE k == n + 1 - w
                 A == k .. n
                 B == k + 1 .. n
      <4>1. /\ a = k + 1 /\ k \in 1 .. n /\ n - c + 1 = k /\ oldest = seen[k] /\ seen[k] \in Int
        <5>1. c1 = c /\ c = w /\ n >= w /\ oldest = seen[n + 1 - w]
          BY <1>5, <3>2 DEF c1
        <5>2. a = k + 1 /\ k \in 1 .. n /\ n - c + 1 = k
          <6> HIDE DEF c, n, w
          <6> QED BY <1>2, <5>1
        <5> HIDE DEF n, w
        <5>3. seen[k] \in Int
          BY <1>4, <5>2
        <5> QED BY <5>1, <5>2, <5>3
      <4> HIDE DEF k
      <4>2. /\ A \in SUBSET (1 .. n) /\ B \in SUBSET (1 .. n) /\ k \in A /\ A \ {k} = B
        <5> HIDE DEF n
        <5> QED BY <1>2, <4>1
      <4>3. AnyOrder(1 .. n, seen, g) /\ g \in [SUBSET (1 .. n) -> Int]
        <5> HIDE DEF n
        <5> QED BY <2>1, <2>2, SumsAnyOrder DEF Sums
      <4>4. ma.sum = g[A] /\ g[a .. n] = g[B]
        BY <2>3, <4>1
      <4> HIDE DEF A, B
      <4>5. g[A] = seen[k] + g[B] /\ g[B] \in Int
        <5> HIDE DEF n
        <5> QED BY <4>2, <4>3 DEF AnyOrder
      <4> DEFINE u == g[A]
                 v == g[B]
                 y == seen[k]
      <4>6. u = y + v /\ v \in Int /\ y \in Int /\ ma.sum = u /\ oldest = y
        BY <4>1, <4>4, <4>5
      <4> HIDE DEF u, v, y
      <4>7. v = ma.sum - oldest
        BY <4>6
      <4> QED BY <4>4, <4>7 DEF v
    <3> QED BY <3>1, <3>2
  <2> DEFINE r == g[a .. n]
             q == h[a .. n + 1]
  <2>7. q = sample + r /\ r = ma.sum - oldest /\ sum = ma.sum + sample - oldest
    BY <2>5, <2>6 DEF sum
  <2> HIDE DEF r, q, a
  <2>8. q = sum
    BY <1>2, <1>6, <2>7
  <2> QED BY <2>8 DEF q, a
<1>11. Len(seen') = n + 1
  BY <1>1, <1>4
<1> HIDE DEF n, w, x, c, b, s1
<1>12. /\ ma'.count = IF Len(seen') < ma'.window THEN Len(seen') ELSE ma'.window
       /\ seen' \in Seq(Int)
  BY <1>1, <1>4, <1>7, <1>8, <1>11
<1>13. \A j \in 1 .. ma'.count :
         ma'.buffer[Place(ma'.window, ma'.index, j)] = seen'[Len(seen') + 1 - j]
  BY <1>1, <1>8, <1>9, <1>11
<1>14. \A h \in Sums(1 .. Len(seen'), seen') :
         ma'.sum = h[Len(seen') - ma'.count + 1 .. Len(seen')]
  <2> SUFFICES ASSUME NEW h \in Sums(1 .. Len(seen'), seen')
               PROVE  ma'.sum = h[Len(seen') - ma'.count + 1 .. Len(seen')]
    OBVIOUS
  <2>1. h \in Sums(1 .. n + 1, s1)
    BY <1>1, <1>11, Zenon
  <2>2. sum = h[n + 1 - c1 + 1 .. n + 1]
    BY <1>10, <2>1
  <2>3. ma'.sum = sum /\ ma'.count = c1 /\ Len(seen') = n + 1
    BY <1>8, <1>11
  <2>4. Len(seen') - ma'.count + 1 = n + 1 - c1 + 1
    BY <1>2, <1>7, <2>3
  <2>5. h[Len(seen') - ma'.count + 1 .. Len(seen')] = h[n + 1 - c1 + 1 .. n + 1]
    BY <2>3, <2>4, Zenon
  <2> QED BY <2>2, <2>3, <2>5, Zenon
<1> QED BY <1>8, <1>12, <1>13, <1>14 DEF AverageInv

LEMMA EmptySum ==
  ASSUME NEW f, NEW g \in Sums(1 .. 0, f)
  PROVE  g[1 .. 0] = 0
<1> DEFINE S == 1 .. 0
<1>1. S = {} /\ S \in SUBSET S /\ g \in Sums(S, f)
  OBVIOUS
<1> HIDE DEF S
<1>2. g[S] = 0
  BY <1>1 DEF Sums
<1> QED BY <1>2 DEF S

LEMMA AverageKept ==
  ASSUME AverageInv, AverageNext
  PROVE  AverageInv'
<1>1. CASE cab_moving_average_reset
  <2> DEFINE z == 0
             none == << >>
             w == ma.window
             b == [i \in DOMAIN ma.buffer |-> z]
  <2>1. ma' = [ma EXCEPT !.buffer = b, !.index = z, !.sum = z, !.count = z] /\ seen' = none
    BY <1>1 DEF cab_moving_average_reset
  <2>2. w \in Nat /\ w > 0 /\ w \in WindowSizes /\ DOMAIN ma.buffer = 0 .. w - 1
    BY AverageFields DEF AverageInv
  <2>3. z = 0 /\ none \in Seq(Int) /\ Len(none) = 0 /\ z \in Nat /\ z \in Int
    OBVIOUS
  <2> HIDE DEF z, none
  <2>4. b \in [0 .. w - 1 -> Int] /\ z \in 0 .. w - 1 /\ z \in 0 .. w
    <3>1. b = [i \in 0 .. w - 1 |-> z]
      BY <2>2
    <3> HIDE DEF b, w
    <3> QED BY <2>2, <2>3, <3>1
  <2> HIDE DEF b
  <2>5. /\ ma' \in AverageRecord /\ ma'.window = w /\ ma'.sum = 0 /\ ma'.count = 0
    <3> DEFINE B == UNION {[0 .. v - 1 -> Int] : v \in WindowSizes}
    <3>1. ma \in [window : WindowSizes, buffer : B, index : Nat, sum : Int, count : Nat]
      BY DEF AverageInv, AverageRecord
    <3>2. b \in B
      BY <2>2, <2>4
    <3> HIDE DEF B
    <3>3. /\ ma' \in [window : WindowSizes, buffer : B, index : Nat, sum : Int, count : Nat]
          /\ ma'.window = ma.window /\ ma'.buffer = b /\ ma'.index = z /\ ma'.sum = z
          /\ ma'.count = z
      BY <2>1, <2>3, <3>1, <3>2
    <3> HIDE DEF w
    <3>4. ma'.window = w
      BY <3>3 DEF w
    <3> QED BY <2>3, <2>4, <3>3, <3>4 DEF AverageRecord, B
  <2>6. Len(seen') = 0 /\ seen' \in Seq(Int) /\ 0 - 0 + 1 = 1
    BY <2>1, <2>3
  <2>7. \A g \in Sums(1 .. Len(seen'), seen') :
          ma'.sum = g[Len(seen') - ma'.count + 1 .. Len(seen')]
    <3> SUFFICES ASSUME NEW g \in Sums(1 .. Len(seen'), seen')
                 PROVE  ma'.sum = g[Len(seen') - ma'.count + 1 .. Len(seen')]
      OBVIOUS
    <3>1. g \in Sums(1 .. 0, seen')
      BY <2>6, Zenon
    <3>2. g[1 .. 0] = 0
      BY <3>1, EmptySum
    <3>3. Len(seen') - ma'.count + 1 = 1
      BY <2>5, <2>6
    <3> QED BY <2>5, <2>6, <3>2, <3>3, Zenon
  <2>8. /\ ma'.count = IF Len(seen') < ma'.window THEN Len(seen') ELSE ma'.window
        /\ 1 .. ma'.count = {}
    <3> HIDE DEF w
    <3> QED BY <2>2, <2>5, <2>6
  <2> QED BY <2>5, <2>6, <2>7, <2>8 DEF AverageInv
<1> QED BY <1>1, NextSample DEF AverageNext

LEMMA AverageSuffices ==
  ASSUME AverageInv
  PROVE  AverageIsExact
<1> DEFINE n == Len(seen)
           w == ma.window
           c == ma.count
           s == SubSeq(seen, n - c + 1, n)
<1>1. /\ w \in Nat /\ w > 0 /\ seen \in Seq(Int) /\ n \in Nat /\ seen \in [1 .. n -> Int]
      /\ c = IF n < w THEN n ELSE w
  BY AverageFields, LenProperties DEF AverageInv
<1>2. c = Min({n, w})
  <2> HIDE DEF n, w, c
  <2>1. n \in Int /\ w \in Int
    BY <1>1
  <2>2. Min({n, w}) = IF n <= w THEN n ELSE w
    BY <2>1, MinOfTwo
  <2> QED BY <1>1, <2>2
<1> DEFINE k == n - c
<1>3. k \in 0 .. n /\ n - c + 1 = k + 1
  <2> HIDE DEF n, w, c
  <2> QED BY <1>1
<1>4. IsFiniteSet(1 .. n)
  <2>1. 1 \in Int /\ n \in Int
    BY <1>1
  <2> QED BY <2>1, FS_Interval
<1>5. PICK g : g \in Sums(1 .. n, seen)
  <2> HIDE DEF n
  <2> QED BY <1>1, <1>4, SumsExist
<1>6. ma.sum = g[n - c + 1 .. n]
  BY <1>5 DEF AverageInv
<1>7. SumOf(SubSeq(seen, k + 1, n)) = g[k + 1 .. n]
  <2>1. seen \in Seq(Int) /\ n \in Nat /\ n = Len(seen) /\ k \in 0 .. n /\ g \in Sums(1 .. n, seen)
    BY <1>1, <1>3, <1>5
  <2> HIDE DEF n, k, w, c
  <2> QED BY <2>1, SumOfLast
<1>8. ma.sum = SumOf(s)
  BY <1>3, <1>6, <1>7
<1> QED BY <1>2, <1>8, Zenon DEF AverageIsExact, SumOf

(* The deadband: one way after the other. *)
BandInv == band \in [last_output : Int, rising : BOOLEAN]

LEMMA BandStarts == CabInit => BandInv
<1> SUFFICES ASSUME CabInit PROVE BandInv
  OBVIOUS
<1> DEFINE z == 0
<1>1. band = [last_output |-> z, rising |-> TRUE]
  BY DEF CabInit
<1>2. z \in Int
  OBVIOUS
<1> HIDE DEF z
<1> QED BY <1>1, <1>2 DEF BandInv

BandOrder ==
  band'.last_output # band.last_output =>
    /\ (band'.last_output > band.last_output) = band.rising
    /\ band'.last_output - band.last_output \notin -DeadbandWidth .. DeadbandWidth

LEMMA BandKept ==
  ASSUME BandInv, BandNext
  PROVE  BandInv' /\ BandOrder
<1>1. PICK input \in CabValues : cab_deadband_update(input)
  BY DEF BandNext
<1> DEFINE last == band.last_output
           rising == band.rising
           diff == input - last
           passes == IF rising THEN diff > DeadbandWidth + Hysteresis ELSE diff < -DeadbandWidth
           up == ~rising
<1>2. band' = IF passes THEN [last_output |-> input, rising |-> up] ELSE band
  BY <1>1 DEF cab_deadband_update
<1>3. last \in Int /\ rising \in BOOLEAN /\ input \in Int /\ DeadbandWidth \in Nat
      /\ Hysteresis \in Nat /\ up \in BOOLEAN
  BY CabNumbers DEF BandInv
<1> HIDE DEF last, rising, up
<1>4. CASE passes
  <2>1. band' = [last_output |-> input, rising |-> up]
    BY <1>2, <1>4
  <2>2. BandInv' /\ band'.last_output = input
    BY <1>3, <2>1 DEF BandInv
  <2> DEFINE higher == input > last
             far == input - last \notin -DeadbandWidth .. DeadbandWidth
  <2>3. higher = rising /\ far
    <3>3. higher \in BOOLEAN
      OBVIOUS
    <3>1. CASE rising
      <4>1. higher /\ far
        BY <1>3, <1>4, <3>1
      <4> HIDE DEF higher, far
      <4> QED BY <3>1, <4>1
    <3>2. CASE ~rising
      <4>1. ~higher /\ far
        BY <1>3, <1>4, <3>2
      <4> HIDE DEF higher, far
      <4> QED BY <1>3, <3>2, <3>3, <4>1
    <3> QED BY <3>1, <3>2
  <2>4. (band'.last_output > band.last_output) = higher
    BY <2>2 DEF last
  <2>5. band.rising = rising
    BY DEF rising
  <2>6. band'.last_output - band.last_output \notin -DeadbandWidth .. DeadbandWidth
    BY <2>2, <2>3 DEF last
  <2> HIDE DEF higher
  <2> QED BY <2>2, <2>3, <2>4, <2>5, <2>6 DEF BandOrder
<1>5. CASE ~passes
  BY <1>2, <1>5 DEF BandInv, BandOrder
<1> QED BY <1>4, <1>5

(* The rate limiter. *)
RateInv ==
  /\ rate \in [last_output : Int, last_time : Nat, now : Nat, initialized : BOOLEAN]

LEMMA RateStarts == CabInit => RateInv
<1> SUFFICES ASSUME CabInit PROVE RateInv
  OBVIOUS
<1> DEFINE z == 0
<1>1. rate = [last_output |-> z, last_time |-> z, now |-> z, initialized |-> FALSE]
  BY DEF CabInit
<1>2. z \in Nat /\ z \in Int
  OBVIOUS
<1> HIDE DEF z
<1> QED BY <1>1, <1>2 DEF RateInv

RateOrder ==
  rate.initialized =>
    LET dt == rate'.last_time - rate.last_time IN
    rate'.last_output - rate.last_output \in -(FallRate * dt) .. RiseRate * dt

LEMMA RateKept ==
  ASSUME RateInv, RateNext
  PROVE  RateInv' /\ RateOrder
<1>1. PICK target \in CabValues, now \in 0 .. MaxClock : cab_rate_limiter_update(target, now)
  BY DEF RateNext
<1> DEFINE last == rate.last_output
           before == rate.last_time
           dt     == now - before
           change == target - last
           rise == RiseRate * dt
           fall == FallRate * dt
           limit  == IF change >= 0 THEN rise ELSE fall
           size   == IF change >= 0 THEN change ELSE -change
           output == IF size <= limit THEN target
                     ELSE IF change >= 0 THEN last + limit ELSE last - limit
<1>2. rate' = IF ~rate.initialized
              THEN [last_output |-> target, last_time |-> now, now |-> now, initialized |-> TRUE]
              ELSE IF dt <= 0 THEN [rate EXCEPT !.now = now]
              ELSE [rate EXCEPT !.last_output = output, !.last_time = now, !.now = now]
  BY <1>1 DEF cab_rate_limiter_update
<1>3. /\ last \in Int /\ before \in Nat /\ now \in Nat /\ target \in Int
      /\ RiseRate \in Nat /\ FallRate \in Nat
      /\ rate \in [last_output : Int, last_time : Nat, now : Nat, initialized : BOOLEAN]
  BY CabNumbers DEF RateInv
<1>4. CASE ~rate.initialized
  <2>1. rate' = [last_output |-> target, last_time |-> now, now |-> now, initialized |-> TRUE]
    <3> HIDE DEF dt, output
    <3> QED BY <1>2, <1>4
  <2> QED BY <1>3, <1>4, <2>1 DEF RateInv, RateOrder
<1>5. CASE rate.initialized /\ dt <= 0
  <2>1. rate' = [rate EXCEPT !.now = now]
    <3> HIDE DEF dt, output
    <3> QED BY <1>2, <1>5
  <2>2. rate' \in [last_output : Int, last_time : Nat, now : Nat, initialized : BOOLEAN]
        /\ rate'.last_output = last /\ rate'.last_time = before
    BY <1>3, <2>1
  <2> HIDE DEF last, before
  <2>3. last - last = 0 /\ before - before = 0 /\ 0 \in -(FallRate * 0) .. RiseRate * 0
    BY <1>3
  <2>4. rate'.last_output - rate.last_output = 0 /\ rate'.last_time - rate.last_time = 0
    BY <2>2, <2>3 DEF last, before
  <2> QED BY <2>2, <2>3, <2>4 DEF RateInv, RateOrder
<1>6. CASE rate.initialized /\ ~(dt <= 0)
  <2>1. rate' = [rate EXCEPT !.last_output = output, !.last_time = now, !.now = now]
    <3> HIDE DEF dt, output
    <3> QED BY <1>2, <1>6
  <2>2. dt \in Nat
    BY <1>3, <1>6
  <2> HIDE DEF dt
  <2>3. rise \in Nat /\ fall \in Nat
    BY <1>3, <2>2
  <2> HIDE DEF rise, fall, last
  <2>4. output \in Int /\ output - last \in -fall .. rise
    BY <1>3, <2>3
  <2> HIDE DEF output
  <2>5. rate' \in [last_output : Int, last_time : Nat, now : Nat, initialized : BOOLEAN]
        /\ rate'.last_output = output /\ rate'.last_time = now
    BY <1>3, <2>1, <2>4
  <2>6. rate'.last_output - rate.last_output \in -fall .. rise /\ rate'.last_time - rate.last_time = dt
    BY <2>4, <2>5 DEF last, before, dt
  <2> QED BY <2>5, <2>6 DEF RateInv, RateOrder, rise, fall
<1> QED BY <1>4, <1>5, <1>6

(* The block. *)
Terminal == CabValues \cup {0}

CabInv ==
  cab \in [state : CABState, inputs : Seq(Terminal), outputs : Seq(Terminal), runs : Nat]

LEMMA CabStarts == CabInit => CabInv
<1> SUFFICES ASSUME CabInit PROVE CabInv
  OBVIOUS
<1> DEFINE z == 0
           none == << >>
<1>1. cab = [state |-> "IDLE", inputs |-> none, outputs |-> none, runs |-> z]
  BY DEF CabInit
<1>2. none \in Seq(Terminal) /\ z \in Nat /\ "IDLE" \in CABState
  BY DEF CABState
<1> HIDE DEF none, z
<1> QED BY <1>1, <1>2 DEF CabInv

LEMMA CabKept ==
  ASSUME CabInv, CabNext
  PROVE  CabInv'
<1>1. /\ cab.inputs \in Seq(Terminal) /\ cab.outputs \in Seq(Terminal) /\ cab.runs \in Nat
      /\ cab \in [state : CABState, inputs : Seq(Terminal), outputs : Seq(Terminal), runs : Nat]
      /\ 0 \in Terminal
  BY DEF CabInv, Terminal
<1>2. CASE cab_add_input
  <2> DEFINE z == 0
             new == Append(cab.inputs, z)
  <2>1. cab' = [cab EXCEPT !.inputs = new] /\ z \in Terminal
    BY <1>1, <1>2 DEF cab_add_input
  <2> HIDE DEF z
  <2>2. new \in Seq(Terminal)
    BY <1>1, <2>1, AppendProperties
  <2> HIDE DEF new
  <2> QED BY <1>1, <2>1, <2>2 DEF CabInv
<1>3. CASE cab_add_output
  <2> DEFINE z == 0
             new == Append(cab.outputs, z)
  <2>1. cab' = [cab EXCEPT !.outputs = new] /\ z \in Terminal
    BY <1>1, <1>3 DEF cab_add_output
  <2> HIDE DEF z
  <2>2. new \in Seq(Terminal)
    BY <1>1, <2>1, AppendProperties
  <2> HIDE DEF new
  <2> QED BY <1>1, <2>1, <2>2 DEF CabInv
<1>4. CASE cab_execute
  <2> DEFINE n == Len(cab.outputs)
             runs == IF cab.runs < 2 THEN cab.runs + 1 ELSE cab.runs
             new == [i \in DOMAIN cab.outputs |-> IF i \in DOMAIN cab.inputs
                                                  THEN cab.inputs[i] ELSE cab.outputs[i]]
  <2>1. cab' = [cab EXCEPT !.runs = runs, !.outputs = new]
    BY <1>4 DEF cab_execute
  <2>2. runs \in Nat
    BY <1>1
  <2>3. DOMAIN cab.outputs = 1 .. n /\ n \in Nat
    BY <1>1, LenProperties
  <2>4. ASSUME NEW i \in 1 .. n PROVE new[i] \in Terminal
    <3>1. i \in DOMAIN cab.inputs => cab.inputs[i] \in Terminal
      BY <1>1, ElementOfSeq
    <3>2. cab.outputs[i] \in Terminal
      BY <1>1, <2>3, ElementOfSeq
    <3> HIDE DEF n
    <3> QED BY <2>3, <3>1, <3>2
  <2>5. new = [i \in 1 .. n |-> new[i]]
    BY <2>3
  <2> HIDE DEF new, n, runs
  <2>6. new \in [1 .. n -> Terminal]
    BY <2>4, <2>5
  <2>7. new \in Seq(Terminal)
    BY <2>3, <2>6, SeqDef
  <2> QED BY <1>1, <2>1, <2>2, <2>7 DEF CabInv
<1>5. ASSUME NEW i \in 1 .. Terminals, NEW value \in CabValues, DriveInput(i, value)
      PROVE  CabInv'
  <2> DEFINE new == [cab.inputs EXCEPT ![i] = value]
  <2>1. cab' = [cab EXCEPT !.inputs = new] /\ value \in Terminal /\ i \in DOMAIN cab.inputs
    BY <1>5 DEF DriveInput, Terminal
  <2>2. new \in Seq(Terminal)
    BY <1>1, <2>1, ExceptSeq
  <2> HIDE DEF new
  <2> QED BY <1>1, <2>1, <2>2 DEF CabInv
<1>6. ASSUME NEW state \in CABState, cab_set_state(state)
      PROVE  CabInv'
  <2>1. cab' = [cab EXCEPT !.state = state]
    BY <1>6 DEF cab_set_state
  <2> QED BY <1>1, <2>1 DEF CabInv
<1> QED BY <1>2, <1>3, <1>4, <1>5, <1>6 DEF CabNext

(* The workbook. *)
BookRecord ==
  [rows : Seq(WorkbookRow), controllers : SUBSET Controllers, ready : BOOLEAN, touched : BOOLEAN]

BookInv ==
  /\ book \in BookRecord /\ Len(book.rows) <= MaxRows
  /\ book.ready /\ ~book.touched => \A i \in DOMAIN book.rows : ~HasError(book.rows, i)

LEMMA BookStarts == CabInit => BookInv
<1> SUFFICES ASSUME CabInit PROVE BookInv
  OBVIOUS
<1> DEFINE none == << >>
           nobody == {}
<1>1. book = [rows |-> none, controllers |-> nobody, ready |-> FALSE, touched |-> TRUE]
  BY DEF CabInit
<1>2. none \in Seq(WorkbookRow) /\ nobody \in SUBSET Controllers /\ Len(none) <= MaxRows
  BY CabNumbers
<1> HIDE DEF none, nobody
<1>3. book \in BookRecord /\ book.rows = none /\ book.ready = FALSE
  BY <1>1, <1>2 DEF BookRecord
<1> QED BY <1>2, <1>3 DEF BookInv

LEMMA BookFields ==
  ASSUME BookInv
  PROVE  /\ book \in BookRecord /\ book.rows \in Seq(WorkbookRow)
         /\ DOMAIN book.rows = 1 .. Len(book.rows) /\ Len(book.rows) \in Nat
         /\ \A i \in DOMAIN book.rows : book.rows[i] \in WorkbookRow
<1>1. book \in BookRecord /\ book.rows \in Seq(WorkbookRow)
  BY DEF BookInv, BookRecord
<1> QED BY <1>1, LenProperties, ElementOfSeq

LEMMA BookKept ==
  ASSUME BookInv, BulkNext
  PROVE  BookInv'
<1>1. ASSUME NEW row \in WorkbookRows, bulk_add_point(row)
      PROVE  BookInv'
  <2> DEFINE new == Append(book.rows, row)
  <2>1. book' = [book EXCEPT !.rows = new, !.touched = TRUE] /\ Len(book.rows) < MaxRows
    BY <1>1 DEF bulk_add_point
  <2>2. new \in Seq(WorkbookRow) /\ Len(new) = Len(book.rows) + 1
    <3>1. row \in WorkbookRow
      BY CabNumbers
    <3> QED BY <3>1, BookFields, AppendProperties
  <2>3. Len(new) <= MaxRows
    BY <2>1, <2>2, BookFields, CabNumbers
  <2> HIDE DEF new
  <2>4. book' \in BookRecord /\ book'.rows = new /\ book'.touched = TRUE
    BY <2>1, <2>2, BookFields DEF BookRecord
  <2> QED BY <2>3, <2>4 DEF BookInv
<1>2. CASE bulk_validate
  <2> DEFINE sound == \A i \in DOMAIN book.rows : ~HasError(book.rows, i)
  <2>1. book' = [book EXCEPT !.ready = sound, !.touched = FALSE]
    BY <1>2 DEF bulk_validate
  <2>2. sound \in BOOLEAN
    OBVIOUS
  <2> HIDE DEF sound
  <2>3. book' \in BookRecord /\ book'.rows = book.rows /\ book'.ready = sound
    BY <2>1, <2>2, BookFields DEF BookRecord
  <2> QED BY <2>3 DEF BookInv, sound
<1>3. ASSUME NEW k \in 1 .. MaxRows, NEW c \in Controllers, bulk_assign_controller(k, c)
      PROVE  BookInv'
  <2> DEFINE old == book.rows[k]
             row == [old EXCEPT !.controller = c]
             new == [book.rows EXCEPT ![k] = row]
             cs == IF Cardinality(book.controllers) < MaxControllers
                   THEN book.controllers \cup {c} ELSE book.controllers
  <2>1. /\ book' = [book EXCEPT !.rows = new, !.controllers = cs] /\ k \in DOMAIN book.rows
    BY <1>3 DEF bulk_assign_controller
  <2>2. old \in WorkbookRow
    BY <2>1, BookFields
  <2> HIDE DEF old
  <2>3. /\ row \in WorkbookRow /\ row.tag = old.tag /\ row.lo = old.lo /\ row.hi = old.hi
        /\ row.alarm_lo = old.alarm_lo /\ row.alarm_hi = old.alarm_hi
    BY <2>2 DEF WorkbookRow
  <2> HIDE DEF row
  <2>4. cs \in SUBSET Controllers
    BY BookFields DEF BookRecord
  <2>5. /\ new \in Seq(WorkbookRow) /\ Len(new) = Len(book.rows) /\ DOMAIN new = DOMAIN book.rows
        /\ new[k] = row /\ \A i \in DOMAIN book.rows : i # k => new[i] = book.rows[i]
    BY <2>1, <2>3, BookFields, ExceptSeq, LenProperties
  <2>6. \A i \in DOMAIN book.rows :
          /\ new[i].tag = book.rows[i].tag /\ new[i].lo = book.rows[i].lo
          /\ new[i].hi = book.rows[i].hi /\ new[i].alarm_lo = book.rows[i].alarm_lo
          /\ new[i].alarm_hi = book.rows[i].alarm_hi
    <3> HIDE DEF new
    <3> QED BY <2>3, <2>5 DEF old
  <2> HIDE DEF new, cs
  <2>7. /\ book' \in BookRecord /\ book'.rows = new /\ book'.ready = book.ready
        /\ book'.touched = book.touched
    BY <2>1, <2>4, <2>5, BookFields DEF BookRecord
  <2>8. ASSUME NEW i \in DOMAIN book.rows, ~HasError(book.rows, i) PROVE ~HasError(new, i)
    <3>1. \A j \in 1 .. i - 1 : j \in DOMAIN book.rows
      BY BookFields
    <3> QED BY <2>6, <2>8, <3>1 DEF HasError
  <2> QED BY <2>5, <2>7, <2>8 DEF BookInv
<1> QED BY <1>1, <1>2, <1>3 DEF BulkNext

(* Without errors the tags differ: as many tags as rows. *)
LEMMA BookSuffices ==
  ASSUME BookInv
  PROVE  ReadyMeansSound
<1> SUFFICES ASSUME book.ready, ~book.touched
             PROVE  /\ Cardinality({book.rows[i].tag : i \in DOMAIN book.rows}) = Len(book.rows)
                    /\ \A i \in DOMAIN book.rows :
                         LET row == book.rows[i] IN
                         row.lo < row.hi /\ {row.alarm_lo, row.alarm_hi} \subseteq row.lo .. row.hi
  BY DEF ReadyMeansSound
<1>1. \A i \in DOMAIN book.rows : ~HasError(book.rows, i)
  BY DEF BookInv
<1>2. ASSUME NEW i \in DOMAIN book.rows
      PROVE  LET row == book.rows[i] IN
             row.lo < row.hi /\ {row.alarm_lo, row.alarm_hi} \subseteq row.lo .. row.hi
  <2> DEFINE row == book.rows[i]
  <2>1. row \in WorkbookRow
    BY BookFields
  <2>2. /\ ~(row.lo >= row.hi) /\ ~(row.alarm_lo < row.lo) /\ ~(row.alarm_lo > row.hi)
        /\ ~(row.alarm_hi < row.lo) /\ ~(row.alarm_hi > row.hi)
    BY <1>1 DEF HasError
  <2> HIDE DEF row
  <2>3. row.lo \in Int /\ row.hi \in Int /\ row.alarm_lo \in Int /\ row.alarm_hi \in Int
    BY <2>1 DEF WorkbookRow
  <2>4. row.lo < row.hi /\ {row.alarm_lo, row.alarm_hi} \subseteq row.lo .. row.hi
    BY <2>2, <2>3
  <2> QED BY <2>4 DEF row
<1> DEFINE n == Len(book.rows)
           T == {book.rows[i].tag : i \in 1 .. n}
           f == [i \in 1 .. n |-> book.rows[i].tag]
<1>3. n \in Nat /\ DOMAIN book.rows = 1 .. n
  BY BookFields
<1>4. ASSUME NEW i \in 1 .. n, NEW j \in 1 .. n, i < j
      PROVE  book.rows[i].tag # book.rows[j].tag
  <2>1. i \in 1 .. j - 1
    <3> HIDE DEF n
    <3> QED BY <1>3, <1>4
  <2>2. ~HasError(book.rows, j)
    BY <1>1, <1>3
  <2> QED BY <2>1, <2>2 DEF HasError
<1> HIDE DEF n
<1>5. ASSUME NEW i \in 1 .. n, NEW j \in 1 .. n, f[i] = f[j]
      PROVE  i = j
  <2>1. book.rows[i].tag = book.rows[j].tag
    BY <1>5
  <2> QED BY <1>3, <1>4, <2>1
<1>6. f \in [1 .. n -> T] /\ \A t \in T : \E i \in 1 .. n : f[i] = t
  OBVIOUS
<1>7. Cardinality(T) = n
  <2>1. IsFiniteSet(1 .. n) /\ Cardinality(1 .. n) = n
    <3>1. 1 \in Int /\ n \in Int
      BY <1>3
    <3>2. IsFiniteSet(1 .. n) /\ Cardinality(1 .. n) = IF 1 > n THEN 0 ELSE n - 1 + 1
      BY <3>1, FS_Interval
    <3> QED BY <1>3, <3>2
  <2> HIDE DEF f, T
  <2>2. f \in Injection(1 .. n, T)
    BY <1>5, <1>6 DEF Injection, IsInjective
  <2>3. f \in Surjection(1 .. n, T)
    BY <1>6 DEF Surjection
  <2>4. ExistsBijection(1 .. n, T)
    BY <2>2, <2>3 DEF ExistsBijection, Bijection
  <2>5. Cardinality(T) = Cardinality(1 .. n)
    BY <2>1, <2>4, FS_Bijection
  <2> QED BY <2>1, <2>5
<1>8. Cardinality({book.rows[i].tag : i \in DOMAIN book.rows}) = Len(book.rows)
  BY <1>3, <1>7 DEF n
<1> QED BY <1>2, <1>8

LEMMA CabSuffices ==
  ASSUME CabInv, AverageInv, BandInv, RateInv, BookInv
  PROVE  CabTypeOK /\ AverageIsExact /\ ReadyMeansSound
<1>1. /\ cab.state \in CABState /\ cab.runs \in Nat
      /\ cab.inputs \in Seq(CabValues \cup {0}) /\ cab.outputs \in Seq(CabValues \cup {0})
  BY DEF CabInv, Terminal
<1>2. ma.window \in WindowSizes /\ ma.index \in 0 .. ma.window - 1 /\ ma.count \in 0 .. ma.window
  BY AverageFields DEF AverageInv
<1>3. band.rising \in BOOLEAN /\ rate.initialized \in BOOLEAN
  BY DEF BandInv, RateInv
<1>4. book.ready \in BOOLEAN /\ Len(book.rows) <= MaxRows
  BY DEF BookInv, BookRecord
<1> QED BY <1>1, <1>2, <1>3, <1>4, AverageSuffices, BookSuffices DEF CabTypeOK

(* A part of the library or of the block does not touch the others. *)
CabSteps ==
  /\ CabNext => UNCHANGED <<ma, seen, band, rate, book>>
  /\ AverageNext => UNCHANGED <<cab, band, rate, book>>
  /\ BandNext => UNCHANGED <<cab, ma, seen, rate, book>>
  /\ RateNext => UNCHANGED <<cab, ma, seen, band, book>>
  /\ BulkNext => UNCHANGED <<cab, ma, seen, band, rate>>

LEMMA CabFrames == CabSteps
<1>1. CabNext => UNCHANGED <<ma, seen, band, rate, book>>
  BY DEF CabNext, cab_add_input, cab_add_output, cab_execute, DriveInput, cab_set_state
<1>2. AverageNext => UNCHANGED <<cab, band, rate, book>>
  BY DEF AverageNext, cab_moving_average_update, cab_moving_average_reset
<1>3. BandNext => UNCHANGED <<cab, ma, seen, rate, book>>
  BY DEF BandNext, cab_deadband_update
<1>4. RateNext => UNCHANGED <<cab, ma, seen, band, book>>
  BY DEF RateNext, cab_rate_limiter_update
<1>5. BulkNext => UNCHANGED <<cab, ma, seen, band, rate>>
  BY DEF BulkNext, bulk_add_point, bulk_validate, bulk_assign_controller
<1> QED BY <1>1, <1>2, <1>3, <1>4, <1>5 DEF CabSteps

-----------------------------------------------------------------------------
(* The operator station: how many records of a list are in a set. *)

Of(a, K) == {i \in DOMAIN a : a[i] \in K}

Number(a, K) == Cardinality(Of(a, K))

Weight(r, K) == IF r \in K THEN 1 ELSE 0

LEMMA NumberIs ==
  ASSUME NEW T, NEW a \in Seq(T), NEW K
  PROVE  IsFiniteSet(Of(a, K)) /\ Number(a, K) \in Nat
<1>1. DOMAIN a = 1 .. Len(a) /\ Len(a) \in Nat
  BY LenProperties
<1>2. IsFiniteSet(1 .. Len(a))
  <2>1. 1 \in Int /\ Len(a) \in Int
    BY <1>1
  <2> QED BY <2>1, FS_Interval
<1>3. Of(a, K) \in SUBSET (1 .. Len(a))
  BY <1>1 DEF Of
<1>4. IsFiniteSet(Of(a, K))
  BY <1>2, <1>3, FS_Subset
<1> QED BY <1>4, FS_CardinalityType DEF Number

LEMMA NumberAppended ==
  ASSUME NEW T, NEW a \in Seq(T), NEW e \in T, NEW K
  PROVE  Number(Append(a, e), K) = Number(a, K) + Weight(e, K)
<1> DEFINE n == Len(a)
           b == Append(a, e)
<1>1. DOMAIN a = 1 .. n /\ n \in Nat
  BY LenProperties
<1>2. DOMAIN b = 1 .. n + 1 /\ b[n + 1] = e /\ \A i \in 1 .. n : b[i] = a[i]
  <2>1. b \in Seq(T) /\ Len(b) = n + 1 /\ b[n + 1] = e /\ \A i \in 1 .. n : b[i] = a[i]
    BY AppendProperties
  <2> HIDE DEF b, n
  <2> QED BY <2>1, LenProperties
<1> HIDE DEF b, n
<1>3. IsFiniteSet(Of(a, K)) /\ Number(a, K) \in Nat
  BY NumberIs
<1>4. n + 1 \notin Of(a, K)
  BY <1>1 DEF Of
<1>5. CASE e \in K
  <2>1. Of(b, K) = Of(a, K) \cup {n + 1}
    BY <1>1, <1>2, <1>5 DEF Of
  <2>2. Cardinality(Of(a, K) \cup {n + 1}) = Cardinality(Of(a, K)) + 1
    BY <1>3, <1>4, FS_AddElement
  <2>3. Number(b, K) = Number(a, K) + 1
    BY <2>1, <2>2 DEF Number
  <2> QED BY <1>5, <2>3 DEF Weight, b
<1>6. CASE e \notin K
  <2>1. Of(b, K) = Of(a, K)
    BY <1>1, <1>2, <1>6 DEF Of
  <2>2. Number(b, K) = Number(a, K) + 0
    BY <1>3, <2>1 DEF Number
  <2> QED BY <1>6, <2>2 DEF Weight, b
<1> QED BY <1>5, <1>6

SameBut(a, b, k) == DOMAIN b = DOMAIN a /\ \A i \in DOMAIN a : i # k => b[i] = a[i]

LEMMA NumberReplaced ==
  ASSUME NEW a \in Seq(HMIAlarmRecord), NEW b \in Seq(HMIAlarmRecord), NEW k \in DOMAIN a,
         SameBut(a, b, k), NEW K
  PROVE  Number(b, K) + Weight(a[k], K) = Number(a, K) + Weight(b[k], K)
<1> DEFINE R == Of(a, K) \ {k}
<1>1. /\ IsFiniteSet(Of(a, K)) /\ Number(a, K) \in Nat
      /\ IsFiniteSet(Of(b, K)) /\ Number(b, K) \in Nat
  BY NumberIs
<1>2. R = Of(b, K) \ {k}
  BY DEF Of, SameBut
<1>3. IsFiniteSet(R)
  BY <1>1, FS_RemoveElement
<1>4. Cardinality(R) \in Nat
  BY <1>3, FS_CardinalityType
<1>5. Number(a, K) = Cardinality(R) + Weight(a[k], K)
  <2>1. CASE a[k] \in K
    <3>1. k \in Of(a, K)
      BY <2>1 DEF Of
    <3>2. Cardinality(R) = Cardinality(Of(a, K)) - 1
      BY <1>1, <3>1, FS_RemoveElement
    <3> HIDE DEF R
    <3> QED BY <1>1, <1>4, <2>1, <3>2 DEF Number, Weight
  <2>2. CASE a[k] \notin K
    <3>1. R = Of(a, K)
      BY <2>2 DEF Of
    <3> HIDE DEF R
    <3> QED BY <1>1, <1>4, <2>2, <3>1 DEF Number, Weight
  <2> QED BY <2>1, <2>2
<1>6. Number(b, K) = Cardinality(R) + Weight(b[k], K)
  <2>1. CASE b[k] \in K
    <3>1. k \in Of(b, K)
      BY <2>1 DEF Of, SameBut
    <3>2. Cardinality(R) = Cardinality(Of(b, K)) - 1
      BY <1>1, <1>2, <3>1, FS_RemoveElement
    <3> HIDE DEF R
    <3> QED BY <1>1, <1>4, <2>1, <3>2 DEF Number, Weight
  <2>2. CASE b[k] \notin K
    <3>1. R = Of(b, K)
      BY <1>2, <2>2 DEF Of
    <3> HIDE DEF R
    <3> QED BY <1>1, <1>4, <2>2, <3>1 DEF Number, Weight
  <2> QED BY <2>1, <2>2
<1> HIDE DEF R
<1>7. Weight(a[k], K) \in Nat /\ Weight(b[k], K) \in Nat
  BY DEF Weight
<1> QED BY <1>4, <1>5, <1>6, <1>7

(* Clearing keeps every record that is not normal. *)

Kept(c, r) == IF r.state = "NORMAL" THEN c ELSE Append(c, r)

LEMMA RemainingIs ==
  ASSUME NEW a \in Seq(HMIAlarmRecord)
  PROVE  /\ Remaining(a) \in Seq(HMIAlarmRecord) /\ Len(Remaining(a)) <= Len(a)
         /\ \A K : (\A r \in K : r.state # "NORMAL") => Number(Remaining(a), K) = Number(a, K)
<1> DEFINE n == Len(a)
           S == Seq(HMIAlarmRecord)
           run == CHOOSE f : f = [k \in 0 .. n |-> IF k = 0 THEN << >>
                                                   ELSE IF a[k].state = "NORMAL" THEN f[k - 1]
                                                   ELSE Append(f[k - 1], a[k])]
<1>1. n \in Nat /\ DOMAIN a = 1 .. n /\ \A k \in 1 .. n : a[k] \in HMIAlarmRecord
  BY LenProperties, ElementOfSeq
<1>2. Remaining(a) = run[n]
  BY Zenon DEF Remaining
<1>3. << >> \in S
  OBVIOUS
<1>4. ASSUME NEW k \in 1 .. n, NEW c \in S
      PROVE  /\ Kept(c, a[k]) \in S /\ Len(Kept(c, a[k])) <= Len(c) + 1
             /\ \A K : (\A r \in K : r.state # "NORMAL") =>
                         Number(Kept(c, a[k]), K) = Number(c, K) + Weight(a[k], K)
  <2> DEFINE e == a[k]
  <2>1. e \in HMIAlarmRecord
    BY <1>1
  <2> HIDE DEF e
  <2>2. CASE e.state = "NORMAL"
    <3>1. Kept(c, e) = c /\ Len(c) \in Nat
      BY <2>2, LenProperties DEF Kept
    <3>2. ASSUME NEW K, \A r \in K : r.state # "NORMAL"
          PROVE  Number(c, K) = Number(c, K) + Weight(e, K)
      <4>1. e \notin K /\ Number(c, K) \in Nat
        BY <2>2, <3>2, NumberIs
      <4> QED BY <4>1 DEF Weight
    <3> QED BY <3>1, <3>2 DEF e
  <2>3. CASE e.state # "NORMAL"
    <3>1. Kept(c, e) = Append(c, e)
      BY <2>3 DEF Kept
    <3>2. Append(c, e) \in S /\ Len(Append(c, e)) = Len(c) + 1 /\ Len(c) \in Nat
      BY <2>1, AppendProperties, LenProperties
    <3>3. ASSUME NEW K
          PROVE  Number(Append(c, e), K) = Number(c, K) + Weight(e, K)
      BY <2>1, NumberAppended
    <3> QED BY <3>1, <3>2, <3>3 DEF e
  <2> QED BY <2>2, <2>3
<1>5. PICK g \in [0 .. n -> S] :
        g[0] = << >> /\ \A k \in 1 .. n : g[k] = Kept(g[k - 1], a[k])
  <2> DEFINE F == [k \in 1 .. n |-> [c \in S |-> Kept(c, a[k])]]
             none == << >>
  <2>1. none \in S
    OBVIOUS
  <2> HIDE DEF n, S, none
  <2>2. F \in [1 .. n -> [S -> S]]
    BY <1>4
  <2> HIDE DEF F
  <2>3. PICK g \in Courses(n, S, none, F) : TRUE
    BY <1>1, <2>1, <2>2, Iteration
  <2>4. \A k \in 1 .. n : g[k] = Kept(g[k - 1], a[k])
    <3> TAKE k \in 1 .. n
    <3>1. k - 1 \in 0 .. n
      BY <1>1
    <3>2. g[k] = F[k][g[k - 1]] /\ g[k - 1] \in S
      BY <2>3, <3>1 DEF Courses
    <3> QED BY <3>2 DEF F
  <2>5. g \in [0 .. n -> S] /\ g[0] = none
    BY <2>3 DEF Courses
  <2> QED BY <2>4, <2>5 DEF none
<1>6. run = [k \in 0 .. n |-> IF k = 0 THEN << >>
                              ELSE IF a[k].state = "NORMAL" THEN run[k - 1]
                              ELSE Append(run[k - 1], a[k])]
  <2> HIDE DEF n, S
  <2>1. g = [k \in 0 .. n |-> IF k = 0 THEN << >>
                              ELSE IF a[k].state = "NORMAL" THEN g[k - 1]
                              ELSE Append(g[k - 1], a[k])]
    <3>1. ASSUME NEW k \in 0 .. n
          PROVE  g[k] = IF k = 0 THEN << >>
                        ELSE IF a[k].state = "NORMAL" THEN g[k - 1]
                        ELSE Append(g[k - 1], a[k])
      <4>1. CASE k = 0
        BY <1>5, <4>1
      <4>2. CASE k # 0
        <5>1. k \in 1 .. n
          BY <1>1, <4>2
        <5>2. g[k] = Kept(g[k - 1], a[k])
          BY <1>5, <5>1
        <5> QED BY <4>2, <5>2, Zenon DEF Kept
      <4> QED BY <4>1, <4>2
    <3>2. g = [k \in 0 .. n |-> g[k]]
      BY <1>5
    <3> QED BY <3>1, <3>2, Zenon
  <2> QED BY <2>1, Zenon
<1> HIDE DEF run, n
<1> DEFINE Upto(k, K) == {i \in 1 .. k : a[i] \in K}
           Good(k) == /\ run[k] \in S /\ Len(run[k]) <= k
                      /\ \A K : (\A r \in K : r.state # "NORMAL") =>
                                  Number(run[k], K) = Cardinality(Upto(k, K))
           T == {k \in 0 .. n : Good(k)}
<1>7. Good(0)
  <2>1. run[0] = << >> /\ Len(<< >>) = 0
    BY <1>1, <1>6
  <2>2. ASSUME NEW K PROVE Number(<< >>, K) = Cardinality(Upto(0, K))
    <3>1. Of(<< >>, K) = {} /\ Upto(0, K) = {}
      BY DEF Of
    <3> QED BY <3>1 DEF Number
  <2> QED BY <1>3, <2>1, <2>2
<1>8. ASSUME NEW k \in 0 .. n - 1, Good(k) PROVE Good(k + 1)
  <2> DEFINE m == k + 1
             c == run[k]
  <2>1. m \in 1 .. n /\ m \in 0 .. n /\ m # 0 /\ m - 1 = k /\ m \in Nat /\ k \in Nat
    BY <1>1
  <2>2. run[m] = Kept(c, a[m])
    <3> HIDE DEF m
    <3> QED BY <1>6, <2>1 DEF Kept
  <2>3. c \in S /\ Len(c) <= k /\ Len(c) \in Nat
    BY <1>8, LenProperties
  <2>4. /\ run[m] \in S /\ Len(run[m]) <= Len(c) + 1
        /\ \A K : (\A r \in K : r.state # "NORMAL") =>
                    Number(run[m], K) = Number(c, K) + Weight(a[m], K)
    <3> HIDE DEF m, S, c
    <3> QED BY <1>4, <2>1, <2>2, <2>3
  <2>5. Len(run[m]) <= m
    <3> DEFINE x == Len(run[m])
    <3>1. x \in Nat /\ x <= Len(c) + 1
      BY <2>4, LenProperties
    <3> HIDE DEF x
    <3>2. x <= k + 1
      BY <2>1, <2>3, <3>1
    <3> QED BY <3>2 DEF x
  <2>6. ASSUME NEW K, \A r \in K : r.state # "NORMAL"
        PROVE  Number(run[m], K) = Cardinality(Upto(m, K))
    <3>1. Number(run[m], K) = Cardinality(Upto(k, K)) + Weight(a[m], K)
      BY <1>8, <2>4, <2>6
    <3>2. IsFiniteSet(Upto(k, K))
      <4>1. IsFiniteSet(1 .. k)
        <5>1. 1 \in Int /\ k \in Int
          BY <2>1
        <5> QED BY <5>1, FS_Interval
      <4>2. Upto(k, K) \in SUBSET (1 .. k)
        OBVIOUS
      <4> QED BY <4>1, <4>2, FS_Subset
    <3>3. Cardinality(Upto(k, K)) \in Nat
      BY <3>2, FS_CardinalityType
    <3>4. m \notin Upto(k, K)
      BY <2>1
    <3>5. CASE a[m] \in K
      <4>1. Upto(m, K) = Upto(k, K) \cup {m}
        BY <2>1, <3>5
      <4>2. Cardinality(Upto(k, K) \cup {m}) = Cardinality(Upto(k, K)) + 1
        BY <3>2, <3>4, FS_AddElement
      <4> HIDE DEF Upto, m
      <4> QED BY <3>1, <3>5, <4>1, <4>2 DEF Weight
    <3>6. CASE a[m] \notin K
      <4>1. Upto(m, K) = Upto(k, K)
        BY <2>1, <3>6
      <4> HIDE DEF Upto, m
      <4> QED BY <3>1, <3>3, <3>6, <4>1 DEF Weight
    <3> QED BY <3>5, <3>6
  <2> HIDE DEF m
  <2>7. Good(m)
    BY <2>4, <2>5, <2>6
  <2> QED BY <2>7 DEF m
<1>9. Good(n)
  <2>1. 0 \in T /\ n \in 0 .. n
    BY <1>1, <1>7
  <2>2. \A k \in 0 .. n - 1 : k \in T => k + 1 \in T
    <3> TAKE k \in 0 .. n - 1
    <3> HAVE k \in T
    <3>1. Good(k)
      <4> HIDE DEF Good
      <4> QED OBVIOUS
    <3>2. k + 1 \in 0 .. n
      BY <1>1
    <3>3. Good(k + 1)
      BY <1>8, <3>1
    <3> HIDE DEF Good
    <3> QED BY <3>2, <3>3
  <2> HIDE DEF T
  <2>3. 0 .. n \subseteq T
    BY <1>1, <2>1, <2>2, SetInduction
  <2>4. n \in T
    BY <2>1, <2>3
  <2> QED BY <2>4 DEF T
<1>10. ASSUME NEW K PROVE Upto(n, K) = Of(a, K)
  BY <1>1 DEF Of
<1>11. ASSUME NEW K, \A r \in K : r.state # "NORMAL" PROVE Number(run[n], K) = Number(a, K)
  <2>1. Number(run[n], K) = Cardinality(Upto(n, K))
    BY <1>9, <1>11
  <2> QED BY <1>10, <2>1 DEF Number
<1>12. run[n] \in S /\ Len(run[n]) <= n
  BY <1>9
<1> HIDE DEF Upto, S
<1> QED BY <1>2, <1>11, <1>12 DEF n, S

SummaryRecord ==
  [active : Seq(HMIAlarmRecord), shelved : Nat, unacknowledged : Nat, history : Seq(0 .. MaxNow),
   flood : BOOLEAN, now : 0 .. MaxNow]

ShelvedOnes == {r \in HMIAlarmRecord : r.state = "SHELVED"}

CountedOnes == {r \in HMIAlarmRecord : Counted(r)}

Tallied(s, wrong) ==
  /\ s.shelved = Number(s.active, ShelvedOnes)
  /\ ~wrong => s.unacknowledged = Number(s.active, CountedOnes)

(* Alarms are recorded in their order, and a flood needs as many of them. *)
Recorded(s) ==
  /\ \A i, j \in DOMAIN s.history : i <= j => s.history[i] <= s.history[j]
  /\ \A i \in DOMAIN s.history : s.history[i] <= s.now
  /\ s.flood =>
       \E i, j \in DOMAIN s.history :
         /\ j - i = FloodLimit - 1
         /\ s.history[j] - s.history[i] < FloodSeconds

SummaryInv ==
  /\ summary \in SummaryRecord /\ miscounted \in BOOLEAN
  /\ Len(summary.active) <= MaxActive
  /\ Tallied(summary, miscounted)
  /\ Recorded(summary)

HmiNumbers ==
  /\ MaxActive \in Nat /\ MaxHistory \in Nat /\ FloodSeconds \in Nat /\ MaxNow \in Nat
  /\ MaxPenSamples \in Nat /\ DeviationHi \in Nat
  /\ FloodLimit \in Nat /\ FloodLimit >= 1 /\ SampleCount \in Nat /\ SampleCount >= 1

LEMMA HmiNumbersHold == HmiNumbers
<1>1. {MaxActive, MaxHistory, FloodSeconds, MaxNow, MaxPenSamples, DeviationHi} \subseteq Nat
      /\ {FloodLimit, SampleCount} \subseteq Nat \ {0}
  BY HmiAssumption
<1> QED BY <1>1 DEF HmiNumbers

OneIf(b) == IF b THEN 1 ELSE 0

Restate(a, b, k, st) ==
  /\ b \in Seq(HMIAlarmRecord) /\ Len(b) = Len(a)
  /\ Number(a, ShelvedOnes) \in Nat /\ Number(a, CountedOnes) \in Nat
  /\ Number(b, ShelvedOnes) \in Nat /\ Number(b, CountedOnes) \in Nat
  /\ Number(b, ShelvedOnes) + OneIf(a[k].state = "SHELVED")
       = Number(a, ShelvedOnes) + OneIf(st = "SHELVED")
  /\ Number(b, CountedOnes) + OneIf(Counted(a[k]))
       = Number(a, CountedOnes) + OneIf(st \in Unacknowledged /\ a[k].requires_ack)

LEMMA StateIs ==
  ASSUME NEW a \in Seq(HMIAlarmRecord), NEW k \in DOMAIN a, NEW st \in HMIAlarmState,
         NEW b, b = [a EXCEPT ![k].state = st]
  PROVE  Restate(a, b, k, st)
<1> DEFINE e == a[k]
           x == [a[k] EXCEPT !.state = st]
           T == HMIAlarmRecord
<1>1. DOMAIN a = 1 .. Len(a) /\ Len(a) \in Nat /\ e \in T
  BY LenProperties, ElementOfSeq
<1>2. /\ x \in T /\ x.state = st /\ x.requires_ack = e.requires_ack
  BY <1>1 DEF HMIAlarmRecord
<1>3. b = [a EXCEPT ![k] = x]
  OBVIOUS
<1> HIDE DEF x, T
<1>4. /\ b \in Seq(T) /\ Len(b) = Len(a) /\ b[k] = x
      /\ \A i \in DOMAIN a : i # k => b[i] = a[i]
  BY <1>1, <1>2, <1>3, ExceptSeq DEF T
<1>5. DOMAIN b = DOMAIN a
  BY <1>1, <1>4, LenProperties
<1>6. \A K : Number(b, K) + Weight(e, K) = Number(a, K) + Weight(x, K)
  <2> TAKE K
  <2>1. Number(b, K) + Weight(a[k], K) = Number(a, K) + Weight(b[k], K)
    <3>1. /\ a \in Seq(HMIAlarmRecord) /\ b \in Seq(HMIAlarmRecord) /\ k \in DOMAIN a
          /\ SameBut(a, b, k)
      BY <1>4, <1>5 DEF T, SameBut
    <3> QED BY <3>1, NumberReplaced, ZenonT(60)
  <2> QED BY <1>4, <2>1
<1>7. /\ Weight(e, ShelvedOnes) = OneIf(e.state = "SHELVED")
      /\ Weight(x, ShelvedOnes) = OneIf(st = "SHELVED")
      /\ Weight(e, CountedOnes) = OneIf(Counted(e))
      /\ Weight(x, CountedOnes) = OneIf(st \in Unacknowledged /\ e.requires_ack)
  BY <1>1, <1>2 DEF Weight, OneIf, ShelvedOnes, CountedOnes, Counted, T
<1>8. \A K : Number(a, K) \in Nat /\ Number(b, K) \in Nat
  BY <1>4, NumberIs DEF T
<1> HIDE DEF e
<1>9. /\ Number(b, ShelvedOnes) + OneIf(e.state = "SHELVED")
           = Number(a, ShelvedOnes) + OneIf(st = "SHELVED")
      /\ Number(b, CountedOnes) + OneIf(Counted(e))
           = Number(a, CountedOnes) + OneIf(st \in Unacknowledged /\ e.requires_ack)
  BY <1>6, <1>7
<1> QED BY <1>4, <1>8, <1>9 DEF T, e, Restate

LEMMA SummaryStarts ==
  ASSUME station_init
  PROVE  SummaryInv
<1> DEFINE none == << >>
           z == 0
           s == [active |-> none, shelved |-> z, unacknowledged |-> z, history |-> none,
                 flood |-> FALSE, now |-> z]
<1>1. summary = s /\ miscounted = FALSE
  BY DEF station_init
<1>2. none \in Seq(HMIAlarmRecord) /\ none \in Seq(0 .. MaxNow) /\ Len(none) = 0 /\ DOMAIN none = {}
  OBVIOUS
<1>3. z \in Nat /\ z \in 0 .. MaxNow
  BY HmiNumbersHold DEF HmiNumbers
<1>4. \A K : Number(none, K) = z
  <2> TAKE K
  <2>1. Of(none, K) = {}
    BY <1>2 DEF Of
  <2> QED BY <2>1, FS_EmptySet DEF Number
<1>5. Len(none) <= MaxActive
  BY <1>2, HmiNumbersHold DEF HmiNumbers
<1> HIDE DEF none, z
<1>6. s \in SummaryRecord
  BY <1>2, <1>3 DEF SummaryRecord
<1>7. /\ s.active = none /\ s.history = none /\ s.flood = FALSE /\ s.shelved = z
      /\ s.unacknowledged = z
  OBVIOUS
<1> HIDE DEF s
<1>8. Tallied(s, FALSE) /\ Recorded(s)
  BY <1>2, <1>4, <1>7 DEF Tallied, Recorded
<1> QED BY <1>1, <1>5, <1>6, <1>7, <1>8 DEF SummaryInv

Reached(h) ==
  \E i, j \in DOMAIN h : /\ j - i = FloodLimit - 1
                         /\ h[j] - h[i] < FloodSeconds

LEMMA FloodIs ==
  ASSUME NEW h \in Seq(0 .. MaxNow), NEW now \in 0 .. MaxNow,
         \A i, j \in DOMAIN h : i <= j => h[i] <= h[j], \A i \in DOMAIN h : h[i] <= now,
         Cardinality(Recent(h, now)) >= FloodLimit
  PROVE  Reached(h)
<1> DEFINE n == Len(h)
           R == Recent(h, now)
           i == n - FloodLimit + 1
<1>1. /\ DOMAIN h = 1 .. n /\ n \in Nat /\ MaxNow \in Nat /\ FloodLimit \in Nat /\ FloodLimit >= 1
      /\ FloodSeconds \in Nat
  BY LenProperties, HmiNumbersHold DEF HmiNumbers
<1>2. \A k \in 1 .. n : h[k] \in 0 .. MaxNow
  BY <1>1, ElementOfSeq
<1> HIDE DEF n
<1>3. \A x \in R : x \in 1 .. n /\ now - h[x] < FloodSeconds
  BY <1>1 DEF Recent
<1>4. Cardinality(R) >= FloodLimit
  OBVIOUS
<1> HIDE DEF R
<1>5. ASSUME NEW a \in Nat, NEW S, S = a + 1 .. n, a <= n
      PROVE  IsFiniteSet(S) /\ Cardinality(S) = n - a
  <2> DEFINE c == a + 1
  <2>1. c \in Int /\ n \in Int
    BY <1>1
  <2> HIDE DEF c
  <2>2. /\ IsFiniteSet(c .. n)
        /\ Cardinality(c .. n) = IF c > n THEN 0 ELSE n - c + 1
    BY <2>1, FS_Interval
  <2>3. S = c .. n
    BY <1>5 DEF c
  <2>4. (IF c > n THEN 0 ELSE n - c + 1) = n - a
    BY <1>1, <1>5 DEF c
  <2> QED BY <2>2, <2>3, <2>4
<1>6. FloodLimit <= n
  <2> DEFINE S == 0 + 1 .. n
  <2>1. IsFiniteSet(S) /\ Cardinality(S) = n - 0
    <3>1. 0 \in Nat /\ 0 <= n
      BY <1>1
    <3> QED BY <1>5, <3>1
  <2>2. R \in SUBSET S
    BY <1>3
  <2> HIDE DEF S
  <2>3. Cardinality(R) <= Cardinality(S) /\ IsFiniteSet(R)
    BY <2>1, <2>2, FS_Subset
  <2>4. Cardinality(R) \in Nat
    BY <2>3, FS_CardinalityType
  <2> QED BY <1>1, <1>4, <2>1, <2>3, <2>4
<1>7. i \in 1 .. n /\ n \in 1 .. n /\ n - i = FloodLimit - 1
  BY <1>1, <1>6
<1>8. \E x \in R : x <= i
  <2>1. SUFFICES ASSUME \A x \in R : ~ (x <= i) PROVE FALSE
    OBVIOUS
  <2> DEFINE S == i + 1 .. n
  <2>2. IsFiniteSet(S) /\ Cardinality(S) = n - i
    <3>1. i \in Nat /\ i <= n
      BY <1>1, <1>7
    <3> HIDE DEF i
    <3> QED BY <1>5, <3>1
  <2>3. R \in SUBSET S
    BY <1>1, <1>3, <1>7, <2>1
  <2> HIDE DEF S
  <2>4. Cardinality(R) <= Cardinality(S) /\ IsFiniteSet(R)
    BY <2>2, <2>3, FS_Subset
  <2>5. Cardinality(R) \in Nat
    BY <2>4, FS_CardinalityType
  <2> QED BY <1>1, <1>4, <1>7, <2>2, <2>4, <2>5
<1>9. PICK x \in R : x <= i
  BY <1>8
<1>10. h[x] <= h[i] /\ h[n] <= now /\ now - h[x] < FloodSeconds
  BY <1>1, <1>3, <1>7, <1>9
<1>11. h[x] \in Int /\ h[i] \in Int /\ h[n] \in Int /\ now \in Int
  BY <1>1, <1>2, <1>3, <1>7
<1>12. h[n] - h[i] < FloodSeconds
  <2> DEFINE p == h[x]
             q == h[i]
             r == h[n]
  <2> HIDE DEF p, q, r
  <2>1. /\ p <= q /\ r <= now /\ now - p < FloodSeconds /\ p \in Int /\ q \in Int /\ r \in Int
        /\ now \in Int
    BY <1>10, <1>11 DEF p, q, r
  <2>2. r - q < FloodSeconds
    BY <1>1, <2>1
  <2> QED BY <2>2 DEF q, r
<1> HIDE DEF i
<1> QED BY <1>1, <1>7, <1>12 DEF Reached

LEMMA RecordedGrows ==
  ASSUME NEW s \in SummaryRecord, NEW t \in SummaryRecord, Recorded(s), t.now = s.now,
         t.history = IF Len(s.history) < MaxHistory THEN Append(s.history, s.now) ELSE s.history,
         t.flood => s.flood \/ Cardinality(Recent(s.history, s.now)) >= FloodLimit
  PROVE  Recorded(t)
<1> DEFINE h == s.history
           g == t.history
           n == Len(h)
           now == s.now
<1>1. /\ h \in Seq(0 .. MaxNow) /\ g \in Seq(0 .. MaxNow) /\ now \in 0 .. MaxNow /\ MaxNow \in Nat
  BY HmiNumbersHold DEF SummaryRecord, HmiNumbers
<1>2. /\ \A i, j \in DOMAIN h : i <= j => h[i] <= h[j]
      /\ \A i \in DOMAIN h : h[i] <= now
      /\ s.flood => Reached(h)
  BY DEF Recorded, Reached
<1>3. g = IF n < MaxHistory THEN Append(h, now) ELSE h
  OBVIOUS
<1>4. t.flood => Reached(h)
  <2> HIDE DEF h, now
  <2>1. Cardinality(Recent(h, now)) >= FloodLimit => Reached(h)
    BY <1>1, <1>2, FloodIs
  <2> QED BY <1>2, <2>1 DEF h, now
<1>5. t.now = now
  OBVIOUS
<1> HIDE DEF h, g, n, now
<1>6. /\ \A i, j \in DOMAIN g : i <= j => g[i] <= g[j]
      /\ \A i \in DOMAIN g : g[i] <= now
      /\ Reached(h) => Reached(g)
  <2>1. CASE g = h
    BY <1>2, <2>1
  <2>2. CASE g = Append(h, now)
    <3>1. /\ Len(g) = n + 1 /\ g[n + 1] = now /\ \A i \in 1 .. n : g[i] = h[i]
      BY <1>1, <2>2, AppendProperties DEF n
    <3>2. DOMAIN g = 1 .. n + 1 /\ DOMAIN h = 1 .. n /\ n \in Nat
      BY <1>1, <3>1, LenProperties DEF n
    <3>3. \A i \in 1 .. n : h[i] <= now /\ h[i] \in 0 .. MaxNow
      <4>1. \A i \in 1 .. n : h[i] \in 0 .. MaxNow
        BY <1>1, ElementOfSeq DEF n
      <4> QED BY <1>2, <3>2, <4>1
    <3>4. \A i \in 1 .. n + 1 : i \in 1 .. n \/ i = n + 1
      BY <3>2
    <3>5. \A i \in DOMAIN g : g[i] <= now
      BY <1>1, <3>1, <3>2, <3>3, <3>4
    <3>6. ASSUME NEW i \in DOMAIN g, NEW j \in DOMAIN g, i <= j PROVE g[i] <= g[j]
      <4>1. CASE j = n + 1
        BY <3>1, <3>5, <4>1
      <4>2. CASE j \in 1 .. n
        <5>1. i \in 1 .. n
          BY <3>2, <3>6, <4>2
        <5>2. h[i] <= h[j]
          BY <1>2, <3>2, <3>6, <4>2, <5>1
        <5> QED BY <3>1, <4>2, <5>1, <5>2
      <4> QED BY <3>2, <3>4, <4>1, <4>2
    <3>7. ASSUME Reached(h) PROVE Reached(g)
      <4>1. PICK i, j \in DOMAIN h : j - i = FloodLimit - 1 /\ h[j] - h[i] < FloodSeconds
        BY <3>7 DEF Reached
      <4>2. i \in DOMAIN g /\ j \in DOMAIN g /\ g[i] = h[i] /\ g[j] = h[j]
        BY <3>1, <3>2
      <4> QED BY <4>1, <4>2 DEF Reached
    <3> QED BY <3>5, <3>6, <3>7
  <2> QED BY <1>3, <2>1, <2>2
<1> QED BY <1>4, <1>5, <1>6 DEF Recorded, Reached, g

LEMMA AddKept ==
  ASSUME SummaryInv, NEW source \in Sources, NEW priority \in {1, 3}, NEW requires_ack \in BOOLEAN,
         alarm_add(source, priority, requires_ack)
  PROVE  SummaryInv' /\ ~ (Len(summary'.active) < Len(summary.active))
<1> DEFINE old == summary
           new == summary'
           a == old.active
           n == Len(a)
           room == n < MaxActive
           e == [source |-> source, alarm_id |-> n, priority |-> priority,
                 state |-> "UNACK_ACTIVE", requires_ack |-> requires_ack]
           flood == old.flood \/ Cardinality(Recent(old.history, old.now)) >= FloodLimit
           b == IF room THEN Append(a, e) ELSE a
           u == IF room /\ requires_ack THEN old.unacknowledged + 1 ELSE old.unacknowledged
           g == IF Len(old.history) < MaxHistory THEN Append(old.history, old.now) ELSE old.history
<1>1. /\ old \in SummaryRecord /\ Len(a) <= MaxActive /\ miscounted \in BOOLEAN
      /\ Tallied(old, miscounted) /\ Recorded(old)
  BY DEF SummaryInv
<1>2. new = [old EXCEPT !.flood = flood, !.active = b, !.unacknowledged = u, !.history = g]
      /\ miscounted' = miscounted
  BY DEF alarm_add
<1>3. /\ a \in Seq(HMIAlarmRecord) /\ old.shelved \in Nat /\ old.unacknowledged \in Nat
      /\ old.history \in Seq(0 .. MaxNow) /\ old.flood \in BOOLEAN /\ old.now \in 0 .. MaxNow
  BY <1>1 DEF SummaryRecord
<1>4. n \in Nat /\ MaxActive \in Nat
  BY <1>3, LenProperties, HmiNumbersHold DEF HmiNumbers
<1>5. e \in HMIAlarmRecord
  BY <1>4 DEF HMIAlarmRecord, HMIAlarmPriority, HMIAlarmState
<1>6. /\ (e \in ShelvedOnes) = FALSE
      /\ (e \in CountedOnes) = requires_ack
  BY <1>5 DEF ShelvedOnes, CountedOnes, Counted, Unacknowledged
<1>7. flood \in BOOLEAN
  OBVIOUS
<1>8. u \in Nat
  BY <1>3
<1>9. g \in Seq(0 .. MaxNow)
  BY <1>3, AppendProperties
<1> HIDE DEF e, n
<1>10. /\ b \in Seq(HMIAlarmRecord) /\ Len(b) <= MaxActive /\ ~ (Len(b) < Len(a))
  <2>1. /\ Append(a, e) \in Seq(HMIAlarmRecord) /\ Len(Append(a, e)) = n + 1
    BY <1>3, <1>5, AppendProperties DEF n
  <2>2. CASE room
    BY <1>4, <2>1, <2>2 DEF n
  <2>3. CASE ~room
    BY <1>1, <1>3, <1>4, <2>3 DEF n
  <2> QED BY <2>2, <2>3
<1> HIDE DEF flood, g
<1>11. /\ old.shelved = Number(b, ShelvedOnes)
       /\ ~miscounted => u = Number(b, CountedOnes)
  <2>1. /\ old.shelved = Number(a, ShelvedOnes)
        /\ ~miscounted => old.unacknowledged = Number(a, CountedOnes)
    BY <1>1 DEF Tallied
  <2>2. CASE room
    <3>1. \A K : Number(Append(a, e), K) = Number(a, K) + Weight(e, K)
      BY <1>3, <1>5, NumberAppended
    <3>2. /\ Weight(e, ShelvedOnes) = 0
          /\ Weight(e, CountedOnes) = IF requires_ack THEN 1 ELSE 0
      BY <1>6 DEF Weight
    <3>3. Number(b, ShelvedOnes) = Number(a, ShelvedOnes) + 0
          /\ Number(b, CountedOnes) = Number(a, CountedOnes) + (IF requires_ack THEN 1 ELSE 0)
      BY <2>2, <3>1, <3>2
    <3>4. u = old.unacknowledged + (IF requires_ack THEN 1 ELSE 0)
      BY <1>3, <2>2
    <3> HIDE DEF b, u
    <3> QED BY <1>3, <2>1, <3>3, <3>4
  <2>3. CASE ~room
    <3>1. b = a /\ u = old.unacknowledged
      BY <2>3
    <3> QED BY <2>1, <3>1
  <2> QED BY <2>2, <2>3
<1> HIDE DEF b, u, old
<1>12. /\ new \in SummaryRecord /\ new.active = b /\ new.shelved = old.shelved
       /\ new.unacknowledged = u /\ new.history = g /\ new.flood = flood /\ new.now = old.now
  BY <1>1, <1>2, <1>7, <1>8, <1>9, <1>10 DEF SummaryRecord
<1> HIDE DEF new
<1>13. Tallied(new, miscounted)
  BY <1>11, <1>12 DEF Tallied
<1>14. Recorded(new)
  BY <1>1, <1>12, RecordedGrows DEF flood, g
<1> QED BY <1>1, <1>2, <1>10, <1>12, <1>13, <1>14 DEF SummaryInv, new, old

(* A step that gives one record another state, and the counts with it. *)
Restates(k, st, sh, un) ==
  /\ summary' = [summary EXCEPT !.active = [summary.active EXCEPT ![k].state = st],
                                !.shelved = sh, !.unacknowledged = un]
  /\ miscounted' \in BOOLEAN
  /\ sh + OneIf(summary.active[k].state = "SHELVED") = summary.shelved + OneIf(st = "SHELVED")
  /\ ~miscounted' =>
       /\ ~miscounted
       /\ un + OneIf(Counted(summary.active[k]))
            = summary.unacknowledged + OneIf(st \in Unacknowledged /\ summary.active[k].requires_ack)

LEMMA ReplacedKept ==
  ASSUME SummaryInv, NEW k \in DOMAIN summary.active, NEW st \in HMIAlarmState,
         NEW sh \in Nat, NEW un \in Nat,
         Restates(k, st, sh, un)
  PROVE  SummaryInv' /\ Len(summary'.active) = Len(summary.active)
<1> DEFINE old == summary
           new == summary'
           a == old.active
           b == [a EXCEPT ![k].state = st]
           r == a[k]
<1>1. /\ old \in SummaryRecord /\ Len(a) <= MaxActive /\ Tallied(old, miscounted) /\ Recorded(old)
  BY DEF SummaryInv
<1>2. a \in Seq(HMIAlarmRecord) /\ k \in DOMAIN a /\ old.shelved \in Nat /\ old.unacknowledged \in Nat
  BY <1>1 DEF SummaryRecord
<1>3. new = [old EXCEPT !.active = b, !.shelved = sh, !.unacknowledged = un]
      /\ miscounted' \in BOOLEAN
  BY DEF Restates
<1>4. /\ sh + OneIf(r.state = "SHELVED") = old.shelved + OneIf(st = "SHELVED")
      /\ ~miscounted' =>
           /\ ~miscounted
           /\ un + OneIf(Counted(r)) = old.unacknowledged + OneIf(st \in Unacknowledged /\ r.requires_ack)
  BY DEF Restates
<1> HIDE DEF old, a
<1>5. Restate(a, b, k, st)
  BY <1>2, StateIs
<1> HIDE DEF b
<1>6. /\ new \in SummaryRecord /\ new.active = b /\ new.shelved = sh /\ new.unacknowledged = un
      /\ new.history = old.history /\ new.flood = old.flood /\ new.now = old.now
  BY <1>1, <1>3, <1>5 DEF SummaryRecord, Restate
<1> HIDE DEF new
<1>7. Recorded(new)
  BY <1>1, <1>6 DEF Recorded
<1>8. /\ OneIf(r.state = "SHELVED") \in Nat /\ OneIf(Counted(r)) \in Nat /\ OneIf(st = "SHELVED") \in Nat
      /\ OneIf(st \in Unacknowledged /\ r.requires_ack) \in Nat
  BY DEF OneIf
<1> HIDE DEF r
<1>9. sh = Number(b, ShelvedOnes)
  <2>1. old.shelved = Number(a, ShelvedOnes)
    BY <1>1 DEF Tallied, a
  <2> QED BY <1>2, <1>4, <1>5, <1>8, <2>1 DEF Restate, r
<1>10. ~miscounted' => un = Number(b, CountedOnes)
  <2> HAVE ~miscounted'
  <2>1. old.unacknowledged = Number(a, CountedOnes)
    BY <1>1, <1>4 DEF Tallied, a
  <2> QED BY <1>2, <1>4, <1>5, <1>8, <2>1 DEF Restate, r
<1>11. Tallied(new, miscounted')
  BY <1>6, <1>9, <1>10 DEF Tallied
<1> QED BY <1>1, <1>3, <1>5, <1>6, <1>7, <1>11 DEF SummaryInv, Restate, new, old, a

(* What is in a set is counted at least once. *)
LEMMA SomeCounted ==
  ASSUME SummaryInv, NEW k \in DOMAIN summary.active
  PROVE  /\ summary.active[k] \in HMIAlarmRecord
         /\ summary.shelved \in Nat /\ summary.unacknowledged \in Nat
         /\ summary.active[k].state = "SHELVED" => summary.shelved > 0
         /\ ~miscounted /\ Counted(summary.active[k]) => summary.unacknowledged > 0
<1> DEFINE a == summary.active
           b == [a EXCEPT ![k].state = "NORMAL"]
           sh == summary.shelved
           un == summary.unacknowledged
<1>1. /\ a \in Seq(HMIAlarmRecord) /\ sh \in Nat /\ un \in Nat
      /\ sh = Number(a, ShelvedOnes) /\ (~miscounted => un = Number(a, CountedOnes))
  BY DEF SummaryInv, SummaryRecord, Tallied
<1>2. a[k] \in HMIAlarmRecord
  <2>1. k \in 1 .. Len(a)
    BY <1>1, LenProperties
  <2> QED BY <1>1, <2>1, ElementOfSeq
<1> DEFINE st == "NORMAL"
<1>3. st \in HMIAlarmState /\ st # "SHELVED" /\ st \notin Unacknowledged /\ b = [a EXCEPT ![k].state = st]
  BY DEF HMIAlarmState, Unacknowledged
<1> HIDE DEF a, b, st, sh, un
<1>4. k \in DOMAIN a
  BY DEF a
<1>5. Restate(a, b, k, st)
  BY <1>1, <1>3, <1>4, StateIs
<1>6. a[k].state = "SHELVED" => sh > 0
  BY <1>1, <1>3, <1>5 DEF Restate, OneIf
<1>7. ~miscounted /\ Counted(a[k]) => un > 0
  BY <1>1, <1>3, <1>5 DEF Restate, OneIf
<1> QED BY <1>1, <1>2, <1>6, <1>7 DEF a, sh, un

LEMMA PlaceInside ==
  ASSUME SummaryInv, NEW place \in 0 .. MaxActive - 1, place < Len(summary.active)
  PROVE  place + 1 \in DOMAIN summary.active
<1>1. /\ Len(summary.active) \in Nat /\ DOMAIN summary.active = 1 .. Len(summary.active)
      /\ MaxActive \in Nat
  BY LenProperties, HmiNumbersHold DEF SummaryInv, SummaryRecord, HmiNumbers
<1> QED BY <1>1

LEMMA AcknowledgeKept ==
  ASSUME SummaryInv, NEW place \in 0 .. MaxActive - 1, alarm_acknowledge(place)
  PROVE  SummaryInv' /\ Len(summary'.active) = Len(summary.active)
<1> DEFINE k == place + 1
           r == summary.active[k]
           st == IF r.state = "UNACK_ACTIVE" THEN "ACK_ACTIVE" ELSE "NORMAL"
           sh == summary.shelved
           un == Less(summary.unacknowledged)
<1>1. k \in DOMAIN summary.active
  BY PlaceInside DEF alarm_acknowledge
<1>2. /\ r \in HMIAlarmRecord /\ summary.shelved \in Nat /\ summary.unacknowledged \in Nat
      /\ ~miscounted /\ Counted(r) => summary.unacknowledged > 0
      /\ miscounted \in BOOLEAN
  BY <1>1, SomeCounted DEF SummaryInv
<1>3. /\ r.state \in Unacknowledged /\ miscounted' = (miscounted \/ ~Counted(r))
  BY DEF alarm_acknowledge
<1>4. summary' = [summary EXCEPT !.active = [summary.active EXCEPT ![k].state = st],
                                 !.shelved = sh, !.unacknowledged = un]
  <2>1. summary' = [summary EXCEPT !.active = [summary.active EXCEPT ![k].state = st],
                                   !.unacknowledged = un]
    BY DEF alarm_acknowledge
  <2>2. summary = [summary EXCEPT !.shelved = sh]
    BY DEF SummaryInv, SummaryRecord
  <2> QED BY <2>1, <2>2
<1>5. /\ st \in HMIAlarmState /\ (st = "SHELVED") = FALSE /\ (st \in Unacknowledged) = FALSE
      /\ (r.state = "SHELVED") = FALSE
  BY <1>3 DEF HMIAlarmState, Unacknowledged
<1>6. un \in Nat /\ (Counted(r) => (~miscounted => un + 1 = summary.unacknowledged))
  BY <1>2 DEF Less
<1>7. sh + OneIf(r.state = "SHELVED") = summary.shelved + OneIf(st = "SHELVED")
  BY <1>2, <1>5 DEF OneIf
<1>8. ~miscounted' =>
        /\ ~miscounted
        /\ un + OneIf(Counted(r)) = summary.unacknowledged + OneIf(st \in Unacknowledged /\ r.requires_ack)
  <2> HAVE ~miscounted'
  <2>1. ~miscounted /\ Counted(r)
    BY <1>2, <1>3
  <2>2. OneIf(Counted(r)) = 1 /\ OneIf(st \in Unacknowledged /\ r.requires_ack) = 0
    BY <1>5, <2>1 DEF OneIf
  <2>3. un + 1 = summary.unacknowledged + 0 /\ un \in Nat
    BY <1>2, <1>6, <2>1
  <2> HIDE DEF un, st, r
  <2> QED BY <2>1, <2>2, <2>3
<1>9. miscounted' \in BOOLEAN
  BY <1>3
<1>10. sh \in Nat
  BY <1>2
<1>11. Restates(k, st, sh, un)
  <2> HIDE DEF st, sh, un
  <2> QED BY <1>4, <1>7, <1>8, <1>9 DEF Restates
<1> HIDE DEF st, sh, un, k
<1> QED BY <1>1, <1>5, <1>6, <1>10, <1>11, ReplacedKept

LEMMA ShelveKept ==
  ASSUME SummaryInv, NEW place \in 0 .. MaxActive - 1, alarm_shelve(place)
  PROVE  SummaryInv' /\ Len(summary'.active) = Len(summary.active)
<1> DEFINE k == place + 1
           r == summary.active[k]
           st == "SHELVED"
           sh == summary.shelved + 1
           un == Less(summary.unacknowledged)
<1>1. k \in DOMAIN summary.active
  BY PlaceInside DEF alarm_shelve
<1>2. /\ r \in HMIAlarmRecord /\ summary.shelved \in Nat /\ summary.unacknowledged \in Nat
      /\ ~miscounted /\ Counted(r) => summary.unacknowledged > 0
      /\ miscounted \in BOOLEAN
  BY <1>1, SomeCounted DEF SummaryInv
<1>3. /\ r.state # "SHELVED" /\ miscounted' = (miscounted \/ ~Counted(r))
  BY DEF alarm_shelve
<1>4. summary' = [summary EXCEPT !.active = [summary.active EXCEPT ![k].state = st],
                                 !.shelved = sh, !.unacknowledged = un]
  BY DEF alarm_shelve
<1>5. st \in HMIAlarmState /\ (st \in Unacknowledged) = FALSE
  BY DEF HMIAlarmState, Unacknowledged
<1>6. un \in Nat /\ (Counted(r) => (~miscounted => un + 1 = summary.unacknowledged))
  BY <1>2 DEF Less
<1>7. sh + OneIf(r.state = "SHELVED") = summary.shelved + OneIf(st = "SHELVED")
  BY <1>2, <1>3 DEF OneIf
<1>8. ~miscounted' =>
        /\ ~miscounted
        /\ un + OneIf(Counted(r)) = summary.unacknowledged + OneIf(st \in Unacknowledged /\ r.requires_ack)
  <2> HAVE ~miscounted'
  <2>1. ~miscounted /\ Counted(r)
    BY <1>2, <1>3
  <2>2. OneIf(Counted(r)) = 1 /\ OneIf(st \in Unacknowledged /\ r.requires_ack) = 0
    BY <1>5, <2>1 DEF OneIf
  <2>3. un + 1 = summary.unacknowledged + 0 /\ un \in Nat
    BY <1>2, <1>6, <2>1
  <2> HIDE DEF un, st, r
  <2> QED BY <2>1, <2>2, <2>3
<1>9. miscounted' \in BOOLEAN /\ sh \in Nat
  BY <1>2, <1>3
<1>10. Restates(k, st, sh, un)
  <2> HIDE DEF st, sh, un
  <2> QED BY <1>4, <1>7, <1>8, <1>9 DEF Restates
<1> HIDE DEF st, sh, un, k
<1> QED BY <1>1, <1>5, <1>6, <1>9, <1>10, ReplacedKept

LEMMA UnshelveKept ==
  ASSUME SummaryInv, NEW place \in 0 .. MaxActive - 1, alarm_unshelve(place)
  PROVE  SummaryInv' /\ Len(summary'.active) = Len(summary.active)
<1> DEFINE k == place + 1
           r == summary.active[k]
           st == "UNACK_ACTIVE"
           sh == Less(summary.shelved)
           un == summary.unacknowledged + 1
<1>1. k \in DOMAIN summary.active
  BY PlaceInside DEF alarm_unshelve
<1>2. /\ r \in HMIAlarmRecord /\ summary.shelved \in Nat /\ summary.unacknowledged \in Nat
      /\ (r.state = "SHELVED" => summary.shelved > 0)
      /\ miscounted \in BOOLEAN
  BY <1>1, SomeCounted DEF SummaryInv
<1>3. /\ r.state = "SHELVED" /\ miscounted' = (miscounted \/ ~r.requires_ack)
  BY DEF alarm_unshelve
<1>4. summary' = [summary EXCEPT !.active = [summary.active EXCEPT ![k].state = st],
                                 !.shelved = sh, !.unacknowledged = un]
  BY DEF alarm_unshelve
<1>5. /\ st \in HMIAlarmState /\ st \in Unacknowledged /\ (st = "SHELVED") = FALSE
      /\ Counted(r) = FALSE /\ r.requires_ack \in BOOLEAN
  BY <1>2, <1>3 DEF HMIAlarmState, Unacknowledged, Counted, HMIAlarmRecord
<1>6. sh \in Nat /\ sh + 1 = summary.shelved /\ un \in Nat
  BY <1>2, <1>3 DEF Less
<1>7. sh + OneIf(r.state = "SHELVED") = summary.shelved + OneIf(st = "SHELVED")
  <2>1. OneIf(r.state = "SHELVED") = 1 /\ OneIf(st = "SHELVED") = 0
    BY <1>3, <1>5 DEF OneIf
  <2> HIDE DEF sh, st, r
  <2> QED BY <1>2, <1>6, <2>1
<1>8. ~miscounted' =>
        /\ ~miscounted
        /\ un + OneIf(Counted(r)) = summary.unacknowledged + OneIf(st \in Unacknowledged /\ r.requires_ack)
  <2> HAVE ~miscounted'
  <2>1. ~miscounted /\ r.requires_ack
    BY <1>2, <1>3, <1>5
  <2>2. OneIf(Counted(r)) = 0 /\ OneIf(st \in Unacknowledged /\ r.requires_ack) = 1
    BY <1>5, <2>1 DEF OneIf
  <2>3. un + 0 = summary.unacknowledged + 1
    BY <1>2
  <2> HIDE DEF un, st, r
  <2> QED BY <2>1, <2>2, <2>3
<1>9. miscounted' \in BOOLEAN
  BY <1>2, <1>3, <1>5
<1>10. Restates(k, st, sh, un)
  <2> HIDE DEF st, sh, un
  <2> QED BY <1>4, <1>7, <1>8, <1>9 DEF Restates
<1> HIDE DEF st, sh, un, k
<1> QED BY <1>1, <1>5, <1>6, <1>10, ReplacedKept

LEMMA ReturnKept ==
  ASSUME SummaryInv, NEW place \in 0 .. MaxActive - 1, ReturnToNormal(place)
  PROVE  SummaryInv' /\ Len(summary'.active) = Len(summary.active)
<1> DEFINE k == place + 1
           r == summary.active[k]
           st == IF r.state = "UNACK_ACTIVE" THEN "UNACK_INACTIVE" ELSE "NORMAL"
           sh == summary.shelved
           un == summary.unacknowledged
<1>1. k \in DOMAIN summary.active
  BY PlaceInside DEF ReturnToNormal
<1>2. /\ r \in HMIAlarmRecord /\ sh \in Nat /\ un \in Nat /\ miscounted \in BOOLEAN
  BY <1>1, SomeCounted DEF SummaryInv
<1>3. /\ r.state \in {"UNACK_ACTIVE", "ACK_ACTIVE"} /\ miscounted' = miscounted
  BY DEF ReturnToNormal
<1>4. summary' = [summary EXCEPT !.active = [summary.active EXCEPT ![k].state = st],
                                 !.shelved = sh, !.unacknowledged = un]
  <2>1. summary' = [summary EXCEPT !.active = [summary.active EXCEPT ![k].state = st]]
    BY DEF ReturnToNormal
  <2>2. summary = [summary EXCEPT !.shelved = sh, !.unacknowledged = un]
    BY DEF SummaryInv, SummaryRecord
  <2> QED BY <2>1, <2>2
<1>5. /\ st \in HMIAlarmState /\ (st = "SHELVED") = FALSE /\ (r.state = "SHELVED") = FALSE
      /\ (st \in Unacknowledged) = (r.state \in Unacknowledged)
  BY <1>3 DEF HMIAlarmState, Unacknowledged
<1>6. OneIf(r.state = "SHELVED") = OneIf(st = "SHELVED")
  BY <1>5 DEF OneIf
<1>7. OneIf(Counted(r)) = OneIf(st \in Unacknowledged /\ r.requires_ack)
  BY <1>5 DEF OneIf, Counted
<1>8. Restates(k, st, sh, un)
  <2> HIDE DEF st
  <2> QED BY <1>2, <1>3, <1>4, <1>6, <1>7 DEF Restates
<1> HIDE DEF st, sh, un, k
<1> QED BY <1>1, <1>2, <1>5, <1>8, ReplacedKept

LEMMA ClearKept ==
  ASSUME SummaryInv, alarm_clear_inactive
  PROVE  /\ SummaryInv'
         /\ \A state \in HMIAlarmState \ {"NORMAL"} :
              Cardinality(InState(summary'.active, state)) = Cardinality(InState(summary.active, state))
<1> DEFINE old == summary
           new == summary'
           a == old.active
           b == Remaining(a)
<1>1. /\ old \in SummaryRecord /\ Len(a) <= MaxActive /\ miscounted \in BOOLEAN
      /\ Tallied(old, miscounted) /\ Recorded(old)
  BY DEF SummaryInv
<1>2. new = [old EXCEPT !.active = b] /\ miscounted' = miscounted
  BY DEF alarm_clear_inactive
<1>3. a \in Seq(HMIAlarmRecord)
  BY <1>1 DEF SummaryRecord
<1> HIDE DEF old, a
<1>4. /\ b \in Seq(HMIAlarmRecord) /\ Len(b) <= Len(a)
      /\ \A K : (\A r \in K : r.state # "NORMAL") => Number(b, K) = Number(a, K)
  BY <1>3, RemainingIs
<1> HIDE DEF b
<1>5. Number(b, ShelvedOnes) = Number(a, ShelvedOnes) /\ Number(b, CountedOnes) = Number(a, CountedOnes)
  BY <1>4 DEF ShelvedOnes, CountedOnes, Counted, Unacknowledged
<1>6. /\ new \in SummaryRecord /\ new.active = b /\ new.shelved = old.shelved
      /\ new.unacknowledged = old.unacknowledged /\ new.history = old.history
      /\ new.flood = old.flood /\ new.now = old.now
  BY <1>1, <1>2, <1>4 DEF SummaryRecord
<1> HIDE DEF new
<1>7. Tallied(new, miscounted) /\ Recorded(new)
  BY <1>1, <1>5, <1>6 DEF Tallied, Recorded, a
<1>8. Len(b) <= MaxActive
  <2>1. Len(a) \in Nat /\ Len(b) \in Nat /\ MaxActive \in Nat
    BY <1>3, <1>4, LenProperties, HmiNumbersHold DEF HmiNumbers
  <2> QED BY <1>1, <1>4, <2>1
<1>9. ASSUME NEW state \in HMIAlarmState \ {"NORMAL"}
      PROVE  Cardinality(InState(b, state)) = Cardinality(InState(a, state))
  <2> DEFINE K == {r \in HMIAlarmRecord : r.state = state}
  <2>1. Number(b, K) = Number(a, K)
    BY <1>4
  <2>2. ASSUME NEW s \in Seq(HMIAlarmRecord) PROVE InState(s, state) = Of(s, K)
    <3>1. \A i \in DOMAIN s : s[i] \in HMIAlarmRecord
      BY LenProperties, ElementOfSeq
    <3> QED BY <3>1 DEF InState, Of
  <2>3. InState(a, state) = Of(a, K) /\ InState(b, state) = Of(b, K)
    BY <1>3, <1>4, <2>2
  <2> QED BY <2>1, <2>3 DEF Number
<1>10. \A state \in HMIAlarmState \ {"NORMAL"} :
         Cardinality(InState(new.active, state)) = Cardinality(InState(old.active, state))
  BY <1>6, <1>9 DEF a
<1> QED BY <1>1, <1>2, <1>6, <1>7, <1>8, <1>10 DEF SummaryInv, new, old, a

LEMMA SecondKept ==
  ASSUME SummaryInv, Second
  PROVE  SummaryInv' /\ summary'.active = summary.active
<1> DEFINE old == summary
           new == summary'
           now == old.now + 1
<1>1. /\ old \in SummaryRecord /\ Len(old.active) <= MaxActive /\ miscounted \in BOOLEAN
      /\ Tallied(old, miscounted) /\ Recorded(old)
  BY DEF SummaryInv
<1>2. new = [old EXCEPT !.now = now] /\ old.now < MaxNow /\ miscounted' = miscounted
  BY DEF Second
<1>3. /\ old.now \in 0 .. MaxNow /\ old.history \in Seq(0 .. MaxNow) /\ MaxNow \in Nat
  BY <1>1, HmiNumbersHold DEF SummaryRecord, HmiNumbers
<1>4. now \in 0 .. MaxNow
  BY <1>2, <1>3
<1>5. \A i \in DOMAIN old.history : old.history[i] \in 0 .. MaxNow
  BY <1>3, LenProperties, ElementOfSeq
<1>6. \A i \in DOMAIN old.history : old.history[i] <= now
  BY <1>1, <1>3, <1>5 DEF Recorded
<1> HIDE DEF old, now
<1>7. /\ new \in SummaryRecord /\ new.active = old.active /\ new.shelved = old.shelved
      /\ new.unacknowledged = old.unacknowledged /\ new.history = old.history
      /\ new.flood = old.flood /\ new.now = now
  BY <1>1, <1>2, <1>4 DEF SummaryRecord
<1> HIDE DEF new
<1>8. Tallied(new, miscounted) /\ Recorded(new)
  BY <1>1, <1>6, <1>7 DEF Tallied, Recorded
<1> QED BY <1>1, <1>2, <1>7, <1>8 DEF SummaryInv, new, old

(* No step but the clearing makes the list shorter. *)
NoneLost ==
  \A state \in HMIAlarmState \ {"NORMAL"} :
    Len(summary'.active) < Len(summary.active) =>
      Cardinality(InState(summary'.active, state)) = Cardinality(InState(summary.active, state))

LEMMA SummaryKept ==
  ASSUME SummaryInv, SummaryNext
  PROVE  SummaryInv' /\ NoneLost
<1>1. Len(summary.active) \in Nat
  BY LenProperties DEF SummaryInv, SummaryRecord
<1>2. ASSUME Len(summary'.active) = Len(summary.active) \/ summary'.active = summary.active
      PROVE  NoneLost
  <2>1. ~ (Len(summary'.active) < Len(summary.active))
    BY <1>1, <1>2
  <2> QED BY <2>1 DEF NoneLost
<1>3. CASE \E source \in Sources, priority \in {1, 3}, requires_ack \in BOOLEAN :
              alarm_add(source, priority, requires_ack)
  BY <1>3, AddKept DEF NoneLost
<1>4. CASE \E place \in 0 .. MaxActive - 1 :
             \/ alarm_acknowledge(place) \/ alarm_shelve(place)
             \/ alarm_unshelve(place) \/ ReturnToNormal(place)
  <2>1. PICK place \in 0 .. MaxActive - 1 :
             \/ alarm_acknowledge(place) \/ alarm_shelve(place)
             \/ alarm_unshelve(place) \/ ReturnToNormal(place)
    BY <1>4
  <2>2. SummaryInv' /\ Len(summary'.active) = Len(summary.active)
    BY <2>1, AcknowledgeKept, ShelveKept, UnshelveKept, ReturnKept
  <2> QED BY <1>2, <2>2
<1>5. CASE alarm_clear_inactive
  BY <1>5, ClearKept DEF NoneLost
<1>6. CASE Second
  BY <1>2, <1>6, SecondKept
<1> QED BY <1>3, <1>4, <1>5, <1>6 DEF SummaryNext

LEMMA SummarySuffices ==
  ASSUME SummaryInv
  PROVE  /\ summary.active \in Seq(HMIAlarmRecord) /\ Len(summary.active) <= MaxActive
         /\ summary.shelved \in Nat /\ summary.unacknowledged \in Nat
         /\ summary.history \in Seq(0 .. MaxNow) /\ summary.flood \in BOOLEAN
         /\ miscounted \in BOOLEAN
         /\ CountsAreTrue /\ FloodWasReal
<1> DEFINE a == summary.active
<1>1. a \in Seq(HMIAlarmRecord)
  BY DEF SummaryInv, SummaryRecord
<1>2. \A i \in DOMAIN a : a[i] \in HMIAlarmRecord
  BY <1>1, LenProperties, ElementOfSeq
<1>3. /\ InState(a, "SHELVED") = Of(a, ShelvedOnes)
      /\ {i \in DOMAIN a : Counted(a[i])} = Of(a, CountedOnes)
  BY <1>2 DEF InState, Of, ShelvedOnes, CountedOnes
<1>4. CountsAreTrue
  BY <1>3 DEF SummaryInv, Tallied, CountsAreTrue, Number
<1>5. FloodWasReal
  BY DEF SummaryInv, Recorded, FloodWasReal
<1> QED BY <1>4, <1>5 DEF SummaryInv, SummaryRecord

PenInv ==
  LET n == Len(pen.all)
      m == Len(pen.samples) IN
  /\ pen \in [samples : Seq(SampleValues), all : Seq(SampleValues)]
  /\ m = IF n < SampleCount THEN n ELSE SampleCount
  /\ \A i \in 1 .. m : pen.samples[i] = pen.all[n - m + i]

LEMMA PenStarts ==
  ASSUME station_init
  PROVE  PenInv
<1> DEFINE none == << >>
<1>1. pen = [samples |-> none, all |-> none]
  BY DEF station_init
<1>2. none \in Seq(SampleValues) /\ Len(none) = 0
  OBVIOUS
<1>3. SampleCount \in Nat /\ SampleCount >= 1
  BY HmiNumbersHold DEF HmiNumbers
<1> HIDE DEF none
<1>4. pen.samples = none /\ pen.all = none
  BY <1>1
<1>5. pen \in [samples : Seq(SampleValues), all : Seq(SampleValues)]
  BY <1>1, <1>2
<1> QED BY <1>2, <1>3, <1>4, <1>5 DEF PenInv

LEMMA PenKept ==
  ASSUME PenInv, TrendNext
  PROVE  PenInv'
<1>1. PICK value \in SampleValues : trend_add_sample(value)
  BY DEF TrendNext
<1> DEFINE all == pen.all
           old == pen.samples
           n == Len(all)
           m == Len(old)
           cut == IF m >= SampleCount THEN Tail(old) ELSE old
           k == Len(cut)
           more == Append(all, value)
           new == Append(cut, value)
<1>2. /\ all \in Seq(SampleValues) /\ old \in Seq(SampleValues)
      /\ m = (IF n < SampleCount THEN n ELSE SampleCount)
      /\ \A i \in 1 .. m : old[i] = all[n - m + i]
  BY DEF PenInv
<1>3. pen' = [samples |-> new, all |-> more]
  BY <1>1 DEF trend_add_sample
<1>4. SampleCount \in Nat /\ SampleCount >= 1 /\ n \in Nat /\ m \in Nat
  BY <1>2, LenProperties, HmiNumbersHold DEF HmiNumbers
<1>5. /\ cut \in Seq(SampleValues) /\ k \in Nat /\ k <= n /\ k < SampleCount
      /\ k = IF m >= SampleCount THEN m - 1 ELSE m
      /\ \A i \in 1 .. k : cut[i] = all[n - k + i]
  <2>1. CASE m >= SampleCount
    <3>1. old # << >>
      BY <1>4, <2>1
    <3>2. /\ Tail(old) \in Seq(SampleValues) /\ Len(Tail(old)) = m - 1
          /\ \A i \in 1 .. m - 1 : Tail(old)[i] = old[i + 1]
      BY <1>2, <3>1, HeadTailProperties
    <3>3. cut = Tail(old) /\ k = m - 1
      BY <2>1, <3>2
    <3> HIDE DEF cut, k, n, m
    <3>4. k \in Nat /\ k <= n /\ k < SampleCount
      BY <1>2, <1>4, <2>1, <3>3
    <3>5. ASSUME NEW i \in 1 .. k PROVE cut[i] = all[n - k + i]
      <4>1. i + 1 \in 1 .. m /\ i \in 1 .. m - 1 /\ n - m + (i + 1) = n - k + i
        BY <1>4, <3>3, <3>4
      <4>2. old[i + 1] = all[n - m + (i + 1)]
        BY <1>2, <4>1
      <4> QED BY <3>2, <3>3, <4>1, <4>2
    <3> QED BY <2>1, <3>2, <3>3, <3>4, <3>5
  <2>2. CASE ~ (m >= SampleCount)
    <3>1. cut = old /\ k = m /\ m = n
      BY <1>2, <1>4, <2>2
    <3> HIDE DEF cut, k, n, m
    <3>2. \A i \in 1 .. k : cut[i] = all[n - k + i]
      BY <1>2, <3>1
    <3> QED BY <1>2, <1>4, <2>2, <3>1, <3>2
  <2> QED BY <2>1, <2>2
<1> HIDE DEF cut, k, n, m, all, old
<1>6. /\ more \in Seq(SampleValues) /\ Len(more) = n + 1 /\ more[n + 1] = value
      /\ \A i \in 1 .. n : more[i] = all[i]
  BY <1>2, AppendProperties DEF n
<1>7. /\ new \in Seq(SampleValues) /\ Len(new) = k + 1 /\ new[k + 1] = value
      /\ \A i \in 1 .. k : new[i] = cut[i]
  BY <1>5, AppendProperties DEF k
<1> HIDE DEF more, new
<1>8. Len(new) = IF Len(more) < SampleCount THEN Len(more) ELSE SampleCount
  BY <1>2, <1>4, <1>5, <1>6, <1>7
<1>9. ASSUME NEW i \in 1 .. Len(new) PROVE new[i] = more[Len(more) - Len(new) + i]
  <2>1. Len(more) - Len(new) + i = n - k + i
    BY <1>4, <1>5, <1>6, <1>7
  <2>2. CASE i = k + 1
    <3>1. n - k + i = n + 1
      BY <1>4, <1>5, <2>2
    <3> QED BY <1>6, <1>7, <2>1, <2>2, <3>1
  <2>3. CASE i # k + 1
    <3>1. i \in 1 .. k /\ n - k + i \in 1 .. n
      BY <1>4, <1>5, <1>7, <2>3
    <3>2. more[n - k + i] = all[n - k + i]
      BY <1>6, <3>1
    <3> QED BY <1>5, <1>7, <2>1, <3>1, <3>2
  <2> QED BY <2>2, <2>3
<1>10. pen' \in [samples : Seq(SampleValues), all : Seq(SampleValues)]
       /\ pen'.samples = new /\ pen'.all = more
  BY <1>3, <1>6, <1>7
<1> QED BY <1>8, <1>9, <1>10 DEF PenInv

(* The extremes of a sequence are reached. *)
LEMMA LeastOfSeq ==
  ASSUME NEW s \in Seq(Int), Len(s) > 0
  PROVE  \E k \in 1 .. Len(s) : \A j \in 1 .. Len(s) : s[k] <= s[j]
<1> DEFINE n == Len(s)
           Has(k) == \E i \in 1 .. k : \A j \in 1 .. k : s[i] <= s[j]
           T == {k \in 0 .. n : k = 0 \/ Has(k)}
<1>1. n \in Nat /\ n > 0 /\ \A i \in 1 .. n : s[i] \in Int
  BY LenProperties, ElementOfSeq
<1> HIDE DEF n
<1>2. 0 \in T
  BY <1>1
<1>3. ASSUME NEW k \in 0 .. n - 1, k \in T PROVE k + 1 \in T
  <2> DEFINE m == k + 1
  <2>1. m \in 1 .. n /\ k \in Nat /\ \A j \in 1 .. m : j = m \/ j \in 1 .. k
    BY <1>1
  <2>2. CASE k = 0
    <3>1. m = 1 /\ \A j \in 1 .. m : j = 1
      BY <2>2
    <3> QED BY <1>1, <2>1, <3>1
  <2>3. CASE Has(k)
    <3>1. PICK i \in 1 .. k : \A j \in 1 .. k : s[i] <= s[j]
      BY <2>3
    <3>2. i \in 1 .. n /\ i \in 1 .. m /\ m \in 1 .. m
      BY <1>1, <2>1
    <3>3. CASE s[i] <= s[m]
      <4>1. \A j \in 1 .. m : s[i] <= s[j]
        BY <2>1, <3>1, <3>3
      <4> QED BY <2>1, <3>2, <4>1
    <3>4. CASE ~ (s[i] <= s[m])
      <4>1. \A j \in 1 .. k : s[j] \in Int
        BY <1>1
      <4>2. \A j \in 1 .. m : s[m] <= s[j]
        BY <1>1, <2>1, <3>1, <3>2, <3>4, <4>1
      <4> QED BY <2>1, <3>2, <4>2
    <3> QED BY <3>3, <3>4
  <2> QED BY <1>3, <2>2, <2>3
<1> HIDE DEF T
<1>4. 0 .. n \subseteq T
  BY <1>1, <1>2, <1>3, SetInduction
<1>5. n \in T /\ n # 0
  BY <1>1, <1>4
<1> QED BY <1>5 DEF T, n

LEMMA ExtremesOfSeq ==
  ASSUME NEW s \in Seq(Int), Len(s) > 0
  PROVE  /\ Min(ToSet(s)) \in Int /\ Max(ToSet(s)) \in Int
         /\ \A i \in 1 .. Len(s) : Min(ToSet(s)) <= s[i] /\ s[i] <= Max(ToSet(s))
<1> DEFINE n == Len(s)
           S == ToSet(s)
           minus == [i \in 1 .. n |-> 0 - s[i]]
<1>1. n \in Nat /\ n > 0 /\ DOMAIN s = 1 .. n /\ \A i \in 1 .. n : s[i] \in Int
  BY LenProperties, ElementOfSeq
<1>2. S = {s[i] : i \in 1 .. n}
  BY <1>1 DEF ToSet
<1>3. PICK k \in 1 .. n : \A j \in 1 .. n : s[k] <= s[j]
  BY LeastOfSeq
<1>4. PICK l \in 1 .. n : \A j \in 1 .. n : s[j] <= s[l]
  <2>1. \A i \in 1 .. n : minus[i] = 0 - s[i] /\ minus[i] \in Int
    BY <1>1
  <2>2. minus \in Seq(Int) /\ Len(minus) = n
    <3> DEFINE f == minus
    <3>1. f \in [1 .. n -> Int]
      BY <1>1
    <3> HIDE DEF f, n
    <3>2. f \in Seq(Int)
      BY <1>1, <3>1, SeqDef
    <3>3. Len(f) = n
      BY <1>1, <3>1, <3>2, LenProperties
    <3> QED BY <3>2, <3>3 DEF f
  <2> HIDE DEF minus, n
  <2>3. PICK l \in 1 .. n : \A j \in 1 .. n : minus[l] <= minus[j]
    BY <1>1, <2>2, LeastOfSeq
  <2>4. \A j \in 1 .. n : s[j] <= s[l]
    BY <1>1, <2>1, <2>3
  <2> QED BY <2>4
<1> HIDE DEF n, S, minus
<1>5. \E x \in S : \A y \in S : x <= y
  BY <1>2, <1>3
<1>6. \E x \in S : \A y \in S : x >= y
  <2>1. \A j \in 1 .. n : s[l] >= s[j]
    BY <1>1, <1>4
  <2> QED BY <1>2, <2>1
<1>7. Min(S) \in S /\ \A y \in S : Min(S) <= y
  BY <1>5 DEF Min
<1>8. Max(S) \in S /\ \A y \in S : Max(S) >= y
  BY <1>6 DEF Max
<1>9. \A i \in 1 .. n : s[i] \in S
  BY <1>2
<1>10. S \subseteq Int
  BY <1>1, <1>2
<1>11. Min(S) \in Int /\ Max(S) \in Int
  BY <1>7, <1>8, <1>10
<1>12. \A i \in 1 .. n : Min(S) <= s[i] /\ s[i] <= Max(S)
  <2> TAKE i \in 1 .. n
  <2> DEFINE x == Max(S)
             y == Min(S)
  <2>1. s[i] \in S /\ s[i] \in Int /\ x \in Int /\ y \in Int
    BY <1>1, <1>9, <1>11
  <2>2. x >= s[i] /\ y <= s[i]
    BY <1>7, <1>8, <2>1
  <2> HIDE DEF x, y
  <2>3. s[i] <= x /\ y <= s[i]
    BY <2>1, <2>2
  <2> QED BY <2>3 DEF x, y
<1> QED BY <1>11, <1>12 DEF n, S

LEMMA PenSuffices ==
  ASSUME PenInv
  PROVE  Len(pen.samples) <= SampleCount /\ PenShowsTheLast
<1> DEFINE all == pen.all
           s == pen.samples
           n == Len(all)
           m == Len(s)
           c == n - SampleCount + 1
           lo == Max({1, c})
           e == SubSeq(all, lo, n)
<1>1. /\ all \in Seq(SampleValues) /\ s \in Seq(SampleValues)
      /\ m = (IF n < SampleCount THEN n ELSE SampleCount)
      /\ \A i \in 1 .. m : s[i] = all[n - m + i]
  BY DEF PenInv
<1>2. SampleCount \in Nat /\ SampleCount >= 1 /\ n \in Nat /\ m \in Nat
  BY <1>1, LenProperties, HmiNumbersHold DEF HmiNumbers
<1>3. SampleValues \subseteq Int
  BY HmiAssumption
<1> HIDE DEF n, m, all, s
<1>4. lo = n - m + 1 /\ lo \in Int /\ lo \in Nat
  <2>1. 1 \in Int /\ c \in Int
    BY <1>2
  <2>2. lo = IF 1 >= c THEN 1 ELSE c
    <3> HIDE DEF c
    <3> QED BY <2>1, MaxOfTwo
  <2> HIDE DEF lo
  <2> QED BY <1>1, <1>2, <2>2
<1> HIDE DEF lo
<1>5. \A i \in 1 .. n : all[i] \in SampleValues
  BY <1>1, ElementOfSeq DEF n
<1>6. e = s
  <2>1. \A i \in lo .. n : all[i] \in SampleValues
    BY <1>1, <1>2, <1>4, <1>5
  <2>2. /\ e \in Seq(SampleValues)
        /\ Len(e) = (IF lo <= n THEN n - lo + 1 ELSE 0)
        /\ \A i \in 1 .. n - lo + 1 : e[i] = all[lo + i - 1]
    BY <1>2, <1>4, <2>1, SubSeqProperties
  <2>3. Len(e) = m /\ n - lo + 1 = m /\ \A i \in 1 .. m : lo + i - 1 = n - m + i
    BY <1>1, <1>2, <1>4, <2>2
  <2> HIDE DEF e
  <2>4. \A i \in 1 .. m : e[i] = s[i]
    BY <1>1, <2>2, <2>3
  <2>5. DOMAIN e = 1 .. m /\ DOMAIN s = 1 .. m
    BY <1>1, <2>2, <2>3, LenProperties DEF m
  <2>6. e = [i \in 1 .. m |-> e[i]] /\ s = [i \in 1 .. m |-> s[i]]
    <3>1. e \in [1 .. m -> SampleValues] /\ s \in [1 .. m -> SampleValues]
      BY <1>1, <2>2, <2>3, <2>5, LenProperties DEF m
    <3> QED BY <3>1
  <2> QED BY <2>4, <2>6
<1>7. ASSUME n > 0, NEW k \in lo .. n
      PROVE  all[k] \in Min(ToSet(s)) .. Max(ToSet(s))
  <2> DEFINE i == k - (n - m)
  <2>1. m > 0 /\ i \in 1 .. m /\ n - m + i = k
    BY <1>1, <1>2, <1>4, <1>7
  <2>2. all[k] = s[i]
    BY <1>1, <2>1
  <2>3. s \in Seq(Int) /\ s[i] \in Int
    <3>1. s[i] \in SampleValues
      BY <1>1, <2>1, ElementOfSeq DEF m
    <3>2. s \in [1 .. m -> Int]
      <4>1. s \in [1 .. m -> SampleValues]
        BY <1>1, LenProperties DEF m
      <4> QED BY <1>3, <4>1
    <3>3. s \in Seq(Int)
      BY <1>2, <3>2, SeqDef
    <3> QED BY <1>3, <3>1, <3>3
  <2> DEFINE x == Min(ToSet(s))
             y == Max(ToSet(s))
  <2>4. x \in Int /\ y \in Int /\ x <= s[i] /\ s[i] <= y
    BY <2>1, <2>3, ExtremesOfSeq DEF m
  <2> HIDE DEF x, y, i
  <2>5. s[i] \in x .. y
    BY <2>3, <2>4
  <2> QED BY <2>2, <2>5 DEF x, y
<1>8. m <= SampleCount
  BY <1>1, <1>2
<1>9. all = pen.all /\ s = pen.samples /\ n = Len(pen.all) /\ m = Len(pen.samples)
      /\ lo = Max({1, n - SampleCount + 1})
  BY DEF all, s, n, m, lo
<1>10. PenShowsTheLast
  <2>1. pen.samples = SubSeq(pen.all, Max({1, Len(pen.all) - SampleCount + 1}), Len(pen.all))
    BY <1>6, <1>9
  <2>2. ASSUME Len(pen.all) > 0,
               NEW k \in Max({1, Len(pen.all) - SampleCount + 1}) .. Len(pen.all)
        PROVE  pen.all[k] \in trend_get_statistics.min .. trend_get_statistics.max
    <3>1. trend_get_statistics.min = Min(ToSet(pen.samples))
          /\ trend_get_statistics.max = Max(ToSet(pen.samples))
      BY DEF trend_get_statistics
    <3>2. k \in lo .. n /\ n > 0
      BY <1>9, <2>2
    <3>3. all[k] \in Min(ToSet(s)) .. Max(ToSet(s))
      BY <1>7, <3>2
    <3> QED BY <1>9, <3>1, <3>3
  <2> QED BY <2>1, <2>2, Zenon DEF PenShowsTheLast
<1> QED BY <1>8, <1>9, <1>10

FaceRecord ==
  [pv : Int, sp : Int, op : Int, mode : FaceMode, quality : FaceQuality, pv_color : Color,
   op_color : Color, entered : SUBSET FaceInput]

(* What the operator entered in a faceplate, and the colours it then has. *)
EntriesAreHonest(fp) ==
  /\ "sp" \in fp.entered => fp.sp \in SetpointLimits[1] .. SetpointLimits[2]
  /\ "op" \in fp.entered =>
       /\ fp.op \in OutputLimits[1] .. OutputLimits[2]
       /\ "mode" \in fp.entered \/ (fp.mode = "MANUAL" /\ fp.op_color = "OPERATOR_ENTERED")

Fresh(fp) == faceplate_isa101_color(fp) = fp

(* In MANUAL the output is coloured as entered, unless the mode was changed*)
(* by hand since the report that coloured it. *)
ByHandIsShown(fp) ==
  "mode" \in fp.entered \/ (fp.mode = "MANUAL" => fp.op_color = "OPERATOR_ENTERED")

FaceInv ==
  /\ face \in FaceRecord
  /\ EntriesAreHonest(face) /\ ByHandIsShown(face)
  /\ face.entered = {} => Fresh(face)
  /\ face.pv_color # "ALARM"
  /\ user \in [level : HMISecurityLevel, logged_in : BOOLEAN]

LEMMA FaceLimits ==
  /\ SetpointLimits[1] \in Int /\ SetpointLimits[2] \in Int
  /\ OutputLimits[1] \in Int /\ OutputLimits[2] \in Int
  /\ SetpointLimits[1] <= SetpointLimits[2] /\ OutputLimits[1] <= OutputLimits[2]
  /\ SampleValues \subseteq Int /\ LoopValues \subseteq Int
<1>1. SetpointLimits \in Int \X Int /\ OutputLimits \in Int \X Int
  BY HmiAssumption
<1> QED BY <1>1, HmiAssumption

LEMMA CutBetween ==
  ASSUME NEW lo \in Int, NEW hi \in Int, lo <= hi, NEW v \in Int, NEW limits,
         limits[1] = lo, limits[2] = hi
  PROVE  CutTo(v, limits) \in lo .. hi /\ CutTo(v, limits) \in Int
BY DEF CutTo

LEMMA FaceStarts ==
  ASSUME station_init
  PROVE  FaceInv
<1> DEFINE z == 0
           sp == SetpointLimits[1]
           op == OutputLimits[1]
           e  == {"mode"}
<1>1. /\ face = [pv |-> z, sp |-> sp, op |-> op, mode |-> "MANUAL", quality |-> "GOOD",
                 pv_color |-> "LIVE_VALUE", op_color |-> "LIVE_VALUE", entered |-> e]
      /\ user = [level |-> z, logged_in |-> FALSE]
  BY DEF station_init
<1>2. z \in Int /\ z \in HMISecurityLevel /\ sp \in Int /\ op \in Int
  BY FaceLimits DEF HMISecurityLevel
<1>3. e \in SUBSET FaceInput /\ "sp" \notin e /\ "op" \notin e /\ "mode" \in e /\ e # {}
  BY DEF FaceInput
<1> HIDE DEF z, sp, op, e
<1>4. face \in FaceRecord /\ face.entered = e /\ face.pv_color # "ALARM"
  BY <1>1, <1>2, <1>3 DEF FaceRecord, FaceMode, FaceQuality, Color
<1>5. user \in [level : HMISecurityLevel, logged_in : BOOLEAN]
  BY <1>1, <1>2
<1>6. EntriesAreHonest(face) /\ ByHandIsShown(face)
  BY <1>3, <1>4 DEF EntriesAreHonest, ByHandIsShown
<1> QED BY <1>3, <1>4, <1>5, <1>6 DEF FaceInv

(* The colour of the process value: by quality and deviation. *)
PvColor(fp) ==
  CASE fp.quality # "GOOD" -> "BAD_QUALITY"
    [] /\ fp.quality = "GOOD" /\ DeviationHi > 0
       /\ fp.pv - fp.sp \notin -DeviationHi .. DeviationHi -> "DEVIATION"
    [] OTHER -> "LIVE_VALUE"

OpColor(fp) == IF fp.mode = "MANUAL" THEN "OPERATOR_ENTERED" ELSE "LIVE_VALUE"

LEMMA ColorsAre ==
  ASSUME NEW fp \in FaceRecord
  PROVE  /\ faceplate_isa101_color(fp) \in FaceRecord
         /\ faceplate_isa101_color(fp).entered = fp.entered
         /\ faceplate_isa101_color(fp).mode = fp.mode
         /\ faceplate_isa101_color(fp).mode = "MANUAL"
              => faceplate_isa101_color(fp).op_color = "OPERATOR_ENTERED"
         /\ faceplate_isa101_color(fp).pv_color # "ALARM"
         /\ Fresh(faceplate_isa101_color(fp))
<1> DEFINE pc == PvColor(fp)
           oc == OpColor(fp)
           x  == faceplate_isa101_color(fp)
<1>1. \A f : faceplate_isa101_color(f) = [f EXCEPT !.pv_color = PvColor(f), !.op_color = OpColor(f)]
  BY Zenon DEF faceplate_isa101_color, PvColor, OpColor
<1>2. pc \in Color /\ pc # "ALARM"
  <2>1. CASE fp.quality # "GOOD"
    BY <2>1 DEF Color, PvColor
  <2>2. CASE fp.quality = "GOOD"
    BY <2>2 DEF Color, PvColor
  <2> QED BY <2>1, <2>2
<1>3. oc \in Color /\ (fp.mode = "MANUAL" => oc = "OPERATOR_ENTERED")
  BY DEF Color, OpColor
<1>4. x = [fp EXCEPT !.pv_color = pc, !.op_color = oc]
  BY <1>1
<1> HIDE DEF pc, oc, x
<1>5. /\ x \in FaceRecord /\ x.pv_color = pc /\ x.op_color = oc /\ x.entered = fp.entered
      /\ x.mode = fp.mode /\ x.quality = fp.quality /\ x.pv = fp.pv /\ x.sp = fp.sp
  BY <1>2, <1>3, <1>4 DEF FaceRecord
<1>6. PvColor(x) = pc /\ OpColor(x) = oc
  <2>1. PvColor(x) = PvColor(fp)
    BY <1>5, Zenon DEF PvColor
  <2>2. OpColor(x) = OpColor(fp)
    BY <1>5, Zenon DEF OpColor
  <2> QED BY <2>1, <2>2 DEF pc, oc
<1>7. [x EXCEPT !.pv_color = pc, !.op_color = oc] = x
  BY <1>5 DEF FaceRecord
<1>8. Fresh(x)
  BY <1>1, <1>6, <1>7, Zenon DEF Fresh
<1> QED BY <1>2, <1>3, <1>5, <1>8 DEF x

LEMMA FaceKept ==
  ASSUME FaceInv, FaceNext
  PROVE  FaceInv'
<1> DEFINE old == face
           new == face'
<1>1. /\ old \in FaceRecord /\ old.pv_color # "ALARM" /\ old.entered \subseteq FaceInput
      /\ EntriesAreHonest(old) /\ ByHandIsShown(old)
      /\ user \in [level : HMISecurityLevel, logged_in : BOOLEAN]
  BY DEF FaceInv, FaceRecord
<1>2. ASSUME NEW pv \in LoopValues, NEW sp \in LoopValues, NEW op \in LoopValues,
             NEW mode \in FaceMode, NEW quality \in FaceQuality,
             faceplate_update(pv, sp, op, mode, quality)
      PROVE  FaceInv'
  <2> DEFINE none == {}
             fp == [old EXCEPT !.pv = pv, !.sp = sp, !.op = op, !.mode = mode,
                               !.quality = quality, !.entered = none]
  <2>1. new = faceplate_isa101_color(fp) /\ user' = user
    BY <1>2 DEF faceplate_update
  <2>2. pv \in Int /\ sp \in Int /\ op \in Int /\ none \in SUBSET FaceInput
    BY FaceLimits
  <2>3. "sp" \notin none /\ "op" \notin none
    OBVIOUS
  <2> HIDE DEF old, none
  <2>4. fp \in FaceRecord /\ fp.entered = none
    BY <1>1, <2>2 DEF FaceRecord
  <2> HIDE DEF fp
  <2>5. /\ new \in FaceRecord /\ new.entered = none /\ new.pv_color # "ALARM" /\ Fresh(new)
        /\ new.mode = "MANUAL" => new.op_color = "OPERATOR_ENTERED"
    BY <2>1, <2>4, ColorsAre
  <2> HIDE DEF new
  <2>6. EntriesAreHonest(new) /\ ByHandIsShown(new)
    BY <2>3, <2>5 DEF EntriesAreHonest, ByHandIsShown
  <2> QED BY <1>1, <2>1, <2>5, <2>6 DEF FaceInv, new
<1>3. ASSUME NEW value \in SampleValues, faceplate_set_sp(value)
      PROVE  FaceInv'
  <2> DEFINE sp == CutTo(value, SetpointLimits)
             e  == old.entered \cup {"sp"}
  <2>1. new = [old EXCEPT !.sp = sp, !.entered = e] /\ user' = user
    BY <1>3 DEF faceplate_set_sp
  <2>2. sp \in Int /\ sp \in SetpointLimits[1] .. SetpointLimits[2]
    <3>1. value \in Int
      BY FaceLimits
    <3> QED BY <3>1, FaceLimits, CutBetween
  <2>3. /\ e \in SUBSET FaceInput /\ e # {}
        /\ "op" \in e <=> "op" \in old.entered
        /\ "mode" \in e <=> "mode" \in old.entered
    BY <1>1 DEF FaceInput
  <2> HIDE DEF old, sp, e
  <2>4. /\ new \in FaceRecord /\ new.sp = sp /\ new.op = old.op /\ new.entered = e
        /\ new.mode = old.mode /\ new.pv_color = old.pv_color /\ new.op_color = old.op_color
    BY <1>1, <2>1, <2>2, <2>3 DEF FaceRecord
  <2> HIDE DEF new
  <2>5. EntriesAreHonest(new) /\ ByHandIsShown(new)
    BY <1>1, <2>2, <2>3, <2>4 DEF EntriesAreHonest, ByHandIsShown
  <2> QED BY <1>1, <2>1, <2>3, <2>4, <2>5 DEF FaceInv, new
<1>4. ASSUME NEW value \in SampleValues, faceplate_set_op(value)
      PROVE  FaceInv'
  <2> DEFINE op == CutTo(value, OutputLimits)
             e  == old.entered \cup {"op"}
  <2>1. new = [old EXCEPT !.op = op, !.entered = e] /\ user' = user /\ old.mode = "MANUAL"
    BY <1>4 DEF faceplate_set_op
  <2>2. op \in Int /\ op \in OutputLimits[1] .. OutputLimits[2]
    <3>1. value \in Int
      BY FaceLimits
    <3> QED BY <3>1, FaceLimits, CutBetween
  <2>3. /\ e \in SUBSET FaceInput /\ e # {}
        /\ "sp" \in e <=> "sp" \in old.entered
        /\ "mode" \in e <=> "mode" \in old.entered
    BY <1>1 DEF FaceInput
  <2> HIDE DEF old, op, e
  <2>4. /\ new \in FaceRecord /\ new.op = op /\ new.sp = old.sp /\ new.entered = e
        /\ new.mode = old.mode /\ new.pv_color = old.pv_color /\ new.op_color = old.op_color
    BY <1>1, <2>1, <2>2, <2>3 DEF FaceRecord
  <2> HIDE DEF new
  <2>5. EntriesAreHonest(new) /\ ByHandIsShown(new)
    BY <1>1, <2>1, <2>2, <2>3, <2>4 DEF EntriesAreHonest, ByHandIsShown
  <2> QED BY <1>1, <2>1, <2>3, <2>4, <2>5 DEF FaceInv, new
<1>5. ASSUME NEW mode \in FaceMode, faceplate_set_mode(mode)
      PROVE  FaceInv'
  <2> DEFINE e == old.entered \cup {"mode"}
  <2>1. new = [old EXCEPT !.mode = mode, !.entered = e] /\ user' = user
    BY <1>5 DEF faceplate_set_mode
  <2>2. /\ e \in SUBSET FaceInput /\ e # {} /\ "mode" \in e
        /\ "sp" \in e <=> "sp" \in old.entered
        /\ "op" \in e <=> "op" \in old.entered
    BY <1>1 DEF FaceInput
  <2> HIDE DEF old, e
  <2>3. /\ new \in FaceRecord /\ new.op = old.op /\ new.sp = old.sp /\ new.entered = e
        /\ new.pv_color = old.pv_color
    BY <1>1, <2>1, <2>2 DEF FaceRecord
  <2> HIDE DEF new
  <2>4. EntriesAreHonest(new) /\ ByHandIsShown(new)
    BY <1>1, <2>2, <2>3 DEF EntriesAreHonest, ByHandIsShown
  <2> QED BY <1>1, <2>1, <2>2, <2>3, <2>4 DEF FaceInv, new
<1>6. ASSUME NEW level \in 1 .. 5, operator_login(level)
      PROVE  FaceInv'
  <2>1. user' = [level |-> level, logged_in |-> TRUE] /\ face' = face
    BY <1>6 DEF operator_login
  <2>2. user' \in [level : HMISecurityLevel, logged_in : BOOLEAN]
    BY <2>1 DEF HMISecurityLevel
  <2> QED BY <1>1, <2>1, <2>2 DEF FaceInv
<1>7. ASSUME operator_logout
      PROVE  FaceInv'
  <2>1. user' = [user EXCEPT !.logged_in = FALSE] /\ face' = face
    BY <1>7 DEF operator_logout
  <2>2. user' \in [level : HMISecurityLevel, logged_in : BOOLEAN]
    BY <1>1, <2>1
  <2> QED BY <1>1, <2>1, <2>2 DEF FaceInv
<1> QED BY <1>2, <1>3, <1>4, <1>5, <1>6, <1>7 DEF FaceNext

ShownInv ==
  shown \subseteq Displays /\ (shown = {} \/ \E d \in Displays : shown = {d})

LEMMA ShownKept ==
  ASSUME ShownInv, DisplayNext
  PROVE  ShownInv'
<1>1. PICK d : display_navigate_to(d)
  BY DEF DisplayNext, NavigateUp
<1> QED BY <1>1 DEF display_navigate_to, ShownInv

LEMMA ShownIsOne ==
  ASSUME ShownInv
  PROVE  Cardinality(shown) <= 1
<1>1. CASE shown = {}
  <2>1. Cardinality(shown) = 0
    BY <1>1, FS_EmptySet
  <2> QED BY <2>1
<1>2. CASE \E d \in Displays : shown = {d}
  <2>1. Cardinality(shown) = 1
    BY <1>2, FS_Singleton
  <2> QED BY <2>1
<1> QED BY <1>1, <1>2 DEF ShownInv

HmiInv == SummaryInv /\ PenInv /\ FaceInv /\ ShownInv

LEMMA HmiStarts ==
  ASSUME station_init
  PROVE  HmiInv
<1>1. ShownInv
  BY DEF station_init, ShownInv
<1> QED BY <1>1, SummaryStarts, PenStarts, FaceStarts DEF HmiInv

(* Each part of the station leaves the others alone. *)
HmiFrames ==
  /\ SummaryNext => UNCHANGED <<pen, face, user, shown>>
  /\ TrendNext => UNCHANGED <<summary, miscounted, face, user, shown>>
  /\ FaceNext => UNCHANGED <<summary, miscounted, pen, shown>>
  /\ DisplayNext => UNCHANGED <<summary, miscounted, pen, face, user>>

LEMMA HmiFramesHold == HmiFrames
<1>1. SummaryNext => UNCHANGED <<pen, face, user, shown>>
  BY DEF SummaryNext, alarm_add, alarm_acknowledge, alarm_shelve, alarm_unshelve,
         alarm_clear_inactive, ReturnToNormal, Second
<1>2. TrendNext => UNCHANGED <<summary, miscounted, face, user, shown>>
  BY DEF TrendNext, trend_add_sample
<1>3. FaceNext => UNCHANGED <<summary, miscounted, pen, shown>>
  BY DEF FaceNext, faceplate_update, faceplate_set_sp, faceplate_set_op, faceplate_set_mode,
         operator_login, operator_logout
<1>4. DisplayNext => UNCHANGED <<summary, miscounted, pen, face, user>>
  BY DEF DisplayNext, NavigateUp, display_navigate_to
<1> QED BY <1>1, <1>2, <1>3, <1>4 DEF HmiFrames

LEMMA HmiKept ==
  ASSUME HmiInv, SummaryNext \/ TrendNext \/ FaceNext \/ DisplayNext
  PROVE  HmiInv' /\ (summary' # summary => NoneLost)
<1>1. CASE SummaryNext
  <2>1. UNCHANGED <<pen, face, user, shown>>
    BY <1>1, HmiFramesHold DEF HmiFrames
  <2>2. SummaryInv' /\ NoneLost
    BY <1>1, SummaryKept DEF HmiInv
  <2>3. PenInv' /\ FaceInv' /\ ShownInv'
    BY <2>1 DEF HmiInv, PenInv, FaceInv, ShownInv
  <2> QED BY <2>2, <2>3 DEF HmiInv
<1>2. CASE TrendNext
  <2>1. UNCHANGED <<summary, miscounted, face, user, shown>>
    BY <1>2, HmiFramesHold DEF HmiFrames
  <2>2. PenInv'
    BY <1>2, PenKept DEF HmiInv
  <2>3. SummaryInv' /\ FaceInv' /\ ShownInv'
    BY <2>1 DEF HmiInv, SummaryInv, FaceInv, ShownInv
  <2> QED BY <2>1, <2>2, <2>3 DEF HmiInv
<1>3. CASE FaceNext
  <2>1. UNCHANGED <<summary, miscounted, pen, shown>>
    BY <1>3, HmiFramesHold DEF HmiFrames
  <2>2. FaceInv'
    BY <1>3, FaceKept DEF HmiInv
  <2>3. SummaryInv' /\ PenInv' /\ ShownInv'
    BY <2>1 DEF HmiInv, SummaryInv, PenInv, ShownInv
  <2> QED BY <2>1, <2>2, <2>3 DEF HmiInv
<1>4. CASE DisplayNext
  <2>1. UNCHANGED <<summary, miscounted, pen, face, user>>
    BY <1>4, HmiFramesHold DEF HmiFrames
  <2>2. ShownInv'
    BY <1>4, ShownKept DEF HmiInv
  <2>3. SummaryInv' /\ PenInv' /\ FaceInv'
    BY <2>1 DEF HmiInv, SummaryInv, PenInv, FaceInv
  <2> QED BY <2>1, <2>2, <2>3 DEF HmiInv
<1> QED BY <1>1, <1>2, <1>3, <1>4

LEMMA HmiSuffices ==
  ASSUME HmiInv
  PROVE  HmiTypeOK /\ CountsAreTrue /\ FloodWasReal /\ PenShowsTheLast /\ FaceIsHonest
<1>1. SummaryInv /\ PenInv /\ FaceInv /\ ShownInv
  BY DEF HmiInv
<1>2. FaceIsHonest
  BY <1>1, ShownIsOne DEF FaceInv, EntriesAreHonest, Fresh, FaceIsHonest, isa101_verify_colors
<1>3. HmiTypeOK
  <2>1. /\ face.mode \in FaceMode /\ face.entered \subseteq FaceInput
        /\ face.pv_color \in Color /\ face.op_color \in Color
        /\ user.level \in HMISecurityLevel /\ user.logged_in \in BOOLEAN
    BY <1>1 DEF FaceInv, FaceRecord
  <2>2. shown \subseteq Displays
    BY <1>1 DEF ShownInv
  <2> QED BY <1>1, <2>1, <2>2, SummarySuffices, PenSuffices DEF HmiTypeOK
<1> QED BY <1>1, <1>2, <1>3, SummarySuffices, PenSuffices

(* What a step does to the Experion: a step of a part, or nothing. *)
LEMMA ExperionFrame ==
  ASSUME [StationNext]_stationVars
  PROVE  /\ CeeNext \/ UNCHANGED ceeVars
         /\ C300Next \/ UNCHANGED c300Vars
         /\ SystemNext \/ redundancy_log_failover \/ NetworkNext \/ RampNext \/ UNCHANGED systemVars
         /\ PidNext \/ TableNext \/ UNCHANGED blockVars
         /\ CabNext \/ AverageNext \/ BandNext \/ RateNext \/ BulkNext \/ UNCHANGED cabVars
         /\ SummaryNext \/ TrendNext \/ FaceNext \/ DisplayNext \/ UNCHANGED hmiVars
BY Zenon DEF StationNext, stationVars, EcsStep, ExperionStep, experionVars, CeeStep, C300Step,
   SystemStep, BlockStep, CabStep, HmiStep

ControllerInv == CeeInv /\ C300Inv /\ SystemInv /\ LogInv /\ NetworkInv /\ RampInv

LibraryInv == CabInv /\ AverageInv /\ BandInv /\ RateInv /\ BookInv

ExperionInv == ControllerInv /\ BlockInv /\ TableInv /\ LibraryInv /\ HmiInv

LEMMA TableStarts ==
  ASSUME table = << >>
  PROVE  TableInv
<1> DEFINE none == << >>
<1>1. none \in Seq(Points) /\ DOMAIN none = {} /\ table = none /\ Len(none) = 0
  OBVIOUS
<1>2. Len(none) <= MaxPoints
  BY <1>1, BlockNumbers
<1> HIDE DEF none
<1> QED BY <1>1, <1>2, BlockNumbers DEF TableInv

LEMMA ExperionStarts == StationInit => ExperionInv
<1> SUFFICES ASSUME StationInit PROVE ExperionInv
  OBVIOUS
<1>1. /\ cee_init /\ c300_init /\ experion_system_init /\ pid_block_init /\ CabInit /\ station_init
  BY DEF StationInit
<1>2. ControllerInv
  BY <1>1, CeeStarts, C300Starts, SystemStarts, LogStarts, NetworkStarts, RampStarts DEF ControllerInv
<1>3. BlockInv /\ TableInv
  BY <1>1, BlockStarts, TableStarts
<1>4. LibraryInv
  BY <1>1, CabStarts, AverageStarts, BandStarts, RateStarts, BookStarts DEF LibraryInv
<1> QED BY <1>1, <1>2, <1>3, <1>4, HmiStarts DEF ExperionInv

LEMMA ControllerStays ==
  ASSUME ControllerInv, [StationNext]_stationVars
  PROVE  ControllerInv'
<1>1. CeeInv'
  <2>1. CASE UNCHANGED ceeVars
    BY <2>1 DEF ControllerInv, CeeInv, ceeVars
  <2> QED BY <2>1, ExperionFrame, CeeKept DEF ControllerInv
<1>2. C300Inv'
  <2>1. CASE UNCHANGED c300Vars
    BY <2>1 DEF ControllerInv, C300Inv, c300Vars
  <2> QED BY <2>1, ExperionFrame, C300Kept DEF ControllerInv
<1>3. SystemInv'
  <2>1. CASE UNCHANGED <<system, stopped>>
    BY <2>1 DEF ControllerInv, SystemInv
  <2>2. CASE UNCHANGED systemVars
    BY <2>1, <2>2 DEF systemVars
  <2> QED BY <2>1, <2>2, ExperionFrame, SystemKept, LogKept, NetworkKept, RampKept DEF ControllerInv
<1>4. LogInv'
  <2>1. CASE UNCHANGED history
    BY <2>1 DEF ControllerInv, LogInv
  <2>2. CASE UNCHANGED systemVars
    BY <2>1, <2>2 DEF systemVars
  <2> QED BY <2>1, <2>2, ExperionFrame, SystemKept, LogKept, NetworkKept, RampKept DEF ControllerInv
<1>5. NetworkInv'
  <2>1. CASE UNCHANGED fte
    BY <2>1 DEF ControllerInv, NetworkInv
  <2>2. CASE UNCHANGED systemVars
    BY <2>1, <2>2 DEF systemVars
  <2> QED BY <2>1, <2>2, ExperionFrame, SystemKept, LogKept, NetworkKept, RampKept DEF ControllerInv
<1>6. RampInv'
  <2>1. CASE UNCHANGED ramp
    BY <2>1 DEF ControllerInv, RampInv
  <2>2. CASE UNCHANGED systemVars
    BY <2>1, <2>2 DEF systemVars
  <2> QED BY <2>1, <2>2, ExperionFrame, SystemKept, LogKept, NetworkKept, RampKept DEF ControllerInv
<1> QED BY <1>1, <1>2, <1>3, <1>4, <1>5, <1>6 DEF ControllerInv

LEMMA LibraryStays ==
  ASSUME LibraryInv, [StationNext]_stationVars
  PROVE  LibraryInv' /\ (rate' # rate => RateOrder) /\ (band' # band => BandOrder)
<1>1. /\ CabNext => UNCHANGED <<ma, seen, band, rate, book>>
      /\ AverageNext => UNCHANGED <<cab, band, rate, book>>
      /\ BandNext => UNCHANGED <<cab, ma, seen, rate, book>>
      /\ RateNext => UNCHANGED <<cab, ma, seen, band, book>>
      /\ BulkNext => UNCHANGED <<cab, ma, seen, band, rate>>
      /\ UNCHANGED cabVars => UNCHANGED <<cab, ma, seen, band, rate, book>>
  BY CabFrames DEF CabSteps, cabVars
<1>2. CabNext \/ AverageNext \/ BandNext \/ RateNext \/ BulkNext \/ UNCHANGED cabVars
  BY ExperionFrame
<1>3. CabInv'
  <2>1. CASE UNCHANGED cab
    BY <2>1 DEF LibraryInv, CabInv
  <2> QED BY <1>1, <1>2, <2>1, CabKept DEF LibraryInv
<1>4. AverageInv'
  <2>1. CASE UNCHANGED <<ma, seen>>
    <3>1. ma' = ma /\ seen' = seen /\ AverageInv
      BY <2>1 DEF LibraryInv
    <3> QED BY <3>1 DEF AverageInv
  <2> QED BY <1>1, <1>2, <2>1, AverageKept DEF LibraryInv
<1>5. BandInv' /\ (band' # band => BandOrder)
  <2>1. CASE UNCHANGED band
    BY <2>1 DEF LibraryInv, BandInv
  <2> QED BY <1>1, <1>2, <2>1, BandKept DEF LibraryInv
<1>6. RateInv' /\ (rate' # rate => RateOrder)
  <2>1. CASE UNCHANGED rate
    BY <2>1 DEF LibraryInv, RateInv
  <2> QED BY <1>1, <1>2, <2>1, RateKept DEF LibraryInv
<1>7. BookInv'
  <2>1. CASE UNCHANGED book
    BY <2>1 DEF LibraryInv, BookInv
  <2> QED BY <1>1, <1>2, <2>1, BookKept DEF LibraryInv
<1> QED BY <1>3, <1>4, <1>5, <1>6, <1>7 DEF LibraryInv

LEMMA BlocksStay ==
  ASSUME BlockInv, TableInv, [StationNext]_stationVars
  PROVE  BlockInv' /\ TableInv'
<1>1. CASE PidNext
  <2>1. BlockInv' /\ table' = table
    BY <1>1, BlockKept
  <2> QED BY <2>1 DEF TableInv
<1>2. CASE TableNext
  <2>1. TableInv' /\ UNCHANGED <<pid, handed>>
    BY <1>2, TableKept
  <2> QED BY <2>1 DEF BlockInv
<1>3. CASE UNCHANGED blockVars
  BY <1>3 DEF blockVars, BlockInv, TableInv
<1> QED BY <1>1, <1>2, <1>3, ExperionFrame

LEMMA HmiStays ==
  ASSUME HmiInv, [StationNext]_stationVars
  PROVE  HmiInv' /\ (summary' # summary => NoneLost)
<1>1. CASE UNCHANGED hmiVars
  BY <1>1 DEF hmiVars, HmiInv, SummaryInv, PenInv, FaceInv, ShownInv
<1> QED BY <1>1, HmiKept, ExperionFrame

LEMMA ExperionStays ==
  ASSUME ExperionInv, [StationNext]_stationVars
  PROVE  ExperionInv'
BY ControllerStays, LibraryStays, BlocksStay, HmiStays DEF ExperionInv

LEMMA ExperionInvHolds == StationSpec => []ExperionInv
<1>1. ExperionInv /\ [StationNext]_stationVars => ExperionInv'
  BY ExperionStays
<1> QED BY <1>1, ExperionStarts, PTL DEF StationSpec

LEMMA SystemSuffices ==
  ASSUME SystemInv, LogInv, NetworkInv, RampInv
  PROVE  SystemTypeOK /\ PrimaryIsServer /\ StopIsFinal /\ RampBetween
<1>1. PrimaryIsServer
  BY DEF SystemInv, PrimaryIsServer, experion_system_health_check
<1>2. StopIsFinal
  BY DEF SystemInv, StopIsFinal
<1>3. RampBetween
  BY DEF RampInv, Between, RampBetween
<1>4. SystemTypeOK
  BY DEF SystemInv, SystemRecord, SystemNode, LogInv, NetworkInv, NetworkType, RampInv, RampType,
         SystemTypeOK
<1> QED BY <1>1, <1>2, <1>3, <1>4

(* What the controller and the system record promise, for every set of *)
(* tasks, ranges and nodes, every size of the log and every ramp. *)
THEOREM ControllerIsSound == StationSpec => []ControllerSound
<1>1. ExperionInv => ControllerSound
  <2> SUFFICES ASSUME ExperionInv PROVE ControllerSound
    OBVIOUS
  <2>1. CeeInv /\ C300Inv /\ SystemInv /\ LogInv /\ NetworkInv /\ RampInv
    BY DEF ExperionInv, ControllerInv
  <2> QED BY <2>1, CeeSuffices, C300Suffices, SystemSuffices, LogSuffices, NetworkSuffices
          DEF ControllerSound
<1> QED BY <1>1, ExperionInvHolds, PTL

(* What blocks, workbook and operator station promise, for every tuning, *)
(* every window, every workbook and every size of the alarm summary. *)
THEOREM StationIsSound == StationSpec => []StationSound
<1>1. ExperionInv => StationSound
  BY BlockSuffices, CabSuffices, HmiSuffices DEF ExperionInv, LibraryInv, StationSound
<1> QED BY <1>1, ExperionInvHolds, PTL

SmoothOrder ==
  handed.waiting /\ pid_execute(handed.pv) /\ Allowed(handed.op) /\ pid.tuning.td = 0
    => pid'.op = handed.op

LEMMA BlockStepsAre ==
  ASSUME ExperionInv, [StationNext]_stationVars
  PROVE  /\ [SmoothOrder]_blockVars /\ [RateOrder]_cabVars
         /\ [BandOrder]_band /\ [NoneLost]_hmiVars
<1>1. SmoothOrder
  BY FirstExecution DEF ExperionInv, SmoothOrder
<1>2. RateOrder
  <2>1. CASE rate' = rate
    <3> DEFINE last == rate.last_output
               time == rate.last_time
               dt == rate'.last_time - rate.last_time
               change == rate'.last_output - rate.last_output
    <3>1. last \in Int /\ time \in Int
      BY DEF ExperionInv, LibraryInv, RateInv
    <3> HIDE DEF last, time
    <3>2. dt = time - time /\ change = last - last
      BY <2>1 DEF last, time
    <3> HIDE DEF dt, change
    <3>3. dt = 0 /\ change = 0
      BY <3>1, <3>2
    <3>4. FallRate * dt = 0 /\ RiseRate * dt = 0
      BY <3>3, CabNumbers
    <3>5. change \in -(FallRate * dt) .. RiseRate * dt
      BY <3>3, <3>4
    <3> QED BY <3>5 DEF RateOrder, dt, change
  <2> QED BY <2>1, LibraryStays DEF ExperionInv
<1>3. [BandOrder]_band
  BY LibraryStays DEF ExperionInv
<1>4. NoneLost
  <2>1. CASE summary' = summary
    BY <2>1 DEF NoneLost
  <2> QED BY <2>1, HmiStays DEF ExperionInv
<1> QED BY <1>1, <1>2, <1>3, <1>4

(* The first execution after a transfer to AUTO leaves the output alone; *)
(* the rate limiter keeps its rates; changes that pass the deadband go up *)
(* and down in turn; clearing the summary loses no alarm. *)
THEOREM BlockStepsSoundHolds == StationSpec => BlockStepsSound
<1>1. ExperionInv /\ [StationNext]_stationVars
        => /\ [SmoothOrder]_blockVars /\ [RateOrder]_cabVars
           /\ [BandOrder]_band /\ [NoneLost]_hmiVars
  BY BlockStepsAre
<1>2. /\ TransferIsSmooth <=> [][SmoothOrder]_blockVars
      /\ RateIsKept <=> [][RateOrder]_cabVars
      /\ BandAlternates <=> [][BandOrder]_band
      /\ NothingCleared <=> [][NoneLost]_hmiVars
  BY DEF TransferIsSmooth, RateIsKept, BandAlternates, NothingCleared, SmoothOrder, RateOrder,
         BandOrder, NoneLost
<1> QED BY <1>1, <1>2, ExperionInvHolds, PTL DEF StationSpec, BlockStepsSound
=============================================================================
