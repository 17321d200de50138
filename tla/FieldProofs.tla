----------------------------- MODULE FieldProofs -----------------------------
(***************************************************************************)
(* Theorems about DeltaV and about the H1 segment, for any set of devices *)
(* and addresses, any length of a log or of a live list, any schedule, any *)
(* limits and any tuning. *)
(***************************************************************************)
EXTENDS MCDcsField, InductionLemmas, SequenceTheorems, TLAPS

-----------------------------------------------------------------------------
(* The DeltaV pair, its log of failovers, the batch and the node. *)

LogInv ==
  /\ dvPair \in DvPair /\ dvLog \in DvLog /\ dvNewest \in DvEvent
  /\ ~(dvPair.primary.role = "PRIMARY" /\ dvPair.standby.role = "PRIMARY")
  /\ get_latest(dvLog) = dvNewest
  /\ dvLog.count = IF dvLog.total < LogSize THEN dvLog.total ELSE LogSize

LEMMA PlantNumbers ==
  /\ LogSize \in Nat /\ LogSize > 0 /\ MaxFailovers \in Nat /\ MaxFailovers > 0
  /\ IndexRange \in Nat /\ IndexRange > 0 /\ MaxCarriers \in Nat
  /\ ChannelRange \in Nat /\ ChannelRange > 0 /\ MaxAreas \in Nat
  /\ MaxModules \in Nat /\ MaxNodesOfAKind \in Nat
BY DeltaVPlantAssumption

LEMMA LogInit == DvPlantInit => LogInv
<1> SUFFICES ASSUME DvPlantInit PROVE LogInv
  OBVIOUS
<1>1. dvPair \in DvPair
  <2>1. /\ dvPair.primary \in Member /\ dvPair.standby \in Member /\ dvPair.healthy \in BOOLEAN
        /\ dvPair.failovers = 0
        /\ dvPair = [primary |-> dvPair.primary, standby |-> dvPair.standby,
                     healthy |-> dvPair.healthy, failovers |-> dvPair.failovers]
    BY DEF DvPlantInit, pair_init, Member, Roles, SyncStates
  <2>2. 0 \in 0 .. MaxFailovers
    BY PlantNumbers
  <2> QED BY <2>1, <2>2 DEF DvPair
<1>2. NoEvent \in DvEvent
  BY DEF NoEvent, DvEvent, Roles
<1>3. dvLog \in DvLog
  BY <1>2, PlantNumbers DEF DvPlantInit, log_init, DvLog
<1> QED BY <1>1, <1>2, <1>3, PlantNumbers DEF LogInv, DvPlantInit, pair_init, log_init, get_latest

(* What is added to the log is what it hands back. *)
LEMMA AddedIsLatest ==
  ASSUME NEW l \in DvLog, NEW event \in DvEvent
  PROVE  /\ log_add(l, event) \in DvLog
         /\ get_latest(log_add(l, event)) = event
         /\ log_add(l, event).total = l.total + 1
         /\ log_add(l, event).count = IF l.count < LogSize THEN l.count + 1 ELSE l.count
<1> DEFINE n == log_add(l, event)
<1>0. LogSize \in Nat /\ LogSize > 0
  BY PlantNumbers
<1>1. /\ l.write \in 0 .. LogSize - 1 /\ l.count \in 0 .. LogSize /\ l.total \in Nat
      /\ l.successful \in Nat /\ l.events \in [0 .. LogSize - 1 -> DvEvent]
  BY DEF DvLog
<1>2. /\ (l.write + 1) % LogSize \in 0 .. LogSize - 1
      /\ (l.write + 1) % LogSize = IF l.write + 1 = LogSize THEN 0 ELSE l.write + 1
  BY <1>0, <1>1, RingOrder
<1> DEFINE events == [l.events EXCEPT ![l.write] = event]
           count == IF l.count < LogSize THEN l.count + 1 ELSE l.count
           write == (l.write + 1) % LogSize
<1>3. /\ events \in [0 .. LogSize - 1 -> DvEvent] /\ events[l.write] = event
      /\ count \in 0 .. LogSize /\ write \in 0 .. LogSize - 1
      /\ l.total + 1 \in Nat /\ l.successful + 1 \in Nat
  BY <1>0, <1>1, <1>2
<1>4. n = [l EXCEPT !.events = events, !.write = write, !.count = count, !.total = l.total + 1,
                    !.successful = l.successful + 1]
  BY Zenon DEF log_add
<1> HIDE DEF events, count, write, n
<1>6. /\ n \in DvLog /\ n.events = events /\ n.write = write /\ n.count = count
      /\ n.total = l.total + 1
  BY <1>3, <1>4 DEF DvLog
<1>5. get_latest(n) = event
  <2>1. n.count # 0
    BY <1>0, <1>1, <1>6 DEF count
  <2>2. (IF n.write = 0 THEN LogSize - 1 ELSE n.write - 1) = l.write
    BY <1>0, <1>1, <1>2, <1>6 DEF write
  <2> QED BY <1>3, <1>6, <2>1, <2>2 DEF get_latest
<1> QED BY <1>5, <1>6 DEF n, count

LEMMA LogStep == LogInv /\ [DvPairNext]_<<dvPair, dvLog, dvNewest>> => LogInv'
<1> SUFFICES ASSUME LogInv, [DvPairNext]_<<dvPair, dvLog, dvNewest>> PROVE LogInv'
  OBVIOUS
<1>0. /\ dvPair \in DvPair /\ dvLog \in DvLog /\ dvNewest \in DvEvent
      /\ ~(dvPair.primary.role = "PRIMARY" /\ dvPair.standby.role = "PRIMARY")
  BY DEF LogInv
<1>1. CASE set_role
  <2>1. PICK m \in {"primary", "standby"}, role \in SetRoles :
          dvPair' = [dvPair EXCEPT ![m].role = role]
    BY <1>1 DEF set_role
  <2>2. role \in Roles /\ role # "PRIMARY"
    BY DeltaVPlantAssumption DEF Roles
  <2>3. dvPair' \in DvPair
        /\ ~(dvPair'.primary.role = "PRIMARY" /\ dvPair'.standby.role = "PRIMARY")
    BY <1>0, <2>1, <2>2 DEF DvPair, Member
  <2> QED BY <1>1, <2>3 DEF set_role, LogInv
<1>2. CASE initiate_sync
  BY <1>2 DEF initiate_sync, LogInv, DvPair, Member, Roles, SyncStates
<1>3. CASE CopyEnds
  <2>1. PICK result \in {"SYNCHRONIZED", "MISMATCH"}, same \in BOOLEAN :
          dvPair' = [dvPair EXCEPT !.standby.sync = result, !.primary.firmware = same,
                                   !.primary.database = same, !.standby.database = same]
    BY <1>3 DEF CopyEnds
  <2>2. dvPair' \in DvPair
        /\ ~(dvPair'.primary.role = "PRIMARY" /\ dvPair'.standby.role = "PRIMARY")
    BY <1>0, <2>1 DEF DvPair, Member, SyncStates
  <2> QED BY <1>3, <2>2 DEF CopyEnds, LogInv
<1>4. CASE HealthReported
  <2>1. PICK m \in {"primary", "standby"}, report \in Reports :
          dvPair' = [dvPair EXCEPT ![m].hardware = report[1], ![m].software = report[2]]
    BY <1>4 DEF HealthReported
  <2>2. report[1] \in BOOLEAN /\ report[2] \in BOOLEAN
    BY DeltaVPlantAssumption
  <2>3. dvPair' \in DvPair
        /\ ~(dvPair'.primary.role = "PRIMARY" /\ dvPair'.standby.role = "PRIMARY")
    BY <1>0, <2>1, <2>2 DEF DvPair, Member
  <2> QED BY <1>4, <2>3 DEF HealthReported, LogInv
<1>5. CASE perform_failover
  <2>1. PICK type \in FailoverTypes :
          LET event == [type |-> type, prev |-> dvPair.primary.role, new |-> "PRIMARY"]
          IN dvPair' = FailedOver(dvPair) /\ dvLog' = log_add(dvLog, event) /\ dvNewest' = event
    BY <1>5 DEF perform_failover
  <2> DEFINE event == [type |-> type, prev |-> dvPair.primary.role, new |-> "PRIMARY"]
  <2>2. event \in DvEvent
    BY <1>0 DEF DvEvent, Roles, DvPair, Member
  <2>3. dvPair' = FailedOver(dvPair) /\ dvLog' = log_add(dvLog, event) /\ dvNewest' = event
    BY <2>1
  <2> HIDE DEF event
  <2>4. dvPair' \in DvPair
        /\ ~(dvPair'.primary.role = "PRIMARY" /\ dvPair'.standby.role = "PRIMARY")
    <3>1. dvPair.failovers \in 0 .. MaxFailovers /\ dvPair.failovers < MaxFailovers
      BY <1>0, <1>5 DEF perform_failover, DvPair
    <3>2. dvPair.failovers + 1 \in 0 .. MaxFailovers
      BY <3>1, PlantNumbers
    <3>3. [dvPair.primary EXCEPT !.role = "STANDBY"] \in Member
          /\ [dvPair.standby EXCEPT !.role = "PRIMARY"] \in Member
      BY <1>0 DEF DvPair, Member, Roles
    <3>4. dvPair' = [primary |-> [dvPair.primary EXCEPT !.role = "STANDBY"],
                     standby |-> [dvPair.standby EXCEPT !.role = "PRIMARY"],
                     healthy |-> dvPair.healthy, failovers |-> dvPair.failovers + 1]
      BY <1>0, <2>3 DEF FailedOver, DvPair
    <3>5. dvPair' \in DvPair
      BY <1>0, <3>2, <3>3, <3>4 DEF DvPair
    <3>6. dvPair'.primary.role = "STANDBY"
      BY <1>0, <3>4 DEF DvPair, Member
    <3> QED BY <3>5, <3>6
  <2>5. dvLog.total \in Nat /\ dvLog.count = IF dvLog.total < LogSize THEN dvLog.total ELSE LogSize
    BY <1>0 DEF LogInv, DvLog
  <2>6. /\ dvLog' \in DvLog /\ get_latest(dvLog') = event /\ dvLog'.total = dvLog.total + 1
        /\ dvLog'.count = IF dvLog.count < LogSize THEN dvLog.count + 1 ELSE dvLog.count
    BY <1>0, <2>2, <2>3, AddedIsLatest
  <2>7. dvLog'.count = IF dvLog'.total < LogSize THEN dvLog'.total ELSE LogSize
    BY <2>5, <2>6, PlantNumbers
  <2> QED BY <2>2, <2>3, <2>4, <2>6, <2>7 DEF LogInv, get_latest
<1>6. CASE UNCHANGED <<dvPair, dvLog, dvNewest>>
  BY <1>6 DEF LogInv, get_latest
<1> QED BY <1>1, <1>2, <1>3, <1>4, <1>5, <1>6 DEF DvPairNext

(* Entries of a list with numbers of their own. *)
OwnIds(s) == \A i, j \in DOMAIN s : s[i].id = s[j].id => i = j

LEMMA OwnIdsAppended ==
  ASSUME NEW T, NEW s \in Seq(T), OwnIds(s), NEW x, \A i \in DOMAIN s : s[i].id # x.id
  PROVE  OwnIds(Append(s, x))
<1>1. /\ DOMAIN s = 1 .. Len(s) /\ Len(s) \in Nat /\ DOMAIN Append(s, x) = 1 .. Len(s) + 1
      /\ \A i \in 1 .. Len(s) : Append(s, x)[i] = s[i]
      /\ Append(s, x)[Len(s) + 1] = x
  BY AppendProperties, LenProperties
<1> DEFINE t == Append(s, x)
<1> HIDE DEF t
<1>2. SUFFICES ASSUME NEW i \in DOMAIN t, NEW j \in DOMAIN t, t[i].id = t[j].id PROVE i = j
  BY DEF OwnIds, t
<1>3. CASE i \in DOMAIN s /\ j \in DOMAIN s
  BY <1>1, <1>2, <1>3 DEF OwnIds, t
<1>4. CASE i \notin DOMAIN s /\ j \notin DOMAIN s
  BY <1>1, <1>4 DEF t
<1>5. CASE i \in DOMAIN s /\ j \notin DOMAIN s
  BY <1>1, <1>2, <1>5 DEF t
<1>6. CASE i \notin DOMAIN s /\ j \in DOMAIN s
  BY <1>1, <1>2, <1>6 DEF t
<1> QED BY <1>3, <1>4, <1>5, <1>6

LEMMA OwnIdsRemoved ==
  ASSUME NEW T, NEW s \in Seq(T), OwnIds(s), NEW k \in DOMAIN s
  PROVE  OwnIds(RemoveAt(s, k))
<1>1. DOMAIN s = 1 .. Len(s) /\ Len(s) \in Nat /\ k \in Nat
  BY LenProperties
<1> DEFINE t == RemoveAt(s, k)
<1>2. DOMAIN t = 1 .. Len(s) - 1 /\ \A i \in 1 .. Len(s) - 1 : t[i] = s[IF i < k THEN i ELSE i + 1]
  BY RemovedIs
<1> HIDE DEF t
<1>3. SUFFICES ASSUME NEW i \in DOMAIN t, NEW j \in DOMAIN t, t[i].id = t[j].id PROVE i = j
  BY DEF OwnIds, t
<1>4. (IF i < k THEN i ELSE i + 1) \in DOMAIN s /\ (IF j < k THEN j ELSE j + 1) \in DOMAIN s
  BY <1>1, <1>2
<1>5. (IF i < k THEN i ELSE i + 1) = (IF j < k THEN j ELSE j + 1)
  BY <1>2, <1>3, <1>4 DEF OwnIds
<1> QED BY <1>1, <1>2, <1>5

(* The states a command can lead to: the others are left by commands, but *)
(* nothing leads to them. *)
ReachedStates == {"IDLE", "RUNNING", "HOLDING", "PAUSING", "STOPPING", "ABORTING"}

(* A node at work, or on the way to it. *)
AtWork == {"INITIALIZING", "STANDBY", "ACTIVE", "DEGRADED", "SIMULATE"}

PlantInv ==
  /\ dvBatch \in DvBatch /\ dvBatch.state \in ReachedStates
  /\ dvCtrl \in DvCtrl /\ OwnIds(dvCtrl.carriers)
  /\ dvSystem \in DvSystem /\ OwnIds(dvSystem.areas)
  /\ dvNode \in [status : NodeStatus, initialised : BOOLEAN]
  /\ dvNode.status \in AtWork => dvNode.initialised

LEMMA PlantInit == DvPlantInit => PlantInv
<1> SUFFICES ASSUME DvPlantInit PROVE PlantInv
  OBVIOUS
<1>1. 0 \in 0 .. ChannelRange - 1 /\ 0 \in 0 .. MaxNodesOfAKind /\ 0 \in 0 .. IndexRange - 1
      /\ 0 \in 0 .. 2
  BY PlantNumbers
<1>2. << >> \in Seq(Carrier) /\ << >> \in Seq(Area) /\ DOMAIN << >> = {}
  OBVIOUS
<1>3. dvBatch \in DvBatch
  BY <1>1 DEF DvPlantInit, DvBatch, BatchStates
<1>6. dvBatch.state \in ReachedStates
  BY DEF DvPlantInit, ReachedStates
<1>4. dvCtrl \in DvCtrl /\ OwnIds(dvCtrl.carriers)
  BY <1>1, <1>2 DEF DvPlantInit, DvCtrl, OwnIds
<1>5. dvSystem \in DvSystem /\ OwnIds(dvSystem.areas)
  BY <1>1, <1>2 DEF DvPlantInit, DvSystem, OwnIds
<1> QED BY <1>3, <1>4, <1>5, <1>6 DEF PlantInv, DvPlantInit, NodeStatus, AtWork

LEMMA DvBatchKept ==
  ASSUME dvBatch \in DvBatch, dvBatch.state \in ReachedStates, DvBatchNext
  PROVE  /\ dvBatch' \in DvBatch /\ dvBatch'.state \in ReachedStates
         /\ dvBatch.state \notin {"IDLE", "RUNNING"} => dvBatch'.state \notin {"IDLE", "RUNNING"}
<1>1. CASE issue_command
  <2>1. PICK command \in DvCommands :
          is_transition_valid(dvBatch.state, command) /\ dvBatch' = Commanded(dvBatch, command)
    BY <1>1 DEF issue_command
  <2>2. /\ Target(dvBatch.state, command) \in BatchStates \intersect ReachedStates
        /\ dvBatch.state \notin {"IDLE", "RUNNING"}
             => Target(dvBatch.state, command) \notin {"IDLE", "RUNNING"}
    BY <2>1 DEF is_transition_valid, Target, BatchStates, DvCommands, ReachedStates
  <2>3. ((dvBatch.active \/ command = "START") /\ command # "RESET") \in BOOLEAN
    OBVIOUS
  <2>4. dvBatch' = [dvBatch EXCEPT !.state = Target(dvBatch.state, command),
                      !.active = (dvBatch.active \/ command = "START") /\ command # "RESET"]
    BY <2>1 DEF Commanded
  <2> QED BY <2>2, <2>3, <2>4 DEF DvBatch
<1>2. CASE advance_phase
  <2>1. advance_index(dvBatch.phase) \in 0 .. IndexRange - 1
    BY PlantNumbers, RingOrder DEF advance_index, DvBatch
  <2> QED BY <1>2, <2>1 DEF advance_phase, DvBatch
<1>3. CASE allocate_unit
  BY <1>3 DEF allocate_unit, DvBatch
<1> QED BY <1>1, <1>2, <1>3 DEF DvBatchNext

LEMMA DvCtrlKept ==
  ASSUME dvCtrl \in DvCtrl, OwnIds(dvCtrl.carriers), DvCtrlNext
  PROVE  dvCtrl' \in DvCtrl /\ OwnIds(dvCtrl'.carriers)
<1>0. /\ dvCtrl.carriers \in Seq(Carrier)
      /\ dvCtrl.active \in 0 .. ChannelRange - 1 /\ dvCtrl.healthy \in 0 .. ChannelRange - 1
  BY DEF DvCtrl
<1>1. ASSUME NEW s \in Seq(Carrier), NEW x \in 0 .. ChannelRange - 1, NEW y \in 0 .. ChannelRange - 1
      PROVE  [dvCtrl EXCEPT !.carriers = s, !.active = x, !.healthy = y] \in DvCtrl
  BY DEF DvCtrl
<1>2. ASSUME NEW x \in Int PROVE x % ChannelRange \in 0 .. ChannelRange - 1
  BY PlantNumbers
<1>3. CASE add_carrier
  <2>1. PICK id \in CarrierIds :
          /\ ~CarrierIn(dvCtrl, id)
          /\ dvCtrl' = [dvCtrl EXCEPT !.carriers = Append(@, [id |-> id, channels |-> {}])]
    BY <1>3 DEF add_carrier
  <2> DEFINE x == [id |-> id, channels |-> {}]
  <2>2. x \in Carrier /\ x.id = id
    BY DEF Carrier
  <2>3. \A i \in DOMAIN dvCtrl.carriers : dvCtrl.carriers[i].id # x.id
    BY <2>1, <2>2 DEF CarrierIn
  <2>4. dvCtrl' = [dvCtrl EXCEPT !.carriers = Append(dvCtrl.carriers, x)]
    BY <2>1
  <2> HIDE DEF x
  <2>5. Append(dvCtrl.carriers, x) \in Seq(Carrier) /\ OwnIds(Append(dvCtrl.carriers, x))
    BY <1>0, <2>2, <2>3, OwnIdsAppended, AppendProperties
  <2> QED BY <2>4, <2>5 DEF DvCtrl
<1>4. CASE remove_carrier
  <2>1. PICK i \in DOMAIN dvCtrl.carriers :
          dvCtrl' = [dvCtrl EXCEPT !.carriers = RemoveAt(dvCtrl.carriers, i)]
    BY <1>4 DEF remove_carrier, WithoutEntry
  <2>2. RemoveAt(dvCtrl.carriers, i) \in Seq(Carrier) /\ OwnIds(RemoveAt(dvCtrl.carriers, i))
    BY <1>0, RemovedIs, OwnIdsRemoved
  <2> QED BY <2>1, <2>2 DEF DvCtrl
<1>5. ASSUME NEW s, NEW p, NEW c, s = [dvCtrl.carriers EXCEPT ![p].channels = c],
             p \in DOMAIN dvCtrl.carriers => c \subseteq ChannelIds
      PROVE  s \in Seq(Carrier) /\ OwnIds(s)
  <2>1. DOMAIN s = DOMAIN dvCtrl.carriers /\ Len(dvCtrl.carriers) \in Nat
        /\ DOMAIN dvCtrl.carriers = 1 .. Len(dvCtrl.carriers)
    BY <1>0, <1>5
  <2>2. ASSUME NEW i \in DOMAIN s PROVE s[i] \in Carrier /\ s[i].id = dvCtrl.carriers[i].id
    <3>1. dvCtrl.carriers[i] \in Carrier
      BY <1>0, <2>1
    <3>2. CASE i = p
      <4>1. s[i] = [dvCtrl.carriers[i] EXCEPT !.channels = c]
        BY <1>5, <2>1, <3>2
      <4> QED BY <1>5, <2>1, <3>1, <3>2, <4>1 DEF Carrier
    <3>3. CASE i # p
      BY <1>5, <2>1, <3>1, <3>3
    <3> QED BY <3>2, <3>3
  <2>3. s \in [1 .. Len(dvCtrl.carriers) -> Carrier]
    BY <1>0, <1>5, <2>1, <2>2
  <2>4. s \in Seq(Carrier)
    BY <2>1, <2>3
  <2> QED BY <2>1, <2>2, <2>4 DEF OwnIds
<1>6. \A p \in DOMAIN dvCtrl.carriers : dvCtrl.carriers[p].channels \subseteq ChannelIds
  <2>1. \A p \in DOMAIN dvCtrl.carriers : dvCtrl.carriers[p] \in Carrier
    BY <1>0
  <2> QED BY <2>1 DEF Carrier
<1>7. CASE configure_channel
  <2>1. PICK id \in CarrierIds, ch \in ChannelIds :
          LET p == PlaceOfCarrier(dvCtrl, id)
          IN dvCtrl' = [dvCtrl EXCEPT !.carriers =
                          [dvCtrl.carriers EXCEPT ![p].channels = dvCtrl.carriers[p].channels \union {ch}],
                          !.active = (dvCtrl.active + 1) % ChannelRange,
                          !.healthy = (dvCtrl.healthy + 1) % ChannelRange]
    BY <1>7 DEF configure_channel
  <2> DEFINE p == PlaceOfCarrier(dvCtrl, id)
             s == [dvCtrl.carriers EXCEPT ![p].channels = dvCtrl.carriers[p].channels \union {ch}]
  <2>2. dvCtrl' = [dvCtrl EXCEPT !.carriers = s, !.active = (dvCtrl.active + 1) % ChannelRange,
                                !.healthy = (dvCtrl.healthy + 1) % ChannelRange]
    BY <2>1
  <2> HIDE DEF p
  <2>3. s \in Seq(Carrier) /\ OwnIds(s)
    <3>1. \A c, x : x = [dvCtrl.carriers EXCEPT ![p].channels = c]
                    /\ (p \in DOMAIN dvCtrl.carriers => c \subseteq ChannelIds)
                    => x \in Seq(Carrier) /\ OwnIds(x)
      BY <1>5
    <3>2. p \in DOMAIN dvCtrl.carriers => dvCtrl.carriers[p].channels \union {ch} \subseteq ChannelIds
      BY <1>6
    <3> QED BY <3>1, <3>2
  <2> HIDE DEF s
  <2>4. (dvCtrl.active + 1) % ChannelRange \in 0 .. ChannelRange - 1
        /\ (dvCtrl.healthy + 1) % ChannelRange \in 0 .. ChannelRange - 1
    <3>1. dvCtrl.active + 1 \in Int /\ dvCtrl.healthy + 1 \in Int
      BY <1>0
    <3> QED BY <1>2, <3>1
  <2> QED BY <1>1, <2>2, <2>3, <2>4 DEF DvCtrl
<1>8. CASE decommission_channel
  <2>1. PICK id \in CarrierIds, ch \in ChannelIds :
          LET p == PlaceOfCarrier(dvCtrl, id)
          IN dvCtrl' = [dvCtrl EXCEPT !.carriers =
                          [dvCtrl.carriers EXCEPT ![p].channels = dvCtrl.carriers[p].channels \ {ch}],
                          !.active = (dvCtrl.active - 1) % ChannelRange]
    BY <1>8 DEF decommission_channel
  <2> DEFINE p == PlaceOfCarrier(dvCtrl, id)
             s == [dvCtrl.carriers EXCEPT ![p].channels = dvCtrl.carriers[p].channels \ {ch}]
  <2>2. dvCtrl' = [dvCtrl EXCEPT !.carriers = s, !.active = (dvCtrl.active - 1) % ChannelRange]
    BY <2>1
  <2> HIDE DEF p
  <2>3. s \in Seq(Carrier) /\ OwnIds(s)
    <3>1. \A c, x : x = [dvCtrl.carriers EXCEPT ![p].channels = c]
                    /\ (p \in DOMAIN dvCtrl.carriers => c \subseteq ChannelIds)
                    => x \in Seq(Carrier) /\ OwnIds(x)
      BY <1>5
    <3> QED BY <1>6, <3>1
  <2> HIDE DEF s
  <2>4. (dvCtrl.active - 1) % ChannelRange \in 0 .. ChannelRange - 1
    <3>1. dvCtrl.active - 1 \in Int
      BY <1>0
    <3> QED BY <1>2, <3>1
  <2> QED BY <1>0, <2>2, <2>3, <2>4 DEF DvCtrl
<1> QED BY <1>3, <1>4, <1>7, <1>8 DEF DvCtrlNext

LEMMA DvSystemKept ==
  ASSUME dvSystem \in DvSystem, OwnIds(dvSystem.areas), DvSystemNext,
         dvNode \in [status : NodeStatus, initialised : BOOLEAN],
         dvNode.status \in AtWork => dvNode.initialised
  PROVE  /\ dvSystem' \in DvSystem /\ OwnIds(dvSystem'.areas)
         /\ dvNode' \in [status : NodeStatus, initialised : BOOLEAN]
         /\ dvNode'.status \in AtWork => dvNode'.initialised
<1>0. dvSystem.areas \in Seq(Area)
  BY DEF DvSystem
<1>1. CASE add_area
  <2>1. PICK area \in Area :
          ~AreaIn(dvSystem, area.id) /\ dvSystem' = [dvSystem EXCEPT !.areas = Append(@, area)]
    BY <1>1 DEF add_area, Area
  <2>2. \A i \in DOMAIN dvSystem.areas : dvSystem.areas[i].id # area.id
    BY <2>1 DEF AreaIn
  <2>3. Append(dvSystem.areas, area) \in Seq(Area) /\ OwnIds(Append(dvSystem.areas, area))
    BY <1>0, <2>2, OwnIdsAppended, AppendProperties
  <2> QED BY <1>1, <2>1, <2>3 DEF DvSystem, add_area
<1>2. CASE remove_area
  <2>1. PICK i \in DOMAIN dvSystem.areas :
          dvSystem' = [dvSystem EXCEPT !.areas = RemoveAt(dvSystem.areas, i)]
    BY <1>2 DEF remove_area, WithoutEntry
  <2>2. RemoveAt(dvSystem.areas, i) \in Seq(Area) /\ OwnIds(RemoveAt(dvSystem.areas, i))
    BY <1>0, RemovedIs, OwnIdsRemoved
  <2> QED BY <1>2, <2>1, <2>2 DEF DvSystem, remove_area
<1>3. CASE register_node
  BY <1>3, PlantNumbers DEF register_node, DvSystem
<1>4. CASE set_node_status
  <2>1. PICK next \in NextStatus[dvNode.status] :
          dvNode' = [status |-> next,
                     initialised |-> next = "INITIALIZING"
                        \/ (dvNode.initialised /\ next \notin {"OFF", "BOOTING", "FAILED"})]
    BY <1>4 DEF set_node_status
  <2>2. next \in NodeStatus
    BY DEF NextStatus, NodeStatus
  <2>3. next \in AtWork
          => /\ next = "INITIALIZING" \/ dvNode.status \in AtWork
             /\ next \notin {"OFF", "BOOTING", "FAILED"}
    BY DEF NextStatus, NodeStatus, AtWork
  <2>4. (next = "INITIALIZING"
           \/ (dvNode.initialised /\ next \notin {"OFF", "BOOTING", "FAILED"})) \in BOOLEAN
    OBVIOUS
  <2>5. dvNode' \in [status : NodeStatus, initialised : BOOLEAN]
    BY <2>1, <2>2, <2>4
  <2>6. dvNode'.status = next
        /\ dvNode'.initialised = (next = "INITIALIZING"
              \/ (dvNode.initialised /\ next \notin {"OFF", "BOOTING", "FAILED"}))
    BY <2>1
  <2> QED BY <1>4, <2>3, <2>5, <2>6 DEF set_node_status
<1> QED BY <1>1, <1>2, <1>3, <1>4 DEF DvSystemNext

-----------------------------------------------------------------------------
(* The DeltaV vote. *)

VoteIns == [1 .. 3 -> [value : VoteInputs \union {0}, valid : BOOLEAN]]

SumIn(in, s) == MapThenSumSet(LAMBDA i : in[i].value, s)

LEMMA SumInIs ==
  ASSUME NEW in \in VoteIns, NEW S \in SUBSET (1 .. 3)
  PROVE  \E f, g : /\ f = [i \in S |-> in[i].value] /\ f \in [S -> Int]
                   /\ g \in Sums(S, f) /\ SumIn(in, S) = g[S]
<1> DEFINE f == [i \in S |-> in[i].value]
           Eq(g) == g = [s \in SUBSET S |->
                           IF s = {} THEN 0
                           ELSE LET x == CHOOSE y \in s : TRUE IN in[x].value + g[s \ {x}]]
           iter == CHOOSE g : Eq(g)
<1>1. IsFiniteSet(S)
  <2>1. 1 \in Int /\ 3 \in Int
    OBVIOUS
  <2>2. IsFiniteSet(1 .. 3)
    BY <2>1, FS_Interval
  <2> QED BY <2>2, FS_Subset
<1>2. f \in [S -> Int]
  BY DeltaVControlAssumption DEF VoteIns
<1>3. PICK g : g \in Sums(S, f)
  <2> HIDE DEF f
  <2> QED BY <1>1, <1>2, SumsExist
<1>4. Eq(g)
  <2>1. /\ g \in [SUBSET S -> Int]
        /\ \A s \in SUBSET S : g[s] = IF s = {} THEN 0 ELSE f[Picked(s)] + g[s \ {Picked(s)}]
    <3> HIDE DEF f
    <3> QED BY <1>3 DEF Sums
  <2>2. ASSUME NEW s \in SUBSET S, s # {} PROVE f[Picked(s)] = in[Picked(s)].value
    <3>1. Picked(s) \in S
      BY <2>2 DEF Picked
    <3> QED BY <3>1
  <2>3. g = [s \in SUBSET S |-> IF s = {} THEN 0 ELSE in[Picked(s)].value + g[s \ {Picked(s)}]]
    <3>1. \A s \in SUBSET S :
            g[s] = IF s = {} THEN 0 ELSE in[Picked(s)].value + g[s \ {Picked(s)}]
      BY <2>1, <2>2
    <3> QED BY <2>1, <3>1
  <2> QED BY <2>3, Zenon DEF Picked
<1>5. Eq(iter)
  BY <1>4, Zenon
<1>6. SumIn(in, S) = iter[S]
  BY Zenon DEF SumIn, MapThenSumSet, MapThenFoldSet
<1>7. iter = g
  <2> DEFINE T == {s \in SUBSET S : iter[s] = g[s]}
  <2>1. ASSUME NEW h, Eq(h), NEW s \in SUBSET S
        PROVE  h[s] = IF s = {} THEN 0 ELSE in[Picked(s)].value + h[s \ {Picked(s)}]
    BY <2>1 DEF Picked
  <2>2. {} \in T
    BY <1>4, <1>5, <2>1
  <2>3. ASSUME NEW s \in SUBSET S, s # {}, \A x \in s : s \ {x} \in T
        PROVE  s \in T
    <3>1. Picked(s) \in s
      BY <2>3 DEF Picked
    <3>2. iter[s \ {Picked(s)}] = g[s \ {Picked(s)}]
      BY <2>3, <3>1
    <3>3. /\ iter[s] = in[Picked(s)].value + iter[s \ {Picked(s)}]
          /\ g[s] = in[Picked(s)].value + g[s \ {Picked(s)}]
      <4> HIDE DEF Eq, iter
      <4> QED BY <1>4, <1>5, <2>1, <2>3
    <3> QED BY <3>2, <3>3
  <2>4. SUBSET S \subseteq T
    <3> HIDE DEF T
    <3> QED BY <1>1, <2>2, <2>3, SubsetInduction
  <2>5. iter = [s \in SUBSET S |-> iter[s]] /\ g = [s \in SUBSET S |-> g[s]]
    <3>1. \A h : Eq(h) => h = [s \in SUBSET S |-> h[s]]
      OBVIOUS
    <3> HIDE DEF Eq, iter
    <3> QED BY <1>4, <1>5, <3>1
  <2> QED BY <2>4, <2>5
<1> QED BY <1>2, <1>3, <1>6, <1>7

(* The sum of two inputs and of three. *)
LEMMA SumsOfInputs ==
  ASSUME NEW in \in VoteIns
  PROVE  /\ \A i, j \in 1 .. 3 : i # j => SumIn(in, {i, j}) = in[i].value + in[j].value
         /\ SumIn(in, {1, 2, 3}) = in[1].value + in[2].value + in[3].value
<1>0. \A i \in 1 .. 3 : in[i].value \in Int
  BY DeltaVControlAssumption DEF VoteIns
<1>1. ASSUME NEW S \in SUBSET (1 .. 3)
      PROVE  \E f, g : /\ f = [i \in S |-> in[i].value] /\ SumIn(in, S) = g[S]
                       /\ OfFew(S, f, g)
  <2>1. PICK f, g : /\ f = [i \in S |-> in[i].value] /\ f \in [S -> Int]
                    /\ g \in Sums(S, f) /\ SumIn(in, S) = g[S]
    BY SumInIs
  <2>2. IsFiniteSet(S)
    <3>1. 1 \in Int /\ 3 \in Int
      OBVIOUS
    <3>2. IsFiniteSet(1 .. 3)
      BY <3>1, FS_Interval
    <3> QED BY <3>2, FS_Subset
  <2>3. OfFew(S, f, g)
    BY <2>1, <2>2, SumsOfFew
  <2> QED BY <2>1, <2>3
<1>2. ASSUME NEW i \in 1 .. 3, NEW j \in 1 .. 3, i # j
      PROVE  SumIn(in, {i, j}) = in[i].value + in[j].value
  <2>1. {i, j} \in SUBSET (1 .. 3) /\ i \in {i, j} /\ j \in {i, j}
    OBVIOUS
  <2>2. PICK f, g : /\ f = [n \in {i, j} |-> in[n].value] /\ SumIn(in, {i, j}) = g[{i, j}]
                    /\ OfFew({i, j}, f, g)
    BY <1>1, <2>1
  <2>3. g[{i, j}] = f[i] + f[j]
    BY <1>2, <2>1, <2>2 DEF OfFew
  <2> QED BY <2>1, <2>2, <2>3
<1>3. SumIn(in, {1, 2, 3}) = in[1].value + in[2].value + in[3].value
  <2>1. {1, 2, 3} \in SUBSET (1 .. 3)
    OBVIOUS
  <2>2. PICK f, g : /\ f = [n \in {1, 2, 3} |-> in[n].value] /\ SumIn(in, {1, 2, 3}) = g[{1, 2, 3}]
                    /\ OfFew({1, 2, 3}, f, g)
    BY <1>1, <2>1
  <2>3. g[{1, 2, 3}] = f[1] + f[2] + f[3]
    BY <2>2 DEF OfFew
  <2> QED BY <2>2, <2>3
<1> QED BY <1>2, <1>3

(* What two inputs of three agree on. *)
Bracketed(in, output) ==
  \E i, j \in 1 .. 3 :
    /\ i # j /\ in[i].valid /\ in[j].valid /\ Near(in[i].value, in[j].value)
    /\ 6 * in[i].value <= output /\ output <= 6 * in[j].value

LEMMA VotesAreNumbers ==
  ASSUME NEW in \in VoteIns, NEW i \in 1 .. 3
  PROVE  in[i].value \in Int
<1>1. VoteInputs \cup {0} \subseteq Int
  BY DeltaVControlAssumption
<1>2. in[i] \in [value : VoteInputs \cup {0}, valid : BOOLEAN]
  BY DEF VoteIns
<1> QED BY <1>1, <1>2

LEMMA VoteOfTwo ==
  ASSUME NEW in \in VoteIns, NEW i \in 1 .. 3, NEW j \in 1 .. 3, i # j,
         in[i].valid, in[j].valid, Near(in[i].value, in[j].value), Near(in[j].value, in[i].value)
  PROVE  3 * SumIn(in, {i, j}) \in Int /\ Bracketed(in, 3 * SumIn(in, {i, j}))
<1>1. in[i].value \in Int /\ in[j].value \in Int
  BY VotesAreNumbers
<1>2. SumIn(in, {i, j}) = in[i].value + in[j].value
  BY SumsOfInputs
<1>3. CASE in[i].value <= in[j].value
  BY <1>1, <1>2, <1>3 DEF Bracketed
<1>4. CASE in[j].value <= in[i].value
  BY <1>1, <1>2, <1>4 DEF Bracketed
<1> QED BY <1>1, <1>3, <1>4

LEMMA VoteOfThree ==
  ASSUME NEW in \in VoteIns, \A i \in 1 .. 3 : in[i].valid,
         \A i, j \in 1 .. 3 : Near(in[i].value, in[j].value)
  PROVE  2 * SumIn(in, {1, 2, 3}) \in Int /\ Bracketed(in, 2 * SumIn(in, {1, 2, 3}))
<1> DEFINE x == in[1].value
           y == in[2].value
           z == in[3].value
<1>1. x \in Int /\ y \in Int /\ z \in Int
  BY DeltaVControlAssumption DEF VoteIns
<1>2. SumIn(in, {1, 2, 3}) = x + y + z
  BY SumsOfInputs
<1>3. \E i, j \in 1 .. 3 : /\ i # j /\ 6 * in[i].value <= 2 * (x + y + z)
                           /\ 2 * (x + y + z) <= 6 * in[j].value
  <2>1. CASE x <= y /\ x <= z
    BY <1>1, <2>1
  <2>2. CASE y <= x /\ y <= z
    BY <1>1, <2>2
  <2>3. CASE z <= x /\ z <= y
    BY <1>1, <2>3
  <2> QED BY <1>1, <2>1, <2>2, <2>3
<1> QED BY <1>1, <1>2, <1>3 DEF Bracketed

LEMMA ThreeAtMost ==
  ASSUME NEW S \in SUBSET (1 .. 3)
  PROVE  \/ Cardinality(S) < 2
         \/ Cardinality(S) = 2 /\ \E i, j \in 1 .. 3 : i # j /\ S = {i, j}
         \/ Cardinality(S) = 3 /\ S = {1, 2, 3}
<1>1. ASSUME NEW a, NEW b, a # b
      PROVE  IsFiniteSet({a, b}) /\ Cardinality({a, b}) = 2
  <2>1. IsFiniteSet({a}) /\ Cardinality({a}) = 1 /\ b \notin {a} /\ {a, b} = {a} \union {b}
    BY <1>1, FS_Singleton
  <2> QED BY <2>1, FS_AddElement
<1>2. Cardinality({1, 2, 3}) = 3
  <2>1. IsFiniteSet({1, 2}) /\ Cardinality({1, 2}) = 2
    <3>1. 1 # 2
      OBVIOUS
    <3> QED BY <1>1, <3>1, Zenon
  <2>2. 3 \notin {1, 2} /\ {1, 2, 3} = {1, 2} \union {3}
    OBVIOUS
  <2> QED BY <2>1, <2>2, FS_AddElement
<1>3. Cardinality({}) = 0 /\ \A a : Cardinality({a}) = 1
  BY FS_EmptySet, FS_Singleton
<1>4. \/ S = {} \/ S = {1} \/ S = {2} \/ S = {3}
      \/ S = {1, 2} \/ S = {1, 3} \/ S = {2, 3} \/ S = {1, 2, 3}
  <2>1. \A x : x \in S => x = 1 \/ x = 2 \/ x = 3
    OBVIOUS
  <2>2. CASE 1 \in S /\ 2 \in S
    <3>1. S = {1, 2} \/ S = {1, 2, 3}
      <4>1. 3 \notin S => S = {1, 2}
        BY <2>1, <2>2, Zenon
      <4>2. 3 \in S => S = {1, 2, 3}
        BY <2>1, <2>2, Zenon
      <4> QED BY <4>1, <4>2
    <3> QED BY <3>1
  <2>3. CASE 1 \in S /\ 2 \notin S
    BY <2>1, <2>3, Zenon
  <2>4. CASE 1 \notin S /\ 2 \in S
    BY <2>1, <2>4, Zenon
  <2>5. CASE 1 \notin S /\ 2 \notin S
    <3>1. S = {} \/ S = {3}
      BY <2>1, <2>5, Zenon
    <3> QED BY <3>1
  <2> QED BY <2>2, <2>3, <2>4, <2>5
<1>5. CASE S = {} \/ S = {1} \/ S = {2} \/ S = {3}
  <2>1. Cardinality(S) = 0 \/ Cardinality(S) = 1
    BY <1>3, <1>5
  <2> QED BY <2>1
<1>6. CASE S = {1, 2} \/ S = {1, 3} \/ S = {2, 3}
  <2>1. PICK i \in 1 .. 3, j \in 1 .. 3 : i # j /\ S = {i, j}
    BY <1>6
  <2> QED BY <1>1, <2>1
<1>7. CASE S = {1, 2, 3}
  BY <1>2, <1>7
<1> QED BY <1>4, <1>5, <1>6, <1>7

VoteInv ==
  /\ dvVote \in [output : Int, valid : BOOLEAN, alarm : BOOLEAN, inputs : VoteIns]
  /\ dvVote.valid => Bracketed(dvVote.inputs, dvVote.output)

LEMMA VotedIs ==
  ASSUME NEW v \in [output : Int, valid : BOOLEAN, alarm : BOOLEAN, inputs : VoteIns],
         NEW in \in VoteIns
  PROVE  \E output \in Int, valid, warn \in BOOLEAN :
           /\ Voted(v, in) = [v EXCEPT !.output = output, !.valid = valid, !.alarm = warn]
           /\ valid => Bracketed(in, output)
<1> DEFINE voters == {i \in 1 .. 3 : in[i].valid}
           agree(s) == \A i, j \in s : Near(in[i].value, in[j].value)
           Shown(output, valid, warn) ==
             [v EXCEPT !.output = output, !.valid = valid, !.alarm = warn]
<1>1. v.output \in Int /\ v.alarm \in BOOLEAN
  OBVIOUS
<1>2. /\ \A o, b : [v EXCEPT !.output = o, !.valid = b] = Shown(o, b, v.alarm)
      /\ \A b : [v EXCEPT !.valid = b] = Shown(v.output, b, v.alarm)
      /\ \A b, a : [v EXCEPT !.valid = b, !.alarm = a] = Shown(v.output, b, a)
  OBVIOUS
<1>3. Voted(v, in) =
        IF Cardinality(voters) < 2 THEN Shown(v.output, FALSE, v.alarm)
        ELSE IF Cardinality(voters) = 2 THEN Shown(3 * SumIn(in, voters), agree(voters), v.alarm)
        ELSE IF agree(voters) THEN Shown(2 * SumIn(in, voters), TRUE, v.alarm)
        ELSE IF agree({1, 2}) THEN Shown(3 * SumIn(in, {1, 2}), TRUE, v.alarm)
        ELSE IF agree({1, 3}) THEN Shown(3 * SumIn(in, {1, 3}), TRUE, v.alarm)
        ELSE IF agree({2, 3}) THEN Shown(3 * SumIn(in, {2, 3}), TRUE, v.alarm)
        ELSE Shown(v.output, FALSE, TRUE)
  <2>1. Voted(v, in) =
          IF Cardinality(voters) < 2 THEN [v EXCEPT !.valid = FALSE]
          ELSE IF Cardinality(voters) = 2
               THEN [v EXCEPT !.output = 3 * SumIn(in, voters), !.valid = agree(voters)]
          ELSE IF agree(voters) THEN [v EXCEPT !.output = 2 * SumIn(in, voters), !.valid = TRUE]
          ELSE IF agree({1, 2}) THEN [v EXCEPT !.output = 3 * SumIn(in, {1, 2}), !.valid = TRUE]
          ELSE IF agree({1, 3}) THEN [v EXCEPT !.output = 3 * SumIn(in, {1, 3}), !.valid = TRUE]
          ELSE IF agree({2, 3}) THEN [v EXCEPT !.output = 3 * SumIn(in, {2, 3}), !.valid = TRUE]
          ELSE [v EXCEPT !.valid = FALSE, !.alarm = TRUE]
    BY Zenon DEF Voted, SumIn
  <2> HIDE DEF voters, agree, Shown
  <2> QED BY <1>2, <2>1
<1>4. voters \in SUBSET (1 .. 3)
  OBVIOUS
<1>5. ASSUME NEW i \in 1 .. 3, NEW j \in 1 .. 3, i # j, in[i].valid, in[j].valid, agree({i, j})
      PROVE  3 * SumIn(in, {i, j}) \in Int /\ Bracketed(in, 3 * SumIn(in, {i, j}))
  BY <1>5, VoteOfTwo
<1> SUFFICES \E output \in Int, valid, warn \in BOOLEAN :
               Voted(v, in) = Shown(output, valid, warn) /\ (valid => Bracketed(in, output))
  BY Zenon
<1>6. ASSUME NEW output, NEW valid, NEW warn,
             Voted(v, in) = Shown(output, valid, warn), valid \in BOOLEAN, warn \in BOOLEAN,
             output \in Int /\ (valid => Bracketed(in, output))
      PROVE  \E o \in Int, b, a \in BOOLEAN :
               Voted(v, in) = Shown(o, b, a) /\ (b => Bracketed(in, o))
  BY <1>6, Zenon
<1> HIDE DEF voters, agree, Shown
<1>7. CASE Cardinality(voters) < 2
  BY <1>1, <1>3, <1>6, <1>7
<1>8. CASE Cardinality(voters) = 2 /\ \E i, j \in 1 .. 3 : i # j /\ voters = {i, j}
  <2>1. PICK i \in 1 .. 3, j \in 1 .. 3 : i # j /\ voters = {i, j}
    BY <1>8
  <2>2. in[i].valid /\ in[j].valid
    BY <2>1 DEF voters
  <2>3. agree(voters) \in BOOLEAN
    BY DEF agree
  <2>4. in[i].value \in Int /\ in[j].value \in Int
    BY VotesAreNumbers
  <2>5. SumIn(in, voters) = in[i].value + in[j].value
    BY <2>1, SumsOfInputs
  <2>6. 3 * SumIn(in, voters) \in Int
    BY <2>4, <2>5
  <2>7. agree(voters) => Bracketed(in, 3 * SumIn(in, voters))
    BY <1>5, <2>1, <2>2
  <2>8. Voted(v, in) = Shown(3 * SumIn(in, voters), agree(voters), v.alarm)
    BY <1>3, <1>8
  <2> QED BY <1>1, <1>6, <2>3, <2>6, <2>7, <2>8
<1>9. CASE Cardinality(voters) = 3 /\ voters = {1, 2, 3}
  <2>0. \A i \in 1 .. 3 : in[i].valid
    BY <1>9 DEF voters
  <2>1. Voted(v, in) =
          IF agree(voters) THEN Shown(2 * SumIn(in, {1, 2, 3}), TRUE, v.alarm)
          ELSE IF agree({1, 2}) THEN Shown(3 * SumIn(in, {1, 2}), TRUE, v.alarm)
          ELSE IF agree({1, 3}) THEN Shown(3 * SumIn(in, {1, 3}), TRUE, v.alarm)
          ELSE IF agree({2, 3}) THEN Shown(3 * SumIn(in, {2, 3}), TRUE, v.alarm)
          ELSE Shown(v.output, FALSE, TRUE)
    BY <1>3, <1>9
  <2>2. CASE agree(voters)
    <3>1. \A i, j \in 1 .. 3 : Near(in[i].value, in[j].value)
      BY <1>9, <2>2 DEF agree
    <3>2. 2 * SumIn(in, {1, 2, 3}) \in Int /\ Bracketed(in, 2 * SumIn(in, {1, 2, 3}))
      BY <2>0, <3>1, VoteOfThree
    <3>3. Voted(v, in) = Shown(2 * SumIn(in, {1, 2, 3}), TRUE, v.alarm)
      BY <2>1, <2>2
    <3> QED BY <1>1, <1>6, <3>2, <3>3
  <2>3. CASE ~agree(voters) /\ agree({1, 2})
    <3>1. Voted(v, in) = Shown(3 * SumIn(in, {1, 2}), TRUE, v.alarm)
      BY <2>1, <2>3
    <3>2. 3 * SumIn(in, {1, 2}) \in Int /\ Bracketed(in, 3 * SumIn(in, {1, 2}))
      BY <1>5, <2>0, <2>3
    <3> QED BY <1>1, <1>6, <3>1, <3>2
  <2>4. CASE ~agree(voters) /\ ~agree({1, 2}) /\ agree({1, 3})
    <3>1. Voted(v, in) = Shown(3 * SumIn(in, {1, 3}), TRUE, v.alarm)
      BY <2>1, <2>4
    <3>2. 3 * SumIn(in, {1, 3}) \in Int /\ Bracketed(in, 3 * SumIn(in, {1, 3}))
      BY <1>5, <2>0, <2>4
    <3> QED BY <1>1, <1>6, <3>1, <3>2
  <2>5. CASE ~agree(voters) /\ ~agree({1, 2}) /\ ~agree({1, 3}) /\ agree({2, 3})
    <3>1. Voted(v, in) = Shown(3 * SumIn(in, {2, 3}), TRUE, v.alarm)
      BY <2>1, <2>5
    <3>2. 3 * SumIn(in, {2, 3}) \in Int /\ Bracketed(in, 3 * SumIn(in, {2, 3}))
      BY <1>5, <2>0, <2>5
    <3> QED BY <1>1, <1>6, <3>1, <3>2
  <2>6. CASE ~agree(voters) /\ ~agree({1, 2}) /\ ~agree({1, 3}) /\ ~agree({2, 3})
    <3>1. Voted(v, in) = Shown(v.output, FALSE, TRUE)
      BY <2>1, <2>6
    <3> QED BY <1>1, <1>6, <3>1
  <2> QED BY <2>2, <2>3, <2>4, <2>5, <2>6
<1>10. \/ Cardinality(voters) < 2
       \/ Cardinality(voters) = 2 /\ \E i, j \in 1 .. 3 : i # j /\ voters = {i, j}
       \/ Cardinality(voters) = 3 /\ voters = {1, 2, 3}
  BY <1>4, ThreeAtMost
<1> QED BY <1>7, <1>8, <1>9, <1>10

LEMMA VoteKept ==
  ASSUME VoteInv, DvVoteNext
  PROVE  VoteInv'
<1>1. PICK i \in 1 .. 3, x \in [value : VoteInputs, valid : BOOLEAN] :
        dvVote' = [Voted(dvVote, [dvVote.inputs EXCEPT ![i] = x])
                     EXCEPT !.inputs = [dvVote.inputs EXCEPT ![i] = x]]
  BY DEF DvVoteNext
<1> DEFINE in == [dvVote.inputs EXCEPT ![i] = x]
<1>2. in \in VoteIns
  BY DEF VoteInv, VoteIns
<1>3. dvVote' = [Voted(dvVote, in) EXCEPT !.inputs = in]
  BY <1>1
<1> HIDE DEF in
<1>4. PICK output \in Int, valid \in BOOLEAN, warn \in BOOLEAN :
        /\ Voted(dvVote, in) = [dvVote EXCEPT !.output = output, !.valid = valid, !.alarm = warn]
        /\ valid => Bracketed(in, output)
  BY <1>2, VotedIs DEF VoteInv
<1>5. dvVote' = [dvVote EXCEPT !.output = output, !.valid = valid, !.alarm = warn, !.inputs = in]
  BY <1>3, <1>4
<1>6. /\ dvVote' \in [output : Int, valid : BOOLEAN, alarm : BOOLEAN, inputs : VoteIns]
      /\ dvVote'.valid = valid /\ dvVote'.inputs = in /\ dvVote'.output = output
  BY <1>2, <1>5 DEF VoteInv
<1> QED BY <1>4, <1>6 DEF VoteInv

-----------------------------------------------------------------------------
(* The DeltaV sequence. *)

SeqState == [step : Nat, time : Nat, since : Nat, running : BOOLEAN, held : BOOLEAN,
             completed : BOOLEAN, left : [step : Int, time : Nat]]

Waited(left) ==
  left.step \in 0 .. Len(DvSteps) - 1 =>
    LET step == DvSteps[left.step + 1] IN step.type = "WAIT" => left.time >= step.param

SeqInv == dvSeq \in SeqState /\ dvSeq.since = dvSeq.time /\ Waited(dvSeq.left)

LEMMA SequenceKept ==
  ASSUME SeqInv, DvSequenceNext
  PROVE  SeqInv'
<1>0. /\ DvSteps \in Seq([type : {"SET", "WAIT", "IF"}, param : Nat, next : Nat])
      /\ DvTimes \subseteq Nat
  BY DeltaVControlAssumption
<1>1. CASE Start \/ Hold \/ Resume
  <2>1. dvSeq' \in SeqState /\ dvSeq'.since = dvSeq'.time /\ dvSeq'.left = dvSeq.left
    <3>0. 0 \in Nat
      OBVIOUS
    <3>1. CASE Start
      BY <3>0, <3>1 DEF Start, SeqInv, SeqState
    <3>2. CASE Hold \/ Resume
      BY <3>2 DEF Hold, Resume, SeqInv, SeqState
    <3> QED BY <1>1, <3>1, <3>2
  <2> QED BY <2>1 DEF SeqInv
<1>2. CASE Execute
  <2>1. CASE dvSeq.step >= Len(DvSteps)
    <3>1. dvSeq' \in SeqState /\ dvSeq'.since = dvSeq'.time /\ dvSeq'.left = dvSeq.left
      BY <1>2, <2>1 DEF Execute, SeqInv, SeqState
    <3> QED BY <3>1 DEF SeqInv
  <2>2. CASE ~(dvSeq.step >= Len(DvSteps))
    <3>1. PICK dt \in DvTimes, condition \in BOOLEAN :
            LET step == DvSteps[dvSeq.step + 1]
            IN dvSeq' = IF MayLeave(step, dvSeq.time + dt, condition) THEN Advanced(dvSeq, dt)
                        ELSE [dvSeq EXCEPT !.time = Min({@ + dt, step.param}),
                                           !.since = Min({@ + dt, step.param})]
      BY <1>2, <2>2 DEF Execute
    <3> DEFINE step == DvSteps[dvSeq.step + 1]
    <3>2. dt \in Nat /\ dvSeq.step \in Nat /\ dvSeq.time \in Nat /\ dvSeq.since = dvSeq.time
      BY <1>0 DEF SeqInv, SeqState
    <3>3. dvSeq.step + 1 \in 1 .. Len(DvSteps) /\ dvSeq.step \in 0 .. Len(DvSteps) - 1
      BY <1>0, <2>2, <3>2, LenProperties
    <3>4. step \in [type : {"SET", "WAIT", "IF"}, param : Nat, next : Nat]
      BY <1>0, <3>3, ElementOfSeq
    <3>5. CASE MayLeave(step, dvSeq.time + dt, condition)
      <4>1. dvSeq' = [dvSeq EXCEPT !.step = step.next, !.time = 0, !.since = 0,
                                   !.left = [step |-> dvSeq.step, time |-> dvSeq.since + dt]]
        BY <3>1, <3>5 DEF Advanced
      <4>2. step.type = "WAIT" => dvSeq.since + dt >= step.param
        BY <3>2, <3>5 DEF MayLeave
      <4>3. step.next \in Nat /\ dvSeq.since + dt \in Nat
        BY <3>2, <3>4
      <4> HIDE DEF step
      <4> DEFINE left == [step |-> dvSeq.step, time |-> dvSeq.since + dt]
      <4>4. left \in [step : Int, time : Nat]
        BY <3>2, <4>3
      <4>5. Waited(left)
        BY <4>2 DEF Waited, step
      <4>6. dvSeq' = [dvSeq EXCEPT !.step = step.next, !.time = 0, !.since = 0, !.left = left]
        BY <4>1
      <4> HIDE DEF left
      <4>7. dvSeq' \in SeqState /\ dvSeq'.since = dvSeq'.time /\ dvSeq'.left = left
        BY <3>2, <4>3, <4>4, <4>6 DEF SeqInv, SeqState
      <4> QED BY <4>5, <4>7 DEF SeqInv
    <3>6. CASE ~MayLeave(step, dvSeq.time + dt, condition)
      <4> DEFINE t == Min({dvSeq.time + dt, step.param})
      <4>1. dvSeq' = [dvSeq EXCEPT !.time = t, !.since = t]
        BY <3>1, <3>2, <3>6
      <4>2. t \in Nat
        <5>1. dvSeq.time + dt \in Int /\ step.param \in Int
          BY <3>2, <3>4
        <5>2. t = IF dvSeq.time + dt <= step.param THEN dvSeq.time + dt ELSE step.param
          <6> HIDE DEF step
          <6> QED BY <5>1, MinOfTwo
        <5> HIDE DEF t
        <5> QED BY <3>2, <3>4, <5>2
      <4> HIDE DEF t, step
      <4>3. dvSeq' \in SeqState /\ dvSeq'.since = dvSeq'.time /\ dvSeq'.left = dvSeq.left
        BY <4>1, <4>2 DEF SeqInv, SeqState
      <4> QED BY <4>3 DEF SeqInv
    <3> QED BY <3>5, <3>6
  <2> QED BY <2>1, <2>2
<1> QED BY <1>1, <1>2 DEF DvSequenceNext

-----------------------------------------------------------------------------
(* The DeltaV PID.  After a transfer, and until the block is touched, its *)
(* output is what the next scan would compute without an error, or the *)
(* limit next to that. *)

Pid == [mode : Modes, out : Int, integral : Int, last_error : Int, last_pv : Int,
        pv : Int, sp : Int, saturated : BOOLEAN, transferred : BOOLEAN]

Aligned(p) ==
  LET settled == p.integral + DvGain * Error(p)
  IN /\ p.mode # "MAN" /\ p.last_error = Error(p) /\ p.last_pv = p.pv
     /\ p.out = settled \/ p.out = Clamped(settled)

PidInv == dvPid \in Pid /\ (dvPid.transferred => Aligned(dvPid))

LEMMA PidNumbers ==
  /\ DvGain \in Nat /\ DvGainOverReset \in Nat /\ DvGainTimesRate \in Nat /\ MaxIntegral \in Nat
  /\ DvOutLo \in Nat /\ DvOutHi \in Nat /\ DvOutLo < DvOutHi /\ DvOutChange \in Nat
  /\ DvPvs \subseteq Int /\ DvSps \subseteq Int /\ DvFeeds \subseteq Int /\ Manuals \subseteq Int
BY DeltaVControlAssumption

LEMMA ErrorIsInt ==
  ASSUME NEW p \in Pid
  PROVE  Error(p) \in Int /\ DvGain * Error(p) \in Int /\ DvGainOverReset * Error(p) \in Int
BY PidNumbers DEF Error, Pid

(* What is clamped stays between what it is clamped to. *)
LEMMA ClampedIs ==
  ASSUME NEW x \in Int
  PROVE  /\ Clamped(x) \in Int /\ Clamped(Clamped(x)) = Clamped(x)
         /\ \A y \in Int : /\ x <= y => /\ Clamped(x) <= Clamped(y)
                                        /\ Clamped(y) - Clamped(x) <= y - x
BY PidNumbers DEF Clamped

LEMMA LimitedIs ==
  ASSUME NEW x \in Int, NEW was \in Int
  PROVE  /\ Limited(x, was) \in Int
         /\ Limited(x, was) - was \in -DvOutChange .. DvOutChange
         /\ x >= was => was <= Limited(x, was) /\ Limited(x, was) <= x
         /\ x <= was => x <= Limited(x, was) /\ Limited(x, was) <= was
BY PidNumbers DEF Limited

LEMMA UnlimitedIs ==
  ASSUME NEW p \in Pid, NEW feed \in Int
  PROVE  /\ Unlimited(p, feed) \in Int
         /\ Aligned(p) => Unlimited(p, feed)
              = p.integral + DvGain * Error(p) + (DvGainOverReset * Error(p) + feed)
<1> DEFINE e == Error(p)
           a == DvGain * e
           b == DvGainOverReset * e
           x == IF Form = "SERIES" THEN p.last_pv - p.pv ELSE e - p.last_error
<1>1. e \in Int /\ a \in Int /\ b \in Int /\ x \in Int /\ p.integral \in Int
  BY ErrorIsInt DEF Pid
<1>2. DvGainTimesRate * x \in Int
  <2> HIDE DEF x
  <2> QED BY <1>1, PidNumbers
<1>3. Unlimited(p, feed) = a + p.integral + b + feed + DvGainTimesRate * x
  BY DEF Unlimited
<1>4. Aligned(p) => x = 0
  BY <1>1 DEF Aligned, Pid
<1>5. x = 0 => DvGainTimesRate * x = 0
  <2> HIDE DEF x
  <2> QED BY PidNumbers
<1> HIDE DEF a, b, e, x
<1>6. /\ Unlimited(p, feed) \in Int
      /\ Aligned(p) => Unlimited(p, feed) = p.integral + a + (b + feed)
  BY <1>1, <1>2, <1>3, <1>4, <1>5
<1> QED BY <1>6 DEF a, b, e

LEMMA CalculateIs ==
  ASSUME NEW p \in Pid, NEW feed \in Int
  PROVE  LET limited == Limited(Unlimited(p, feed), p.out)
         IN /\ calculate(p, feed).out = Clamped(limited)
            /\ ~calculate(p, feed).transferred /\ calculate(p, feed).mode = p.mode
            /\ calculate(p, feed).pv = p.pv /\ calculate(p, feed).sp = p.sp
            /\ calculate(p, feed) \in Pid
<1> DEFINE u == Limited(Unlimited(p, feed), p.out)
           b == DvGainOverReset * Error(p)
           sat == Clamped(u) # u
<1>1. p.out \in Int /\ p.integral \in Int /\ p.pv \in Int
  BY DEF Pid
<1>2. u \in Int
  BY <1>1, UnlimitedIs, LimitedIs
<1>3. Clamped(u) \in Int /\ b \in Int /\ Error(p) \in Int /\ sat \in BOOLEAN
  <2>1. Clamped(u) \in Int
    <3> HIDE DEF u
    <3> QED BY <1>2, ClampedIs
  <2> QED BY <2>1, ErrorIsInt
<1>4. p.integral + b \in Int
  BY <1>1, <1>3
<1>5. calculate(p, feed) =
        [p EXCEPT !.out = Clamped(u), !.integral = p.integral + b, !.saturated = sat,
                  !.last_error = Error(p), !.last_pv = p.pv, !.transferred = FALSE]
  BY Zenon DEF calculate
<1> HIDE DEF u, b, sat
<1>6. /\ calculate(p, feed).out = Clamped(u)
      /\ ~calculate(p, feed).transferred /\ calculate(p, feed).mode = p.mode
      /\ calculate(p, feed).pv = p.pv /\ calculate(p, feed).sp = p.sp
      /\ calculate(p, feed) \in Pid
  BY <1>1, <1>3, <1>4, <1>5 DEF Pid
<1> QED BY <1>6 DEF u

LEMMA PidKept ==
  ASSUME PidInv, DvPidNext
  PROVE  PidInv'
<1>0. /\ dvPid \in Pid /\ dvPid.out \in Int /\ dvPid.pv \in Int /\ dvPid.mode \in Modes
      /\ dvPid.transferred \in BOOLEAN /\ dvPid.integral \in Int
  BY DEF PidInv, Pid
<1>1. CASE SetMode
  <2>1. PICK mode \in Modes \ {dvPid.mode} : dvPid' = set_mode(dvPid, mode)
    BY <1>1 DEF SetMode
  <2>2. CASE (dvPid.mode = "MAN" /\ mode = "AUT") \/ (dvPid.mode = "AUT" /\ mode = "CAS")
    <3> DEFINE e == Error(dvPid)
               a == DvGain * e
    <3>1. e \in Int /\ a \in Int
      BY <1>0, ErrorIsInt
    <3>2. dvPid' = [dvPid EXCEPT !.integral = dvPid.out - a, !.last_error = e,
                      !.last_pv = dvPid.pv, !.transferred = TRUE, !.mode = mode]
      BY <2>1, <2>2 DEF set_mode, bumpless_transfer
    <3>3. dvPid.out - a \in Int
      BY <1>0, <3>1
    <3>4. Error(dvPid') = e
      <4> HIDE DEF a
      <4> QED BY <1>0, <3>2 DEF Pid, Error
    <3> HIDE DEF e, a
    <3>5. /\ dvPid' \in Pid /\ dvPid'.mode = mode /\ dvPid'.last_error = e
          /\ dvPid'.last_pv = dvPid'.pv /\ dvPid'.out = dvPid.out
          /\ dvPid'.integral = dvPid.out - a
      BY <1>0, <3>1, <3>2, <3>3 DEF Pid
    <3>6. dvPid'.out = dvPid'.integral + DvGain * Error(dvPid')
      <4>1. DvGain * Error(dvPid') = a
        BY <3>4 DEF a
      <4> QED BY <1>0, <3>1, <3>5, <4>1
    <3>7. mode # "MAN"
      BY <2>2
    <3>8. Aligned(dvPid')
      BY <3>4, <3>5, <3>6, <3>7 DEF Aligned
    <3> QED BY <3>5, <3>8 DEF PidInv
  <2>3. CASE ~((dvPid.mode = "MAN" /\ mode = "AUT") \/ (dvPid.mode = "AUT" /\ mode = "CAS"))
    <3>1. dvPid' = [dvPid EXCEPT !.transferred = FALSE, !.mode = mode]
      BY <2>1, <2>3 DEF set_mode
    <3>2. dvPid' \in Pid /\ ~dvPid'.transferred
      BY <1>0, <3>1 DEF Pid
    <3> QED BY <3>2 DEF PidInv
  <2> QED BY <2>2, <2>3
<1>2. CASE Calculate
  <2>1. PICK feed \in DvFeeds : dvPid' = calculate(dvPid, feed)
    BY <1>2 DEF Calculate
  <2>2. dvPid' \in Pid /\ ~dvPid'.transferred
    BY <1>0, <2>1, CalculateIs, PidNumbers
  <2> QED BY <2>2 DEF PidInv
<1>3. CASE AntiWindup
  <2>1. CASE dvPid.out >= DvOutHi \/ dvPid.out <= DvOutLo
    <3> DEFINE m == Max({0, dvPid.integral})
    <3>1. dvPid' = [dvPid EXCEPT !.integral = m, !.transferred = FALSE]
      BY <1>3, <2>1 DEF AntiWindup, anti_windup
    <3>2. m \in Int
      <4>1. 0 \in Int
        OBVIOUS
      <4>2. m = IF 0 >= dvPid.integral THEN 0 ELSE dvPid.integral
        BY <1>0, <4>1, MaxOfTwo
      <4> HIDE DEF m
      <4> QED BY <1>0, <4>2
    <3> HIDE DEF m
    <3>3. dvPid' \in Pid /\ ~dvPid'.transferred
      BY <1>0, <3>1, <3>2 DEF Pid
    <3> QED BY <3>3 DEF PidInv
  <2>2. CASE ~(dvPid.out >= DvOutHi \/ dvPid.out <= DvOutLo)
    <3>1. dvPid' = dvPid
      BY <1>3, <2>2 DEF AntiWindup, anti_windup
    <3> QED BY <3>1 DEF PidInv
  <2> QED BY <2>1, <2>2
<1>4. CASE SetLimits
  <2> DEFINE c == Clamped(dvPid.out)
  <2>1. dvPid' = [dvPid EXCEPT !.out = c]
    BY <1>4 DEF SetLimits
  <2>2. c \in Int /\ (\A x \in Int : dvPid.out = x \/ dvPid.out = Clamped(x) => c = Clamped(x))
    BY <1>0, ClampedIs
  <2> HIDE DEF c
  <2>3. /\ dvPid' \in Pid /\ dvPid'.out = c /\ dvPid'.mode = dvPid.mode
        /\ dvPid'.last_error = dvPid.last_error /\ dvPid'.last_pv = dvPid.last_pv
        /\ dvPid'.pv = dvPid.pv /\ dvPid'.sp = dvPid.sp /\ dvPid'.integral = dvPid.integral
        /\ dvPid'.transferred = dvPid.transferred
    BY <1>0, <2>1, <2>2 DEF Pid
  <2>4. Error(dvPid') = Error(dvPid)
    BY <2>3 DEF Error
  <2>5. dvPid.integral + DvGain * Error(dvPid) \in Int
    BY <1>0, ErrorIsInt
  <2>6. Aligned(dvPid) => Aligned(dvPid')
    BY <2>2, <2>3, <2>4, <2>5 DEF Aligned
  <2> QED BY <2>3, <2>6 DEF PidInv
<1>5. CASE ByHand
  <2>1. PICK out \in Manuals : dvPid' = [dvPid EXCEPT !.out = out]
    BY <1>5 DEF ByHand
  <2>2. out \in Int
    BY PidNumbers
  <2>3. dvPid' \in Pid /\ dvPid'.transferred = dvPid.transferred
    BY <1>0, <2>1, <2>2 DEF Pid
  <2>4. ~dvPid.transferred
    BY <1>5 DEF ByHand, PidInv, Aligned
  <2> QED BY <2>3, <2>4 DEF PidInv
<1>6. CASE DvMeasured
  <2>1. PICK pv \in DvPvs, sp \in DvSps :
          dvPid' = [dvPid EXCEPT !.pv = pv, !.sp = sp, !.transferred = FALSE]
    BY <1>6 DEF DvMeasured
  <2>2. pv \in Int /\ sp \in Int
    BY PidNumbers
  <2>3. dvPid' \in Pid /\ ~dvPid'.transferred
    BY <1>0, <2>1, <2>2 DEF Pid
  <2> QED BY <2>3 DEF PidInv
<1> QED BY <1>1, <1>2, <1>3, <1>4, <1>5, <1>6 DEF DvPidNext

(* The two bounds of TransferIsBumpless for one step. *)
BumplessStep ==
  LET change == dvPid'.out - Clamped(dvPid.out)
      e == DvGainOverReset * Error(dvPid)
  IN dvPid.mode # "MAN" /\ dvPid'.mode = dvPid.mode /\ dvPid'.out # dvPid.out =>
       /\ change \in -DvOutChange .. DvOutChange
       /\ dvPid.transferred /\ ~dvPid'.transferred /\ dvPid'.pv = dvPid.pv /\ dvPid'.sp = dvPid.sp =>
            \E feed \in DvFeeds \union {0} :
              change \in -Max({e + feed, -e - feed}) .. Max({e + feed, -e - feed})

LEMMA ScanIsBumpless ==
  ASSUME PidInv, NEW feed \in DvFeeds, dvPid' = calculate(dvPid, feed)
  PROVE  BumplessStep
<1> DEFINE x == DvGainOverReset * Error(dvPid) + feed
           u == Unlimited(dvPid, feed)
           limited == Limited(u, dvPid.out)
           change == dvPid'.out - Clamped(dvPid.out)
           Size(y) == IF y >= 0 THEN y ELSE -y
<1>1. /\ dvPid \in Pid /\ dvPid.out \in Int /\ feed \in Int
      /\ dvPid.integral \in Int
  BY PidNumbers DEF PidInv, Pid
<1>2. /\ x \in Int /\ u \in Int /\ DvGainOverReset * Error(dvPid) \in Int
      /\ dvPid.integral + DvGain * Error(dvPid) \in Int
  BY <1>1, ErrorIsInt, UnlimitedIs
<1>3. dvPid'.out = Clamped(limited)
  BY <1>1, CalculateIs
<1>4. /\ limited \in Int /\ limited - dvPid.out \in -DvOutChange .. DvOutChange
      /\ u >= dvPid.out => dvPid.out <= limited /\ limited <= u
      /\ u <= dvPid.out => u <= limited /\ limited <= dvPid.out
  <2> HIDE DEF u
  <2> QED BY <1>1, <1>2, LimitedIs
<1>5. \A y, z \in Int : y <= z => /\ Clamped(y) <= Clamped(z)
                                  /\ Clamped(z) - Clamped(y) <= z - y
  BY ClampedIs
<1>6. \A y \in Int : Clamped(y) \in Int /\ Clamped(Clamped(y)) = Clamped(y)
  BY ClampedIs
<1> HIDE DEF x, u, limited
<1>7. change \in -DvOutChange .. DvOutChange
  <2>1. Clamped(dvPid.out) \in Int /\ Clamped(limited) \in Int /\ DvOutChange \in Nat
    BY <1>1, <1>4, <1>6, PidNumbers
  <2>2. CASE dvPid.out <= limited
    <3>1. Clamped(dvPid.out) <= Clamped(limited)
          /\ Clamped(limited) - Clamped(dvPid.out) <= limited - dvPid.out
      BY <1>1, <1>4, <1>5, <2>2
    <3> QED BY <1>1, <1>3, <1>4, <2>1, <3>1
  <2>3. CASE limited <= dvPid.out
    <3>1. Clamped(limited) <= Clamped(dvPid.out)
          /\ Clamped(dvPid.out) - Clamped(limited) <= dvPid.out - limited
      BY <1>1, <1>4, <1>5, <2>3
    <3> QED BY <1>1, <1>3, <1>4, <2>1, <3>1
  <2> QED BY <1>1, <1>4, <2>2, <2>3
<1>8. ASSUME dvPid.transferred
      PROVE  change \in -Size(x) .. Size(x)
  <2> DEFINE t == dvPid.integral + DvGain * Error(dvPid)
  <2>1. t \in Int /\ (dvPid.out = t \/ dvPid.out = Clamped(t)) /\ u = t + x
    BY <1>1, <1>2, <1>8, UnlimitedIs DEF PidInv, Aligned, x, u
  <2> HIDE DEF t
  <2>2. Clamped(dvPid.out) = Clamped(t)
    BY <1>6, <2>1
  <2>3. change = Clamped(limited) - Clamped(t)
    BY <1>3, <2>2
  <2>4. Clamped(u) - Clamped(t) \in -Size(x) .. Size(x)
    <3>0. Clamped(u) \in Int /\ Clamped(t) \in Int
      BY <1>2, <1>6, <2>1
    <3>1. CASE t <= u
      <4>1. Clamped(t) <= Clamped(u) /\ Clamped(u) - Clamped(t) <= u - t
        BY <1>2, <1>5, <2>1, <3>1
      <4> QED BY <1>2, <2>1, <3>0, <3>1, <4>1 DEF Size
    <3>2. CASE u <= t
      <4>1. Clamped(u) <= Clamped(t) /\ Clamped(t) - Clamped(u) <= t - u
        BY <1>2, <1>5, <2>1, <3>2
      <4> QED BY <1>2, <2>1, <3>0, <3>2, <4>1 DEF Size
    <3> QED BY <1>2, <2>1, <3>1, <3>2
  <2>5. \/ Clamped(t) <= Clamped(limited) /\ Clamped(limited) <= Clamped(u)
        \/ Clamped(u) <= Clamped(limited) /\ Clamped(limited) <= Clamped(t)
    <3>1. CASE dvPid.out <= u
      <4>1. Clamped(dvPid.out) <= Clamped(limited) /\ Clamped(limited) <= Clamped(u)
        BY <1>1, <1>2, <1>4, <1>5, <3>1
      <4> QED BY <2>2, <4>1
    <3>2. CASE u <= dvPid.out
      <4>1. Clamped(u) <= Clamped(limited) /\ Clamped(limited) <= Clamped(dvPid.out)
        BY <1>1, <1>2, <1>4, <1>5, <3>2
      <4> QED BY <2>2, <4>1
    <3> QED BY <1>1, <1>2, <3>1, <3>2
  <2>6. Clamped(u) \in Int /\ Clamped(t) \in Int /\ Clamped(limited) \in Int /\ Size(x) \in Int
    BY <1>2, <1>4, <1>6, <2>1 DEF Size
  <2> QED BY <2>3, <2>4, <2>5, <2>6
<1>9. Max({DvGainOverReset * Error(dvPid) + feed, -(DvGainOverReset * Error(dvPid)) - feed}) = Size(x)
  <2> DEFINE y == -(DvGainOverReset * Error(dvPid)) - feed
  <2>1. y \in Int /\ y = -x
    BY <1>1, <1>2 DEF x
  <2>2. Max({x, y}) = IF x >= y THEN x ELSE y
    <3> HIDE DEF y
    <3> QED BY <1>2, <2>1, MaxOfTwo
  <2>3. Max({x, y}) = Size(x)
    <3> HIDE DEF y
    <3> QED BY <1>2, <2>1, <2>2 DEF Size
  <2> QED BY <2>3 DEF x
<1>10. feed \in DvFeeds \union {0}
  OBVIOUS
<1> HIDE DEF change
<1>11. dvPid.transferred =>
         change \in -Max({DvGainOverReset * Error(dvPid) + feed, -(DvGainOverReset * Error(dvPid)) - feed})
                    .. Max({DvGainOverReset * Error(dvPid) + feed, -(DvGainOverReset * Error(dvPid)) - feed})
  BY <1>8, <1>9
<1>12. dvPid.transferred =>
         \E f \in DvFeeds \union {0} :
           change \in -Max({DvGainOverReset * Error(dvPid) + f, -(DvGainOverReset * Error(dvPid)) - f})
                      .. Max({DvGainOverReset * Error(dvPid) + f, -(DvGainOverReset * Error(dvPid)) - f})
  BY <1>10, <1>11, Zenon
<1> QED BY <1>7, <1>12, Zenon DEF BumplessStep, change

LEMMA PidStepIsBumpless ==
  ASSUME PidInv, DvPidNext
  PROVE  BumplessStep
<1>0. dvPid \in Pid /\ dvPid.out \in Int /\ dvPid.mode \in Modes
  BY DEF PidInv, Pid
<1>1. CASE SetMode
  <2>1. PICK mode \in Modes \ {dvPid.mode} : dvPid' = set_mode(dvPid, mode)
    BY <1>1 DEF SetMode
  <2>2. \A q \in Pid : [q EXCEPT !.mode = mode].mode = mode
    BY DEF Pid
  <2>3. dvPid'.mode = mode
    BY <1>0, <2>1 DEF set_mode, bumpless_transfer, Pid
  <2> QED BY <2>1, <2>3 DEF BumplessStep
<1>2. CASE Calculate
  BY <1>2, ScanIsBumpless DEF Calculate
<1>3. CASE AntiWindup
  <2>1. dvPid'.out = dvPid.out
    BY <1>0, <1>3 DEF AntiWindup, anti_windup, Pid
  <2> QED BY <2>1 DEF BumplessStep
<1>4. CASE SetLimits
  <2>1. dvPid'.out = Clamped(dvPid.out) /\ dvPid'.transferred = dvPid.transferred
    BY <1>0, <1>4 DEF SetLimits, Pid
  <2>2. dvPid'.out - Clamped(dvPid.out) = 0
    BY <1>0, <2>1, ClampedIs
  <2>3. 0 \in -DvOutChange .. DvOutChange
    BY PidNumbers
  <2> QED BY <2>1, <2>2, <2>3 DEF BumplessStep
<1>5. CASE ByHand
  BY <1>5 DEF ByHand, BumplessStep
<1>6. CASE DvMeasured
  <2>1. dvPid'.out = dvPid.out
    BY <1>0, <1>6 DEF DvMeasured, Pid
  <2> QED BY <2>1 DEF BumplessStep
<1> QED BY <1>1, <1>2, <1>3, <1>4, <1>5, <1>6 DEF DvPidNext

-----------------------------------------------------------------------------
(* DeltaV as a whole. *)

DeltaVInv == LogInv /\ PlantInv /\ PidInv /\ SeqInv /\ VoteInv

LEMMA ControlInit == DvControlInit => PidInv /\ SeqInv /\ VoteInv
<1> SUFFICES ASSUME DvControlInit PROVE PidInv /\ SeqInv /\ VoteInv
  OBVIOUS
<1>1. 0 \in Int /\ 0 \in Nat /\ -1 \in Int /\ ~(-1 \in 0 .. Len(DvSteps) - 1)
  OBVIOUS
<1>2. PidInv
  BY <1>1 DEF DvControlInit, pid_init, PidInv, Pid, Modes
<1>3. SeqInv
  BY <1>1 DEF DvControlInit, SeqInv, SeqState, Waited
<1>4. VoteInv
  BY <1>1 DEF DvControlInit, VoteInv, VoteIns
<1> QED BY <1>2, <1>3, <1>4

LEMMA DeltaVFrame ==
  ASSUME [DcsFieldNext]_dcsFieldVars
  PROVE  /\ [DvPairNext]_<<dvPair, dvLog, dvNewest>>
         /\ DvBatchNext \/ UNCHANGED dvBatch
         /\ DvCtrlNext \/ UNCHANGED dvCtrl
         /\ DvSystemNext \/ UNCHANGED <<dvSystem, dvNode>>
         /\ DvPidNext \/ UNCHANGED dvPid
         /\ DvSequenceNext \/ UNCHANGED dvSeq
         /\ DvVoteNext \/ UNCHANGED dvVote
BY Zenon DEF DcsFieldNext, dcsFieldVars, deltaVVars, DcsStep, FieldStep, PlantStep, ControlStep,
   LinkStep, DeviceStep, dvPlantVars, dvControlVars

LEMMA DeltaVStep ==
  ASSUME DeltaVInv, [DcsFieldNext]_dcsFieldVars
  PROVE  DeltaVInv'
<1>1. LogInv'
  BY DeltaVFrame, LogStep DEF DeltaVInv
<1>2. PlantInv'
  <2>1. dvBatch' \in DvBatch /\ dvBatch'.state \in ReachedStates
    BY DeltaVFrame, DvBatchKept DEF DeltaVInv, PlantInv
  <2>2. dvCtrl' \in DvCtrl /\ OwnIds(dvCtrl'.carriers)
    BY DeltaVFrame, DvCtrlKept DEF DeltaVInv, PlantInv
  <2>3. /\ dvSystem' \in DvSystem /\ OwnIds(dvSystem'.areas)
        /\ dvNode' \in [status : NodeStatus, initialised : BOOLEAN]
        /\ dvNode'.status \in AtWork => dvNode'.initialised
    BY DeltaVFrame, DvSystemKept DEF DeltaVInv, PlantInv
  <2> QED BY <2>1, <2>2, <2>3 DEF PlantInv
<1>3. PidInv'
  <2>1. CASE DvPidNext
    BY <2>1, PidKept DEF DeltaVInv
  <2>2. CASE UNCHANGED dvPid
    BY <2>2 DEF DeltaVInv, PidInv
  <2> QED BY <2>1, <2>2, DeltaVFrame
<1>4. SeqInv'
  <2>1. CASE DvSequenceNext
    BY <2>1, SequenceKept DEF DeltaVInv
  <2>2. CASE UNCHANGED dvSeq
    BY <2>2 DEF DeltaVInv, SeqInv
  <2> QED BY <2>1, <2>2, DeltaVFrame
<1>5. VoteInv'
  <2>1. CASE DvVoteNext
    BY <2>1, VoteKept DEF DeltaVInv
  <2>2. CASE UNCHANGED dvVote
    BY <2>2 DEF DeltaVInv, VoteInv
  <2> QED BY <2>1, <2>2, DeltaVFrame
<1> QED BY <1>1, <1>2, <1>3, <1>4, <1>5 DEF DeltaVInv

LEMMA DeltaVInvSuffices == DeltaVInv => DeltaVSound
<1> SUFFICES ASSUME DeltaVInv PROVE DeltaVSound
  OBVIOUS
<1>1. DvPlantTypeOK
  BY DEF DeltaVInv, LogInv, PlantInv, DvPlantTypeOK
<1>2. DvControlTypeOK
  BY DEF DeltaVInv, PidInv, Pid, SeqInv, SeqState, VoteInv, VoteIns, DvControlTypeOK
<1>3. DvPlantSound
  <2>1. dvLog.total \in Int /\ LogSize \in Int
    BY PlantNumbers DEF DeltaVInv, LogInv, DvLog
  <2>2. Min({LogSize, dvLog.total}) = IF LogSize <= dvLog.total THEN LogSize ELSE dvLog.total
    BY <2>1, MinOfTwo
  <2>3. dvLog.count = Min({LogSize, dvLog.total})
    BY <2>1, <2>2 DEF DeltaVInv, LogInv
  <2>4. dvNode.status \in {"STANDBY", "ACTIVE", "DEGRADED", "SIMULATE"} => dvNode.initialised
    BY DEF DeltaVInv, PlantInv, AtWork
  <2> QED BY <2>3, <2>4 DEF DeltaVInv, LogInv, PlantInv, OwnIds, DvPlantSound
<1>4. WaitsAndVotes
  BY DEF DeltaVInv, SeqInv, Waited, VoteInv, Bracketed, WaitsAndVotes
<1> QED BY <1>1, <1>2, <1>3, <1>4 DEF DeltaVSound

(* Whatever the sizes, the inputs, the tuning and the chart: no two *)
(* controllers are primary, the log hands back the failover written last, *)
(* a working node was initialised, a carrier and an area have a number of *)
(* their own, a step that waits waits for its time, and a vote that counts *)
(* lies between two inputs that agree. *)
THEOREM DeltaVIsSound == DcsFieldSpec => []DeltaVSound
<1>1. DcsFieldInit => DeltaVInv
  BY LogInit, PlantInit, ControlInit DEF DcsFieldInit, DeltaVInv
<1>2. DeltaVInv /\ [DcsFieldNext]_dcsFieldVars => DeltaVInv'
  BY DeltaVStep
<1>3. DeltaVInv => DeltaVSound
  BY DeltaVInvSuffices
<1> QED BY <1>1, <1>2, <1>3, PTL DEF DcsFieldSpec

(* Control never comes back to the first member, and a batch that left *)
(* RUNNING never runs again, whatever is commanded. *)
THEOREM NothingComesBackHolds == DcsFieldSpec => NothingComesBack
<1> DEFINE Gone == /\ dvPair.primary.role # "PRIMARY" => dvPair'.primary.role # "PRIMARY"
                   /\ dvBatch.state \notin {"IDLE", "RUNNING"} => dvBatch'.state \notin {"IDLE", "RUNNING"}
<1>1. DcsFieldInit => DeltaVInv
  BY LogInit, PlantInit, ControlInit DEF DcsFieldInit, DeltaVInv
<1>2. DeltaVInv /\ [DcsFieldNext]_dcsFieldVars => DeltaVInv'
  BY DeltaVStep
<1>3. DeltaVInv /\ [DcsFieldNext]_dcsFieldVars => [Gone]_<<dvPair, dvBatch>>
  <2> SUFFICES ASSUME DeltaVInv, [DcsFieldNext]_dcsFieldVars PROVE Gone
    OBVIOUS
  <2>1. dvBatch.state \notin {"IDLE", "RUNNING"} => dvBatch'.state \notin {"IDLE", "RUNNING"}
    BY DeltaVFrame, DvBatchKept DEF DeltaVInv, PlantInv
  <2>2. dvPair.primary.role # "PRIMARY" => dvPair'.primary.role # "PRIMARY"
    <3>1. dvPair \in DvPair
      BY DEF DeltaVInv, LogInv
    <3>2. CASE set_role
      <4>1. PICK m \in {"primary", "standby"}, role \in SetRoles :
              dvPair' = [dvPair EXCEPT ![m].role = role]
        BY <3>2 DEF set_role
      <4>2. role # "PRIMARY"
        BY DeltaVPlantAssumption
      <4> QED BY <3>1, <4>1, <4>2 DEF DvPair, Member
    <3>3. CASE initiate_sync \/ CopyEnds
      <4>1. CASE initiate_sync
        BY <3>1, <4>1 DEF initiate_sync, DvPair, Member
      <4>2. CASE CopyEnds
        <5>1. PICK result \in {"SYNCHRONIZED", "MISMATCH"}, same \in BOOLEAN :
                dvPair' = [dvPair EXCEPT !.standby.sync = result, !.primary.firmware = same,
                                         !.primary.database = same, !.standby.database = same]
          BY <4>2 DEF CopyEnds
        <5> QED BY <3>1, <5>1 DEF DvPair, Member
      <4> QED BY <3>3, <4>1, <4>2
    <3>4. CASE HealthReported
      <4>1. PICK m \in {"primary", "standby"}, report \in Reports :
              dvPair' = [dvPair EXCEPT ![m].hardware = report[1], ![m].software = report[2]]
        BY <3>4 DEF HealthReported
      <4> QED BY <3>1, <4>1 DEF DvPair, Member
    <3>5. CASE perform_failover
      BY <3>1, <3>5 DEF perform_failover, FailedOver, DvPair, Member
    <3>6. CASE UNCHANGED dvPair
      BY <3>6
    <3> QED BY <3>2, <3>3, <3>4, <3>5, <3>6, DeltaVFrame DEF DvPairNext
  <2> QED BY <2>1, <2>2
<1>4. NothingComesBack <=> [][Gone]_<<dvPair, dvBatch>>
  BY DEF NothingComesBack
<1> QED BY <1>1, <1>2, <1>3, <1>4, PTL DEF DcsFieldSpec

(* A transfer to automatic moves the output by one integral step and the *)
(* feedforward at most, for any gain, limits and form of the algorithm. *)
THEOREM TransferIsBumplessHolds == DcsFieldSpec => TransferIsBumpless
<1>1. DcsFieldInit => DeltaVInv
  BY LogInit, PlantInit, ControlInit DEF DcsFieldInit, DeltaVInv
<1>2. DeltaVInv /\ [DcsFieldNext]_dcsFieldVars => DeltaVInv'
  BY DeltaVStep
<1>3. DeltaVInv /\ [DcsFieldNext]_dcsFieldVars => [BumplessStep]_dvPid
  BY DeltaVFrame, PidStepIsBumpless DEF DeltaVInv
<1>4. TransferIsBumpless <=> [][BumplessStep]_dvPid
  BY DEF TransferIsBumpless, BumplessStep
<1> QED BY <1>1, <1>2, <1>3, <1>4, PTL DEF DcsFieldSpec

-----------------------------------------------------------------------------
(* The H1 segment: the clock of the link scheduler. *)

LEMMA LinkNumbers ==
  /\ Macrocycle \in Nat /\ Macrocycle > 0 /\ TimeRange \in Nat /\ TimeRange > 0
  /\ Macrocycle < TimeRange /\ MaxLive \in Nat /\ MaxLive > 0 /\ MaxCycles \in Nat
  /\ SyncRange \in Nat /\ SyncRange > 0 /\ LasTimes \subseteq Nat
  /\ Offsets \subseteq 0 .. TimeRange - 1 /\ Responses \subseteq Nat /\ Addresses \subseteq 0 .. 255
BY H1LinkAssumption

LEMMA WrapIs ==
  ASSUME NEW x \in Int
  PROVE  /\ Wrap(x) \in 0 .. TimeRange - 1
         /\ \A y \in 0 .. TimeRange - 1 :
              x = y \/ x = y + TimeRange \/ x = y + TimeRange + TimeRange => Wrap(x) = y
<1>1. Wrap(x) \in 0 .. TimeRange - 1
  BY LinkNumbers DEF Wrap
<1>2. ASSUME NEW y \in 0 .. TimeRange - 1,
             x = y \/ x = y + TimeRange \/ x = y + TimeRange + TimeRange
      PROVE  Wrap(x) = y
  BY <1>2, LinkNumbers, RingIs DEF Wrap
<1> QED BY <1>1, <1>2

(* Moving a clock twice is moving it by the sum, and the way back is known.*)
LEMMA WrapTwice ==
  ASSUME NEW t \in 0 .. TimeRange - 1, NEW a \in Nat, NEW b \in Nat, a + b < TimeRange
  PROVE  /\ Wrap(Wrap(t + a) + b) = Wrap(t + (a + b))
         /\ Wrap(Wrap(t + a) - t + TimeRange) = a
<1> DEFINE wa == IF t + a < TimeRange THEN t + a ELSE t + a - TimeRange
           wab == IF t + (a + b) < TimeRange THEN t + (a + b) ELSE t + (a + b) - TimeRange
<1>1. Wrap(t + a) = wa /\ wa \in 0 .. TimeRange - 1
  <2>1. wa \in 0 .. TimeRange - 1 /\ t + a \in Int /\ (t + a = wa \/ t + a = wa + TimeRange)
    BY LinkNumbers
  <2> HIDE DEF wa
  <2> QED BY <2>1, WrapIs
<1>2. Wrap(t + (a + b)) = wab /\ wab \in 0 .. TimeRange - 1
  <2>1. wab \in 0 .. TimeRange - 1 /\ t + (a + b) \in Int
        /\ (t + (a + b) = wab \/ t + (a + b) = wab + TimeRange)
    BY LinkNumbers
  <2> HIDE DEF wab
  <2> QED BY <2>1, WrapIs
<1>3. wa + b \in Int /\ (wa + b = wab \/ wa + b = wab + TimeRange)
  BY LinkNumbers
<1>4. Wrap(wa + b) = wab
  <2> HIDE DEF wa, wab
  <2> QED BY <1>2, <1>3, WrapIs
<1>5. Wrap(wa - t + TimeRange) = a
  <2>1. wa - t + TimeRange \in Int /\ a \in 0 .. TimeRange - 1
        /\ (wa - t + TimeRange = a \/ wa - t + TimeRange = a + TimeRange)
    BY LinkNumbers
  <2> HIDE DEF wa
  <2> QED BY <2>1, WrapIs
<1> QED BY <1>1, <1>2, <1>4, <1>5

(* What the entries of a schedule leave: a clock, the end of the last one, *)
(* and, if none was skipped and all fit the macrocycle, both inside it. *)
CdState == [time : 0 .. TimeRange - 1, last : 0 .. TimeRange - 1, skipped : Nat]

Fits(schedule) == \A i \in DOMAIN schedule : schedule[i].offset + CdTime <= Macrocycle

Inside(r, start) ==
  r.skipped = 0 => r.time = r.last /\ \E z \in 0 .. Macrocycle : r.last = Wrap(start + z)

CdTurn(s, k, was) ==
  LET e   == s.schedule[k]
      due == Wrap(s.time + e.offset)
      end == Wrap(due + Min({CdTime, e.max_response}))
  IN IF due > Wrap(due + e.max_response)
     THEN [was EXCEPT !.time = due, !.skipped = @ + 1]
     ELSE [was EXCEPT !.time = end, !.last = end]

LEMMA CdTurnIs ==
  ASSUME NEW s, s.time \in 0 .. TimeRange - 1, s.schedule \in Seq(CdEntry),
         NEW k \in DOMAIN s.schedule, NEW was \in CdState
  PROVE  /\ CdTurn(s, k, was) \in CdState
         /\ Fits(s.schedule) /\ Inside(was, s.time) => Inside(CdTurn(s, k, was), s.time)
<1> DEFINE e   == s.schedule[k]
           m   == Min({CdTime, e.max_response})
           due == Wrap(s.time + e.offset)
           end == Wrap(due + m)
           late == due > Wrap(due + e.max_response)
           new == CdTurn(s, k, was)
<1>1. e \in CdEntry /\ e.offset \in 0 .. TimeRange - 1 /\ e.offset \in Nat /\ e.max_response \in Nat
  <2>1. e \in CdEntry
    BY ElementOfSeq, LenProperties
  <2> HIDE DEF e
  <2>2. e.offset \in Offsets /\ e.max_response \in Responses
    BY <2>1 DEF CdEntry
  <2>3. \A x \in 0 .. TimeRange - 1 : x \in Nat
    OBVIOUS
  <2> QED BY <2>1, <2>2, <2>3, LinkNumbers
<1>2. m \in 0 .. 5
  <2>1. CdTime \in Int /\ e.max_response \in Int
    BY <1>1 DEF CdTime
  <2>2. m = IF CdTime <= e.max_response THEN CdTime ELSE e.max_response
    <3> HIDE DEF e
    <3> QED BY <2>1, MinOfTwo
  <2> HIDE DEF m
  <2> QED BY <1>1, <2>2 DEF CdTime
<1>3. due \in 0 .. TimeRange - 1 /\ end \in 0 .. TimeRange - 1
  <2>1. s.time + e.offset \in Int
    BY <1>1, LinkNumbers
  <2>2. due \in 0 .. TimeRange - 1
    <3> HIDE DEF e
    <3> QED BY <2>1, WrapIs
  <2>3. due + m \in Int
    <3> HIDE DEF due, m
    <3> QED BY <1>2, <2>2, LinkNumbers
  <2> QED BY <2>2, <2>3, WrapIs
<1>4. new = IF late THEN [was EXCEPT !.time = due, !.skipped = was.skipped + 1]
            ELSE [was EXCEPT !.time = end, !.last = end]
  BY DEF CdTurn
<1> HIDE DEF m, due, end, late, new
<1>5. CASE late
  <2>0. was.skipped + 1 \in Nat /\ was.skipped + 1 # 0
    BY DEF CdState
  <2>1. new = [was EXCEPT !.time = due, !.skipped = was.skipped + 1]
    BY <1>4, <1>5
  <2>2. new \in CdState /\ new.skipped = was.skipped + 1
    BY <1>3, <2>0, <2>1 DEF CdState
  <2> QED BY <2>0, <2>2 DEF Inside, new
<1>6. CASE ~late
  <2>1. new \in CdState /\ new.time = end /\ new.last = end
    BY <1>3, <1>4, <1>6 DEF CdState
  <2>2. Fits(s.schedule) => end = Wrap(s.time + (e.offset + m)) /\ e.offset + m \in 0 .. Macrocycle
    <3> SUFFICES ASSUME Fits(s.schedule)
                 PROVE  end = Wrap(s.time + (e.offset + m)) /\ e.offset + m \in 0 .. Macrocycle
      OBVIOUS
    <3>1. e.offset + 5 <= Macrocycle
      BY DEF Fits, CdTime
    <3>2. e.offset + m \in 0 .. Macrocycle /\ e.offset + m < TimeRange /\ m \in Nat
      <4> HIDE DEF e
      <4> QED BY <1>1, <1>2, <3>1, LinkNumbers
    <3> QED BY <1>1, <3>2, WrapTwice DEF end, due
  <2> QED BY <2>1, <2>2 DEF Inside, new
<1> QED BY <1>5, <1>6 DEF new

LEMMA CdPhaseIs ==
  ASSUME NEW s, s.time \in 0 .. TimeRange - 1, s.schedule \in Seq(CdEntry)
  PROVE  /\ CdPhase(s) \in CdState
         /\ Fits(s.schedule) => Inside(CdPhase(s), s.time)
<1> DEFINE n == Len(s.schedule)
           start == [time |-> s.time, last |-> s.time, skipped |-> 0]
           run == CHOOSE f : f = [k \in 0 .. n |-> IF k = 0 THEN start ELSE CdTurn(s, k, f[k - 1])]
           Good(r) == r \in CdState /\ (Fits(s.schedule) => Inside(r, s.time))
<1>1. n \in Nat /\ DOMAIN s.schedule = 1 .. n
  BY LenProperties
<1>2. CdPhase(s) = run[n]
  BY Zenon DEF CdPhase, CdTurn
<1>3. Good(start)
  <2>0. 0 \in Nat
    OBVIOUS
  <2>1. start \in CdState /\ start.time = s.time /\ start.last = s.time
    BY <2>0 DEF CdState
  <2>2. s.time + 0 = s.time /\ s.time \in Int
    OBVIOUS
  <2>3. s.time = Wrap(s.time + 0)
    BY <2>2, WrapIs
  <2>4. 0 \in 0 .. Macrocycle
    BY LinkNumbers
  <2> HIDE DEF start
  <2> QED BY <2>1, <2>3, <2>4 DEF Inside
<1>4. PICK g \in [0 .. n -> CdState] :
        g[0] = start /\ \A k \in 1 .. n : g[k] = CdTurn(s, k, g[k - 1])
  <2> DEFINE F == [k \in 1 .. n |-> [was \in CdState |-> CdTurn(s, k, was)]]
  <2> HIDE DEF start, n
  <2>1. F \in [1 .. n -> [CdState -> CdState]]
    BY <1>1, CdTurnIs
  <2> HIDE DEF F
  <2>2. PICK g \in Courses(n, CdState, start, F) : TRUE
    BY <1>1, <1>3, <2>1, Iteration
  <2>3. \A k \in 1 .. n : g[k] = CdTurn(s, k, g[k - 1])
    <3> TAKE k \in 1 .. n
    <3>1. k - 1 \in 0 .. n
      BY <1>1
    <3>2. g[k] = F[k][g[k - 1]] /\ g[k - 1] \in CdState
      BY <2>2, <3>1 DEF Courses
    <3> QED BY <3>2 DEF F
  <2>4. g \in [0 .. n -> CdState] /\ g[0] = start
    BY <2>2 DEF Courses
  <2> QED BY <2>3, <2>4
<1>5. run = [k \in 0 .. n |-> IF k = 0 THEN start ELSE CdTurn(s, k, run[k - 1])]
  <2> HIDE DEF start, n
  <2>1. g = [k \in 0 .. n |-> IF k = 0 THEN start ELSE CdTurn(s, k, g[k - 1])]
    BY <1>1, <1>4
  <2> QED BY <2>1, Zenon
<1> HIDE DEF run, start, n
<1>6. Good(run[0])
  BY <1>1, <1>3, <1>5
<1>7. ASSUME NEW k \in 0 .. n - 1, Good(run[k])
      PROVE  Good(run[k + 1])
  <2>1. k + 1 \in 0 .. n /\ k + 1 \in 1 .. n /\ k + 1 # 0 /\ (k + 1) - 1 = k
    BY <1>1
  <2>2. run[k + 1] = CdTurn(s, k + 1, run[k])
    BY <1>5, <2>1
  <2> QED BY <1>1, <1>7, <2>1, <2>2, CdTurnIs
<1>8. Good(run[n])
  <2> DEFINE T == {k \in 0 .. n : Good(run[k])}
  <2>1. 0 \in T /\ \A k \in 0 .. n - 1 : k \in T => k + 1 \in T
    BY <1>1, <1>6, <1>7
  <2> HIDE DEF Good
  <2>2. 0 .. n \subseteq T
    <3> HIDE DEF T
    <3> QED BY <1>1, <2>1, SetInduction
  <2> QED BY <1>1, <2>2
<1> QED BY <1>2, <1>8

(* What a cycle leaves for tokens, and what they take of it. *)
LEMMA TokensAre ==
  ASSUME NEW remaining \in Nat, NEW devices \in Nat
  PROVE  /\ Tokens(remaining, devices) \in 0 .. devices
         /\ Tokens(remaining, devices) * TokenTime <= remaining
<1> DEFINE d == remaining \div TokenTime
<1>1. TokenTime = 5
  BY DEF TokenTime
<1>2. d \in Nat /\ d * 5 <= remaining
  BY <1>1
<1> HIDE DEF d
<1>3. Tokens(remaining, devices) = IF d <= devices THEN d ELSE devices
  BY <1>2, MinOfTwo DEF Tokens, d
<1> QED BY <1>1, <1>2, <1>3

-----------------------------------------------------------------------------
(* The tokens.  A device waits for others + the places between it and the *)
(* index, which stays below a round more for every device removed; an *)
(* index behind the end of the list was left there by a removal. *)

Turns == [others : Nat, removals : Nat]

Passed(devices, a) ==
  LET had == {i \in DOMAIN devices : devices[i] = a}
  IN IF had = {} THEN [turns[a] EXCEPT !.others = @ + Len(devices)]
     ELSE [NoTurns EXCEPT !.others = Len(devices) - Max(had)]

Rounds(r) == (MaxLive - 1) * r

Places(q, x, n) == IF q >= x THEN q - x ELSE q - x + n

Due(t, q, x, n) ==
  IF x < n THEN t.others + Places(q, x, n) <= n - 1 + Rounds(t.removals)
  ELSE t.others <= Rounds(t.removals)

LEMMA RoundsAre ==
  /\ \A r \in Nat : Rounds(r) \in Nat /\ Rounds(r + 1) = Rounds(r) + (MaxLive - 1)
  /\ Rounds(0) = 0
<1>1. ASSUME NEW r \in Nat
      PROVE  Rounds(r) \in Nat /\ Rounds(r + 1) = Rounds(r) + (MaxLive - 1)
  <2>1. \A m \in Nat : m * r \in Nat /\ m * (r + 1) = m * r + m
    OBVIOUS
  <2>2. MaxLive - 1 \in Nat
    BY LinkNumbers
  <2> QED BY <2>1, <2>2 DEF Rounds
<1>2. Rounds(0) = 0
  BY LinkNumbers DEF Rounds
<1> QED BY <1>1, <1>2

LEMMA PassedTyped ==
  ASSUME turns \in [Addresses -> Turns], NEW a \in Addresses, NEW devices \in Seq(Addresses)
  PROVE  /\ Passed(devices, a) \in Turns
         /\ a \notin ToSet(devices) => Passed(devices, a) = [turns[a] EXCEPT !.others = @ + Len(devices)]
         /\ LET had == {i \in DOMAIN devices : devices[i] = a}
            IN had # {} => Max(had) \in 1 .. Len(devices)
<1> DEFINE had == {i \in DOMAIN devices : devices[i] = a}
           n == Len(devices)
<1>1. n \in Nat /\ DOMAIN devices = 1 .. n /\ turns[a] \in Turns
  BY LenProperties
<1>2. had # {} => Max(had) \in 1 .. n
  <2>1. had \subseteq 0 .. n /\ had \subseteq 1 .. n
    BY <1>1
  <2> HIDE DEF had
  <2> QED BY <1>1, <2>1, MaxOfSome
<1>3. had = {} => Passed(devices, a) = [turns[a] EXCEPT !.others = turns[a].others + n]
  BY DEF Passed
<1>4. had # {} => Passed(devices, a) = [others |-> n - Max(had), removals |-> 0]
  BY DEF Passed, NoTurns
<1>5. a \notin ToSet(devices) => had = {}
  BY DEF ToSet
<1> HIDE DEF had, n
<1>6. had = {} => turns[a].others + n \in Nat
  BY <1>1 DEF Turns
<1>7. had # {} => n - Max(had) \in Nat /\ 0 \in Nat
  BY <1>1, <1>2
<1>8. Passed(devices, a) \in Turns
  <2>1. CASE had = {}
    BY <1>1, <1>3, <1>6, <2>1 DEF Turns
  <2>2. CASE had # {}
    <3>1. Passed(devices, a) = [others |-> n - Max(had), removals |-> 0] /\ n - Max(had) \in Nat /\ 0 \in Nat
      BY <1>4, <1>7, <2>2
    <3> QED BY <3>1 DEF Turns
  <2> QED BY <2>1, <2>2
<1> QED BY <1>2, <1>3, <1>5, <1>8 DEF had, n

(* One token more: its taker starts again, everybody else waits for one *)
(* more. *)
LEMMA PassedOn ==
  ASSUME turns \in [Addresses -> Turns], NEW a \in Addresses, NEW devices \in Seq(Addresses),
         NEW x \in Addresses
  PROVE  /\ x = a => Passed(Append(devices, x), a).others = 0
         /\ x # a => /\ Passed(Append(devices, x), a).others = Passed(devices, a).others + 1
                     /\ Passed(Append(devices, x), a).removals = Passed(devices, a).removals
<1> DEFINE n == Len(devices)
           more == Append(devices, x)
           had == {i \in DOMAIN devices : devices[i] = a}
           has == {i \in DOMAIN more : more[i] = a}
<1>1. /\ n \in Nat /\ DOMAIN devices = 1 .. n /\ DOMAIN more = 1 .. n + 1 /\ Len(more) = n + 1
      /\ \A i \in 1 .. n : more[i] = devices[i]
      /\ more[n + 1] = x /\ more \in Seq(Addresses)
  BY AppendProperties, LenProperties
<1>2. turns[a] \in Turns /\ turns[a].others \in Nat
  BY DEF Turns
<1>3. /\ had = {} => Passed(devices, a) = [turns[a] EXCEPT !.others = turns[a].others + n]
      /\ had # {} => Passed(devices, a) = [others |-> n - Max(had), removals |-> 0]
  BY DEF Passed, NoTurns
<1>4. /\ has = {} => Passed(more, a) = [turns[a] EXCEPT !.others = turns[a].others + (n + 1)]
      /\ has # {} => Passed(more, a) = [others |-> (n + 1) - Max(has), removals |-> 0]
  BY <1>1 DEF Passed, NoTurns
<1> HIDE DEF more, has, had, n
<1>5. /\ had = {} => /\ Passed(devices, a).others = turns[a].others + n
                     /\ Passed(devices, a).removals = turns[a].removals
      /\ had # {} => Passed(devices, a).others = n - Max(had) /\ Passed(devices, a).removals = 0
      /\ has = {} => /\ Passed(more, a).others = turns[a].others + (n + 1)
                     /\ Passed(more, a).removals = turns[a].removals
      /\ has # {} => Passed(more, a).others = (n + 1) - Max(has) /\ Passed(more, a).removals = 0
  BY <1>2, <1>3, <1>4 DEF Turns
<1>6. ASSUME x = a PROVE Passed(more, a).others = 0
  <2>1. n + 1 \in has /\ has \subseteq 1 .. n + 1
    BY <1>1, <1>6 DEF has
  <2>2. n + 1 \in Nat /\ has \subseteq 0 .. n + 1
    BY <1>1, <2>1
  <2>3. Max(has) \in has /\ n + 1 <= Max(has)
    BY <2>1, <2>2, MaxOfSome
  <2>4. Max(has) \in 1 .. n + 1
    BY <2>1, <2>3
  <2>5. (n + 1) - Max(has) = 0
    BY <1>1, <2>3, <2>4
  <2> QED BY <1>5, <2>1, <2>5
<1>7. ASSUME x # a
      PROVE  /\ Passed(more, a).others = Passed(devices, a).others + 1
             /\ Passed(more, a).removals = Passed(devices, a).removals
  <2>1. has = had
    BY <1>1, <1>7 DEF has, had
  <2>2. CASE had = {}
    BY <1>1, <1>2, <1>5, <2>1, <2>2
  <2>3. CASE had # {}
    <3>1. Max(had) \in 1 .. n
      BY <2>3, PassedTyped DEF had, n
    <3>2. (n + 1) - Max(had) = (n - Max(had)) + 1
      BY <1>1, <3>1
    <3> QED BY <1>5, <2>1, <2>3, <3>2
  <2> QED BY <2>2, <2>3
<1> QED BY <1>6, <1>7 DEF more

LiveInv ==
  /\ las.live \in Seq(Addresses) /\ Len(las.live) <= MaxLive /\ las.next_pt \in 0 .. MaxLive
  /\ \A i, j \in DOMAIN las.live : las.live[i] = las.live[j] => i = j
  /\ turns \in [Addresses -> Turns]

FairInv ==
  \A p \in DOMAIN las.live : Due(turns[las.live[p]], p - 1, las.next_pt, Len(las.live))

PtState == [devices : Seq(Addresses), index : 0 .. MaxLive]

PtTurn(live, was) ==
  LET t == next_token(live, was.index)
  IN [devices |-> Append(was.devices, t.device), index |-> t.index]

Fair(r) ==
  \A p \in DOMAIN las.live : Due(Passed(r.devices, las.live[p]), p - 1, r.index, Len(las.live))

(* One turn of the ring moves every device but the taker one place nearer. *)
LEMMA DueOn ==
  ASSUME NEW n \in Nat, n > 0, n <= MaxLive, NEW x \in 0 .. MaxLive, NEW q \in 0 .. n - 1,
         NEW t \in Turns, NEW u \in Turns, Due(t, q, x, n),
         x % n = q => u.others = 0,
         x % n # q => u.others = t.others + 1 /\ u.removals = t.removals
  PROVE  /\ x % n \in 0 .. n - 1 /\ ((x % n) + 1) % n \in 0 .. MaxLive
         /\ Due(u, q, ((x % n) + 1) % n, n)
<1> DEFINE at == x % n
           next == (at + 1) % n
<1>1. at \in 0 .. n - 1 /\ (x < n => at = x)
  OBVIOUS
<1>2. next \in 0 .. n - 1 /\ next = IF at + 1 = n THEN 0 ELSE at + 1
  <2> HIDE DEF at
  <2> QED BY <1>1, RingOrder
<1>3. Rounds(t.removals) \in Nat /\ Rounds(u.removals) \in Nat
  BY RoundsAre DEF Turns
<1>4. t.others \in Nat /\ u.others \in Nat
  BY DEF Turns
<1> HIDE DEF at, next
<1>5. MaxLive \in Nat
  BY LinkNumbers
<1>6. next < n /\ next \in 0 .. MaxLive
  BY <1>2, <1>5
<1>7. CASE at = q
  <2>1. Places(q, next, n) = n - 1
    BY <1>1, <1>2, <1>7 DEF Places
  <2>2. u.others = 0
    BY <1>7 DEF at
  <2>3. u.others + Places(q, next, n) <= n - 1 + Rounds(u.removals)
    BY <1>3, <2>1, <2>2
  <2>4. Due(u, q, next, n)
    BY <1>6, <2>3 DEF Due
  <2> QED BY <1>1, <1>6, <2>4 DEF at, next
<1>8. CASE at # q
  <2>1. u.others = t.others + 1 /\ Rounds(u.removals) = Rounds(t.removals)
    BY <1>8 DEF at
  <2>2. /\ Places(q, next, n) = Places(q, at, n) - 1
        /\ Places(q, at, n) \in 1 .. n - 1 /\ Places(q, next, n) \in 0 .. n - 2
    BY <1>1, <1>2, <1>8 DEF Places
  <2>3. u.others + Places(q, next, n) <= n - 1 + Rounds(u.removals)
    <3>1. CASE x < n
      <4>1. t.others + Places(q, at, n) <= n - 1 + Rounds(t.removals)
        BY <1>1, <3>1 DEF Due
      <4> HIDE DEF Places
      <4> QED BY <1>3, <1>4, <2>1, <2>2, <4>1
    <3>2. CASE ~(x < n)
      <4>1. t.others <= Rounds(t.removals)
        BY <3>2 DEF Due
      <4> HIDE DEF Places
      <4> QED BY <1>3, <1>4, <2>1, <2>2, <4>1
    <3> QED BY <3>1, <3>2
  <2>4. Due(u, q, next, n)
    BY <1>6, <2>3 DEF Due
  <2> QED BY <1>1, <1>6, <2>4 DEF at, next
<1> QED BY <1>7, <1>8

LEMMA PtTurnIs ==
  ASSUME LiveInv, Len(las.live) > 0, NEW was \in PtState, Fair(was)
  PROVE  PtTurn(las.live, was) \in PtState /\ Fair(PtTurn(las.live, was))
<1> DEFINE n == Len(las.live)
           at == was.index % n
           next == (at + 1) % n
           device == las.live[at + 1]
           new == PtTurn(las.live, was)
<1>1. /\ n \in Nat /\ n > 0 /\ n <= MaxLive /\ DOMAIN las.live = 1 .. n
      /\ was.index \in 0 .. MaxLive /\ was.devices \in Seq(Addresses)
      /\ turns \in [Addresses -> Turns]
  BY LenProperties DEF LiveInv, PtState
<1>2. new = [devices |-> Append(was.devices, device), index |-> next]
  BY DEF PtTurn, next_token
<1>3. at \in 0 .. n - 1 /\ next \in 0 .. n - 1 /\ next \in 0 .. MaxLive
  <2>0. was.index \in Int /\ MaxLive \in Nat
    BY <1>1, LinkNumbers
  <2>1. at \in 0 .. n - 1
    <3> HIDE DEF n
    <3> QED BY <1>1, <2>0
  <2>2. next \in 0 .. n - 1
    <3> HIDE DEF at, n
    <3> QED BY <1>1, <2>1, RingOrder
  <2> HIDE DEF at, next, n
  <2> QED BY <1>1, <2>0, <2>1, <2>2
<1>4. device \in Addresses
  <2>1. at + 1 \in 1 .. n
    <3> HIDE DEF at, n
    <3> QED BY <1>1, <1>3
  <2> HIDE DEF at, n
  <2> QED BY <1>1, <2>1, ElementOfSeq DEF LiveInv
<1> HIDE DEF at, next, device, new
<1>5. Append(was.devices, device) \in Seq(Addresses)
  BY <1>1, <1>4, AppendProperties
<1>6. new \in PtState /\ new.devices = Append(was.devices, device) /\ new.index = next
  BY <1>2, <1>3, <1>5 DEF PtState
<1>7. ASSUME NEW p \in DOMAIN las.live
      PROVE  Due(Passed(new.devices, las.live[p]), p - 1, new.index, Len(las.live))
  <2> DEFINE a == las.live[p]
             t == Passed(was.devices, a)
             u == Passed(new.devices, a)
  <2>1. a \in Addresses /\ p - 1 \in 0 .. n - 1
    BY <1>1, ElementOfSeq DEF LiveInv
  <2>2. t \in Turns /\ u \in Turns
    BY <1>1, <1>5, <1>6, <2>1, PassedTyped
  <2>3. Due(t, p - 1, was.index, n)
    BY DEF Fair
  <2>4. at = p - 1 <=> device = a
    <3>1. at + 1 \in DOMAIN las.live /\ at \in Int /\ p \in Int
      BY <1>1, <1>3
    <3>2. at = p - 1 <=> at + 1 = p
      BY <3>1
    <3> QED BY <3>1, <3>2 DEF device, LiveInv
  <2>5. /\ device = a => u.others = 0
        /\ device # a => u.others = t.others + 1 /\ u.removals = t.removals
    BY <1>1, <1>4, <1>6, <2>1, PassedOn
  <2> HIDE DEF t, u, n
  <2>6. /\ was.index % n = p - 1 => u.others = 0
        /\ was.index % n # p - 1 => u.others = t.others + 1 /\ u.removals = t.removals
    BY <2>4, <2>5 DEF at
  <2>7. Due(u, p - 1, ((was.index % n) + 1) % n, n)
    BY <1>1, <2>1, <2>2, <2>3, <2>6, DueOn
  <2> QED BY <1>6, <2>7 DEF next, at, u, n
<1> QED BY <1>6, <1>7 DEF Fair, new

LEMMA PtPhaseIs ==
  ASSUME LiveInv, FairInv, NEW tokens \in 0 .. Len(las.live)
  PROVE  /\ PtPhase(las.live, las.next_pt, tokens) \in PtState
         /\ Fair(PtPhase(las.live, las.next_pt, tokens))
<1> DEFINE start == [devices |-> << >>, index |-> las.next_pt]
           pass == CHOOSE f : f = [k \in 0 .. tokens |->
                     IF k = 0 THEN start ELSE PtTurn(las.live, f[k - 1])]
           Good(r) == r \in PtState /\ Fair(r)
<1>1. tokens \in Nat /\ Len(las.live) \in Nat /\ tokens <= Len(las.live)
  BY LenProperties DEF LiveInv
<1>2. PtPhase(las.live, las.next_pt, tokens) = pass[tokens]
  BY Zenon DEF PtPhase, PtTurn
<1>3. Good(start)
  <2>1. << >> \in Seq(Addresses) /\ Len(<< >>) = 0 /\ ToSet(<< >>) = {}
    BY DEF ToSet
  <2>2. start \in PtState /\ start.devices = << >> /\ start.index = las.next_pt
    BY <2>1 DEF PtState, LiveInv
  <2> HIDE DEF start
  <2>3. ASSUME NEW p \in DOMAIN las.live
        PROVE  Due(Passed(start.devices, las.live[p]), p - 1, start.index, Len(las.live))
    <3> DEFINE a == las.live[p]
    <3>1. a \in Addresses
      BY ElementOfSeq, LenProperties DEF LiveInv
    <3> HIDE DEF a
    <3>2. Passed(<< >>, a) = [turns[a] EXCEPT !.others = turns[a].others + 0]
      BY <2>1, <3>1, PassedTyped DEF LiveInv
    <3>3. turns[a] \in Turns /\ turns[a].others + 0 = turns[a].others
      BY <3>1 DEF LiveInv, Turns
    <3>4. Passed(<< >>, a) = turns[a]
      BY <3>2, <3>3 DEF Turns
    <3> QED BY <2>2, <3>4 DEF FairInv, a
  <2> QED BY <2>2, <2>3 DEF Fair
<1>4. ASSUME NEW k \in 1 .. tokens, NEW was, Good(was)
      PROVE  Good(PtTurn(las.live, was))
  <2>1. Len(las.live) > 0
    BY <1>1
  <2> QED BY <1>4, <2>1, PtTurnIs
<1>5. PICK g \in [0 .. tokens -> {r \in PtState : Fair(r)}] :
        g[0] = start /\ \A k \in 1 .. tokens : g[k] = PtTurn(las.live, g[k - 1])
  <2> DEFINE S == {r \in PtState : Fair(r)}
             F == [k \in 1 .. tokens |-> [was \in S |-> PtTurn(las.live, was)]]
  <2>0. start \in S
    BY <1>3
  <2> HIDE DEF start
  <2>1. F \in [1 .. tokens -> [S -> S]]
    BY <1>4
  <2> HIDE DEF F, S
  <2>2. PICK g \in Courses(tokens, S, start, F) : TRUE
    BY <1>1, <2>0, <2>1, Iteration
  <2>3. \A k \in 1 .. tokens : g[k] = PtTurn(las.live, g[k - 1])
    <3> TAKE k \in 1 .. tokens
    <3>1. k - 1 \in 0 .. tokens
      BY <1>1
    <3>2. g[k] = F[k][g[k - 1]] /\ g[k - 1] \in S
      BY <2>2, <3>1 DEF Courses
    <3> QED BY <3>2 DEF F
  <2>4. g \in [0 .. tokens -> S] /\ g[0] = start
    BY <2>2 DEF Courses
  <2> QED BY <2>3, <2>4 DEF S
<1>6. pass = [k \in 0 .. tokens |-> IF k = 0 THEN start ELSE PtTurn(las.live, pass[k - 1])]
  <2> HIDE DEF start
  <2>1. g = [k \in 0 .. tokens |-> IF k = 0 THEN start ELSE PtTurn(las.live, g[k - 1])]
    BY <1>1, <1>5
  <2> QED BY <2>1, Zenon
<1> HIDE DEF pass, start
<1>7. Good(pass[tokens])
  <2> DEFINE T == {k \in 0 .. tokens : Good(pass[k])}
  <2>1. 0 \in T
    BY <1>1, <1>3, <1>6
  <2>2. ASSUME NEW k \in 0 .. tokens - 1, k \in T PROVE k + 1 \in T
    <3>1. k + 1 \in 0 .. tokens /\ k + 1 \in 1 .. tokens /\ k + 1 # 0 /\ (k + 1) - 1 = k
      BY <1>1
    <3>2. pass[k + 1] = PtTurn(las.live, pass[k])
      BY <1>6, <3>1
    <3> QED BY <1>4, <2>2, <3>1, <3>2
  <2> HIDE DEF Good
  <2>3. 0 .. tokens \subseteq T
    <3> HIDE DEF T
    <3> QED BY <1>1, <2>1, <2>2, SetInduction
  <2> QED BY <1>1, <2>3
<1> QED BY <1>2, <1>7

-----------------------------------------------------------------------------
(* The scheduler. *)

LasInv == /\ las \in Las /\ overrun \in BOOLEAN
          /\ LiveInv /\ FairInv

LEMMA LasTyped ==
  ASSUME las \in Las
  PROVE  /\ las.state \in LasStates /\ las.time \in 0 .. TimeRange - 1 /\ las.start \in 0 .. TimeRange - 1
         /\ las.live \in Seq(Addresses) /\ las.schedule \in Seq(CdEntry) /\ las.next_pt \in 0 .. MaxLive
         /\ las.idle \in 0 .. TimeRange - 1 /\ las.cd_overruns \in Nat /\ las.cycles \in 0 .. MaxCycles
         /\ Len(las.live) \in Nat /\ DOMAIN las.live = 1 .. Len(las.live)
BY LenProperties DEF Las

LEMMA LasStarts ==
  ASSUME H1LinkInit
  PROVE  LasInv
<1>0. las = las_init /\ overrun = FALSE /\ turns = [a \in Addresses |-> NoTurns]
  BY DEF H1LinkInit
<1>1. 0 \in Nat /\ 0 \in 0 .. TimeRange - 1 /\ 0 \in 0 .. MaxLive /\ 0 \in 0 .. MaxCycles
  BY LinkNumbers
<1>2. << >> \in Seq(Addresses) /\ << >> \in Seq(CdEntry) /\ Len(<< >>) = 0 /\ DOMAIN << >> = {}
  OBVIOUS
<1>3. las \in Las /\ las.live = << >> /\ las.next_pt = 0
  BY <1>0, <1>1, <1>2 DEF las_init, Las, LasStates
<1>4. NoTurns \in Turns
  BY <1>1 DEF NoTurns, Turns
<1>5. turns \in [Addresses -> Turns]
  BY <1>0, <1>4
<1>6. LiveInv
  BY <1>1, <1>2, <1>3, <1>5 DEF LiveInv
<1>7. FairInv
  BY <1>2, <1>3 DEF FairInv
<1> QED BY <1>0, <1>3, <1>6, <1>7 DEF LasInv

LEMMA QuietStep ==
  ASSUME LasInv, Activate \/ cd_add
  PROVE  LasInv'
<1>1. /\ las' \in Las /\ las'.live = las.live /\ las'.next_pt = las.next_pt
      /\ turns' = turns /\ overrun' = overrun
  <2>1. CASE Activate
    BY <2>1 DEF Activate, LasInv, Las, LasStates
  <2>2. CASE cd_add
    <3>1. PICK entry \in CdEntry : las' = [las EXCEPT !.schedule = Append(las.schedule, entry)]
      BY <2>2 DEF cd_add
    <3>2. las.schedule \in Seq(CdEntry)
      BY LasTyped DEF LasInv
    <3>3. Append(las.schedule, entry) \in Seq(CdEntry)
      BY <3>2, AppendProperties
    <3> QED BY <2>2, <3>1, <3>3 DEF cd_add, LasInv, Las
  <2> QED BY <2>1, <2>2
<1>2. LiveInv'
  BY <1>1 DEF LasInv, LiveInv
<1>3. FairInv'
  BY <1>1 DEF LasInv, FairInv, Due
<1> QED BY <1>1, <1>2, <1>3 DEF LasInv

LEMMA Added ==
  ASSUME LasInv, live_list_add
  PROVE  LasInv'
<1>1. PICK a \in Addresses :
        /\ a \notin ToSet(las.live) /\ Len(las.live) < MaxLive
        /\ las' = [las EXCEPT !.live = Append(las.live, a)]
        /\ turns' = [turns EXCEPT ![a] = NoTurns] /\ overrun' = overrun
  BY DEF live_list_add
<1> DEFINE n == Len(las.live)
           live == Append(las.live, a)
<1>2. /\ las.live \in Seq(Addresses) /\ n \in Nat /\ DOMAIN las.live = 1 .. n /\ n < MaxLive
      /\ las.next_pt \in 0 .. MaxLive /\ turns \in [Addresses -> Turns] /\ las \in Las
      /\ overrun \in BOOLEAN
      /\ \A i, j \in DOMAIN las.live : las.live[i] = las.live[j] => i = j
  BY <1>1, LasTyped DEF LasInv, LiveInv
<1>3. /\ live \in Seq(Addresses) /\ Len(live) = n + 1 /\ DOMAIN live = 1 .. n + 1
      /\ \A i \in 1 .. n : live[i] = las.live[i]
      /\ live[n + 1] = a
  BY <1>2, AppendProperties, LenProperties
<1>4. \A i \in 1 .. n : las.live[i] \in Addresses /\ las.live[i] # a
  BY <1>1, <1>2, ElementOfSeq DEF ToSet
<1>5. las' = [las EXCEPT !.live = live]
  BY <1>1
<1> HIDE DEF live, n
<1>6. las' \in Las /\ las'.live = live /\ las'.next_pt = las.next_pt
  BY <1>2, <1>3, <1>5 DEF Las
<1>7. NoTurns \in Turns /\ NoTurns.others = 0 /\ NoTurns.removals = 0
  BY DEF NoTurns, Turns
<1>8. turns' \in [Addresses -> Turns] /\ turns'[a] = NoTurns
      /\ \A b \in Addresses : b # a => turns'[b] = turns[b]
  BY <1>1, <1>2, <1>7
<1>9. LiveInv'
  <2>1. ASSUME NEW i \in 1 .. n + 1, NEW j \in 1 .. n + 1, live[i] = live[j] PROVE i = j
    <3>1. CASE i \in 1 .. n /\ j \in 1 .. n
      BY <1>2, <1>3, <2>1, <3>1
    <3>2. CASE i = n + 1 /\ j = n + 1
      BY <3>2
    <3>3. CASE i \in 1 .. n /\ j = n + 1
      BY <1>3, <1>4, <2>1, <3>3
    <3>4. CASE i = n + 1 /\ j \in 1 .. n
      BY <1>3, <1>4, <2>1, <3>4
    <3> QED BY <1>2, <3>1, <3>2, <3>3, <3>4
  <2>2. n + 1 <= MaxLive
    BY <1>2, LinkNumbers
  <2> QED BY <1>2, <1>3, <1>6, <1>8, <2>1, <2>2 DEF LiveInv
<1>10. ASSUME NEW p \in 1 .. n + 1
       PROVE  Due(turns'[live[p]], p - 1, las.next_pt, n + 1)
  <2>1. CASE p = n + 1
    <3> DEFINE t == turns'[live[p]]
    <3>1. t = NoTurns
      BY <1>3, <1>8, <2>1
    <3> HIDE DEF t
    <3>2. t.others = 0 /\ t.removals = 0 /\ Rounds(t.removals) = 0
      BY <1>7, <3>1, RoundsAre, LinkNumbers
    <3>3. p - 1 = n
      BY <1>2, <2>1
    <3>4. las.next_pt < n + 1 => Places(n, las.next_pt, n + 1) \in 0 .. n
      BY <1>2 DEF Places
    <3>5. Due(t, n, las.next_pt, n + 1)
      <4> HIDE DEF Places
      <4>1. CASE las.next_pt < n + 1
        <5>1. t.others + Places(n, las.next_pt, n + 1) <= n + 1 - 1 + Rounds(t.removals)
          BY <1>2, <3>2, <3>4, <4>1
        <5> QED BY <1>2, <3>2, <3>4, <4>1, <5>1 DEF Due
      <4>2. CASE ~(las.next_pt < n + 1)
        BY <3>2, <4>2 DEF Due
      <4> QED BY <4>1, <4>2
    <3> QED BY <3>3, <3>5 DEF t
  <2>2. CASE p \in 1 .. n
    <3> DEFINE t == turns[las.live[p]]
    <3>1. turns'[live[p]] = t
      BY <1>3, <1>4, <1>8, <2>2
    <3>2. t \in Turns /\ Due(t, p - 1, las.next_pt, n)
      BY <1>2, <1>4, <2>2 DEF LasInv, FairInv, n
    <3>3. t.others \in Nat /\ Rounds(t.removals) \in Nat
      BY <3>2, RoundsAre DEF Turns
    <3> HIDE DEF t
    <3>4. Due(t, p - 1, las.next_pt, n + 1)
      <4>1. CASE las.next_pt < n
        BY <1>2, <2>2, <3>2, <3>3, <4>1 DEF Due, Places
      <4>2. CASE las.next_pt = n
        BY <1>2, <2>2, <3>2, <3>3, <4>2 DEF Due, Places
      <4>3. CASE las.next_pt > n
        BY <1>2, <2>2, <3>2, <3>3, <4>3 DEF Due, Places
      <4> QED BY <1>2, <4>1, <4>2, <4>3
    <3> QED BY <3>1, <3>4
  <2> QED BY <1>2, <2>1, <2>2
<1>11. FairInv'
  BY <1>3, <1>6, <1>10 DEF FairInv
<1> QED BY <1>1, <1>2, <1>6, <1>9, <1>11 DEF LasInv

LEMMA Removed ==
  ASSUME LasInv, live_list_remove
  PROVE  LasInv'
<1>1. PICK k \in DOMAIN las.live :
        /\ las' = [las EXCEPT !.live = RemoveAt(las.live, k)]
        /\ turns' = [b \in Addresses |->
                       IF b \in ToSet(las.live) \ {las.live[k]}
                       THEN [turns[b] EXCEPT !.removals = turns[b].removals + 1] ELSE NoTurns]
        /\ overrun' = overrun
  BY DEF live_list_remove
<1> DEFINE n == Len(las.live)
           live == RemoveAt(las.live, k)
           was(i) == IF i < k THEN i ELSE i + 1
<1>2. /\ las.live \in Seq(Addresses) /\ n \in Nat /\ DOMAIN las.live = 1 .. n /\ n <= MaxLive
      /\ las.next_pt \in 0 .. MaxLive /\ turns \in [Addresses -> Turns] /\ las \in Las
      /\ overrun \in BOOLEAN /\ k \in 1 .. n
      /\ \A i, j \in DOMAIN las.live : las.live[i] = las.live[j] => i = j
  BY <1>1, LasTyped DEF LasInv, LiveInv
<1>3. /\ live \in Seq(Addresses) /\ DOMAIN live = 1 .. n - 1
      /\ \A i \in 1 .. n - 1 : live[i] = las.live[was(i)]
  BY <1>2, RemovedIs
<1>4. Len(live) = n - 1
  <2> HIDE DEF live, n
  <2> QED BY <1>2, <1>3, LenProperties
<1>5. \A i \in 1 .. n - 1 : was(i) \in 1 .. n /\ was(i) # k /\ was(i) - 1 \in i - 1 .. i
  BY <1>2
<1>6. \A i \in 1 .. n : las.live[i] \in Addresses /\ las.live[i] \in ToSet(las.live)
  BY <1>2, ElementOfSeq DEF ToSet
<1>7. las' = [las EXCEPT !.live = live]
  BY <1>1
<1> HIDE DEF live, n
<1>8. las' \in Las /\ las'.live = live /\ las'.next_pt = las.next_pt
  BY <1>2, <1>3, <1>7 DEF Las
<1>9. NoTurns \in Turns
  BY DEF NoTurns, Turns
<1>10. turns' \in [Addresses -> Turns]
  <2>1. \A t \in Turns : [t EXCEPT !.removals = t.removals + 1] \in Turns
    BY DEF Turns
  <2> QED BY <1>1, <1>2, <1>9, <2>1
<1>11. LiveInv'
  <2>1. ASSUME NEW i \in 1 .. n - 1, NEW j \in 1 .. n - 1, live[i] = live[j] PROVE i = j
    <3>1. was(i) = was(j)
      <4> HIDE DEF was
      <4> QED BY <1>2, <1>3, <1>5, <2>1
    <3> QED BY <1>2, <3>1
  <2>2. n - 1 <= MaxLive
    BY <1>2, LinkNumbers
  <2> QED BY <1>2, <1>3, <1>4, <1>8, <1>10, <2>1, <2>2 DEF LiveInv
<1>12. ASSUME NEW p \in 1 .. n - 1
       PROVE  Due(turns'[live[p]], p - 1, las.next_pt, n - 1)
  <2> DEFINE a == live[p]
             t == turns[a]
             u == turns'[a]
  <2>1. a = las.live[was(p)] /\ a \in Addresses /\ a \in ToSet(las.live) \ {las.live[k]}
    <3> HIDE DEF was
    <3> QED BY <1>2, <1>3, <1>5, <1>6
  <2>2. t \in Turns /\ Due(t, was(p) - 1, las.next_pt, n)
    <3> HIDE DEF was
    <3> QED BY <1>2, <1>5, <2>1 DEF LasInv, FairInv, n
  <2> HIDE DEF a
  <2>3. u = [t EXCEPT !.removals = t.removals + 1]
    BY <1>1, <2>1
  <2> HIDE DEF t, u
  <2>4. u.others = t.others /\ u.removals = t.removals + 1
    BY <2>2, <2>3 DEF Turns
  <2>5. t.others \in Nat /\ Rounds(t.removals) \in Nat /\ Rounds(u.removals) = Rounds(t.removals) + (MaxLive - 1)
    BY <2>2, <2>4, RoundsAre DEF Turns
  <2>6. t.others <= Rounds(u.removals)
    <3>0. n >= 1 /\ was(p) - 1 \in 0 .. n - 1
      BY <1>2
    <3>1. CASE las.next_pt < n
      <4>1. t.others + Places(was(p) - 1, las.next_pt, n) <= n - 1 + Rounds(t.removals)
        BY <2>2, <3>1 DEF Due
      <4>2. Places(was(p) - 1, las.next_pt, n) \in Nat
        <5> HIDE DEF was
        <5> QED BY <1>2, <3>0, <3>1 DEF Places
      <4> HIDE DEF was
      <4> QED BY <1>2, <2>5, <4>1, <4>2, LinkNumbers
    <3>2. CASE ~(las.next_pt < n)
      BY <2>2, <2>5, <3>2, LinkNumbers DEF Due
    <3> QED BY <3>1, <3>2
  <2>7. las.next_pt < n - 1 => Places(p - 1, las.next_pt, n - 1) \in 0 .. n - 2
    BY <1>2 DEF Places
  <2>8. Rounds(u.removals) \in Nat
    BY <2>5, LinkNumbers
  <2>9. Due(u, p - 1, las.next_pt, n - 1)
    <3> HIDE DEF Places, was
    <3>1. CASE las.next_pt < n - 1
      <4>1. u.others + Places(p - 1, las.next_pt, n - 1) <= n - 1 - 1 + Rounds(u.removals)
        BY <1>2, <2>4, <2>5, <2>6, <2>7, <2>8, <3>1
      <4> QED BY <3>1, <4>1 DEF Due
    <3>2. CASE ~(las.next_pt < n - 1)
      BY <2>4, <2>6, <3>2 DEF Due
    <3> QED BY <3>1, <3>2
  <2> QED BY <2>9 DEF u, a
<1>13. FairInv'
  BY <1>3, <1>4, <1>8, <1>12 DEF FairInv
<1> QED BY <1>1, <1>2, <1>8, <1>11, <1>13 DEF LasInv

(* A cycle, by the phases it consists of. *)
CyclePhases(cd, remaining, tokens, pt) ==
  /\ cd = CdPhase(las)
  /\ remaining = Wrap(las.time + Macrocycle - cd.last + TimeRange)
  /\ tokens = Tokens(remaining, Len(las.live))
  /\ pt = PtPhase(las.live, las.next_pt, tokens)
  /\ las' = [las EXCEPT !.start = las.time, !.time = Wrap(cd.time + tokens * TokenTime),
                        !.next_pt = pt.index,
                        !.idle = Wrap(las.idle + remaining - tokens * TokenTime + TimeRange),
                        !.cd_overruns = las.cd_overruns + cd.skipped, !.cycles = las.cycles + 1]
  /\ turns' = TurnsAfter(pt.devices)
  /\ overrun' = (cd.skipped > 0)

LEMMA CycleIs ==
  ASSUME LasInv, las_run_macrocycle
  PROVE  \E cd \in CdState, remaining \in 0 .. TimeRange - 1, tokens \in 0 .. Len(las.live),
            pt \in PtState :
           /\ CyclePhases(cd, remaining, tokens, pt) /\ Fair(pt)
           /\ Fits(las.schedule) => Inside(cd, las.time)
           /\ tokens * TokenTime \in 0 .. remaining
           /\ las.cycles + 1 \in 0 .. MaxCycles
<1> DEFINE cd        == CdPhase(las)
           remaining == Wrap(las.time + Macrocycle - cd.last + TimeRange)
           tokens    == Tokens(remaining, Len(las.live))
           pt        == PtPhase(las.live, las.next_pt, tokens)
<1>1. las.time \in 0 .. TimeRange - 1 /\ las.schedule \in Seq(CdEntry) /\ Len(las.live) \in Nat
  BY LasTyped DEF LasInv
<1>2. cd \in CdState /\ (Fits(las.schedule) => Inside(cd, las.time))
  BY <1>1, CdPhaseIs
<1>3. remaining \in 0 .. TimeRange - 1 /\ remaining \in Nat
  <2>1. las.time + Macrocycle - cd.last + TimeRange \in Int
    <3>1. cd.last \in Int
      BY <1>2, LinkNumbers DEF CdState
    <3> HIDE DEF cd
    <3> QED BY <1>1, <3>1, LinkNumbers
  <2>2. remaining \in 0 .. TimeRange - 1
    BY <2>1, WrapIs
  <2> HIDE DEF remaining
  <2> QED BY <2>2, LinkNumbers
<1>4. tokens \in 0 .. Len(las.live) /\ tokens * TokenTime <= remaining
  <2> HIDE DEF remaining
  <2> QED BY <1>1, <1>3, TokensAre
<1>5. pt \in PtState /\ Fair(pt)
  <2> HIDE DEF tokens
  <2> QED BY <1>4, PtPhaseIs DEF LasInv
<1>6. CyclePhases(cd, remaining, tokens, pt) /\ las.cycles < MaxCycles
  BY DEF las_run_macrocycle, CyclePhases
<1> HIDE DEF cd, remaining, tokens, pt
<1>7. las.cycles + 1 \in 0 .. MaxCycles
  BY <1>6, LasTyped, LinkNumbers DEF LasInv
<1>8. tokens * TokenTime \in 0 .. remaining
  BY <1>1, <1>3, <1>4 DEF TokenTime
<1> QED BY <1>2, <1>3, <1>4, <1>5, <1>6, <1>7, <1>8

LEMMA CycleStep ==
  ASSUME LasInv, las_run_macrocycle
  PROVE  LasInv'
<1>1. PICK cd \in CdState, remaining \in 0 .. TimeRange - 1, tokens \in 0 .. Len(las.live),
            pt \in PtState :
        /\ CyclePhases(cd, remaining, tokens, pt) /\ Fair(pt)
        /\ tokens * TokenTime \in 0 .. remaining
        /\ las.cycles + 1 \in 0 .. MaxCycles
  BY CycleIs
<1> DEFINE used == tokens * TokenTime
           time == Wrap(cd.time + used)
           idle == Wrap(las.idle + remaining - used + TimeRange)
           over == las.cd_overruns + cd.skipped
           cycles == las.cycles + 1
<1>2. /\ las.time \in 0 .. TimeRange - 1 /\ las.idle \in 0 .. TimeRange - 1 /\ las.cd_overruns \in Nat
      /\ las \in Las /\ cd.time \in 0 .. TimeRange - 1 /\ cd.skipped \in Nat
      /\ pt.index \in 0 .. MaxLive /\ pt.devices \in Seq(Addresses)
  BY LasTyped DEF LasInv, CdState, PtState
<1>3. las' = [las EXCEPT !.start = las.time, !.time = time, !.next_pt = pt.index, !.idle = idle,
                         !.cd_overruns = over, !.cycles = cycles]
  BY <1>1 DEF CyclePhases
<1>4. used \in 0 .. remaining
  BY <1>1
<1> HIDE DEF used
<1>5. time \in 0 .. TimeRange - 1 /\ idle \in 0 .. TimeRange - 1 /\ over \in Nat
      /\ cycles \in 0 .. MaxCycles
  <2>1. cd.time + used \in Int /\ las.idle + remaining - used + TimeRange \in Int
    BY <1>2, <1>4, LinkNumbers
  <2>2. time \in 0 .. TimeRange - 1
    BY <2>1, WrapIs
  <2>3. idle \in 0 .. TimeRange - 1
    BY <2>1, WrapIs
  <2>4. over \in Nat
    BY <1>2
  <2> QED BY <1>1, <2>2, <2>3, <2>4
<1> HIDE DEF time, idle, over, cycles
<1>6. las' \in Las /\ las'.live = las.live /\ las'.next_pt = pt.index
  BY <1>2, <1>3, <1>5 DEF Las
<1>7. turns' = TurnsAfter(pt.devices) /\ overrun' \in BOOLEAN
  <2>1. (cd.skipped > 0) \in BOOLEAN
    OBVIOUS
  <2> QED BY <1>1, <2>1 DEF CyclePhases
<1>8. \A a \in Addresses :
        turns'[a] = IF a \notin ToSet(las.live) THEN turns[a] ELSE Passed(pt.devices, a)
  BY <1>7 DEF TurnsAfter, Passed
<1>9. turns' \in [Addresses -> Turns]
  <2>0. turns \in [Addresses -> Turns]
    BY DEF LasInv, LiveInv
  <2>1. ASSUME NEW a \in Addresses PROVE turns'[a] \in Turns
    <3>1. Passed(pt.devices, a) \in Turns
      BY <1>2, <2>0, PassedTyped
    <3> QED BY <1>8, <2>0, <3>1
  <2>2. \E f : turns' = [a \in Addresses |-> f[a]]
    <3>1. turns' = [a \in Addresses |-> TurnsAfter(pt.devices)[a]]
      BY <1>7 DEF TurnsAfter
    <3> QED BY <3>1
  <2> QED BY <2>1, <2>2
<1>10. LiveInv'
  BY <1>2, <1>6, <1>9 DEF LasInv, LiveInv
<1>11. FairInv'
  <2>1. ASSUME NEW p \in DOMAIN las.live
        PROVE  Due(turns'[las.live[p]], p - 1, pt.index, Len(las.live))
    <3>1. las.live[p] \in Addresses /\ las.live[p] \in ToSet(las.live)
      BY ElementOfSeq, LenProperties DEF LasInv, LiveInv, ToSet
    <3>2. turns'[las.live[p]] = Passed(pt.devices, las.live[p])
      BY <1>8, <3>1
    <3> QED BY <1>1, <3>2 DEF Fair
  <2> QED BY <1>6, <2>1 DEF FairInv
<1> QED BY <1>6, <1>7, <1>10, <1>11 DEF LasInv

LEMMA LasKept ==
  ASSUME LasInv, LasNext
  PROVE  LasInv'
BY QuietStep, Added, Removed, CycleStep DEF LasNext

(* The wait of a device follows from its place. *)
LEMMA FairnessFollows ==
  ASSUME LasInv
  PROVE  TokenIsFair
<1> DEFINE n == Len(las.live)
<1>1. ASSUME NEW a \in ToSet(las.live)
      PROVE  turns[a].others <= (MaxLive - 1) * (1 + turns[a].removals)
  <2>1. PICK p \in DOMAIN las.live : a = las.live[p]
    BY DEF ToSet
  <2>2. n \in Nat /\ DOMAIN las.live = 1 .. n /\ n <= MaxLive /\ las.next_pt \in 0 .. MaxLive
        /\ turns \in [Addresses -> Turns] /\ a \in Addresses
    BY <2>1, LasTyped, ElementOfSeq DEF LasInv, LiveInv
  <2>3. Due(turns[a], p - 1, las.next_pt, n)
    BY <2>1 DEF LasInv, FairInv
  <2> DEFINE t == turns[a]
  <2>4. t \in Turns /\ t.others \in Nat /\ t.removals \in Nat
    BY <2>2 DEF Turns
  <2> HIDE DEF n, t
  <2>5. Rounds(t.removals) \in Nat /\ Rounds(t.removals + 1) = Rounds(t.removals) + (MaxLive - 1)
    BY <2>4, RoundsAre
  <2>6. t.others <= Rounds(t.removals + 1)
    <3>1. CASE las.next_pt < n
      <4>1. Places(p - 1, las.next_pt, n) \in Nat
        BY <2>1, <2>2, <3>1 DEF Places
      <4>2. t.others + Places(p - 1, las.next_pt, n) <= n - 1 + Rounds(t.removals)
        BY <2>3, <3>1 DEF Due, t
      <4> QED BY <2>2, <2>4, <2>5, <4>1, <4>2, LinkNumbers
    <3>2. CASE ~(las.next_pt < n)
      <4>1. t.others <= Rounds(t.removals)
        BY <2>3, <3>2 DEF Due, t
      <4> QED BY <2>4, <2>5, <4>1, LinkNumbers
    <3> QED BY <3>1, <3>2
  <2>7. Rounds(t.removals + 1) = (MaxLive - 1) * (1 + t.removals)
    <3>1. t.removals + 1 = 1 + t.removals
      BY <2>4
    <3> QED BY <3>1 DEF Rounds
  <2> QED BY <2>6, <2>7 DEF t
<1> QED BY <1>1 DEF TokenIsFair

-----------------------------------------------------------------------------
(* The agents: every address was given to one device, and an agent has one *)
(* that was given to it. *)

AgentInv ==
  /\ agents \in [H1Devices -> Agent] /\ bus \subseteq H1Devices \X Addresses
  /\ \A m, n \in bus : m[2] = n[2] => m[1] = n[1]
  /\ \A d \in H1Devices :
       agents[d].permanent = Unassigned \/ <<d, agents[d].permanent>> \in bus

ClockInv == clocks \in [H1Devices -> [time : 0 .. TimeRange - 1, flags : 0 .. SyncRange - 1]]

LEMMA AgentsStart ==
  ASSUME H1LinkInit
  PROVE  AgentInv /\ ClockInv
<1>1. sm_init \in Agent /\ sm_init.permanent = Unassigned
  BY DEF sm_init, Agent, SmStates
<1>2. agents = [d \in H1Devices |-> sm_init] /\ bus = {}
      /\ clocks = [d \in H1Devices |-> [time |-> 0, flags |-> 0]]
  BY DEF H1LinkInit
<1>3. AgentInv
  <2> HIDE DEF sm_init
  <2>1. agents \in [H1Devices -> Agent]
    BY <1>1, <1>2
  <2>2. \A d \in H1Devices : agents[d].permanent = Unassigned
    BY <1>1, <1>2
  <2> QED BY <1>2, <2>1, <2>2 DEF AgentInv
<1>4. 0 \in 0 .. TimeRange - 1 /\ 0 \in 0 .. SyncRange - 1
  BY LinkNumbers
<1>5. ClockInv
  BY <1>2, <1>4 DEF ClockInv
<1> QED BY <1>3, <1>5

LEMMA AgentsKept ==
  ASSUME AgentInv, AgentNext
  PROVE  AgentInv'
<1>0. /\ agents \in [H1Devices -> Agent] /\ bus \subseteq H1Devices \X Addresses
      /\ \A m, n \in bus : m[2] = n[2] => m[1] = n[1]
      /\ \A d \in H1Devices : agents[d].permanent = Unassigned \/ <<d, agents[d].permanent>> \in bus
  BY DEF AgentInv
<1>1. CASE sm_start_initialization
  <2>1. PICK d \in H1Devices : agents' = [agents EXCEPT ![d].state = "INITIALIZING"] /\ bus' = bus
    BY <1>1 DEF sm_start_initialization
  <2>2. \A r \in Agent : [r EXCEPT !.state = "INITIALIZING"] \in Agent
    BY DEF Agent, SmStates
  <2>3. agents' \in [H1Devices -> Agent]
    BY <1>0, <2>1, <2>2
  <2>4. \A e \in H1Devices : agents'[e].permanent = agents[e].permanent
    BY <1>0, <2>1 DEF Agent
  <2> QED BY <1>0, <2>1, <2>3, <2>4 DEF AgentInv
<1>2. CASE SendSetAddress
  <2>1. PICK d \in H1Devices, a \in Addresses :
          (\A m \in bus : m[2] # a) /\ bus' = bus \union {<<d, a>>} /\ agents' = agents
    BY <1>2 DEF SendSetAddress
  <2>2. \A m, n \in bus' : m[2] = n[2] => m[1] = n[1]
    BY <1>0, <2>1
  <2> QED BY <1>0, <2>1, <2>2 DEF AgentInv
<1>3. CASE sm_process_set_address
  <2>1. PICK d \in H1Devices, m \in bus :
          /\ TakesAddress(agents[d], d, m)
          /\ agents' = [agents EXCEPT ![d].permanent = m[2], ![d].dl_address = m[2],
                                      ![d].state = "OPERATIONAL"]
          /\ bus' = bus
    BY <1>3 DEF sm_process_set_address
  <2>2. m[1] = d /\ m = <<d, m[2]>> /\ m[2] \in Addresses
    BY <1>0, <2>1 DEF TakesAddress
  <2>3. /\ agents' \in [H1Devices -> Agent] /\ agents'[d].permanent = m[2]
        /\ \A e \in H1Devices : e # d => agents'[e] = agents[e]
    <3>1. \A r \in Agent : [r EXCEPT !.permanent = m[2], !.dl_address = m[2], !.state = "OPERATIONAL"] \in Agent
      BY <2>2 DEF Agent, SmStates
    <3>2. agents' = [agents EXCEPT ![d] = [agents[d] EXCEPT !.permanent = m[2], !.dl_address = m[2],
                                                            !.state = "OPERATIONAL"]]
      BY <1>0, <2>1
    <3>3. [agents[d] EXCEPT !.permanent = m[2], !.dl_address = m[2], !.state = "OPERATIONAL"].permanent
            = m[2]
      BY <1>0 DEF Agent
    <3> QED BY <1>0, <3>1, <3>2, <3>3
  <2>4. \A e \in H1Devices : agents'[e].permanent = Unassigned \/ <<e, agents'[e].permanent>> \in bus
    BY <1>0, <2>1, <2>2, <2>3
  <2> QED BY <1>0, <2>1, <2>3, <2>4 DEF AgentInv
<1>4. CASE sm_set_operational
  <2>1. PICK d \in H1Devices, a \in Addresses, t \in H1Tags :
          /\ <<d, a>> \in bus \/ \A m \in bus : m[2] # a
          /\ agents' = [agents EXCEPT ![d] = [state |-> "OPERATIONAL", dl_address |-> a,
                                              permanent |-> a, tag |-> t]]
          /\ bus' = bus \union {<<d, a>>}
    BY <1>4 DEF sm_set_operational
  <2>2. [state |-> "OPERATIONAL", dl_address |-> a, permanent |-> a, tag |-> t] \in Agent
    BY DEF Agent, SmStates
  <2>3. agents' \in [H1Devices -> Agent] /\ agents'[d].permanent = a
        /\ \A e \in H1Devices : e # d => agents'[e] = agents[e]
    BY <1>0, <2>1, <2>2
  <2>4. \A m, n \in bus' : m[2] = n[2] => m[1] = n[1]
    BY <1>0, <2>1
  <2>5. \A e \in H1Devices : agents'[e].permanent = Unassigned \/ <<e, agents'[e].permanent>> \in bus'
    BY <1>0, <2>1, <2>3
  <2> QED BY <1>0, <2>1, <2>3, <2>4, <2>5 DEF AgentInv
<1>5. CASE sm_set_fault
  <2>1. PICK d \in H1Devices : agents' = [agents EXCEPT ![d].state = "FAULT"] /\ bus' = bus
    BY <1>5 DEF sm_set_fault
  <2>2. \A r \in Agent : [r EXCEPT !.state = "FAULT"] \in Agent
    BY DEF Agent, SmStates
  <2>3. agents' \in [H1Devices -> Agent]
    BY <1>0, <2>1, <2>2
  <2>4. \A e \in H1Devices : agents'[e].permanent = agents[e].permanent
    BY <1>0, <2>1 DEF Agent
  <2> QED BY <1>0, <2>1, <2>3, <2>4 DEF AgentInv
<1> QED BY <1>1, <1>2, <1>3, <1>4, <1>5 DEF AgentNext

LEMMA UniquenessFollows ==
  ASSUME AgentInv
  PROVE  AddressesAreUnique
<1>1. ASSUME NEW d \in H1Devices, NEW e \in H1Devices, d # e,
             sm_has_permanent_address(agents[d]), agents[d].permanent = agents[e].permanent
      PROVE  FALSE
  <2>1. agents[d].permanent # Unassigned
    BY <1>1 DEF sm_has_permanent_address, IsPermanent, PermanentMin, PermanentMax, Unassigned
  <2>2. <<d, agents[d].permanent>> \in bus /\ <<e, agents[d].permanent>> \in bus
    BY <1>1, <2>1 DEF AgentInv
  <2> QED BY <1>1, <2>2 DEF AgentInv
<1> QED BY <1>1 DEF AddressesAreUnique

LEMMA ClocksKept ==
  ASSUME ClockInv, sm_process_td
  PROVE  ClockInv'
<1>1. PICK d \in H1Devices, seconds \in LasTimes, delay \in 0 .. 1 :
        clocks' = [clocks EXCEPT ![d] = [time |-> Wrap(seconds * 1000 + delay),
                                         flags |-> (clocks[d].flags + 1) % SyncRange]]
  BY DEF sm_process_td
<1>2. Wrap(seconds * 1000 + delay) \in 0 .. TimeRange - 1
  <2>1. seconds * 1000 + delay \in Int
    BY LinkNumbers
  <2> QED BY <2>1, WrapIs
<1>3. (clocks[d].flags + 1) % SyncRange \in 0 .. SyncRange - 1
  BY LinkNumbers DEF ClockInv
<1> DEFINE time == Wrap(seconds * 1000 + delay)
           flags == (clocks[d].flags + 1) % SyncRange
<1> HIDE DEF time, flags
<1>4. clocks' = [clocks EXCEPT ![d] = [time |-> time, flags |-> flags]]
  BY <1>1 DEF time, flags
<1> QED BY <1>2, <1>3, <1>4 DEF ClockInv, time, flags

-----------------------------------------------------------------------------
(* Blocks and segments. *)

BlockInv ==
  /\ h1Block \in [target : BlockModes, actual : BlockModes, permitted : PermittedModes,
                  executing : BOOLEAN, err : SUBSET {"OOS", "DEVICE_FAULT"}, resource_good : BOOLEAN,
                  params : [DOMAIN BlockParams -> Values]]
  /\ h1Block.actual \in h1Block.permitted \union {"OOS"}

SegInv == h1Seg \in Seq([current : Currents, spur : Spurs, cable : Cables])

LEMMA FirstIsPermitted ==
  ASSUME NEW modes, NEW permitted, DOMAIN modes \subseteq Nat
  PROVE  FirstPermitted(modes, permitted) \in permitted \union {"OOS"}
<1> DEFINE fits == {i \in DOMAIN modes : modes[i] \in permitted}
<1>1. CASE fits = {}
  BY <1>1 DEF FirstPermitted
<1>2. CASE fits # {}
  <2>1. fits \subseteq Nat
    OBVIOUS
  <2>2. Min(fits) \in fits
    <3> HIDE DEF fits
    <3> QED BY <1>2, <2>1, MinOfNats
  <2> QED BY <1>2, <2>2 DEF FirstPermitted
<1> QED BY <1>1, <1>2

LEMMA ActualIsPermitted ==
  ASSUME NEW target, NEW permitted, NEW cascade_ready, NEW fault
  PROVE  mode_determine_actual(target, permitted, cascade_ready, fault) \in permitted \union {"OOS"}
<1>1. DOMAIN <<"LO">> \subseteq Nat /\ DOMAIN <<"MAN">> \subseteq Nat
      /\ DOMAIN <<"AUTO", "MAN">> \subseteq Nat
  OBVIOUS
<1>2. FirstPermitted(<<"LO">>, permitted) \in permitted \union {"OOS"}
  BY <1>1, FirstIsPermitted
<1>3. FirstPermitted(<<"MAN">>, permitted) \in permitted \union {"OOS"}
  BY <1>1, FirstIsPermitted
<1>4. FirstPermitted(<<"AUTO", "MAN">>, permitted) \in permitted \union {"OOS"}
  BY <1>1, FirstIsPermitted
<1> QED BY Zenon, <1>2, <1>3, <1>4 DEF mode_determine_actual

LEMMA BlockStarts ==
  ASSUME H1DeviceInit
  PROVE  BlockInv /\ SegInv
<1>1. (CHOOSE v \in Values : TRUE) \in Values
  BY Zenon, H1DeviceAssumption
<1> DEFINE first == CHOOSE v \in Values : TRUE
<1> HIDE DEF first
<1>2. h1Block \in [target : {"OOS"}, actual : {"OOS"}, permitted : PermittedModes, executing : {FALSE},
                   err : {{}}, resource_good : {TRUE}, params : {[p \in DOMAIN BlockParams |-> first]}]
  BY DEF H1DeviceInit, first
<1>3. h1Block.params = [p \in DOMAIN BlockParams |-> first]
  BY <1>2
<1>4. h1Block.params \in [DOMAIN BlockParams -> Values]
  BY <1>1, <1>3 DEF first
<1>5. BlockInv
  BY <1>2, <1>4 DEF BlockInv, BlockModes
<1> QED BY <1>5 DEF H1DeviceInit, SegInv

LEMMA BlockKept ==
  ASSUME BlockInv, H1BlockNext
  PROVE  BlockInv'
<1>1. CASE TargetSet
  <2>1. PICK target \in BlockModes, cascade_ready, fault \in BOOLEAN :
          h1Block' = [h1Block EXCEPT !.target = target,
                        !.actual = mode_determine_actual(target, h1Block.permitted, cascade_ready, fault)]
    BY <1>1 DEF TargetSet
  <2> DEFINE actual == mode_determine_actual(target, h1Block.permitted, cascade_ready, fault)
  <2>2. actual \in h1Block.permitted \union {"OOS"}
    BY ActualIsPermitted
  <2> HIDE DEF actual
  <2>3. h1Block.permitted \subseteq BlockModes /\ actual \in BlockModes
    BY <2>2, H1DeviceAssumption DEF BlockInv, BlockModes
  <2>4. h1Block' = [h1Block EXCEPT !.target = target, !.actual = actual]
    BY <2>1 DEF actual
  <2> QED BY <2>2, <2>3, <2>4 DEF BlockInv
<1>2. CASE ResourceReports
  BY <1>2 DEF ResourceReports, BlockInv
<1>3. CASE fb_execute
  <2> DEFINE oos == h1Block.actual = "OOS"
             bad == ~oos /\ ~h1Block.resource_good
             executing == ~oos /\ ~bad
             err == (IF oos THEN h1Block.err \union {"OOS"} ELSE h1Block.err \ {"OOS"})
                    \union (IF bad THEN {"DEVICE_FAULT"} ELSE {})
  <2>1. executing \in BOOLEAN
    OBVIOUS
  <2>2. err \in SUBSET {"OOS", "DEVICE_FAULT"}
    <3>1. h1Block.err \subseteq {"OOS", "DEVICE_FAULT"}
      BY DEF BlockInv
    <3> HIDE DEF oos, bad
    <3> QED BY <3>1
  <2>3. h1Block' = [h1Block EXCEPT !.executing = executing, !.err = err]
    BY <1>3 DEF fb_execute
  <2> HIDE DEF executing, err
  <2> QED BY <2>1, <2>2, <2>3 DEF BlockInv
<1>4. CASE fms_write_parameter
  <2>1. PICK index \in DOMAIN Dictionary \union {"UNKNOWN"}, v \in Values :
          h1Block' = [h1Block EXCEPT !.params[index] = v]
    BY <1>4 DEF fms_write_parameter
  <2>2. h1Block' = [h1Block EXCEPT !.params = [h1Block.params EXCEPT ![index] = v]]
    BY <2>1
  <2>3. [h1Block.params EXCEPT ![index] = v] \in [DOMAIN BlockParams -> Values]
    BY DEF BlockInv
  <2> QED BY <2>2, <2>3 DEF BlockInv
<1> QED BY <1>1, <1>2, <1>3, <1>4 DEF H1BlockNext

LEMMA SegKept ==
  ASSUME SegInv, AddH1Device
  PROVE  SegInv'
BY AppendProperties DEF SegInv, AddH1Device

-----------------------------------------------------------------------------
(* The wire: what was encoded is decoded, and a check that was appended is *)
(* verified. *)

Bits == {0, 1}

Shifted(was, bit) ==
  LET out == was[1] # bit
      up  == Append(Tail(was), 0)
  IN [i \in 1 .. 16 |-> IF out /\ i \in {4, 11, 16} THEN 1 - up[i] ELSE up[i]]

LEMMA ShiftedIs ==
  ASSUME NEW was \in [1 .. 16 -> Bits], NEW bit \in Bits
  PROVE  Shifted(was, bit) \in [1 .. 16 -> Bits]
<1> DEFINE up == Append(Tail(was), 0)
<1>1. was \in Seq(Bits) /\ Len(was) = 16 /\ was # << >>
  <2>1. was \in Seq(Bits)
    BY 16 \in Nat, SeqDef
  <2>2. 1 .. Len(was) = 1 .. 16 /\ Len(was) \in Nat
    BY <2>1, LenProperties
  <2>3. Len(was) = 16
    BY <2>2
  <2>4. was = << >> => Len(was) = 0
    OBVIOUS
  <2> QED BY <2>1, <2>3, <2>4
<1>2. Tail(was) \in Seq(Bits) /\ Len(Tail(was)) = 15
  BY <1>1, HeadTailProperties
<1>3. 0 \in Bits
  BY DEF Bits
<1>4. up \in Seq(Bits) /\ Len(up) = 16
  BY <1>2, <1>3, AppendProperties
<1>5. \A i \in 1 .. 16 : up[i] \in Bits
  <2> HIDE DEF up
  <2> QED BY <1>4, ElementOfSeq
<1>6. \A i \in 1 .. 16 : 1 - up[i] \in Bits
  <2> HIDE DEF up
  <2> QED BY <1>5 DEF Bits
<1>7. Shifted(was, bit) = [i \in 1 .. 16 |-> IF was[1] # bit /\ i \in {4, 11, 16} THEN 1 - up[i] ELSE up[i]]
  BY DEF Shifted
<1> HIDE DEF up
<1> QED BY <1>5, <1>6, <1>7

LEMMA CrcIs ==
  ASSUME NEW bits \in Seq(Bits)
  PROVE  ff_crc16_ccitt(bits) \in [1 .. 16 -> Bits]
<1> DEFINE n == Len(bits)
           S == [1 .. 16 -> Bits]
           start == [i \in 1 .. 16 |-> 1]
           crc == CHOOSE f : f = [k \in 0 .. n |-> IF k = 0 THEN start ELSE Shifted(f[k - 1], bits[k])]
           F == [k \in 1 .. n |-> [was \in S |-> Shifted(was, bits[k])]]
<1>1. n \in Nat /\ \A k \in 1 .. n : bits[k] \in Bits
  BY LenProperties, ElementOfSeq
<1>2. ff_crc16_ccitt(bits) = crc[n]
  BY Zenon DEF ff_crc16_ccitt, Shifted
<1>3. start \in S
  BY DEF Bits
<1> HIDE DEF n, start
<1>4. F \in [1 .. n -> [S -> S]]
  BY <1>1, ShiftedIs
<1> HIDE DEF F, S
<1>5. PICK g \in Courses(n, S, start, F) : TRUE
  BY <1>1, <1>3, <1>4, Iteration
<1>6. g \in [0 .. n -> S] /\ g[0] = start /\ \A k \in 1 .. n : g[k] = Shifted(g[k - 1], bits[k])
  <2>1. ASSUME NEW k \in 1 .. n PROVE g[k] = Shifted(g[k - 1], bits[k])
    <3>1. k - 1 \in 0 .. n
      BY <1>1
    <3>2. g[k] = F[k][g[k - 1]] /\ g[k - 1] \in S
      BY <1>5, <3>1 DEF Courses
    <3> QED BY <3>2 DEF F
  <2> QED BY <1>5, <2>1 DEF Courses
<1>7. crc = [k \in 0 .. n |-> IF k = 0 THEN start ELSE Shifted(crc[k - 1], bits[k])]
  <2>1. g = [k \in 0 .. n |-> IF k = 0 THEN start ELSE Shifted(g[k - 1], bits[k])]
    BY <1>1, <1>6
  <2> QED BY <2>1, Zenon
<1> HIDE DEF crc
<1>8. crc[n] \in S
  <2> DEFINE T == {k \in 0 .. n : crc[k] = g[k]}
  <2>1. 0 \in T
    BY <1>1, <1>6, <1>7
  <2>2. ASSUME NEW k \in 0 .. n - 1, k \in T PROVE k + 1 \in T
    <3>1. k + 1 \in 0 .. n /\ k + 1 \in 1 .. n /\ k + 1 # 0 /\ (k + 1) - 1 = k
      BY <1>1
    <3>2. crc[k + 1] = Shifted(crc[k], bits[k + 1])
      BY <1>7, <3>1
    <3>3. g[k + 1] = Shifted(g[k], bits[k + 1])
      BY <1>6, <3>1
    <3> QED BY <2>2, <3>1, <3>2, <3>3
  <2>3. 0 .. n \subseteq T
    <3> HIDE DEF T
    <3> QED BY <1>1, <2>1, <2>2, SetInduction
  <2>4. n \in 0 .. n
    BY <1>1
  <2> QED BY <1>6, <2>3, <2>4
<1> QED BY <1>2, <1>8 DEF S

(* The frame that SendFrame sends passes the check, and says its data. *)
LEMMA AppendedIs ==
  ASSUME NEW bits \in Seq(Bits)
  PROVE  /\ crc16_append(bits) \in Seq(Bits)
         /\ crc16_verify(crc16_append(bits)) /\ Says(crc16_append(bits)) = bits
<1> DEFINE crc == ff_crc16_ccitt(bits)
           low == SubSeq(crc, 9, 16)
           high == SubSeq(crc, 1, 8)
           frame == bits \o (low \o high)
           n == Len(bits)
<1>1. crc \in [1 .. 16 -> Bits]
  BY CrcIs
<1> HIDE DEF crc
<1>2. low \in Seq(Bits) /\ Len(low) = 8
  <2>1. \A i \in 9 .. 16 : crc[i] \in Bits
    BY <1>1
  <2> QED BY <2>1, SubSeqProperties
<1>3. high \in Seq(Bits) /\ Len(high) = 8
  <2>1. \A i \in 1 .. 8 : crc[i] \in Bits
    BY <1>1
  <2> QED BY <2>1, SubSeqProperties
<1> HIDE DEF low, high
<1>4. low \o high \in Seq(Bits) /\ Len(low \o high) = 16
  <2>1. low \o high \in Seq(Bits)
    BY <1>2, <1>3, ConcatProperties
  <2>2. Len(low \o high) = Len(low) + Len(high)
    BY <1>2, <1>3, ConcatProperties
  <2> QED BY <1>2, <1>3, <2>1, <2>2
<1>5. n \in Nat /\ DOMAIN bits = 1 .. n /\ \A i \in 1 .. n : bits[i] \in Bits
  BY LenProperties, ElementOfSeq
<1>6. /\ frame \in Seq(Bits) /\ Len(frame) = n + 16
      /\ \A i \in 1 .. n : frame[i] = bits[i]
  <2> DEFINE check == low \o high
  <2>1. check \in Seq(Bits) /\ Len(check) = 16
    BY <1>4
  <2> HIDE DEF check
  <2>2. /\ bits \o check \in Seq(Bits) /\ Len(bits \o check) = n + 16
        /\ \A i \in 1 .. n + 16 : (bits \o check)[i] = IF i <= n THEN bits[i] ELSE check[i - n]
    <3>1. bits \o check \in Seq(Bits) /\ Len(bits \o check) = n + Len(check)
      BY <2>1, ConcatProperties
    <3>2. \A i \in 1 .. n + Len(check) :
            (bits \o check)[i] = IF i <= n THEN bits[i] ELSE check[i - n]
      BY <2>1, ConcatProperties
    <3> HIDE DEF n
    <3> QED BY <2>1, <3>1, <3>2
  <2> HIDE DEF n
  <2>3. \A i \in 1 .. n : i \in 1 .. n + 16 /\ i <= n
    BY <1>5
  <2> QED BY <2>2, <2>3 DEF check
<1>7. frame = crc16_append(bits)
  BY DEF crc16_append, LowFirst, crc, low, high
<1> HIDE DEF frame, n
<1>8. Len(frame) - 16 = n /\ Len(frame) >= 16
  BY <1>5, <1>6
<1>9. SubSeq(frame, 1, n) = bits
  <2>1. \A i \in 1 .. n : frame[i] \in Bits
    BY <1>5, <1>6
  <2>2. /\ SubSeq(frame, 1, n) \in Seq(Bits)
        /\ Len(SubSeq(frame, 1, n)) = n
        /\ \A i \in 1 .. n : SubSeq(frame, 1, n)[i] = frame[i]
    BY <1>5, <2>1, SubSeqProperties
  <2> QED BY <1>5, <1>6, <2>2, SeqEqual DEF n
<1>10. Says(frame) = bits
  BY <1>8, <1>9 DEF Says
<1>11. crc16_verify(frame)
  BY <1>7, <1>8, <1>9 DEF crc16_verify
<1> QED BY <1>6, <1>7, <1>10, <1>11

LEMMA ManchesterInverse ==
  ASSUME NEW bits \in Seq(Bits)
  PROVE  /\ manchester_encode(bits) \in Seq(Bits)
         /\ manchester_decode(manchester_encode(bits)) = bits
<1> DEFINE n == Len(bits)
           half == manchester_encode(bits)
           back == manchester_decode(half)
<1>1. n \in Nat /\ DOMAIN bits = 1 .. n /\ \A i \in 1 .. n : bits[i] \in Bits
  BY LenProperties, ElementOfSeq
<1>2. half = [i \in 1 .. 2 * n |-> IF i % 2 = 1 THEN bits[(i + 1) \div 2] ELSE 1 - bits[i \div 2]]
  BY DEF manchester_encode
<1> HIDE DEF n, half
<1>3. \A b \in Bits : 1 - b \in Bits
  BY DEF Bits
<1>4. half \in [1 .. 2 * n -> Bits]
  <2>1. \A i \in 1 .. 2 * n : /\ i % 2 = 1 => (i + 1) \div 2 \in 1 .. n
                              /\ i % 2 # 1 => i \div 2 \in 1 .. n
    BY <1>1
  <2> QED BY <1>1, <1>2, <1>3, <2>1
<1>5. half \in Seq(Bits) /\ Len(half) = 2 * n
  <2>1. 2 * n \in Nat
    BY <1>1
  <2> QED BY <1>4, <2>1, LenProperties
<1>6. \A i \in 1 .. n : half[2 * i - 1] = bits[i] /\ half[2 * i] = 1 - bits[i]
  <2>1. \A i \in 1 .. n : /\ 2 * i - 1 \in 1 .. 2 * n /\ (2 * i - 1) % 2 = 1 /\ (2 * i - 1 + 1) \div 2 = i
                          /\ 2 * i \in 1 .. 2 * n /\ (2 * i) % 2 # 1 /\ (2 * i) \div 2 = i
    BY <1>1
  <2> QED BY <1>2, <2>1
<1>7. back = [i \in 1 .. n |-> IF half[2 * i - 1] = 1 /\ half[2 * i] = 0 THEN 1 ELSE 0]
  <2>1. Len(half) \div 2 = n
    BY <1>1, <1>5
  <2> QED BY <2>1 DEF manchester_decode
<1>8. \A i \in 1 .. n : (IF half[2 * i - 1] = 1 /\ half[2 * i] = 0 THEN 1 ELSE 0) = bits[i]
  BY <1>1, <1>6 DEF Bits
<1>9. back = [i \in 1 .. n |-> bits[i]]
  BY <1>7, <1>8
<1>10. bits = [i \in 1 .. n |-> bits[i]]
  BY <1>1
<1> QED BY <1>5, <1>9, <1>10 DEF back, half

LineInv ==
  /\ h1Line \in [sent : Messages \union {<< >>}, half : Seq(Bits), hit : 0 .. MaxDamage]
  /\ h1Line.sent # << >> /\ h1Line.hit = 0 => h1Line.half = manchester_encode(crc16_append(h1Line.sent))

LEMMA LineStarts ==
  ASSUME H1DeviceInit
  PROVE  LineInv
<1>1. 0 \in 0 .. MaxDamage
  BY H1DeviceAssumption
<1>2. << >> \in Seq(Bits)
  OBVIOUS
<1>3. h1Line = [sent |-> << >>, half |-> << >>, hit |-> 0]
  BY DEF H1DeviceInit
<1> QED BY <1>1, <1>2, <1>3 DEF LineInv

LEMMA LineKept ==
  ASSUME LineInv, H1LineNext
  PROVE  LineInv'
<1>1. CASE SendFrame
  <2>1. PICK m \in Messages :
          h1Line' = [sent |-> m, half |-> manchester_encode(crc16_append(m)), hit |-> 0]
    BY <1>1 DEF SendFrame
  <2>2. m \in Seq(Bits) /\ 0 \in 0 .. MaxDamage
    BY H1DeviceAssumption DEF Bits
  <2> DEFINE half == manchester_encode(crc16_append(m))
  <2>3. half \in Seq(Bits)
    BY <2>2, AppendedIs, ManchesterInverse
  <2>4. half = manchester_encode(crc16_append(m))
    OBVIOUS
  <2> HIDE DEF half
  <2>5. h1Line' = [sent |-> m, half |-> half, hit |-> 0]
    BY <2>1, <2>4
  <2> QED BY <2>2, <2>3, <2>4, <2>5 DEF LineInv
<1>2. CASE Noise
  <2>1. PICK i \in DOMAIN h1Line.half :
          h1Line' = [h1Line EXCEPT !.half[i] = 1 - h1Line.half[i], !.hit = h1Line.hit + 1]
    BY <1>2 DEF Noise
  <2> DEFINE half == [h1Line.half EXCEPT ![i] = 1 - h1Line.half[i]]
             hit == h1Line.hit + 1
  <2>2. h1Line.half \in Seq(Bits) /\ i \in 1 .. Len(h1Line.half)
    BY LenProperties DEF LineInv
  <2>3. 1 - h1Line.half[i] \in Bits
    BY <2>2, ElementOfSeq DEF Bits
  <2>4. half \in Seq(Bits)
    BY <2>2, <2>3, ExceptSeq
  <2>5. hit \in 0 .. MaxDamage /\ hit # 0
    BY <1>2, H1DeviceAssumption DEF Noise, LineInv
  <2>6. h1Line' = [h1Line EXCEPT !.half = half, !.hit = hit]
    BY <2>1
  <2> HIDE DEF half, hit
  <2> QED BY <2>4, <2>5, <2>6 DEF LineInv
<1> QED BY <1>1, <1>2 DEF H1LineNext

LEMMA AcceptanceFollows ==
  ASSUME LineInv
  PROVE  UndamagedIsAccepted
<1> SUFFICES ASSUME h1Line.sent # << >>, h1Line.hit = 0
             PROVE  crc16_verify(Read) /\ Says(Read) = h1Line.sent
  BY DEF UndamagedIsAccepted
<1>1. h1Line.sent \in Seq(Bits)
  BY H1DeviceAssumption DEF LineInv, Bits
<1>2. crc16_append(h1Line.sent) \in Seq(Bits)
  BY <1>1, AppendedIs
<1>3. Read = crc16_append(h1Line.sent)
  BY <1>2, ManchesterInverse DEF LineInv, Read
<1> QED BY <1>1, <1>3, AppendedIs

-----------------------------------------------------------------------------
(* The segment by its parts. *)

BusInv == LasInv /\ AgentInv /\ ClockInv /\ BlockInv /\ LineInv /\ SegInv

LEMMA BusFrame ==
  ASSUME [DcsFieldNext]_dcsFieldVars
  PROVE  /\ LasNext \/ UNCHANGED <<las, turns, overrun>>
         /\ AgentNext \/ UNCHANGED <<agents, bus>>
         /\ sm_process_td \/ UNCHANGED clocks
         /\ H1BlockNext \/ UNCHANGED h1Block
         /\ H1LineNext \/ UNCHANGED h1Line
         /\ AddH1Device \/ UNCHANGED h1Seg
BY Zenon DEF DcsFieldNext, dcsFieldVars, h1Vars, DcsStep, FieldStep, PlantStep, ControlStep,
   LinkStep, DeviceStep, h1DeviceVars, h1LinkVars

LEMMA BusStarts == DcsFieldInit => BusInv
BY LasStarts, AgentsStart, BlockStarts, LineStarts DEF DcsFieldInit, BusInv

LEMMA BusStep ==
  ASSUME BusInv, [DcsFieldNext]_dcsFieldVars
  PROVE  BusInv'
<1>1. LasInv'
  <2>1. CASE UNCHANGED <<las, turns, overrun>>
    <3>1. LasInv
      BY DEF BusInv
    <3>2. las' = las /\ turns' = turns /\ overrun' = overrun
      BY <2>1
    <3> QED BY <3>1, <3>2 DEF LasInv, LiveInv, FairInv, Due
  <2> QED BY <2>1, BusFrame, LasKept DEF BusInv
<1>2. AgentInv'
  <2>1. CASE UNCHANGED <<agents, bus>>
    BY <2>1 DEF BusInv, AgentInv
  <2> QED BY <2>1, BusFrame, AgentsKept DEF BusInv
<1>3. ClockInv'
  <2>1. CASE UNCHANGED clocks
    BY <2>1 DEF BusInv, ClockInv
  <2> QED BY <2>1, BusFrame, ClocksKept DEF BusInv
<1>4. BlockInv'
  <2>1. CASE UNCHANGED h1Block
    BY <2>1 DEF BusInv, BlockInv
  <2> QED BY <2>1, BusFrame, BlockKept DEF BusInv
<1>5. LineInv'
  <2>1. CASE UNCHANGED h1Line
    BY <2>1 DEF BusInv, LineInv
  <2> QED BY <2>1, BusFrame, LineKept DEF BusInv
<1>6. SegInv'
  <2>1. CASE UNCHANGED h1Seg
    BY <2>1 DEF BusInv, SegInv
  <2> QED BY <2>1, BusFrame, SegKept DEF BusInv
<1> QED BY <1>1, <1>2, <1>3, <1>4, <1>5, <1>6 DEF BusInv

LEMMA BusInvSuffices ==
  ASSUME BusInv
  PROVE  BusIsSound
<1>1. TokenIsFair /\ AddressesAreUnique /\ UndamagedIsAccepted
  BY FairnessFollows, UniquenessFollows, AcceptanceFollows DEF BusInv
<1>2. H1LinkTypeOK
  BY DEF BusInv, LasInv, LiveInv, AgentInv, ClockInv, Turns, H1LinkTypeOK
<1>3. H1DeviceTypeOK /\ ModeIsPermitted
  BY DEF BusInv, BlockInv, LineInv, SegInv, H1DeviceTypeOK, ModeIsPermitted, Bits
<1> QED BY <1>1, <1>2, <1>3 DEF BusIsSound

(* However the live list changes, no device waits longer than its turn and *)
(* a round for each removal; however Set Address messages are delayed or *)
(* repeated, addresses stay unique; blocks run in permitted modes; a frame *)
(* nothing happened to is accepted: for any number of devices, any *)
(* schedule, any messages and any noise. *)
THEOREM BusIsSoundHolds == DcsFieldSpec => []BusIsSound
<1>1. DcsFieldInit => BusInv
  BY BusStarts
<1>2. BusInv /\ [DcsFieldNext]_dcsFieldVars => BusInv'
  BY BusStep
<1>3. BusInv => BusIsSound
  BY BusInvSuffices
<1> QED BY <1>1, <1>2, <1>3, PTL DEF DcsFieldSpec

(* Both together: what the run checks of the DeltaV plant and its segments.*)
THEOREM FieldIsSound == DcsFieldSpec => []FieldSound
BY DeltaVIsSound, BusIsSoundHolds, PTL DEF FieldSound

InsideStep ==
  /\ las'.cycles # las.cycles /\ ~overrun'
  /\ \A i \in DOMAIN las.schedule : las.schedule[i].offset + CdTime <= Macrocycle
  => Wrap(las'.time - las'.start + TimeRange) <= Macrocycle

LEMMA OnlyCyclesCount ==
  ASSUME LasInv, LasNext, las'.cycles # las.cycles
  PROVE  las_run_macrocycle
<1>1. las \in Las
  BY DEF LasInv
<1>2. CASE Activate
  BY <1>1, <1>2 DEF Activate, Las
<1>3. CASE cd_add
  BY <1>1, <1>3 DEF cd_add, Las
<1>4. CASE live_list_add
  BY <1>1, <1>4 DEF live_list_add, Las
<1>5. CASE live_list_remove
  <2>1. PICK i \in DOMAIN las.live : las' = [las EXCEPT !.live = RemoveAt(las.live, i)]
    BY <1>5 DEF live_list_remove
  <2> QED BY <1>1, <2>1 DEF Las
<1> QED BY <1>2, <1>3, <1>4, <1>5 DEF LasNext

LEMMA CycleIsInside ==
  ASSUME LasInv, las_run_macrocycle
  PROVE  InsideStep
<1> SUFFICES ASSUME ~overrun', Fits(las.schedule)
             PROVE  Wrap(las'.time - las'.start + TimeRange) <= Macrocycle
  BY DEF InsideStep, Fits
<1>1. PICK cd \in CdState, remaining \in 0 .. TimeRange - 1, tokens \in 0 .. Len(las.live),
            pt \in PtState :
        /\ CyclePhases(cd, remaining, tokens, pt)
        /\ Fits(las.schedule) => Inside(cd, las.time)
        /\ tokens * TokenTime \in 0 .. remaining
  BY CycleIs
<1> DEFINE t == las.time
           used == tokens * TokenTime
           time == Wrap(cd.time + used)
           idle == Wrap(las.idle + remaining - used + TimeRange)
<1>2. t \in 0 .. TimeRange - 1 /\ las \in Las
  BY LasTyped DEF LasInv
<1>3. cd.skipped = 0
  <2>1. cd.skipped \in Nat
    BY DEF CdState
  <2>2. ~(cd.skipped > 0)
    BY Zenon, <1>1 DEF CyclePhases
  <2> QED BY <2>1, <2>2
<1>4. PICK z \in 0 .. Macrocycle : cd.last = Wrap(t + z) /\ cd.time = cd.last
  BY <1>1, <1>3 DEF Inside
<1>5. las'.start = t /\ las'.time = time
  <2>1. las' = [las EXCEPT !.start = t, !.time = time, !.next_pt = pt.index, !.idle = idle,
                  !.cd_overruns = las.cd_overruns + cd.skipped, !.cycles = las.cycles + 1]
    BY <1>1 DEF CyclePhases
  <2> HIDE DEF time, idle, t
  <2> QED BY <1>2, <2>1 DEF Las
<1>6. remaining = Wrap(t + Macrocycle - cd.last + TimeRange)
  BY <1>1 DEF CyclePhases
<1> HIDE DEF t
<1> DEFINE last == IF t + z < TimeRange THEN t + z ELSE t + z - TimeRange
<1>7. cd.last = last
  <2>1. last \in 0 .. TimeRange - 1 /\ t + z \in Int /\ (t + z = last \/ t + z = last + TimeRange)
    BY <1>2, LinkNumbers DEF t
  <2> HIDE DEF last
  <2> QED BY <1>4, <2>1, WrapIs
<1>8. remaining = Macrocycle - z
  <2> DEFINE x == t + Macrocycle - last + TimeRange
             y == Macrocycle - z
  <2>1. y \in 0 .. TimeRange - 1 /\ x \in Int /\ (x = y + TimeRange \/ x = y + TimeRange + TimeRange)
    BY <1>2, LinkNumbers DEF t
  <2>2. remaining = Wrap(x)
    BY <1>6, <1>7
  <2> HIDE DEF x, y
  <2>3. remaining = y
    BY <2>1, <2>2, WrapIs
  <2> QED BY <2>3 DEF y
<1>9. used \in 0 .. remaining
  BY <1>1
<1> HIDE DEF used, last
<1>10. used \in Nat /\ z \in Nat /\ z + used \in Nat /\ z + used <= Macrocycle /\ z + used < TimeRange
  BY <1>8, <1>9, LinkNumbers
<1>11. time = Wrap(t + (z + used))
  BY <1>2, <1>4, <1>10, WrapTwice DEF t
<1>12. Wrap(time - t + TimeRange) = z + used
  <2> DEFINE a == z + used
  <2>1. a \in Nat /\ a + 0 < TimeRange /\ 0 \in Nat
    BY <1>10
  <2> HIDE DEF a
  <2>2. Wrap(Wrap(t + a) - t + TimeRange) = a
    BY <1>2, <2>1, WrapTwice DEF t
  <2> QED BY <1>11, <2>2 DEF a
<1> QED BY <1>5, <1>10, <1>12

(* A cycle whose schedule fits ends within its macrocycle, tokens and all, *)
(* wherever the clock wraps around, unless it skipped an entry. *)
THEOREM CycleStaysInsideHolds == DcsFieldSpec => CycleStaysInside
<1>1. DcsFieldInit => BusInv
  BY BusStarts
<1>2. BusInv /\ [DcsFieldNext]_dcsFieldVars => BusInv'
  BY BusStep
<1>3. BusInv /\ [DcsFieldNext]_dcsFieldVars => [InsideStep]_<<las, overrun>>
  <2> SUFFICES ASSUME BusInv, [DcsFieldNext]_dcsFieldVars, ~ UNCHANGED <<las, overrun>>
               PROVE  InsideStep
    OBVIOUS
  <2>1. LasInv /\ LasNext
    BY BusFrame DEF BusInv
  <2>2. CASE las'.cycles # las.cycles
    BY <2>1, <2>2, OnlyCyclesCount, CycleIsInside
  <2>3. CASE las'.cycles = las.cycles
    BY <2>3 DEF InsideStep
  <2> QED BY <2>2, <2>3
<1>4. CycleStaysInside <=> [][InsideStep]_<<las, overrun>>
  BY DEF CycleStaysInside, InsideStep
<1> QED BY <1>1, <1>2, <1>3, <1>4, PTL DEF DcsFieldSpec

-----------------------------------------------------------------------------
(* Power and spurs of a segment that grows. *)

H1SegDevice == [current : Currents, spur : Spurs, cable : Cables]

CurrentsOf(devices) == [i \in 1 .. Len(devices) |-> CurrentOf(devices[i])]

LEMMA SegNumbers ==
  /\ Trunk \in Nat /\ Supply \in Nat /\ Temperature \in Nat /\ MaxCurrent \in Nat
  /\ Currents \subseteq Nat /\ Spurs \subseteq Nat /\ Cables \subseteq {"A", "B", "C", "D"}
BY H1DeviceAssumption

LEMMA CurrentIs ==
  ASSUME NEW d \in H1SegDevice
  PROVE  CurrentOf(d) \in Nat
BY SegNumbers DEF H1SegDevice, CurrentOf

(* The fold is the sum of the currents, in whatever order. *)
LEMMA TotalIs ==
  ASSUME NEW devices \in Seq(H1SegDevice),
         NEW g \in Sums(1 .. Len(devices), CurrentsOf(devices))
  PROVE  TotalTenths(devices) = 11 * g[1 .. Len(devices)]
<1> DEFINE n == Len(devices)
           S == 1 .. n
           f == CurrentsOf(devices)
           Right(h) == h = [s \in SUBSET S |-> IF s = {} THEN 0
                                              ELSE h[s \ {Max(s)}] + CurrentOf(devices[Max(s)])]
           iter == CHOOSE h : Right(h)
<1>1. n \in Nat /\ DOMAIN devices = S /\ \A i \in S : devices[i] \in H1SegDevice
  BY LenProperties, ElementOfSeq
<1>2. f \in [S -> Int] /\ \A i \in S : f[i] = CurrentOf(devices[i])
  BY <1>1, CurrentIs DEF CurrentsOf
<1>3. IsFiniteSet(S)
  BY <1>1, FS_Interval, 1 \in Int
<1>4. TotalTenths(devices) = 11 * iter[DOMAIN devices]
  <2>1. DOMAIN devices = S
    BY <1>1
  <2> HIDE DEF S
  <2> QED BY <2>1, Zenon DEF TotalTenths, FoldLeft, MapThenFoldSet
<1>5. AnyOrder(S, f, g) /\ g \in [SUBSET S -> Int] /\ g[{}] = 0
  <2>1. g \in Sums(S, f)
    OBVIOUS
  <2> HIDE DEF S, f
  <2>2. AnyOrder(S, f, g)
    BY <1>2, <1>3, <2>1, SumsAnyOrder
  <2> QED BY <2>1, <2>2 DEF Sums
<1>6. ASSUME NEW s \in SUBSET S, s # {} PROVE Max(s) \in s
  <2>1. s \subseteq 0 .. n
    BY <1>1
  <2> QED BY <1>1, <1>6, <2>1, MaxOfSome
<1>7. Right(g)
  <2>1. ASSUME NEW s \in SUBSET S
        PROVE  g[s] = IF s = {} THEN 0 ELSE g[s \ {Max(s)}] + CurrentOf(devices[Max(s)])
    <3>1. CASE s # {}
      <4> DEFINE i == Max(s)
      <4>1. i \in s /\ i \in S
        BY <1>6, <3>1
      <4> HIDE DEF i, S, f
      <4>2. g[s] = f[i] + g[s \ {i}]
        BY <1>5, <4>1 DEF AnyOrder
      <4>3. f[i] \in Int /\ g[s \ {i}] \in Int /\ f[i] = CurrentOf(devices[i])
        BY <1>2, <1>5, <4>1
      <4>4. g[s] = g[s \ {i}] + CurrentOf(devices[i])
        BY <4>2, <4>3
      <4> QED BY <3>1, <4>4 DEF i
    <3> QED BY <1>5, <3>1
  <2> HIDE DEF S
  <2>2. g = [s \in SUBSET S |-> g[s]]
    BY <1>5
  <2> QED BY <2>1, <2>2, Zenon
<1>8. Right(iter)
  <2> HIDE DEF Right
  <2> QED BY <1>7, Zenon
<1>9. iter[S] = g[S]
  <2> DEFINE T == {s \in SUBSET S : iter[s] = g[s]}
  <2>0. \A s \in SUBSET S : iter[s] = IF s = {} THEN 0
                                     ELSE iter[s \ {Max(s)}] + CurrentOf(devices[Max(s)])
    <3> HIDE DEF iter, S
    <3> QED BY <1>8
  <2>1. \A s \in SUBSET S : g[s] = IF s = {} THEN 0
                                   ELSE g[s \ {Max(s)}] + CurrentOf(devices[Max(s)])
    <3> HIDE DEF S
    <3> QED BY <1>7
  <2> HIDE DEF iter, f
  <2>2. {} \in T
    BY <2>0, <2>1
  <2>3. ASSUME NEW s \in SUBSET S, s # {}, \A x \in s : s \ {x} \in T
        PROVE  s \in T
    <3>1. s \ {Max(s)} \in T
      BY <1>6, <2>3
    <3>2. iter[s \ {Max(s)}] = g[s \ {Max(s)}]
      BY <3>1
    <3> HIDE DEF S
    <3> QED BY <2>0, <2>1, <2>3, <3>2
  <2>4. SUBSET S \subseteq T
    <3> HIDE DEF S, T
    <3> QED BY <1>3, <2>2, <2>3, SubsetInduction
  <2> QED BY <2>4
<1> HIDE DEF iter, S
<1> QED BY <1>1, <1>4, <1>9 DEF S

(* One device more adds its own current. *)
LEMMA TotalGrows ==
  ASSUME NEW devices \in Seq(H1SegDevice), NEW d \in H1SegDevice
  PROVE  \E sum \in Int : /\ TotalTenths(devices) = 11 * sum
                          /\ TotalTenths(Append(devices, d)) = 11 * (sum + CurrentOf(d))
<1> DEFINE n == Len(devices)
           more == Append(devices, d)
           f == CurrentsOf(devices)
           h == CurrentsOf(more)
<1>1. /\ n \in Nat /\ more \in Seq(H1SegDevice) /\ Len(more) = n + 1
      /\ \A i \in 1 .. n : more[i] = devices[i]
      /\ more[n + 1] = d
  BY AppendProperties, LenProperties
<1>2. \A i \in 1 .. n : devices[i] \in H1SegDevice
  BY ElementOfSeq
<1>3. h \in [1 .. n + 1 -> Int] /\ h[n + 1] = CurrentOf(d) /\ \A i \in 1 .. n : h[i] = f[i]
  <2> HIDE DEF more, n
  <2>1. \A i \in 1 .. n + 1 : CurrentOf(more[i]) \in Int
    BY <1>1, ElementOfSeq, CurrentIs
  <2>2. h = [i \in 1 .. n + 1 |-> CurrentOf(more[i])] /\ f = [i \in 1 .. n |-> CurrentOf(devices[i])]
    BY <1>1 DEF CurrentsOf, n
  <2>3. n + 1 \in 1 .. n + 1 /\ \A i \in 1 .. n : i \in 1 .. n + 1
    BY <1>1
  <2> HIDE DEF h, f
  <2> QED BY <1>1, <2>1, <2>2, <2>3
<1>4. IsFiniteSet(1 .. n + 1)
  <2>1. 1 \in Int /\ n + 1 \in Int
    BY <1>1
  <2> HIDE DEF n
  <2> QED BY <2>1, FS_Interval
<1> HIDE DEF h, f, more
<1>5. PICK g : g \in Sums(1 .. n + 1, h)
  BY <1>3, <1>4, SumsExist
<1>6. TotalTenths(more) = 11 * g[1 .. n + 1]
  <2>1. g \in Sums(1 .. Len(more), CurrentsOf(more))
    BY <1>1, <1>5 DEF h
  <2> QED BY <1>1, <2>1, TotalIs
<1> DEFINE below == [s \in SUBSET (1 .. n) |-> g[s]]
<1>7. g \in [SUBSET (1 .. n + 1) -> Int] /\ SUBSET (1 .. n) \subseteq SUBSET (1 .. n + 1)
  BY <1>1, <1>5 DEF Sums
<1>8. below \in Sums(1 .. n, f)
  <2>1. ASSUME NEW s \in SUBSET (1 .. n)
        PROVE  g[s] = IF s = {} THEN 0 ELSE f[Picked(s)] + g[s \ {Picked(s)}]
    <3>1. s \in SUBSET (1 .. n + 1)
      BY <1>7
    <3>2. g[s] = IF s = {} THEN 0 ELSE h[Picked(s)] + g[s \ {Picked(s)}]
      BY <1>5, <3>1 DEF Sums
    <3>3. s # {} => Picked(s) \in s
      BY Zenon DEF Picked
    <3>4. s # {} => h[Picked(s)] = f[Picked(s)]
      BY <1>3, <3>3
    <3> QED BY <3>2, <3>4
  <2>2. \A s \in SUBSET (1 .. n) : below[s] = g[s] /\ s \ {Picked(s)} \in SUBSET (1 .. n)
    OBVIOUS
  <2>3. below \in [SUBSET (1 .. n) -> Int]
    BY <1>7
  <2> HIDE DEF below
  <2> QED BY <2>1, <2>2, <2>3 DEF Sums
<1>9. TotalTenths(devices) = 11 * g[1 .. n]
  <2>1. below[1 .. n] = g[1 .. n]
    OBVIOUS
  <2> HIDE DEF below
  <2> QED BY <1>8, <2>1, TotalIs DEF f
<1>10. g[1 .. n + 1] = CurrentOf(d) + g[1 .. n]
  <2>1. AnyOrder(1 .. n + 1, h, g)
    BY <1>3, <1>4, <1>5, SumsAnyOrder
  <2>2. n + 1 \in 1 .. n + 1 /\ (1 .. n + 1) \ {n + 1} = 1 .. n
    BY <1>1
  <2> QED BY <1>3, <2>1, <2>2 DEF AnyOrder
<1>11. g[1 .. n] \in Int /\ CurrentOf(d) \in Nat
  BY <1>7, CurrentIs
<1>12. g[1 .. n + 1] = g[1 .. n] + CurrentOf(d)
  BY <1>10, <1>11
<1> QED BY <1>6, <1>9, <1>11, <1>12 DEF more

LEMMA OhmIs ==
  ASSUME NEW cable \in {"A", "B", "C", "D"}
  PROVE  ohm_per_km(cable) \in Nat
<1> DEFINE ohm == cable_spec[cable].ohm
<1>1. ohm \in {28, 44, 112}
  BY DEF cable_spec
<1> HIDE DEF ohm
<1>2. ohm_per_km(cable) = ohm + (ohm * 393 * (Temperature - 20)) \div 100000
  BY DEF ohm_per_km, ohm
<1>3. ohm + (ohm * 393 * (Temperature - 20)) \div 100000 \in Nat
  BY <1>1, SegNumbers
<1> QED BY <1>2, <1>3

(* A drop grows with the current. *)
LEMMA DropGrows ==
  ASSUME NEW length \in Nat, NEW ohm \in Nat, NEW x \in Int, NEW y \in Int, x <= y
  PROVE  x * length * ohm \in Int /\ y * length * ohm \in Int /\ x * length * ohm <= y * length * ohm
<1>1. x * length \in Int /\ y * length \in Int /\ x * length <= y * length
  <2>1. (y - x) * length >= 0 /\ (y - x) * length = y * length - x * length
    OBVIOUS
  <2> QED BY <2>1
<1> DEFINE p == x * length
           q == y * length
<1> HIDE DEF p, q
<1>2. p \in Int /\ q \in Int /\ p <= q
  BY <1>1 DEF p, q
<1>3. p * ohm \in Int /\ q * ohm \in Int /\ p * ohm <= q * ohm
  <2>1. (q - p) * ohm >= 0 /\ (q - p) * ohm = q * ohm - p * ohm
    BY <1>2
  <2> QED BY <1>2, <2>1
<1> QED BY <1>3 DEF p, q

LEMMA SpursShrink ==
  ASSUME NEW n \in Nat, n >= 1, h1_max_spur_length(n + 1) >= 0
  PROVE  h1_max_spur_length(n + 1) <= h1_max_spur_length(n)
<1>1. n + 1 \in 1 .. 32
  BY DEF h1_max_spur_length
<1>2. n \in 1 .. 32 /\ n + 1 \in 2 .. 32
  BY <1>1
<1>3. \A m \in 1 .. 32 :
        h1_max_spur_length(m) = IF m <= 12 THEN 120 ELSE IF m <= 14 THEN 90 ELSE IF m <= 18 THEN 60
                                ELSE IF m <= 24 THEN 30 ELSE 1
  BY DEF h1_max_spur_length
<1> QED BY <1>2, <1>3

GrowsStep ==
  h1Seg # << >> /\ ~(power_budget(h1Seg) /\ segment_validate_spurs(h1Seg))
  => ~(power_budget(h1Seg') /\ segment_validate_spurs(h1Seg'))

LEMMA GrowthIsWorse ==
  ASSUME SegInv, AddH1Device
  PROVE  GrowsStep
<1> DEFINE old == h1Seg
           n == Len(old)
<1>1. PICK d \in H1SegDevice : h1Seg' = Append(old, d)
  BY DEF AddH1Device, H1SegDevice
<1> DEFINE new == Append(old, d)
<1> SUFFICES ASSUME old # << >>, power_budget(new), segment_validate_spurs(new)
             PROVE  power_budget(old) /\ segment_validate_spurs(old)
  BY <1>1 DEF GrowsStep
<1>2. /\ old \in Seq(H1SegDevice) /\ n \in Nat /\ n >= 1 /\ DOMAIN old = 1 .. n
      /\ new \in Seq(H1SegDevice) /\ Len(new) = n + 1 /\ DOMAIN new = 1 .. n + 1
      /\ \A i \in 1 .. n : new[i] = old[i]
  <2>1. old \in Seq(H1SegDevice)
    BY DEF SegInv, H1SegDevice
  <2>2. n \in Nat \ {0}
    BY <2>1, EmptySeq
  <2>3. new \in Seq(H1SegDevice) /\ Len(new) = n + 1 /\ \A i \in 1 .. n : new[i] = old[i]
    BY <2>1, AppendProperties
  <2>4. DOMAIN old = 1 .. n /\ DOMAIN new = 1 .. Len(new)
    BY <2>1, <2>3, LenProperties
  <2> HIDE DEF new, n
  <2> QED BY <2>1, <2>2, <2>3, <2>4
<1>3. \A i \in 1 .. n : old[i] \in H1SegDevice
  BY <1>2, ElementOfSeq
<1>4. PICK sum \in Int : TotalTenths(old) = 11 * sum /\ TotalTenths(new) = 11 * (sum + CurrentOf(d))
  BY <1>2, TotalGrows
<1>5. /\ TotalTenths(old) \in Int /\ TotalTenths(new) \in Int
      /\ TotalTenths(old) <= TotalTenths(new)
  BY <1>4, CurrentIs
<1> HIDE DEF new, n, old
<1>6. power_budget(old)
  <2>1. TotalTenths(old) <= 10 * MaxCurrent
    BY <1>5, SegNumbers DEF power_budget
  <2>2. ASSUME NEW i \in 1 .. n
        PROVE  VoltageAt(old, i) >= 90000000
    <3> DEFINE trunk(s) == cable_voltage_drop(Trunk, "A", TotalTenths(s))
               spur == cable_voltage_drop(old[i].spur, old[i].cable, 10 * CurrentOf(old[i]))
    <3>1. trunk(old) \in Int /\ trunk(new) \in Int /\ trunk(old) <= trunk(new)
      <4>1. ohm_per_km("A") \in Nat
        BY OhmIs
      <4> QED BY <1>5, <4>1, SegNumbers, DropGrows DEF cable_voltage_drop
    <3>2. spur \in Int
      <4>1. CurrentOf(old[i]) \in Nat
        BY <1>3, CurrentIs
      <4>2. old[i].spur \in Nat /\ ohm_per_km(old[i].cable) \in Nat
        BY <1>3, OhmIs, SegNumbers DEF H1SegDevice
      <4>3. 10 * CurrentOf(old[i]) \in Int
        BY <4>1
      <4> QED BY <4>2, <4>3, DropGrows DEF cable_voltage_drop
    <3>3. VoltageAt(old, i) = Supply - trunk(old) - spur
      BY DEF VoltageAt
    <3>4. VoltageAt(new, i) = Supply - trunk(new) - spur
      BY <1>2 DEF VoltageAt
    <3>5. VoltageAt(new, i) >= 90000000
      BY <1>2 DEF power_budget
    <3> DEFINE a == trunk(old)
               b == trunk(new)
    <3> HIDE DEF a, b, spur
    <3>6. VoltageAt(old, i) = Supply - a - spur /\ VoltageAt(new, i) = Supply - b - spur
      BY <3>3, <3>4 DEF a, b, spur
    <3>7. a \in Int /\ b \in Int /\ a <= b
      BY <3>1 DEF a, b
    <3> HIDE DEF trunk
    <3> QED BY <3>2, <3>5, <3>6, <3>7, SegNumbers
  <2> QED BY <1>2, <2>1, <2>2 DEF power_budget
<1>7. segment_validate_spurs(old)
  <2>1. \A i \in 1 .. n : old[i].spur \in Nat /\ old[i].spur <= h1_max_spur_length(n + 1)
    <3>1. \A i \in 1 .. n : i \in 1 .. n + 1
      BY <1>2
    <3> QED BY <1>2, <1>3, <3>1, SegNumbers DEF segment_validate_spurs, H1SegDevice
  <2>2. \A m \in Nat : h1_max_spur_length(m) \in Int
    BY DEF h1_max_spur_length
  <2>3. n + 1 \in Nat /\ 1 \in 1 .. n
    BY <1>2
  <2>4. h1_max_spur_length(n + 1) >= 0
    BY <2>1, <2>2, <2>3
  <2>5. h1_max_spur_length(n + 1) <= h1_max_spur_length(n)
    BY <1>2, <2>4, SpursShrink
  <2>6. \A i \in 1 .. n : old[i].spur <= h1_max_spur_length(n)
    BY <1>2, <2>1, <2>2, <2>3, <2>5
  <2> QED BY <1>2, <2>6 DEF segment_validate_spurs, n
<1> QED BY <1>6, <1>7

(* Devices only make a segment worse, for any currents, spurs and cables. *)
THEOREM MoreIsNotBetterHolds == DcsFieldSpec => MoreIsNotBetter
<1>1. DcsFieldInit => BusInv
  BY BusStarts
<1>2. BusInv /\ [DcsFieldNext]_dcsFieldVars => BusInv'
  BY BusStep
<1>3. BusInv /\ [DcsFieldNext]_dcsFieldVars => [GrowsStep]_h1Seg
  BY BusFrame, GrowthIsWorse DEF BusInv
<1>4. MoreIsNotBetter <=> [][GrowsStep]_h1Seg
  BY DEF MoreIsNotBetter, GrowsStep
<1> QED BY <1>1, <1>2, <1>3, <1>4, PTL DEF DcsFieldSpec
=============================================================================
