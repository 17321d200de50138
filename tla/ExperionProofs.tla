---------------------------- MODULE ExperionProofs ----------------------------
(***************************************************************************)
(* Theorems about ExperionPair, for every heartbeat limit and whichever *)
(* roles the application asks for. *)
(***************************************************************************)
EXTENDS ExperionPair, TLAPS

LEMMA PartnerIsManager == \A m \in Manager : Partner(m) \in Manager
BY DEF Manager, Partner

(* The receipt of a heartbeat, whichever branch it takes. *)
LEMMA ReceiptType ==
  ASSUME PairTypeOK, NEW m \in Manager, receive_heartbeat(m)
  PROVE  /\ missed' \in [Manager -> 0 .. MaxMissed]
         /\ pair_health' \in [Manager -> PairHealth]
BY MaxMissedAssumption
   DEF PairTypeOK, receive_heartbeat, Heard, CountMissed, PairHealth

(* Every field keeps to its values. *)
THEOREM ExperionTypeCorrect == Spec => []PairTypeOK
<1>1. Init => PairTypeOK
  BY MaxMissedAssumption
     DEF Init, PairTypeOK, Role, PairHealth, SyncProgress, NoHeartbeat
<1>2. PairTypeOK /\ [Next]_vars => PairTypeOK'
  <2> SUFFICES ASSUME PairTypeOK, [Next]_vars PROVE PairTypeOK'
    OBVIOUS
  <2>1. CASE UNCHANGED vars
    BY <2>1 DEF vars, PairTypeOK
  <2>2. ASSUME NEW m \in Manager, NEW role \in RequestedRoles, SetRole(m, role)
        PROVE  PairTypeOK'
    BY <2>2, RolesAssumption DEF SetRole, PairTypeOK, PairHealth
  <2>3. ASSUME NEW m \in Manager, TakeOver(m) \/ Yield(m)
        PROVE  PairTypeOK'
    BY <2>3 DEF TakeOver, Yield, PairTypeOK, PairHealth, Role
  <2>4. ASSUME NEW m \in Manager, SendHeartbeat(m)
        PROVE  PairTypeOK'
    BY <2>4, PartnerIsManager
       DEF SendHeartbeat, roleVars, PairTypeOK, Heartbeat
  <2>5. ASSUME NEW m \in Manager, Drop(m)
        PROVE  PairTypeOK'
    BY <2>5 DEF Drop, roleVars, PairTypeOK
  <2>6. ASSUME NEW m \in Manager, ReceiveHeartbeat(m)
        PROVE  PairTypeOK'
    <3>1. link' \in [Manager -> Heartbeat \cup {NoHeartbeat}]
      BY <2>6 DEF ReceiveHeartbeat, PairTypeOK
    <3> QED
      BY <2>6, <3>1, ReceiptType DEF ReceiveHeartbeat, PairTypeOK
  <2>7. ASSUME NEW m \in Manager, MissHeartbeat(m)
        PROVE  PairTypeOK'
    BY <2>7, MaxMissedAssumption
       DEF MissHeartbeat, CountMissed, roleVars, PairTypeOK
  <2>8. ASSUME NEW m \in Manager, CheckHealth(m)
        PROVE  PairTypeOK'
    BY <2>8 DEF CheckHealth, PairTypeOK, PairHealth
  <2>9. ASSUME NEW m \in Manager, NEW sized \in BOOLEAN, StartSync(m, sized)
        PROVE  PairTypeOK'
    BY <2>9 DEF StartSync, PairTypeOK, SyncProgress, Role
  <2>10. ASSUME NEW m \in Manager, CompleteSync(m)
         PROVE  PairTypeOK'
    BY <2>10 DEF CompleteSync, PairTypeOK, SyncProgress, Role, PairHealth
  <2> QED
    BY <2>1, <2>2, <2>3, <2>4, <2>5, <2>6, <2>7, <2>8, <2>9, <2>10 DEF Next
<1> QED BY <1>1, <1>2, PTL DEF Spec

(* Only the two calls of a synchronisation touch its record. *)
LEMMA OthersKeepSync ==
  ASSUME [Next]_vars,
         ~ \E m \in Manager : \/ \E sized \in BOOLEAN : StartSync(m, sized)
                              \/ CompleteSync(m)
  PROVE  sync' = sync
BY DEF Next, vars, SetRole, TakeOver, Yield, SendHeartbeat, Drop,
       ReceiveHeartbeat, MissHeartbeat, CheckHealth

(* A failover that is logged as bumpless has nothing left to copy. *)
THEOREM BumplessHolds == Spec => []BumplessLosesNothing
<1>1. Init => BumplessLosesNothing
  BY DEF Init, BumplessLosesNothing
<1>2. PairTypeOK /\ BumplessLosesNothing /\ [Next]_vars
        => BumplessLosesNothing'
  <2> SUFFICES ASSUME PairTypeOK, BumplessLosesNothing, [Next]_vars
               PROVE  BumplessLosesNothing'
    OBVIOUS
  <2>1. ASSUME NEW m \in Manager, NEW sized \in BOOLEAN, StartSync(m, sized)
        PROVE  BumplessLosesNothing'
    BY <2>1 DEF StartSync, BumplessLosesNothing, PairTypeOK, SyncProgress
  <2>2. ASSUME NEW m \in Manager, CompleteSync(m)
        PROVE  BumplessLosesNothing'
    BY <2>2 DEF CompleteSync, BumplessLosesNothing, PairTypeOK, SyncProgress
  <2>3. CASE sync' = sync
    BY <2>3 DEF BumplessLosesNothing
  <2> QED BY <2>1, <2>2, <2>3, OthersKeepSync
<1> QED BY <1>1, <1>2, ExperionTypeCorrect, PTL DEF Spec

(* No call makes a manager PRIMARY that is down or half synchronised. *)
THEOREM DownHolds == Spec => DownStaysDown
<1>1. PairTypeOK /\ [Next]_vars
        => [\A m \in Manager : current_role[m] \in {"OFFLINE", "SYNCING"}
                                 => current_role'[m] # "PRIMARY"]_vars
  <2> SUFFICES ASSUME PairTypeOK, Next, NEW n \in Manager,
                      current_role[n] \in {"OFFLINE", "SYNCING"}
               PROVE  current_role'[n] # "PRIMARY"
    OBVIOUS
  <2>1. ASSUME NEW m \in Manager, NEW role \in RequestedRoles, SetRole(m, role)
        PROVE  current_role'[n] # "PRIMARY"
    BY <2>1 DEF SetRole, ValidTransition, PairTypeOK
  <2>2. ASSUME NEW m \in Manager, TakeOver(m) \/ Yield(m)
        PROVE  current_role'[n] # "PRIMARY"
    BY <2>2 DEF TakeOver, Yield, PairTypeOK
  <2>3. ASSUME NEW m \in Manager,
               \/ \E sized \in BOOLEAN : StartSync(m, sized)
               \/ CompleteSync(m)
        PROVE  current_role'[n] # "PRIMARY"
    BY <2>3 DEF StartSync, CompleteSync, PairTypeOK
  <2>4. CASE current_role' = current_role
    BY <2>4
  <2> QED
    BY <2>1, <2>2, <2>3, <2>4
       DEF Next, SendHeartbeat, Drop, ReceiveHeartbeat, MissHeartbeat,
           CheckHealth, roleVars
<1> QED BY <1>1, ExperionTypeCorrect, PTL DEF Spec, DownStaysDown

(* Two managers that hold the pair for broken convince each other of it: *)
(* of all calls, only the end of a synchronisation brings one back. *)
THEOREM RecoveryHolds == Spec => RecoveryTakesSync
<1>1. PairTypeOK /\ [Next]_vars
        => [(\A m \in Manager : Unwell(m))
              => \A m \in Manager :
                   \/ pair_health'[m] # "HEALTHY"
                   \/ sync[m].in_progress /\ ~ sync'[m].in_progress]_vars
  <2> SUFFICES ASSUME PairTypeOK, Next, \A m \in Manager : Unwell(m),
                      NEW n \in Manager
               PROVE  \/ pair_health'[n] # "HEALTHY"
                      \/ sync[n].in_progress /\ ~ sync'[n].in_progress
    OBVIOUS
  <2>1. pair_health[n] # "HEALTHY" /\ \A m \in Manager : ~ link[m].ok
    BY DEF Unwell
  <2>2. ASSUME NEW m \in Manager, NEW role \in RequestedRoles, SetRole(m, role)
        PROVE  pair_health'[n] # "HEALTHY"
    BY <2>1, <2>2 DEF SetRole, PairTypeOK
  <2>3. ASSUME NEW m \in Manager, TakeOver(m) \/ CheckHealth(m)
        PROVE  pair_health'[n] # "HEALTHY"
    BY <2>1, <2>3 DEF TakeOver, CheckHealth, PairTypeOK
  <2>4. ASSUME NEW m \in Manager, ReceiveHeartbeat(m)
        PROVE  pair_health'[n] # "HEALTHY"
    BY <2>1, <2>4 DEF ReceiveHeartbeat, receive_heartbeat, Heard, PairTypeOK
  <2>5. ASSUME NEW m \in Manager, CompleteSync(m)
        PROVE  \/ pair_health'[n] # "HEALTHY"
               \/ sync[n].in_progress /\ ~ sync'[n].in_progress
    BY <2>1, <2>5 DEF CompleteSync, PairTypeOK, SyncProgress
  <2>6. CASE pair_health' = pair_health
    BY <2>1, <2>6
  <2> QED
    BY <2>2, <2>3, <2>4, <2>5, <2>6
       DEF Next, Yield, SendHeartbeat, Drop, MissHeartbeat, StartSync, roleVars
<1> QED BY <1>1, ExperionTypeCorrect, PTL DEF Spec, RecoveryTakesSync
=============================================================================
