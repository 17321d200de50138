------------------------------ MODULE MCRecovery ------------------------------
(***************************************************************************)
(* What must happen in the end, in the failover engine and in the *)
(* synchronisation of its controllers, side by side: a behaviour runs one *)
(* of the two, the other stays as it is.  They share no state, so that *)
(* nothing is lost by it. *)
(***************************************************************************)
EXTENDS FailoverEngine, StateSync

VARIABLE part

recoveryVars == <<vars, syncVars, part>>

(* A part that does not run keeps one of its initial states. *)
RecoveryInit ==
  /\ EngineInit /\ SyncInit
  /\ part \in {"engine", "sync"}
  /\ part = "engine" => dst = src /\ \A a \in Address : src[a] = CHOOSE b \in Byte : TRUE

EngineStep(A) == part = "engine" /\ A /\ UNCHANGED <<syncVars, part>>
SyncStep(A)   == part = "sync" /\ A /\ UNCHANGED <<vars, part>>

RecoveryNext == EngineStep(EngineNext) \/ SyncStep(SyncNext)

(* The fairness of EngineFairSpec and of SyncFairSpec. *)
RecoverySpec ==
  /\ RecoveryInit /\ [][RecoveryNext]_recoveryVars
  /\ WF_recoveryVars(EngineStep(Tick)) /\ WF_recoveryVars(EngineStep(PollTimeouts))
  /\ WF_recoveryVars(SyncStep(IncrementalTransfer(MemSize)))

-----------------------------------------------------------------------------
(* Two regions side by side, and one that spans both. *)
SomeRegions ==
  {[region_id |-> 1, base |-> 0, size |-> 1],
   [region_id |-> 2, base |-> 1, size |-> 1],
   [region_id |-> 3, base |-> 0, size |-> 2]}

(* A checksum without collisions. *)
NoCollision(bytes) == bytes
=============================================================================
