-------------------------- MODULE SequentialBatch ---------------------------
(***************************************************************************)
(* What the batch managers of this repository promise: a batch has size *)
(* steps, completes them one at a time and only while it is running, and *)
(* is complete only when it has completed them all.  It may be paused, *)
(* resumed, aborted, started again, and its recipe may still grow. *)
(***************************************************************************)
EXTENDS Naturals

VARIABLES
  state,   \* of the batch
  place,   \* steps completed since the batch was started
  size     \* steps of the recipe

batch == <<state, place, size>>

Init == state = "IDLE" /\ place = 0 /\ size \in Nat

Start == state' = "RUNNING" /\ place' = 0 /\ UNCHANGED size

Advance ==
  /\ state = "RUNNING" /\ place < size
  /\ place' = place + 1 /\ UNCHANGED <<state, size>>

Finish ==
  /\ state = "RUNNING" /\ place = size
  /\ state' = "COMPLETE" /\ UNCHANGED <<place, size>>

Pause  == state = "RUNNING" /\ state' = "PAUSED" /\ UNCHANGED <<place, size>>

Resume == state = "PAUSED" /\ state' = "RUNNING" /\ UNCHANGED <<place, size>>

Abort  == state # "ABORTED" /\ state' = "ABORTED" /\ UNCHANGED <<place, size>>

Reset ==
  /\ state \in {"COMPLETE", "ABORTED", "PAUSED"}
  /\ state' = "IDLE" /\ UNCHANGED <<place, size>>

Extend == size' \in Nat /\ size' > size /\ UNCHANGED <<state, place>>

Next ==
  Start \/ Advance \/ Finish \/ Pause \/ Resume \/ Abort \/ Reset \/ Extend

Spec == Init /\ [][Next]_batch
=============================================================================
