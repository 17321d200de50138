----------------------------- MODULE StateSync ------------------------------
(***************************************************************************)
(* State synchronisation of a redundant controller pair (state_sync.c): *)
(* memory regions of the primary, a dirty flag for each, and four ways to *)
(* copy them to the secondary.  The application writes the primary's *)
(* memory and reports each write with state_sync_mark_dirty, as a separate *)
(* call; a transfer may come in between, and may fail half way when a *)
(* region does not fit the buffers it is given. *)
(* *)
(* A transfer is one call on one thread, so it is atomic here.  CRC-32 is *)
(* the operator Crc, with or without collisions.  Left out: the counters *)
(* and ratios that no guard reads, sequence_number and checksum (written, *)
(* never read) and consistency_verified (never written after the start). *)
(***************************************************************************)
EXTENDS Integers, Sequences

CONSTANTS
  MemSize,     \* bytes of controller memory in the model
  Byte,        \* values of a byte
  Candidates,  \* regions the application may register
  MaxRegions,  \* STATE_SYNC_MAX_REGIONS
  Sizes,       \* buffer sizes callers pass to a transfer
  Crc(_)       \* checksum of a sequence of bytes

Address == 0 .. MemSize - 1

(* The application registers regions of its own memory. *)
ASSUME SyncAssumption ==
  /\ MemSize \in Nat \ {0} /\ MaxRegions \in Nat
  /\ Candidates \subseteq
       {r \in [region_id : Nat, base : Address, size : 1 .. MemSize] :
          r.base + r.size <= MemSize}
  /\ Sizes \subseteq Nat

VARIABLES
  src,       \* the primary's memory
  dst,       \* the secondary's memory
  regions,   \* the registered regions, in the order of the array
  dirty,     \* the dirty flag of each, by position
  sync,      \* the state of the manager
  unmarked,  \* addresses written and not yet reported with mark_dirty
  copied     \* positions of the regions some transfer has gone through

syncVars == <<src, dst, regions, dirty, sync, unmarked, copied>>

SyncState == {"IDLE", "COMPLETE", "FAILED"}

Memory == [Address -> Byte]

SyncTypeOK ==
  /\ src \in Memory /\ dst \in Memory
  /\ regions \in Seq(Candidates) /\ Len(regions) <= MaxRegions
  /\ dirty \in [DOMAIN regions -> BOOLEAN]
  /\ sync \in SyncState
  /\ unmarked \subseteq Address
  /\ copied \subseteq DOMAIN regions

SyncInit ==
  /\ src \in Memory /\ dst \in Memory
  /\ regions = << >>
  /\ dirty = << >>
  /\ sync = "IDLE"
  /\ unmarked = {}
  /\ copied = {}

Cells(r) == r.base .. r.base + r.size - 1

Content(mem, r) == [k \in 1 .. r.size |-> mem[r.base + k - 1]]

-----------------------------------------------------------------------------
(* The application. *)

(* Identifiers are unique, which the header asks of the caller. *)
Register(r) ==
  /\ Len(regions) < MaxRegions
  /\ \A i \in DOMAIN regions : regions[i].region_id # r.region_id
  /\ regions' = Append(regions, r)
  /\ dirty' = Append(dirty, FALSE)
  /\ UNCHANGED <<src, dst, sync, unmarked, copied>>

Write(a, b) ==
  /\ src' = [src EXCEPT ![a] = b]
  /\ unmarked' = unmarked \cup {a}
  /\ UNCHANGED <<dst, regions, dirty, sync, copied>>

(* state_sync_mark_dirty: the first region with that identifier.  The *)
(* writes to it that the application made are reported from here on. *)
MarkDirty(i) ==
  /\ dirty' = [dirty EXCEPT ![i] = TRUE]
  /\ unmarked' = unmarked \ Cells(regions[i])
  /\ UNCHANGED <<src, dst, regions, sync, copied>>

-----------------------------------------------------------------------------
(* Transfers.  The loop goes through the regions in order and leaves with *)
(* FAILED at the first, among those it looks at, that does not fit. *)

(* Mutant: a region that ends where the buffer ends is taken not to fit. *)
FitsStrictly(r, size) == r.base + r.size < size

Fits(r, size) == r.base + r.size <= size

(* The regions handled before the failure, or all of them. *)
Handled(looked, size) ==
  {i \in looked : \A j \in looked : j <= i => Fits(regions[j], size)}

Copied(mem, r) ==
  [a \in Address |-> IF a \in Cells(r) THEN src[a] ELSE mem[a]]

Differs(mem, r) == Crc(Content(src, r)) # Crc(Content(mem, r))

(* The secondary's memory after the regions of done, in order; those that *)
(* overlap see what the ones before them copied.  With compare, a region *)
(* whose checksums agree is not copied. *)
CopyOf(done, compare) ==
  LET after[i \in 0 .. Len(regions)] ==
        IF i = 0 THEN dst
        ELSE IF i \in done /\ (compare => Differs(after[i - 1], regions[i]))
             THEN Copied(after[i - 1], regions[i])
             ELSE after[i - 1]
  IN  after[Len(regions)]

(* Mutant: the flags are cleared before the region is known to fit. *)
ClearThenTransfer(looked, compare, size) ==
  LET done == Handled(looked, size) IN
  /\ dst' = CopyOf(done, compare)
  /\ dirty' = [i \in DOMAIN regions |-> dirty[i] /\ i \notin looked]
  /\ copied' = copied \cup done
  /\ sync' = IF done = looked THEN "COMPLETE" ELSE "FAILED"
  /\ UNCHANGED <<src, regions, unmarked>>

Transfer(looked, compare, size) ==
  LET done == Handled(looked, size) IN
  /\ dst' = CopyOf(done, compare)
  /\ dirty' = [i \in DOMAIN regions |-> dirty[i] /\ i \notin done]
  /\ copied' = copied \cup done
  /\ sync' = IF done = looked THEN "COMPLETE" ELSE "FAILED"
  /\ UNCHANGED <<src, regions, unmarked>>

TotalSize ==
  LET sum[i \in 0 .. Len(regions)] ==
        IF i = 0 THEN 0 ELSE sum[i - 1] + regions[i].size
  IN  sum[Len(regions)]

(* A full transfer is refused, with no state changed, when the buffers are *)
(* smaller than the regions together. *)
FullTransfer(size) ==
  size >= TotalSize /\ Transfer(DOMAIN regions, FALSE, size)

IncrementalTransfer(size) ==
  Transfer({i \in DOMAIN regions : dirty[i]}, FALSE, size)

(* Mutant: only regions flagged dirty are compared. *)
ChecksumTransferOfDirty(size) ==
  Transfer({i \in DOMAIN regions : dirty[i]}, TRUE, size)

ChecksumTransfer(size) == Transfer(DOMAIN regions, TRUE, size)

(* Copying the bytes that differ, chunk by chunk, is copying the region. *)
DeltaTransfer(size) == Transfer(DOMAIN regions, FALSE, size)

verify_consistency(size) ==
  \A i \in DOMAIN regions : Fits(regions[i], size) /\ ~Differs(dst, regions[i])

SyncNext ==
  \/ \E r \in Candidates : Register(r)
  \/ \E a \in Address, b \in Byte : Write(a, b)
  \/ \E i \in DOMAIN regions : MarkDirty(i)
  \/ \E size \in Sizes : \/ FullTransfer(size) \/ IncrementalTransfer(size)
                         \/ ChecksumTransfer(size) \/ DeltaTransfer(size)

SyncSpec == SyncInit /\ [][SyncNext]_syncVars

(* The failover cycle calls the incremental transfer again and again, with *)
(* buffers that hold the whole memory. *)
SyncFairSpec == SyncSpec /\ WF_syncVars(IncrementalTransfer(MemSize))

-----------------------------------------------------------------------------
(* Once a transfer has gone through a region, a byte of it on which the *)
(* secondary is behind is one somebody still answers for: a write not yet *)
(* reported, or a region whose flag is up.  A transfer that fails half way *)
(* must therefore not lose the flags of the regions it did not reach *)
(* (state_sync.c:232-248, the early return inside the loop). *)
CleanMeansCopied ==
  \A i \in copied : \A a \in Cells(regions[i]) :
    src[a] # dst[a] =>
      \/ a \in unmarked
      \/ \E j \in DOMAIN regions : dirty[j] /\ a \in Cells(regions[j])

(* A transfer of every region that reports COMPLETE leaves a pair that *)
(* verify_consistency accepts with the same buffers: a step to a pair it *)
(* does not accept is no such transfer.  (With a checksum that collides *)
(* this needs regions that do not overlap: a region found equal by *)
(* collision is not copied, and a later one that overlaps it may then *)
(* change its checksum.) *)
CompleteTransferVerifies ==
  [][\A size \in Sizes :
       sync' = "COMPLETE" /\ ~ verify_consistency(size)' =>
         ~ (FullTransfer(size) \/ ChecksumTransfer(size) \/ DeltaTransfer(size))]_syncVars

(* A region reported dirty reaches the secondary, although transfers with *)
(* buffers too small for it keep failing in between: at some later moment *)
(* the two copies of the region are equal. *)
DirtyDrains ==
  \A i \in 1 .. MaxRegions :
    (i \in DOMAIN regions /\ dirty[i])
      ~> (i \in DOMAIN regions /\ Content(src, regions[i]) = Content(dst, regions[i]))
=============================================================================
