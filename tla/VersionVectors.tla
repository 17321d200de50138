--------------------------- MODULE VersionVectors ---------------------------
(***************************************************************************)
(* The version vectors of state_sync.c: each controller of a redundant *)
(* group counts its own updates, sends its vector with its state, and *)
(* merges the vectors it receives.  The library leaves the sending to its *)
(* caller, so the network here loses, repeats and reorders vectors. *)
(* *)
(* `known` is not in the program: it is the set of updates whose effect a *)
(* controller has, what the vectors are meant to stand for. *)
(***************************************************************************)
EXTENDS Integers, FiniteSets

CONSTANTS
  NNodes,      \* n_nodes of every vector
  MaxUpdates,  \* bound: updates of one controller
  MaxWire      \* bound: vectors under way at a time

ASSUME VectorAssumption == NNodes \in Nat /\ MaxUpdates \in Nat /\ MaxWire \in Nat

Node == 0 .. NNodes - 1

Vector == [Node -> 0 .. MaxUpdates]

Update == Node \X (1 .. MaxUpdates)

VARIABLES
  version,  \* the vector of each controller
  known,    \* the updates each controller has
  wire      \* vectors under way, with the updates of the state they go with

vectorVars == <<version, known, wire>>

VectorTypeOK ==
  /\ version \in [Node -> Vector]
  /\ known \in [Node -> SUBSET Update]
  /\ wire \subseteq [version : Vector, known : SUBSET Update]

VectorInit ==
  /\ version = [n \in Node |-> [i \in Node |-> 0]]
  /\ known = [n \in Node |-> {}]
  /\ wire = {}

-----------------------------------------------------------------------------
(* Mutant: every vector is taken to be behind the one it is compared with *)
(* as soon as one component is. *)
compare_any(a, b) ==
  IF \E i \in Node : a[i] < b[i] THEN -1
  ELSE IF \E i \in Node : b[i] < a[i] THEN 1
  ELSE 0

(* state_sync_version_vector_compare: -1 before, 1 after, 0 otherwise. *)
version_vector_compare(a, b) ==
  LET before(x, y) == /\ \A i \in Node : x[i] <= y[i]
                      /\ \E i \in Node : x[i] < y[i]
  IN  IF before(a, b) THEN -1 ELSE IF before(b, a) THEN 1 ELSE 0

(* Mutant: the last vector received wins. *)
merge_by_copy(to, from) == from

version_vector_merge(to, from) ==
  [i \in Node |-> IF from[i] > to[i] THEN from[i] ELSE to[i]]

version_vector_increment(v, n) == [v EXCEPT ![n] = @ + 1]

-----------------------------------------------------------------------------
LocalUpdate(n) ==
  /\ version[n][n] < MaxUpdates
  /\ version' = [version EXCEPT ![n] = version_vector_increment(@, n)]
  /\ known' = [known EXCEPT ![n] = @ \cup {<<n, version[n][n] + 1>>}]
  /\ UNCHANGED wire

Send(n) ==
  /\ Cardinality(wire) < MaxWire
  /\ wire' = wire \cup {[version |-> version[n], known |-> known[n]]}
  /\ UNCHANGED <<version, known>>

(* The vector stays under way: it may arrive again. *)
Receive(n, m) ==
  /\ version' = [version EXCEPT ![n] = version_vector_merge(@, m.version)]
  /\ known' = [known EXCEPT ![n] = @ \cup m.known]
  /\ UNCHANGED wire

Lose(m) ==
  /\ wire' = wire \ {m}
  /\ UNCHANGED <<version, known>>

VectorNext ==
  \/ \E n \in Node : LocalUpdate(n) \/ Send(n) \/ \E m \in wire : Receive(n, m)
  \/ \E m \in wire : Lose(m)

VectorSpec == VectorInit /\ [][VectorNext]_vectorVars

-----------------------------------------------------------------------------
(* Comparing two vectors tells which of two controllers is behind: -1 *)
(* exactly when the first has a strict part of the updates of the second, *)
(* 1 the other way round, and 0 when they have the same updates or each *)
(* has one the other lacks (state_sync.h:225). *)
CompareIsInclusion ==
  \A m, n \in Node :
    LET order == version_vector_compare(version[m], version[n]) IN
    /\ (order = -1) <=> (known[m] \subseteq known[n] /\ known[m] # known[n])
    /\ (order = 1) <=> (known[n] \subseteq known[m] /\ known[m] # known[n])

(* What the comparison rests on: a vector on the wire or in a controller *)
(* says exactly which updates go with it, the first ones of each node, in *)
(* whatever order vectors arrive, are repeated or are lost. *)
Holds(v, updates) == updates = {u \in Update : u[2] <= v[u[1]]}

VectorsCountUpdates ==
  /\ \A n \in Node : Holds(version[n], known[n])
  /\ \A m \in wire : Holds(m.version, m.known)
=============================================================================
