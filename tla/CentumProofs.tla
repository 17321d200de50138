---------------------------- MODULE CentumProofs ----------------------------
(***************************************************************************)
(* Theorems about the CENTUM VP station, for any tables of recipes, any *)
(* limits and any length of the log: a batch completes the places of its *)
(* recipe in their order and implements SequentialBatch; the log of the *)
(* redundant pair tells the truth; the function blocks move as configured. *)
(***************************************************************************)
EXTENDS MCCentum, InductionLemmas, SequenceTheorems, FiniteSetTheorems, TLAPS

-----------------------------------------------------------------------------
(* The places of a recipe. *)

Ups(c) == Procedures[c.procedure]
Ops(c) == UnitProcs[Ups(c)[c.unit_proc]]
Phs(c) == Operations[Ops(c)[c.operation]]

(* A place names a phase when no reference on the way to it dangles. *)
Names(c) ==
  /\ c.procedure \in DOMAIN Procedures
  /\ c.unit_proc \in Entries(Ups(c), UnitProcs)
  /\ c.operation \in Entries(Ops(c), Operations)
  /\ c.phase \in Entries(Phs(c), Phases)

LEMMA TableTypes ==
  /\ Procedures \in Seq(Seq(Index)) /\ UnitProcs \in Seq(Seq(Index))
  /\ Operations \in Seq(Seq(Index))
  /\ Phases \in Seq([max_duration_sec : Nat, requires_acknowledgment : BOOLEAN])
  /\ DOMAIN Procedures = 1 .. Len(Procedures) /\ DOMAIN UnitProcs = 1 .. Len(UnitProcs)
  /\ DOMAIN Operations = 1 .. Len(Operations) /\ DOMAIN Phases = 1 .. Len(Phases)
  /\ {Len(Procedures), Len(UnitProcs), Len(Operations), Len(Phases)} \subseteq Nat
BY TablesAssumption

LEMMA PhaseTypes ==
  \A i \in DOMAIN Phases :
    Phases[i] \in [max_duration_sec : Nat, requires_acknowledgment : BOOLEAN]
<1> DEFINE T == [max_duration_sec : Nat, requires_acknowledgment : BOOLEAN]
<1>1. Phases \in Seq(T)
  BY TablesAssumption
<1> HIDE DEF T
<1>2. \A i \in DOMAIN Phases : Phases[i] \in T
  BY <1>1
<1> QED BY <1>2 DEF T

(* The lists on the way to a place that is in range. *)
LEMMA ListTypes ==
  ASSUME NEW c \in Place, c.procedure \in DOMAIN Procedures
  PROVE  /\ Ups(c) \in Seq(Index)
         /\ c.unit_proc \in Entries(Ups(c), UnitProcs) =>
              /\ Ops(c) \in Seq(Index)
              /\ c.operation \in Entries(Ops(c), Operations) => Phs(c) \in Seq(Index)
BY SMTT(30), TableTypes DEF Ups, Ops, Phs, Entries

(* AllPlaces level by level. *)
PhasePlaces(p, u, o) ==
  {[procedure |-> p, unit_proc |-> u, operation |-> o, phase |-> f] :
     f \in Entries(Operations[UnitProcs[Procedures[p][u]][o]], Phases)}
OperationPlaces(p, u) ==
  UNION {PhasePlaces(p, u, o) : o \in Entries(UnitProcs[Procedures[p][u]], Operations)}
UnitPlaces(p) == UNION {OperationPlaces(p, u) : u \in Entries(Procedures[p], UnitProcs)}

LEMMA Levels == AllPlaces = UNION {UnitPlaces(p) : p \in DOMAIN Procedures}
BY DEF AllPlaces, UnitPlaces, OperationPlaces, PhasePlaces

LEMMA PlacesAre == \A c : c \in AllPlaces <=> c \in Place /\ Names(c)
<1> TAKE c
<1>1. ASSUME c \in AllPlaces PROVE c \in Place /\ Names(c)
  <2>1. PICK p \in DOMAIN Procedures : c \in UnitPlaces(p)
    BY <1>1, Levels
  <2>2. PICK u \in Entries(Procedures[p], UnitProcs) : c \in OperationPlaces(p, u)
    BY <2>1 DEF UnitPlaces
  <2>3. PICK o \in Entries(UnitProcs[Procedures[p][u]], Operations) : c \in PhasePlaces(p, u, o)
    BY <2>2 DEF OperationPlaces
  <2>4. PICK f \in Entries(Operations[UnitProcs[Procedures[p][u]][o]], Phases) :
          c = [procedure |-> p, unit_proc |-> u, operation |-> o, phase |-> f]
    BY <2>3 DEF PhasePlaces
  <2>5. /\ c.procedure = p /\ c.unit_proc = u /\ c.operation = o /\ c.phase = f
        /\ Ups(c) = Procedures[p] /\ Ops(c) = UnitProcs[Procedures[p][u]]
        /\ Phs(c) = Operations[UnitProcs[Procedures[p][u]][o]]
    BY <2>4 DEF Ups, Ops, Phs
  <2>6. Names(c)
    BY <2>5 DEF Names
  <2>7. p \in Index
    BY SMTT(30), TableTypes DEF Index
  <2>8. Procedures[p] \in Seq(Index)
    BY TableTypes
  <2>9. u \in Index /\ Procedures[p][u] \in DOMAIN UnitProcs
    BY <2>8 DEF Entries, Index
  <2>10. UnitProcs[Procedures[p][u]] \in Seq(Index)
    BY <2>9, TableTypes
  <2>11. o \in Index /\ UnitProcs[Procedures[p][u]][o] \in DOMAIN Operations
    BY <2>10 DEF Entries, Index
  <2>12. Operations[UnitProcs[Procedures[p][u]][o]] \in Seq(Index)
    BY <2>11, TableTypes
  <2>13. f \in Index
    BY <2>12 DEF Entries, Index
  <2>14. c \in Place
    BY <2>4, <2>7, <2>9, <2>11, <2>13 DEF Place
  <2> QED BY <2>6, <2>14
<1>2. ASSUME c \in Place, Names(c) PROVE c \in AllPlaces
  <2>1. c = [procedure |-> c.procedure, unit_proc |-> c.unit_proc,
             operation |-> c.operation, phase |-> c.phase]
    BY <1>2 DEF Place
  <2>2. c \in PhasePlaces(c.procedure, c.unit_proc, c.operation)
    BY <1>2, <2>1 DEF Names, Phs, Ops, Ups, PhasePlaces
  <2>3. c \in OperationPlaces(c.procedure, c.unit_proc)
    BY <1>2, <2>2 DEF Names, Ops, Ups, OperationPlaces
  <2>4. c \in UnitPlaces(c.procedure)
    BY <1>2, <2>3 DEF Names, Ups, UnitPlaces
  <2> QED BY <1>2, <2>4, Levels DEF Names
<1> QED BY <1>1, <1>2

LEMMA EntriesFinite ==
  ASSUME NEW list, NEW T, list \in Seq(T), NEW table
  PROVE  IsFiniteSet(Entries(list, table))
<1>1. IsFiniteSet(1 .. Len(list)) /\ DOMAIN list = 1 .. Len(list)
  BY FS_Interval
<1>2. Entries(list, table) \in SUBSET (1 .. Len(list))
  BY <1>1 DEF Entries
<1> QED BY <1>1, <1>2, FS_Subset

(* A recipe has a finite number of places. *)
LEMMA PlacesFinite == IsFiniteSet(AllPlaces)
<1>1. ASSUME NEW p \in DOMAIN Procedures, NEW u \in Entries(Procedures[p], UnitProcs),
             NEW o \in Entries(UnitProcs[Procedures[p][u]], Operations)
      PROVE  IsFiniteSet(PhasePlaces(p, u, o))
  <2> DEFINE S == Entries(Operations[UnitProcs[Procedures[p][u]][o]], Phases)
             f == [x \in S |-> [procedure |-> p, unit_proc |-> u, operation |-> o, phase |-> x]]
  <2>1. Procedures[p] \in Seq(Index)
    BY TableTypes
  <2>2. UnitProcs[Procedures[p][u]] \in Seq(Index)
    BY TableTypes DEF Entries
  <2>3. Operations[UnitProcs[Procedures[p][u]][o]] \in Seq(Index)
    BY TableTypes DEF Entries
  <2>4. IsFiniteSet(S)
    BY <2>3, EntriesFinite
  <2>5. PhasePlaces(p, u, o) = {f[x] : x \in S} /\ f = [x \in S |-> f[x]]
    BY DEF PhasePlaces
  <2> HIDE DEF S, f
  <2> QED BY <2>4, <2>5, FiniteImage
<1>2. ASSUME NEW p \in DOMAIN Procedures, NEW u \in Entries(Procedures[p], UnitProcs)
      PROVE  IsFiniteSet(OperationPlaces(p, u))
  <2> DEFINE S == Entries(UnitProcs[Procedures[p][u]], Operations)
             f == [x \in S |-> PhasePlaces(p, u, x)]
  <2>1. UnitProcs[Procedures[p][u]] \in Seq(Index)
    BY TableTypes DEF Entries
  <2>2. IsFiniteSet(S)
    BY <2>1, EntriesFinite
  <2>3. /\ OperationPlaces(p, u) = UNION {f[x] : x \in S} /\ f = [x \in S |-> f[x]]
        /\ \A x \in S : IsFiniteSet(f[x])
    BY <1>1 DEF OperationPlaces
  <2> HIDE DEF S, f
  <2> QED BY <2>2, <2>3, FiniteUnion
<1>3. ASSUME NEW p \in DOMAIN Procedures PROVE IsFiniteSet(UnitPlaces(p))
  <2> DEFINE S == Entries(Procedures[p], UnitProcs)
             f == [x \in S |-> OperationPlaces(p, x)]
  <2>1. Procedures[p] \in Seq(Index)
    BY TableTypes
  <2>2. IsFiniteSet(S)
    BY <2>1, EntriesFinite
  <2>3. /\ UnitPlaces(p) = UNION {f[x] : x \in S} /\ f = [x \in S |-> f[x]]
        /\ \A x \in S : IsFiniteSet(f[x])
    BY <1>2 DEF UnitPlaces
  <2> HIDE DEF S, f
  <2> QED BY <2>2, <2>3, FiniteUnion
<1> DEFINE S == DOMAIN Procedures
           f == [x \in S |-> UnitPlaces(x)]
<1>4. IsFiniteSet(S)
  <2>1. S = 1 .. Len(Procedures) /\ 1 \in Int /\ Len(Procedures) \in Int
    BY TableTypes
  <2> HIDE DEF S
  <2> QED BY <2>1, FS_Interval
<1>5. /\ AllPlaces = UNION {f[x] : x \in S} /\ f = [x \in S |-> f[x]]
      /\ \A x \in S : IsFiniteSet(f[x])
  BY <1>3, Levels
<1> HIDE DEF S, f
<1> QED BY <1>4, <1>5, FiniteUnion

(* The test of the scan, with the lists named. *)
LEMMA MovedIs ==
  ASSUME NEW c
  PROVE  moved(c) =
           IF c.unit_proc > Len(Ups(c)) THEN next_procedure(c)
           ELSE IF Ups(c)[c.unit_proc] > Len(UnitProcs) THEN [c EXCEPT !.unit_proc = @ + 1]
           ELSE IF c.operation > Len(Ops(c)) THEN next_unit_proc(c)
           ELSE IF Ops(c)[c.operation] > Len(Operations) THEN [c EXCEPT !.operation = @ + 1]
           ELSE IF c.phase > Len(Phs(c)) THEN next_operation(c)
           ELSE IF Phs(c)[c.phase] > Len(Phases) THEN [c EXCEPT !.phase = @ + 1]
           ELSE c
BY DEF moved, Ups, Ops, Phs

(* m is the place with the indices p, u, o and f. *)
GoesTo(m, p, u, o, f) ==
  m \in Place /\ m.procedure = p /\ m.unit_proc = u /\ m.operation = o /\ m.phase = f

LEMMA IndicesAre ==
  \A c \in Place : /\ c.procedure \in Nat /\ c.unit_proc \in Nat /\ c.operation \in Nat
                   /\ c.phase \in Nat /\ c.procedure >= 1 /\ c.unit_proc >= 1
                   /\ c.operation >= 1 /\ c.phase >= 1
BY DEF Place, Index

(* What the moves do to the four indices. *)
LEMMA MovesAre ==
  ASSUME NEW c \in Place
  PROVE  /\ GoesTo(next_procedure(c), c.procedure + 1, 1, 1, 1)
         /\ GoesTo(next_unit_proc(c), c.procedure, c.unit_proc + 1, 1, 1)
         /\ GoesTo(next_operation(c), c.procedure, c.unit_proc, c.operation + 1, 1)
         /\ GoesTo([c EXCEPT !.unit_proc = @ + 1],
                   c.procedure, c.unit_proc + 1, c.operation, c.phase)
         /\ GoesTo([c EXCEPT !.operation = @ + 1],
                   c.procedure, c.unit_proc, c.operation + 1, c.phase)
         /\ GoesTo([c EXCEPT !.phase = @ + 1],
                   c.procedure, c.unit_proc, c.operation, c.phase + 1)
         /\ {c.procedure, c.unit_proc, c.operation, c.phase} \subseteq Nat
         /\ c.procedure > 0 /\ c.unit_proc > 0 /\ c.operation > 0 /\ c.phase > 0
<1>1. /\ c.procedure \in Index /\ c.unit_proc \in Index /\ c.operation \in Index /\ c.phase \in Index
      /\ 1 \in Index /\ \A i \in Index : i + 1 \in Index /\ i \in Nat /\ i > 0
  BY DEF Place, Index
<1>2. GoesTo(next_procedure(c), c.procedure + 1, 1, 1, 1)
  BY <1>1 DEF GoesTo, Place, next_procedure, FirstPlace
<1>3. GoesTo(next_unit_proc(c), c.procedure, c.unit_proc + 1, 1, 1)
  BY <1>1 DEF GoesTo, Place, next_unit_proc
<1>4. GoesTo(next_operation(c), c.procedure, c.unit_proc, c.operation + 1, 1)
  BY <1>1 DEF GoesTo, Place, next_operation
<1>5. GoesTo([c EXCEPT !.unit_proc = @ + 1], c.procedure, c.unit_proc + 1, c.operation, c.phase)
  BY <1>1 DEF GoesTo, Place
<1>6. GoesTo([c EXCEPT !.operation = @ + 1], c.procedure, c.unit_proc, c.operation + 1, c.phase)
  BY <1>1 DEF GoesTo, Place
<1>7. GoesTo([c EXCEPT !.phase = @ + 1], c.procedure, c.unit_proc, c.operation, c.phase + 1)
  BY <1>1 DEF GoesTo, Place
<1> QED BY <1>1, <1>2, <1>3, <1>4, <1>5, <1>6, <1>7

(* How far the references of a place lead: so many levels are in range. *)
Reaches(c, level) ==
  /\ level > 0 => c.unit_proc <= Len(Ups(c))
  /\ level > 1 => Ups(c)[c.unit_proc] <= Len(UnitProcs)
  /\ level > 2 => c.operation <= Len(Ops(c))
  /\ level > 3 => Ops(c)[c.operation] <= Len(Operations)
  /\ level > 4 => c.phase <= Len(Phs(c))
  /\ level > 5 => Phs(c)[c.phase] <= Len(Phases)

(* The comparisons are between numbers as far as the references lead. *)
LEMMA ReachTypes ==
  ASSUME NEW c \in Place, c.procedure <= Len(Procedures)
  PROVE  /\ c.procedure \in DOMAIN Procedures
         /\ Ups(c) \in Seq(Index) /\ Len(Ups(c)) \in Nat
         /\ Reaches(c, 1) => c.unit_proc \in DOMAIN Ups(c) /\ Ups(c)[c.unit_proc] \in Index
         /\ Reaches(c, 2) => /\ c.unit_proc \in Entries(Ups(c), UnitProcs)
                             /\ Ops(c) \in Seq(Index) /\ Len(Ops(c)) \in Nat
         /\ Reaches(c, 3) => c.operation \in DOMAIN Ops(c) /\ Ops(c)[c.operation] \in Index
         /\ Reaches(c, 4) => /\ c.operation \in Entries(Ops(c), Operations)
                             /\ Phs(c) \in Seq(Index) /\ Len(Phs(c)) \in Nat
         /\ Reaches(c, 5) => c.phase \in DOMAIN Phs(c) /\ Phs(c)[c.phase] \in Index
         /\ Reaches(c, 6) => c.phase \in Entries(Phs(c), Phases)
<1>0. /\ {c.procedure, c.unit_proc, c.operation, c.phase} \subseteq Nat
      /\ c.procedure > 0 /\ c.unit_proc > 0 /\ c.operation > 0 /\ c.phase > 0
  BY MovesAre
<1>1. c.procedure \in DOMAIN Procedures
  BY <1>0, TableTypes
<1>2. Ups(c) \in Seq(Index) /\ Len(Ups(c)) \in Nat
  BY <1>1, ListTypes
<1>3. ASSUME Reaches(c, 1) PROVE c.unit_proc \in DOMAIN Ups(c) /\ Ups(c)[c.unit_proc] \in Index
  BY <1>0, <1>2, <1>3 DEF Reaches
<1>4. ASSUME Reaches(c, 2)
      PROVE  /\ Reaches(c, 1) /\ c.unit_proc \in Entries(Ups(c), UnitProcs)
             /\ Ops(c) \in Seq(Index) /\ Len(Ops(c)) \in Nat
  <2>1. Reaches(c, 1)
    BY <1>4 DEF Reaches
  <2>2. c.unit_proc \in Entries(Ups(c), UnitProcs)
    BY <1>3, <1>4, <2>1, TableTypes DEF Entries, Index, Reaches
  <2>3. Ops(c) \in Seq(Index)
    BY <1>1, <2>2, ListTypes
  <2> QED BY <2>1, <2>2, <2>3
<1>5. ASSUME Reaches(c, 3)
      PROVE  /\ Reaches(c, 2)
             /\ c.operation \in DOMAIN Ops(c) /\ Ops(c)[c.operation] \in Index
  <2>1. Reaches(c, 2)
    BY <1>5 DEF Reaches
  <2> QED BY <1>0, <1>4, <1>5, <2>1 DEF Reaches
<1>6. ASSUME Reaches(c, 4)
      PROVE  /\ Reaches(c, 3) /\ c.operation \in Entries(Ops(c), Operations)
             /\ Phs(c) \in Seq(Index) /\ Len(Phs(c)) \in Nat
  <2>1. Reaches(c, 3)
    BY <1>6 DEF Reaches
  <2>2. c.operation \in Entries(Ops(c), Operations)
    BY <1>5, <1>6, <2>1, TableTypes DEF Entries, Index, Reaches
  <2>3. Phs(c) \in Seq(Index)
    BY <1>1, <1>4, <1>5, <2>1, <2>2, ListTypes
  <2> QED BY <2>1, <2>2, <2>3
<1>7. ASSUME Reaches(c, 5)
      PROVE  /\ Reaches(c, 4)
             /\ c.phase \in DOMAIN Phs(c) /\ Phs(c)[c.phase] \in Index
  <2>1. Reaches(c, 4)
    BY <1>7 DEF Reaches
  <2> QED BY <1>0, <1>6, <1>7, <2>1 DEF Reaches
<1>8. ASSUME Reaches(c, 6) PROVE c.phase \in Entries(Phs(c), Phases)
  <2>1. Reaches(c, 5)
    BY <1>8 DEF Reaches
  <2> QED BY <1>7, <1>8, <2>1, TableTypes DEF Entries, Index, Reaches
<1> QED BY <1>1, <1>2, <1>3, <1>4, <1>5, <1>6, <1>7, <1>8

(* Which move a scan makes, by how far the references lead. *)
LEMMA MoveByReach ==
  ASSUME NEW c \in Place, c.procedure <= Len(Procedures)
  PROVE  \/ /\ ~ Reaches(c, 1)
            /\ GoesTo(moved(c), c.procedure + 1, 1, 1, 1)
         \/ /\ Reaches(c, 1) /\ ~ Reaches(c, 2)
            /\ GoesTo(moved(c), c.procedure, c.unit_proc + 1, c.operation, c.phase)
         \/ /\ Reaches(c, 2) /\ ~ Reaches(c, 3)
            /\ GoesTo(moved(c), c.procedure, c.unit_proc + 1, 1, 1)
         \/ /\ Reaches(c, 3) /\ ~ Reaches(c, 4)
            /\ GoesTo(moved(c), c.procedure, c.unit_proc, c.operation + 1, c.phase)
         \/ /\ Reaches(c, 4) /\ ~ Reaches(c, 5)
            /\ GoesTo(moved(c), c.procedure, c.unit_proc, c.operation + 1, 1)
         \/ /\ Reaches(c, 5) /\ ~ Reaches(c, 6)
            /\ GoesTo(moved(c), c.procedure, c.unit_proc, c.operation, c.phase + 1)
         \/ Reaches(c, 6) /\ moved(c) = c
<1>0. {c.procedure, c.unit_proc, c.operation, c.phase} \subseteq Nat
  BY MovesAre
<1>1. Reaches(c, 1) <=> ~ c.unit_proc > Len(Ups(c))
  BY <1>0, ReachTypes DEF Reaches
<1>2. Reaches(c, 1) => (Reaches(c, 2) <=> ~ Ups(c)[c.unit_proc] > Len(UnitProcs))
  BY TableTypes, ReachTypes DEF Reaches, Index
<1>3. Reaches(c, 2) => (Reaches(c, 3) <=> ~ c.operation > Len(Ops(c)))
  BY <1>0, ReachTypes DEF Reaches
<1>4. Reaches(c, 3) => (Reaches(c, 4) <=> ~ Ops(c)[c.operation] > Len(Operations))
  <2> HAVE Reaches(c, 3)
  <2>1. Ops(c)[c.operation] \in Nat /\ Len(Operations) \in Nat
    BY TableTypes, ReachTypes DEF Index
  <2>2. Reaches(c, 4) <=> Ops(c)[c.operation] <= Len(Operations)
    BY DEF Reaches
  <2> QED BY <2>1, <2>2
<1>5. Reaches(c, 4) => (Reaches(c, 5) <=> ~ c.phase > Len(Phs(c)))
  BY <1>0, ReachTypes DEF Reaches
<1>6. Reaches(c, 5) => (Reaches(c, 6) <=> ~ Phs(c)[c.phase] > Len(Phases))
  <2> HAVE Reaches(c, 5)
  <2>1. Phs(c)[c.phase] \in Nat /\ Len(Phases) \in Nat
    BY TableTypes, ReachTypes DEF Index
  <2>2. Reaches(c, 6) <=> Phs(c)[c.phase] <= Len(Phases)
    BY DEF Reaches
  <2> QED BY <2>1, <2>2
<1>7. /\ Reaches(c, 6) => Reaches(c, 5)
      /\ Reaches(c, 5) => Reaches(c, 4)
      /\ Reaches(c, 4) => Reaches(c, 3)
      /\ Reaches(c, 3) => Reaches(c, 2)
      /\ Reaches(c, 2) => Reaches(c, 1)
  BY DEF Reaches
<1> QED BY <1>1, <1>2, <1>3, <1>4, <1>5, <1>6, <1>7, MovedIs, MovesAre

(* A scan that does not move the indices has found a phase. *)
LEMMA StaysOnPhase ==
  ASSUME NEW c \in Place, c.procedure <= Len(Procedures), moved(c) = c
  PROVE  Reaches(c, 6) /\ Names(c) /\ phase_at(c) \in DOMAIN Phases
<1>0. {c.procedure, c.unit_proc, c.operation, c.phase} \subseteq Nat
  BY MovesAre
<1>1. Reaches(c, 6)
  BY <1>0, MoveByReach DEF GoesTo
<1>2. Reaches(c, 2) /\ Reaches(c, 4)
  BY <1>1 DEF Reaches
<1>3. Names(c)
  BY <1>1, <1>2, ReachTypes DEF Names
<1> QED BY <1>1, <1>3 DEF Names, Entries, phase_at, Phs, Ops, Ups

(* An index goes up only below an entry that does not dangle.  Without *)
(* this, skipping a dangling entry would skip the places of the next one, *)
(* since the indices below are left where they are. *)
Settled(c) ==
  c.procedure <= Len(Procedures) =>
    (c.operation > 1 => Reaches(c, 2)) /\ (c.phase > 1 => Reaches(c, 4))

LEMMA SettledByIndices ==
  ASSUME NEW c \in Place, NEW m \in Place, m.procedure = c.procedure, m.unit_proc = c.unit_proc
  PROVE  /\ Reaches(m, 2) <=> Reaches(c, 2)
         /\ m.operation = c.operation => (Reaches(m, 4) <=> Reaches(c, 4))
BY DEF Reaches, Ups, Ops

(* One that moves them passes over no place that names a phase. *)
LEMMA MovePassesNothing ==
  ASSUME NEW c \in Place, c.procedure <= Len(Procedures), moved(c) # c, Settled(c)
  PROVE  /\ moved(c) \in Place /\ Settled(moved(c))
         /\ \A d \in AllPlaces : Before(d, moved(c)) <=> Before(d, c)
<1>0. /\ c.procedure \in Nat /\ c.unit_proc \in Nat /\ c.operation \in Nat /\ c.phase \in Nat
      /\ c.procedure > 0 /\ c.unit_proc > 0 /\ c.operation > 0 /\ c.phase > 0
  BY DEF Place, Index
<1>1. \A d \in AllPlaces :
        /\ d.procedure \in Nat /\ d.unit_proc \in Nat /\ d.operation \in Nat /\ d.phase \in Nat
        /\ d.procedure > 0 /\ d.unit_proc > 0 /\ d.operation > 0 /\ d.phase > 0
        /\ Names(d)
  BY PlacesAre DEF Place, Index
(* A place that names a phase agrees with c as far as they have the same indices. *)
<1>2. \A d \in AllPlaces :
        d.procedure = c.procedure =>
          /\ Reaches(c, 1) \/ d.unit_proc < c.unit_proc
          /\ d.unit_proc = c.unit_proc =>
               /\ Reaches(c, 2)
               /\ Reaches(c, 3) \/ d.operation < c.operation
               /\ d.operation = c.operation =>
                    /\ Reaches(c, 4)
                    /\ Reaches(c, 5) \/ d.phase < c.phase
                    /\ d.phase = c.phase => Reaches(c, 6)
  <2> SUFFICES ASSUME NEW d \in AllPlaces, d.procedure = c.procedure
               PROVE  /\ Reaches(c, 1) \/ d.unit_proc < c.unit_proc
                      /\ d.unit_proc = c.unit_proc =>
                           /\ Reaches(c, 2)
                           /\ Reaches(c, 3) \/ d.operation < c.operation
                           /\ d.operation = c.operation =>
                                /\ Reaches(c, 4)
                                /\ Reaches(c, 5) \/ d.phase < c.phase
                                /\ d.phase = c.phase => Reaches(c, 6)
    OBVIOUS
  <2>0. Names(d) /\ Ups(d) = Ups(c)
    BY <1>1 DEF Ups
  <2>1. Reaches(c, 1) \/ d.unit_proc < c.unit_proc
    BY <1>0, <1>1, <2>0, ReachTypes DEF Names, Entries, Reaches
  <2>2. ASSUME d.unit_proc = c.unit_proc
        PROVE  Reaches(c, 2) /\ Ops(d) = Ops(c)
    <3>1. Ops(d) = Ops(c)
      BY <2>0, <2>2 DEF Ops
    <3> QED BY <1>0, <2>0, <2>1, <2>2, <3>1, TableTypes, ReachTypes DEF Names, Entries, Reaches
  <2>3. ASSUME d.unit_proc = c.unit_proc
        PROVE  Reaches(c, 3) \/ d.operation < c.operation
    BY <1>0, <1>1, <2>0, <2>2, <2>3, ReachTypes DEF Names, Entries, Reaches
  <2>4. ASSUME d.unit_proc = c.unit_proc, d.operation = c.operation
        PROVE  Reaches(c, 4) /\ Phs(d) = Phs(c)
    <3>1. Phs(d) = Phs(c)
      BY <2>2, <2>4 DEF Phs
    <3> QED BY <1>0, <2>0, <2>2, <2>3, <2>4, <3>1, TableTypes, ReachTypes DEF Names, Entries, Reaches
  <2>5. ASSUME d.unit_proc = c.unit_proc, d.operation = c.operation
        PROVE  Reaches(c, 5) \/ d.phase < c.phase
    BY <1>0, <1>1, <2>0, <2>4, <2>5, ReachTypes DEF Names, Entries, Reaches
  <2>6. ASSUME d.unit_proc = c.unit_proc, d.operation = c.operation, d.phase = c.phase
        PROVE  Reaches(c, 6)
    BY <1>0, <2>0, <2>4, <2>5, <2>6, TableTypes, ReachTypes DEF Names, Entries, Reaches
  <2> QED BY <2>1, <2>2, <2>3, <2>4, <2>5, <2>6
<1>3. /\ Reaches(c, 6) => Reaches(c, 5)
      /\ Reaches(c, 5) => Reaches(c, 4)
      /\ Reaches(c, 4) => Reaches(c, 3)
      /\ Reaches(c, 3) => Reaches(c, 2)
      /\ Reaches(c, 2) => Reaches(c, 1)
  BY DEF Reaches
<1>4. PICK m : m = moved(c)
  OBVIOUS
<1>5. m \in Place
  BY <1>4, MoveByReach DEF GoesTo
<1>6. /\ ~ Reaches(c, 2) => c.operation = 1 /\ c.phase = 1
      /\ ~ Reaches(c, 4) => c.phase = 1
  BY <1>0, <1>3 DEF Settled
<1>7. ASSUME NEW d \in AllPlaces PROVE Before(d, m) <=> Before(d, c)
  <2>1. CASE ~ Reaches(c, 1)
    BY SMTT(30), <1>0, <1>1, <1>2, <1>3, <1>4, <2>1, MoveByReach DEF Before, GoesTo
  <2>2. CASE Reaches(c, 1) /\ ~ Reaches(c, 2)
    <3>1. GoesTo(m, c.procedure, c.unit_proc + 1, 1, 1)
      BY <1>3, <1>4, <1>6, <2>2, MoveByReach
    <3> QED BY <1>0, <1>1, <1>2, <2>2, <3>1 DEF Before, GoesTo
  <2>3. CASE Reaches(c, 2) /\ ~ Reaches(c, 3)
    <3>1. GoesTo(m, c.procedure, c.unit_proc + 1, 1, 1)
      BY <1>3, <1>4, <2>3, MoveByReach
    <3> QED BY <1>0, <1>1, <1>2, <2>3, <3>1 DEF Before, GoesTo
  <2>4. CASE Reaches(c, 3) /\ ~ Reaches(c, 4)
    <3>1. GoesTo(m, c.procedure, c.unit_proc, c.operation + 1, 1)
      BY <1>3, <1>4, <1>6, <2>4, MoveByReach
    <3> QED BY <1>0, <1>1, <1>2, <2>4, <3>1 DEF Before, GoesTo
  <2>5. CASE Reaches(c, 4) /\ ~ Reaches(c, 5)
    <3>1. GoesTo(m, c.procedure, c.unit_proc, c.operation + 1, 1)
      BY <1>3, <1>4, <2>5, MoveByReach
    <3> QED BY <1>0, <1>1, <1>2, <2>5, <3>1 DEF Before, GoesTo
  <2>6. CASE Reaches(c, 5)
    BY SMTT(30), <1>0, <1>1, <1>2, <1>3, <1>4, <2>6, MoveByReach DEF Before, GoesTo
  <2> QED BY <2>1, <2>2, <2>3, <2>4, <2>5, <2>6, <1>3
<1>8. Settled(m)
  <2>1. CASE ~ Reaches(c, 3)
    <3>1. m.operation = 1 /\ m.phase = 1
      BY <1>3, <1>4, <1>6, <2>1, MoveByReach DEF GoesTo
    <3> QED BY <3>1 DEF Settled
  <2>2. CASE Reaches(c, 3) /\ ~ Reaches(c, 5)
    <3>1. m.procedure = c.procedure /\ m.unit_proc = c.unit_proc /\ m.phase = 1
      BY <1>3, <1>4, <1>6, <2>2, MoveByReach DEF GoesTo
    <3>2. Reaches(m, 2)
      BY <1>3, <1>5, <2>2, <3>1, SettledByIndices
    <3> QED BY <3>1, <3>2 DEF Settled
  <2>3. CASE Reaches(c, 5)
    <3>1. /\ m.procedure = c.procedure /\ m.unit_proc = c.unit_proc
          /\ m.operation = c.operation
      BY <1>3, <1>4, <2>3, MoveByReach DEF GoesTo
    <3> QED BY <1>3, <1>5, <2>3, <3>1, SettledByIndices DEF Settled
  <2> QED BY <2>1, <2>2, <2>3
<1> QED BY <1>4, <1>5, <1>7, <1>8

-----------------------------------------------------------------------------
(* The invariant of the batch manager and its steps. *)

BatchInv == BatchTypeOK /\ Settled(cursor) /\ SequentialExecution /\ AcknowledgedOnce

PhaseRecord == [elapsed_sec : Nat, complete : BOOLEAN, acknowledged : BOOLEAN]

LEMMA FirstPlaceIs ==
  /\ FirstPlace \in Place /\ Settled(FirstPlace)
  /\ \A d \in AllPlaces : ~ Before(d, FirstPlace)
<1>1. FirstPlace \in Place /\ Settled(FirstPlace)
  BY DEF FirstPlace, Place, Index, Settled
<1>2. ASSUME NEW d \in AllPlaces PROVE ~ Before(d, FirstPlace)
  <2>1. d \in Place
    BY PlacesAre
  <2> QED BY <2>1, IndicesAre DEF Before, FirstPlace
<1> QED BY <1>1, <1>2

(* progress_percent counts at most every phase. *)
LEMMA ProgressIsBounded == ASSUME NEW ps PROVE progress_of(ps) \in 0 .. Len(Phases)
<1> DEFINE S == {j \in DOMAIN Phases : ps[j].complete}
<1>1. /\ IsFiniteSet(DOMAIN Phases) /\ Cardinality(DOMAIN Phases) = Len(Phases)
      /\ Len(Phases) \in Nat
  <2>1. DOMAIN Phases = 1 .. Len(Phases) /\ Len(Phases) \in Nat
    BY TableTypes
  <2>2. ASSUME NEW n \in Nat PROVE IsFiniteSet(1 .. n) /\ Cardinality(1 .. n) = n
    <3>1. 1 \in Int /\ n \in Int
      OBVIOUS
    <3>2. IsFiniteSet(1 .. n) /\ Cardinality(1 .. n) = IF 1 > n THEN 0 ELSE n - 1 + 1
      BY <3>1, FS_Interval
    <3> QED BY <3>2
  <2> QED BY <2>1, <2>2
<1>2. S \in SUBSET DOMAIN Phases
  OBVIOUS
<1>3. IsFiniteSet(S) /\ Cardinality(S) <= Cardinality(DOMAIN Phases)
  <2> HIDE DEF S
  <2> QED BY <1>1, <1>2, FS_Subset
<1>4. Cardinality(S) \in Nat
  <2> HIDE DEF S
  <2> QED BY <1>3, FS_CardinalityType
<1> QED BY <1>1, <1>3, <1>4 DEF progress_of

LEMMA BatchInit == Init => BatchInv
<1> SUFFICES ASSUME Init PROVE BatchInv
  OBVIOUS
<1>1. Len(Phases) \in Nat /\ MaxBatches \in Nat
  BY TableTypes, TablesAssumption
<1>2. BatchTypeOK
  BY <1>1, FirstPlaceIs DEF Init, BatchTypeOK, BatchState
<1>3. SequentialExecution
  BY FirstPlaceIs DEF Init, SequentialExecution
<1>4. AcknowledgedOnce
  BY DEF Init, AcknowledgedOnce
<1> QED BY <1>2, <1>3, <1>4, FirstPlaceIs DEF Init, BatchInv

(* Whatever is done to the indices and the phases, acknowledgements stay. *)
LEMMA BatchFrame ==
  ASSUME BatchInv,
         state' \in BatchState, pending' \in {"START", "HOLD", "STOP", "ABORT", "RESTART"},
         done' \in 0 .. Len(Phases), batches' \in 0 .. MaxBatches,
         phase' \in [DOMAIN Phases -> PhaseRecord],
         \A i \in DOMAIN Phases : phase[i].acknowledged => phase'[i].acknowledged,
         cursor' \in Place, Settled(cursor'),
         \/ passed' = {} /\ \A d \in AllPlaces : ~ Before(d, cursor')
         \/ passed' = passed /\ \A d \in AllPlaces : Before(d, cursor') <=> Before(d, cursor)
         \/ /\ passed' = passed \cup {cursor} /\ cursor \in AllPlaces
            /\ Phases[phase_at(cursor)].requires_acknowledgment
                 => phase[phase_at(cursor)].acknowledged
            /\ \A d \in AllPlaces : Before(d, cursor') <=> Before(d, cursor) \/ d = cursor
  PROVE  BatchInv'
<1>1. passed' = {d \in AllPlaces : Before(d, cursor')}
  BY DEF BatchInv, SequentialExecution
<1>2. passed' \subseteq AllPlaces /\ AllPlaces \subseteq Place
  BY <1>1, PlacesAre
<1>3. BatchTypeOK'
  BY <1>2 DEF BatchTypeOK, PhaseRecord
<1>4. AcknowledgedOnce'
  <2> SUFFICES ASSUME NEW c \in passed', Phases[phase_at(c)].requires_acknowledgment
               PROVE  phase'[phase_at(c)].acknowledged
    BY DEF AcknowledgedOnce, phase_at
  <2>1. phase_at(c) \in DOMAIN Phases
    BY <1>2, PlacesAre DEF Names, Entries, Phs, Ops, Ups, phase_at
  <2>2. phase[phase_at(c)].acknowledged
    BY DEF BatchInv, AcknowledgedOnce
  <2> QED BY <2>1, <2>2
<1>5. SequentialExecution'
  BY <1>1 DEF SequentialExecution, AllPlaces, Entries
<1>6. Settled(cursor')
  OBVIOUS
<1> QED BY <1>3, <1>4, <1>5, <1>6 DEF BatchInv

(* A scan at a phase: either the phase goes on, or its place is passed. *)
LEMMA RunPhaseIs ==
  ASSUME BatchInv, cursor.procedure <= Len(Procedures), moved(cursor) = cursor,
         NEW dt \in ScanTimes, RunPhase(dt)
  PROVE  /\ cursor \in AllPlaces
         /\ phase' \in [DOMAIN Phases -> PhaseRecord]
         /\ \A i \in DOMAIN Phases : phase[i].acknowledged => phase'[i].acknowledged
         /\ cursor' \in Place /\ Settled(cursor') /\ done' \in 0 .. Len(Phases)
         /\ \/ cursor' = cursor /\ passed' = passed
            \/ /\ passed' = passed \cup {cursor}
               /\ GoesTo(cursor', cursor.procedure, cursor.unit_proc, cursor.operation, cursor.phase + 1)
               /\ Phases[phase_at(cursor)].requires_acknowledgment
                    => phase[phase_at(cursor)].acknowledged
<1> DEFINE i       == phase_at(cursor)
           limit   == Phases[i].max_duration_sec
           elapsed == Least(phase[i].elapsed_sec + dt, limit)
           over    == completes(i, elapsed)
<1>1. /\ phase' = [phase EXCEPT ![i].elapsed_sec = elapsed, ![i].complete = @ \/ over]
      /\ cursor' = IF over THEN [cursor EXCEPT !.phase = @ + 1] ELSE cursor
      /\ passed' = IF over THEN passed \cup {cursor} ELSE passed
      /\ done' = progress_of(phase')
  BY DEF RunPhase
<1>2. /\ cursor \in Place /\ Settled(cursor) /\ phase \in [DOMAIN Phases -> PhaseRecord]
  BY DEF BatchInv, BatchTypeOK, PhaseRecord
<1>3. Names(cursor) /\ i \in DOMAIN Phases /\ Reaches(cursor, 6)
  BY <1>2, StaysOnPhase
<1>4. cursor \in AllPlaces
  BY <1>2, <1>3, PlacesAre
<1>5. elapsed \in Nat
  <2>1. Phases[i] \in [max_duration_sec : Nat, requires_acknowledgment : BOOLEAN]
    BY <1>3, PhaseTypes
  <2>2. dt \in Nat /\ phase[i] \in PhaseRecord
    BY <1>2, <1>3, TablesAssumption
  <2> HIDE DEF i
  <2> QED BY <2>1, <2>2 DEF Least, PhaseRecord
<1>6. over \in BOOLEAN /\ (over => (Phases[i].requires_acknowledgment => phase[i].acknowledged))
  BY DEF completes
<1> HIDE DEF i, elapsed, over
<1>7. /\ phase' \in [DOMAIN Phases -> PhaseRecord]
      /\ \A j \in DOMAIN Phases : phase[j].acknowledged => phase'[j].acknowledged
  BY <1>1, <1>2, <1>3, <1>5, <1>6 DEF PhaseRecord
<1>8. done' \in 0 .. Len(Phases)
  BY <1>1, ProgressIsBounded
<1>9. CASE ~ over
  BY <1>1, <1>2, <1>4, <1>7, <1>8, <1>9
<1>10. CASE over
  <2>1. GoesTo(cursor', cursor.procedure, cursor.unit_proc, cursor.operation, cursor.phase + 1)
    BY <1>1, <1>2, <1>10, MovesAre
  <2>3. Reaches(cursor', 2) /\ Reaches(cursor', 4)
    BY <1>2, <1>3, <2>1, SettledByIndices DEF GoesTo, Reaches
  <2>4. cursor' \in Place /\ Settled(cursor')
    BY <2>1, <2>3 DEF GoesTo, Settled
  <2> QED BY <1>1, <1>4, <1>6, <1>7, <1>8, <1>10, <2>1, <2>4 DEF i
<1> QED BY <1>9, <1>10

LEMMA BatchStepIs == BatchInv /\ [Next]_vars => BatchInv'
<1> SUFFICES ASSUME BatchInv, [Next]_vars PROVE BatchInv'
  OBVIOUS
<1>0. /\ state \in BatchState /\ pending \in {"START", "HOLD", "STOP", "ABORT", "RESTART"}
      /\ done \in 0 .. Len(Phases) /\ batches \in 0 .. MaxBatches
      /\ phase \in [DOMAIN Phases -> PhaseRecord] /\ cursor \in Place /\ Settled(cursor)
      /\ Len(Phases) \in Nat /\ Len(Procedures) \in Nat /\ MaxBatches \in Nat
  BY TableTypes, TablesAssumption DEF BatchInv, BatchTypeOK, PhaseRecord
<1>1. CASE Start
  BY <1>0, <1>1, FirstPlaceIs, BatchFrame DEF Start, BatchState
<1>2. CASE Reset
  BY <1>0, <1>2, BatchFrame DEF Reset, BatchState
<1>3. ASSUME NEW cmd \in DOMAIN CommandFrom, Command(cmd) PROVE BatchInv'
  <2>1. cmd \in {"HOLD", "STOP", "ABORT", "RESTART"}
    BY DEF CommandFrom
  <2>2. state' \in BatchState /\ pending' \in {"START", "HOLD", "STOP", "ABORT", "RESTART"}
    BY <1>3, <2>1 DEF Command, CommandTo, BatchState
  <2> QED BY <1>0, <1>3, <2>2, BatchFrame DEF Command
<1>4. ASSUME NEW i \in DOMAIN Phases, Acknowledge(i) PROVE BatchInv'
  <2>1. /\ phase' \in [DOMAIN Phases -> PhaseRecord]
        /\ \A j \in DOMAIN Phases : phase[j].acknowledged => phase'[j].acknowledged
    BY <1>0, <1>4 DEF Acknowledge, PhaseRecord
  <2> QED BY <1>0, <1>4, <2>1, BatchFrame DEF Acknowledge
<1>5. ASSUME NEW dt \in ScanTimes, Execute(dt) PROVE BatchInv'
  <2>1. CASE pending = "HOLD"
    BY <1>0, <1>5, <2>1, BatchFrame DEF Execute, BatchState
  <2>2. CASE pending # "HOLD" /\ cursor.procedure > Len(Procedures)
    BY <1>0, <1>5, <2>2, BatchFrame DEF Execute, Scan, BatchState
  <2>3. CASE pending # "HOLD" /\ cursor.procedure <= Len(Procedures) /\ moved(cursor) # cursor
    <3>1. ~ cursor.procedure > Len(Procedures)
      BY <1>0, <2>3, IndicesAre
    <3>2. /\ cursor' = moved(cursor) /\ UNCHANGED <<state, done, phase, passed, pending, batches>>
      BY <1>5, <2>3, <3>1 DEF Execute, Scan
    <3> QED BY <1>0, <2>3, <3>2, BatchFrame, MovePassesNothing
  <2>4. CASE pending # "HOLD" /\ cursor.procedure <= Len(Procedures) /\ moved(cursor) = cursor
    <3>1. ~ cursor.procedure > Len(Procedures)
      BY <1>0, <2>4, IndicesAre
    <3>2. RunPhase(dt) /\ UNCHANGED <<pending, batches>>
      BY <1>5, <2>4, <3>1 DEF Execute, Scan
    <3>3. UNCHANGED state
      BY <3>2 DEF RunPhase
    <3>4. ASSUME GoesTo(cursor', cursor.procedure, cursor.unit_proc, cursor.operation, cursor.phase + 1),
                 NEW d \in AllPlaces, cursor \in AllPlaces
          PROVE  Before(d, cursor') <=> Before(d, cursor) \/ d = cursor
      <4>1. /\ d \in Place
            /\ {d.procedure, d.unit_proc, d.operation, d.phase} \subseteq Nat
            /\ {cursor.procedure, cursor.unit_proc, cursor.operation, cursor.phase} \subseteq Nat
        BY <1>0, PlacesAre, MovesAre
      <4>2. d = cursor <=> /\ d.procedure = cursor.procedure /\ d.unit_proc = cursor.unit_proc
                           /\ d.operation = cursor.operation /\ d.phase = cursor.phase
        BY <1>0, <4>1 DEF Place
      <4> QED BY <3>4, <4>1, <4>2 DEF GoesTo, Before
    <3>5. RunPhase(dt) /\ cursor.procedure <= Len(Procedures) /\ moved(cursor) = cursor
      BY <2>4, <3>2
    <3> QED BY <1>0, <3>2, <3>3, <3>4, <3>5, RunPhaseIs, BatchFrame
  <2> QED BY <1>0, <2>1, <2>2, <2>3, <2>4, IndicesAre
<1>6. CASE UNCHANGED vars
  BY <1>0, <1>6, BatchFrame DEF vars
<1> QED BY <1>1, <1>2, <1>3, <1>4, <1>5, <1>6 DEF Next

(* In the joined system only the batch manager moves these variables. *)
LEMMA BatchAlone == CentumInit => Init
BY DEF CentumInit

LEMMA BatchMoves == [CentumNext]_centumVars => [Next]_vars
BY DEF CentumNext, centumVars, BatchStep, PairStep, ControlStep, StationStep

LEMMA BatchInvHolds == CentumSpec => []BatchInv
<1>1. CentumInit => BatchInv
  BY BatchAlone, BatchInit
<1>2. BatchInv /\ [CentumNext]_centumVars => BatchInv'
  BY BatchMoves, BatchStepIs
<1> QED BY <1>1, <1>2, PTL DEF CentumSpec

(* The places a batch has completed are exactly those before its indices, *)
(* and no phase that asks for an acknowledgement is passed before it has *)
(* been acknowledged once, in this batch or an earlier one. *)
THEOREM BatchInOrder == CentumSpec => [](BatchTypeOK /\ SequentialExecution /\ AcknowledgedOnce)
<1>1. BatchInv => BatchTypeOK /\ SequentialExecution /\ AcknowledgedOnce
  BY DEF BatchInv
<1> QED BY <1>1, BatchInvHolds, PTL

-----------------------------------------------------------------------------
(* The batch manager implements SequentialBatch. *)

Passed == Cardinality(passed)
Places == Cardinality(AllPlaces)

(* How many places are passed, of how many. *)
LEMMA PassedIs ==
  ASSUME BatchInv
  PROVE  /\ Places \in Nat /\ Passed \in Nat
         /\ cursor.procedure > Len(Procedures) => Passed = Places
         /\ cursor \in AllPlaces => Cardinality(passed \cup {cursor}) = Passed + 1 /\ Passed < Places
<1>1. passed = {d \in AllPlaces : Before(d, cursor)} /\ cursor \in Place
  BY DEF BatchInv, SequentialExecution, BatchTypeOK
<1>2. IsFiniteSet(AllPlaces) /\ passed \in SUBSET AllPlaces
  BY <1>1, PlacesFinite
<1>3. IsFiniteSet(passed) /\ Places \in Nat /\ Passed \in Nat
  BY <1>2, FS_Subset, FS_CardinalityType DEF Passed, Places
<1>4. ASSUME cursor.procedure > Len(Procedures) PROVE Passed = Places
  <2>1. \A d \in AllPlaces : d \in Place /\ d.procedure <= Len(Procedures)
    BY PlacesAre, TableTypes DEF Names
  <2>2. \A d \in AllPlaces : d.procedure < cursor.procedure
    BY <1>1, <1>4, <2>1, IndicesAre, TableTypes
  <2>3. passed = AllPlaces
    BY <1>1, <2>2 DEF Before
  <2> QED BY <2>3 DEF Passed, Places
<1>5. ASSUME cursor \in AllPlaces
      PROVE  Cardinality(passed \cup {cursor}) = Passed + 1 /\ Passed < Places
  <2>1. cursor \notin passed
    BY <1>1, IndicesAre DEF Before
  <2>2. Cardinality(passed \cup {cursor}) = Passed + 1
    BY <1>3, <2>1, FS_AddElement DEF Passed
  <2>3. passed \cup {cursor} \in SUBSET AllPlaces
    BY <1>2, <1>5
  <2>4. Cardinality(passed \cup {cursor}) <= Places
    BY <1>2, <2>3, FS_Subset DEF Places
  <2> QED BY <1>3, <2>2, <2>4
<1> QED BY <1>3, <1>4, <1>5

LEMMA SequentialInit == Init => Sequential!Init
<1> SUFFICES ASSUME Init PROVE Sequential!Init
  OBVIOUS
<1>1. passed = {} /\ state = "IDLE"
  BY DEF Init
<1>2. Cardinality(passed) = 0
  BY <1>1, FS_EmptySet
<1>3. Cardinality(AllPlaces) \in Nat
  BY PlacesFinite, FS_CardinalityType
<1> QED BY <1>1, <1>2, <1>3 DEF Sequential!Init, ControlState

LEMMA SequentialStep == BatchInv /\ [Next]_vars => [Sequential!Next]_(Sequential!batch)
<1> SUFFICES ASSUME BatchInv, [Next]_vars PROVE [Sequential!Next]_(Sequential!batch)
  OBVIOUS
<1>0. state \in BatchState /\ AllPlaces' = AllPlaces /\ cursor \in Place
  BY DEF BatchInv, BatchTypeOK, AllPlaces, Entries
<1>1. CASE Start
  <2>1. Cardinality(passed') = 0 /\ state' = "RUNNING"
    BY <1>1, FS_EmptySet DEF Start
  <2>2. Sequential!Start
    BY <1>0, <2>1 DEF Sequential!Start, ControlState
  <2> QED BY <2>2 DEF Sequential!Next
<1>2. CASE Reset
  <2>1. state \in {"COMPLETE", "ABORTED", "STOPPED"} /\ state' = "IDLE" /\ passed' = passed
    BY <1>2 DEF Reset
  <2>2. Sequential!Reset
    BY <1>0, <2>1 DEF Sequential!Reset, ControlState
  <2> QED BY <2>2 DEF Sequential!Next
<1>3. ASSUME NEW cmd \in DOMAIN CommandFrom, Command(cmd)
      PROVE  [Sequential!Next]_(Sequential!batch)
  <2>0. /\ cmd \in {"HOLD", "STOP", "ABORT", "RESTART"} /\ passed' = passed
        /\ state \in CommandFrom[cmd] /\ state' = CommandTo[cmd]
    BY <1>3 DEF Command, CommandFrom
  <2>1. CASE cmd \in {"HOLD", "STOP"}
    <3>1. /\ state \in {"RUNNING", "RESTARTING", "HELD"}
          /\ state' \in {"HOLDING", "STOPPING"}
      BY <2>0, <2>1 DEF CommandFrom, CommandTo
    <3>2. Sequential!Pause \/ UNCHANGED Sequential!batch
      BY <1>0, <2>0, <3>1 DEF Sequential!Pause, Sequential!batch, ControlState
    <3> QED BY <3>2 DEF Sequential!Next
  <2>2. CASE cmd = "RESTART"
    <3>1. state = "HELD" /\ state' = "RESTARTING"
      BY <2>0, <2>2 DEF CommandFrom, CommandTo
    <3>2. Sequential!Resume
      BY <1>0, <2>0, <3>1 DEF Sequential!Resume, ControlState
    <3> QED BY <3>2 DEF Sequential!Next
  <2>3. CASE cmd = "ABORT"
    <3>1. state' = "ABORTED"
      BY <2>0, <2>3 DEF CommandTo
    <3>2. Sequential!Abort \/ UNCHANGED Sequential!batch
      BY <1>0, <2>0, <3>1 DEF Sequential!Abort, Sequential!batch, ControlState, BatchState
    <3> QED BY <3>2 DEF Sequential!Next
  <2> QED BY <2>0, <2>1, <2>2, <2>3
<1>4. ASSUME NEW i \in DOMAIN Phases, Acknowledge(i)
      PROVE  [Sequential!Next]_(Sequential!batch)
  BY <1>0, <1>4 DEF Acknowledge, Sequential!batch, ControlState
<1>5. ASSUME NEW dt \in ScanTimes, Execute(dt)
      PROVE  [Sequential!Next]_(Sequential!batch)
  <2>0. state \in {"RUNNING", "RESTARTING"} /\ ControlState = "RUNNING"
    BY <1>5 DEF Execute, ControlState
  <2>1. CASE pending = "HOLD"
    <3>1. state' = "HELD" /\ passed' = passed
      BY <1>5, <2>1 DEF Execute
    <3>2. Sequential!Pause
      BY <1>0, <2>0, <3>1 DEF Sequential!Pause, ControlState
    <3> QED BY <3>2 DEF Sequential!Next
  <2>2. CASE pending # "HOLD" /\ cursor.procedure > Len(Procedures)
    <3>1. state' = "COMPLETE" /\ passed' = passed
      BY <1>5, <2>2 DEF Execute, Scan
    <3>2. Cardinality(passed) = Cardinality(AllPlaces)
      BY <2>2, PassedIs DEF Passed, Places
    <3>3. Sequential!Finish
      BY <1>0, <2>0, <3>1, <3>2 DEF Sequential!Finish, ControlState
    <3> QED BY <3>3 DEF Sequential!Next
  <2>3. CASE pending # "HOLD" /\ ~ cursor.procedure > Len(Procedures) /\ moved(cursor) # cursor
    <3>1. UNCHANGED <<state, passed>>
      BY <1>5, <2>3 DEF Execute, Scan
    <3> QED BY <1>0, <3>1 DEF Sequential!batch, ControlState
  <2>4. CASE pending # "HOLD" /\ ~ cursor.procedure > Len(Procedures) /\ moved(cursor) = cursor
    <3>1. RunPhase(dt) /\ cursor.procedure <= Len(Procedures) /\ moved(cursor) = cursor
      BY <1>0, <1>5, <2>4, IndicesAre, TableTypes DEF Execute, Scan
    <3>2. UNCHANGED state
      BY <3>1 DEF RunPhase
    <3>3. cursor \in AllPlaces /\ (passed' = passed \/ passed' = passed \cup {cursor})
      BY <3>1, RunPhaseIs
    <3>4. CASE passed' = passed
      BY <1>0, <3>2, <3>4 DEF Sequential!batch, ControlState
    <3>5. CASE passed' = passed \cup {cursor}
      <4>1. /\ Cardinality(passed') = Cardinality(passed) + 1
            /\ Cardinality(passed) < Cardinality(AllPlaces)
        BY <3>3, <3>5, PassedIs DEF Passed, Places
      <4>2. Sequential!Advance
        BY <1>0, <2>0, <3>2, <4>1 DEF Sequential!Advance, ControlState
      <4> QED BY <4>2 DEF Sequential!Next
    <3> QED BY <3>3, <3>4, <3>5
  <2> QED BY <2>1, <2>2, <2>3, <2>4
<1>6. CASE UNCHANGED vars
  BY <1>0, <1>6 DEF vars, Sequential!batch, ControlState
<1> QED BY <1>1, <1>2, <1>3, <1>4, <1>5, <1>6 DEF Next

(* Whatever is held, stopped, aborted, reset and started again, and *)
(* whichever references dangle, a batch takes the steps of its recipe one *)
(* at a time, only while it runs, and is complete only after all of them. *)
THEOREM BatchImplementsSequential == CentumSpec => BatchIsSequential
<1>1. CentumInit => Sequential!Init
  BY BatchAlone, SequentialInit
<1>2. BatchInv /\ [CentumNext]_centumVars => [Sequential!Next]_(Sequential!batch)
  BY BatchMoves, SequentialStep
<1> QED BY <1>1, <1>2, BatchInvHolds, PTL DEF CentumSpec, BatchIsSequential, Sequential!Spec

-----------------------------------------------------------------------------
(* The redundant pair.  Beyond its type the invariant says why the log is *)
(* right: its entries are the slots before the next one until it is full, *)
(* and a unit that counts as synchronised was declared so, wherever the *)
(* failovers have put it. *)

Mates == {"primary", "standby"}

SyncIsDeclared(p, d) == \A m \in Mates : p[m].sync = "SYNCHRONIZED" => p[m].unit \in d

ManualIsGood(e) == e.type = "MANUAL" => e.success /\ e.ms <= 500

PairInv ==
  /\ CentumPairTypeOK
  /\ log.count = IF failovers < LogSize THEN failovers ELSE LogSize
  /\ log.count < LogSize => log.write = log.count
  /\ \A i \in 0 .. LogSize - 1 : i < log.count => ManualIsGood(log.ring[i])
  /\ failovers > 0 => get_latest(log) = newest.event
  /\ SyncIsDeclared(cpair, declared)
  /\ newest.event.ms = 150 => newest.declared

Slot == 0 .. LogSize - 1

(* The next slot, and the slot before it. *)
LEMMA NextSlot ==
  ASSUME NEW w \in Slot
  PROVE  /\ (w + 1) % LogSize \in Slot
         /\ (IF (w + 1) % LogSize = 0 THEN LogSize - 1 ELSE ((w + 1) % LogSize) - 1) = w
         /\ w + 1 < LogSize => (w + 1) % LogSize = w + 1
<1>1. LogSize \in Nat /\ LogSize > 0 /\ w \in Nat /\ w < LogSize
  BY CentumPairAssumption DEF Slot
<1>2. CASE w + 1 < LogSize
  <2>1. (w + 1) % LogSize = w + 1
    BY <1>1, <1>2
  <2> QED BY <1>1, <1>2, <2>1 DEF Slot
<1>3. CASE w + 1 = LogSize
  <2>1. (w + 1) % LogSize = 0
    BY <1>1, <1>3
  <2> QED BY <1>1, <1>3, <2>1 DEF Slot
<1> QED BY <1>1, <1>2, <1>3

(* What adding an event does to the log. *)
LEMMA LogAddIs ==
  ASSUME NEW l \in Log, NEW e \in Event
  PROVE  LET m == log_add(l, e) IN
         /\ m \in Log /\ m.count > 0 /\ get_latest(m) = e
         /\ (l.count < LogSize => l.write = l.count) => (m.count < LogSize => m.write = m.count)
         /\ \A i \in Slot : m.ring[i] = IF i = l.write THEN e ELSE l.ring[i]
         /\ (l.count < LogSize => l.write = l.count) =>
              \A i \in Slot : i < m.count => i = l.write \/ i < l.count
<1> DEFINE m == log_add(l, e)
<1>1. /\ m.ring = [l.ring EXCEPT ![l.write] = e]
      /\ m.write = (l.write + 1) % LogSize
      /\ m.count = IF l.count < LogSize THEN l.count + 1 ELSE l.count
      /\ m = [ring |-> m.ring, write |-> m.write, count |-> m.count]
  BY DEF log_add
<1> HIDE DEF m
<1>2. /\ l.write \in Slot /\ l.count \in 0 .. LogSize /\ l.ring \in [Slot -> Event]
      /\ LogSize \in Nat /\ LogSize > 0
  BY CentumPairAssumption DEF Log, Slot
<1>3. m.ring \in [Slot -> Event] /\ \A i \in Slot : m.ring[i] = IF i = l.write THEN e ELSE l.ring[i]
  BY <1>1, <1>2
<1>4. /\ m.write \in Slot
      /\ (IF m.write = 0 THEN LogSize - 1 ELSE m.write - 1) = l.write
      /\ l.write + 1 < LogSize => m.write = l.write + 1
  BY <1>1, <1>2, NextSlot
<1>5. m.count \in 0 .. LogSize /\ m.count > 0
  BY <1>1, <1>2
<1>6. m \in Log
  BY <1>1, <1>3, <1>4, <1>5 DEF Log, Slot
<1>7. get_latest(m) = e
  BY <1>2, <1>3, <1>4 DEF get_latest
<1>8. ASSUME l.count < LogSize => l.write = l.count
      PROVE  /\ m.count < LogSize => m.write = m.count
             /\ \A i \in Slot : i < m.count => i = l.write \/ i < l.count
  BY <1>1, <1>2, <1>4, <1>8 DEF Slot
<1> QED BY <1>3, <1>5, <1>6, <1>7, <1>8 DEF m

LEMMA PairInit == CentumPairInit => PairInv
<1> SUFFICES ASSUME CentumPairInit PROVE PairInv
  OBVIOUS
<1>1. PICK flags \in Conditions : cpair = pair_init(flags)
  BY DEF CentumPairInit
<1>2. /\ cpair \in [primary : Member, standby : Member]
      /\ cpair.primary.unit # cpair.standby.unit /\ SyncIsDeclared(cpair, declared)
  BY <1>1 DEF pair_init, Member, Units, CRole, SyncState, SyncIsDeclared, Mates
<1>3. NoEvent \in Event /\ NoEvent.ms # 150
  BY DEF NoEvent, Event, FailoverType
<1>4. log_init \in Log /\ log_init.count = 0 /\ log_init.write = 0
  BY <1>3, CentumPairAssumption DEF log_init, Log
<1>5. /\ newest \in [event : Event, declared : BOOLEAN] /\ newest.event.ms # 150
      /\ failovers = 0 /\ log = log_init /\ declared \subseteq Units
  BY <1>3 DEF CentumPairInit
<1> QED BY <1>2, <1>4, <1>5, CentumPairAssumption DEF PairInv, CentumPairTypeOK

(* The pair may change under the log as long as a synchronised unit is *)
(* declared. *)
LEMMA PairChanges ==
  ASSUME PairInv, cpair' \in [primary : Member, standby : Member],
         cpair'.primary.unit # cpair'.standby.unit, declared' \subseteq Units,
         SyncIsDeclared(cpair', declared'), UNCHANGED <<failovers, log, newest>>
  PROVE  PairInv'
BY DEF PairInv, CentumPairTypeOK, get_latest, ManualIsGood, SyncIsDeclared

(* A new state of synchronisation is declared, or undeclared, as it is *)
(* given. *)
LEMMA Declared ==
  ASSUME PairInv, NEW m \in Mates, NEW role \in CRole, NEW sync \in SyncState,
         cpair' = [cpair EXCEPT ![m].role = role, ![m].sync = sync],
         declared' = Declares(m, sync), UNCHANGED <<failovers, log, newest>>
  PROVE  PairInv'
<1>1. /\ cpair \in [primary : Member, standby : Member] /\ declared \subseteq Units
      /\ cpair.primary.unit # cpair.standby.unit /\ SyncIsDeclared(cpair, declared)
  BY DEF PairInv, CentumPairTypeOK
<1>2. /\ cpair'.primary \in Member /\ cpair'.standby \in Member
      /\ cpair' = [primary |-> cpair'.primary, standby |-> cpair'.standby]
      /\ cpair'[m].sync = sync
      /\ \A n \in Mates : cpair'[n].unit = cpair[n].unit
                          /\ (n # m => cpair'[n].sync = cpair[n].sync)
  BY <1>1 DEF Mates, Member
<1>3. cpair[m].unit \in Units /\ \A n \in Mates : n # m => cpair[n].unit # cpair[m].unit
  BY <1>1 DEF Mates, Member
<1>4. /\ sync = "SYNCHRONIZED" => declared' = declared \cup {cpair[m].unit}
      /\ sync # "SYNCHRONIZED" => declared' \in {declared, declared \ {cpair[m].unit}}
  BY DEF Declares
<1>5. SyncIsDeclared(cpair', declared')
  BY <1>1, <1>2, <1>3, <1>4 DEF SyncIsDeclared
<1>6. declared' \subseteq Units
  BY <1>1, <1>3, <1>4
<1>7. cpair'.primary.unit # cpair'.standby.unit
  BY <1>1, <1>2 DEF Mates
<1> QED BY <1>2, <1>5, <1>6, <1>7, PairChanges

LEMMA FailoverStep ==
  ASSUME PairInv, NEW type \in FailoverType, perform_failover(type), failovers < MaxFailovers,
         type = "MANUAL" => validate_pair_health(cpair)
  PROVE  PairInv'
<1> DEFINE e == [type |-> type, success |-> check_sync_health(cpair),
                 ms |-> switchover_time(cpair)]
           n == [event |-> e, declared |-> cpair.standby.unit \in declared]
<1>1. /\ log' = log_add(log, e) /\ newest' = n /\ cpair' = Swapped(cpair)
      /\ failovers' = failovers + 1 /\ declared' = declared
  BY DEF perform_failover
<1>2. /\ cpair \in [primary : Member, standby : Member]
      /\ cpair.primary.unit # cpair.standby.unit /\ log \in Log
      /\ failovers \in 0 .. MaxFailovers /\ MaxFailovers \in Nat /\ declared \subseteq Units
  BY CentumPairAssumption DEF PairInv, CentumPairTypeOK
<1>3. e \in Event
  <2>1. check_sync_health(cpair) \in BOOLEAN
    BY DEF check_sync_health
  <2>2. switchover_time(cpair) \in {150, 500, 2000}
    BY DEF switchover_time
  <2> QED BY <2>1, <2>2 DEF Event
<1>4. ManualIsGood(e)
  <2> SUFFICES ASSUME type = "MANUAL" PROVE check_sync_health(cpair) /\ switchover_time(cpair) <= 500
    BY DEF ManualIsGood
  <2>1. check_sync_health(cpair)
    BY DEF validate_pair_health
  <2>2. cpair.standby.sync \in {"SYNCHRONIZED", "TRACKING"}
    BY <2>1 DEF check_sync_health
  <2>3. cpair.standby.sync = "SYNCHRONIZED" => is_bumpless_possible(cpair)
    BY <2>1 DEF validate_pair_health, check_sync_health, is_bumpless_possible
  <2> QED BY <2>1, <2>2, <2>3 DEF switchover_time
<1>5. e.ms = 150 => cpair.standby.unit \in declared
  <2> SUFFICES ASSUME is_bumpless_possible(cpair) PROVE cpair.standby.unit \in declared
    BY DEF switchover_time
  <2> QED BY DEF is_bumpless_possible, PairInv, SyncIsDeclared, Mates
<1>6. /\ cpair' \in [primary : Member, standby : Member]
      /\ cpair'.primary.unit # cpair'.standby.unit
  BY <1>1, <1>2 DEF Swapped, Member, CRole
<1>7. SyncIsDeclared(cpair', declared')
  <2>1. SyncIsDeclared(cpair, declared)
    BY DEF PairInv
  <2>2. /\ cpair'.primary.unit = cpair.standby.unit /\ cpair'.primary.sync = cpair.standby.sync
        /\ cpair'.standby.unit = cpair.primary.unit /\ cpair'.standby.sync = cpair.primary.sync
    BY <1>1, <1>2 DEF Swapped, Member
  <2> QED BY <1>1, <2>1, <2>2 DEF SyncIsDeclared, Mates
<1>8. /\ newest'.event = e /\ newest' \in [event : Event, declared : BOOLEAN]
      /\ newest'.event.ms = 150 => newest'.declared
  <2>1. newest'.event = e /\ newest'.declared = (cpair.standby.unit \in declared)
    BY <1>1
  <2>2. newest' \in [event : Event, declared : BOOLEAN]
    BY <1>1, <1>3
  <2> QED BY <1>5, <2>1, <2>2
<1> HIDE DEF e, n
<1>9. /\ log' \in Log /\ get_latest(log') = e
      /\ log'.count < LogSize => log'.write = log'.count
      /\ log'.count = IF log.count < LogSize THEN log.count + 1 ELSE log.count
  BY <1>1, <1>2, <1>3, LogAddIs DEF PairInv, log_add
<1>10. \A i \in Slot : i < log'.count => ManualIsGood(log'.ring[i])
  <2> SUFFICES ASSUME NEW i \in Slot, i < log'.count PROVE ManualIsGood(log'.ring[i])
    OBVIOUS
  <2>1. /\ log'.ring[i] = IF i = log.write THEN e ELSE log.ring[i]
        /\ i = log.write \/ i < log.count
    BY <1>1, <1>2, <1>3, LogAddIs DEF PairInv
  <2> QED BY <1>4, <2>1 DEF PairInv, Slot
<1>11. /\ failovers' \in 0 .. MaxFailovers
       /\ log'.count = IF failovers' < LogSize THEN failovers' ELSE LogSize
  BY <1>1, <1>2, <1>9, CentumPairAssumption DEF PairInv
<1>12. CentumPairTypeOK'
  BY <1>1, <1>2, <1>6, <1>8, <1>9, <1>11 DEF CentumPairTypeOK
<1> QED BY <1>7, <1>8, <1>9, <1>10, <1>11, <1>12
        DEF PairInv, Slot, get_latest, ManualIsGood, SyncIsDeclared

LEMMA PairStepIs == PairInv /\ [CentumPairNext]_centumPairVars => PairInv'
<1> SUFFICES ASSUME PairInv, [CentumPairNext]_centumPairVars PROVE PairInv'
  OBVIOUS
<1>0. /\ cpair \in [primary : Member, standby : Member] /\ declared \subseteq Units
      /\ cpair.primary.unit # cpair.standby.unit /\ SyncIsDeclared(cpair, declared)
  BY DEF PairInv, CentumPairTypeOK
<1>1. ASSUME NEW m \in Mates, set_role(m) PROVE PairInv'
  <2>1. PICK role \in CRole :
          /\ cpair' = [cpair EXCEPT ![m].role = role, ![m].sync = SyncOfRole(role)]
          /\ declared' = Declares(m, SyncOfRole(role))
    BY <1>1 DEF set_role
  <2>2. SyncOfRole(role) \in SyncState
    BY DEF SyncOfRole, SyncState
  <2> QED BY <1>1, <2>1, <2>2, Declared DEF set_role
<1>2. ASSUME NEW m \in Mates, flags_change(m) PROVE PairInv'
  <2>1. PICK flags \in Conditions : cpair' = [cpair EXCEPT ![m].flags = flags]
    BY <1>2 DEF flags_change
  <2>2. /\ cpair' \in [primary : Member, standby : Member]
        /\ cpair'.primary.unit # cpair'.standby.unit
        /\ SyncIsDeclared(cpair', declared)
    BY <1>0, <2>1 DEF Member, SyncIsDeclared, Mates
  <2> QED BY <1>0, <1>2, <2>2, PairChanges DEF flags_change
<1>3. ASSUME NEW m \in Mates, role_written(m) PROVE PairInv'
  <2>1. /\ cpair' \in [primary : Member, standby : Member]
        /\ cpair'.primary.unit # cpair'.standby.unit
        /\ SyncIsDeclared(cpair', declared)
    BY <1>0, <1>3 DEF role_written, Member, SyncIsDeclared, Mates, CRole
  <2> QED BY <1>0, <1>3, <2>1, PairChanges DEF role_written
<1>4. ASSUME NEW m \in Mates, sync_written(m) PROVE PairInv'
  <2>1. PICK sync \in SyncWritten :
          cpair' = [cpair EXCEPT ![m].sync = sync] /\ declared' = Declares(m, sync)
    BY <1>4 DEF sync_written
  <2>2. sync \in SyncState /\ cpair[m].role \in CRole
    BY <1>0, CentumPairAssumption DEF Mates, Member
  <2>3. cpair' = [cpair EXCEPT ![m].role = cpair[m].role, ![m].sync = sync]
    BY <1>0, <2>1 DEF Mates, Member
  <2> QED BY <1>4, <2>1, <2>2, <2>3, Declared DEF sync_written
<1>5. CASE initiate_sync
  <2>1. "SYNCING" \in CRole /\ "COPYING" \in SyncState /\ "standby" \in Mates
    BY DEF CRole, SyncState, Mates
  <2>2. /\ cpair' = [cpair EXCEPT !["standby"].role = "SYNCING", !["standby"].sync = "COPYING"]
        /\ declared' = Declares("standby", "COPYING")
    BY <1>5 DEF initiate_sync
  <2> QED BY <1>5, <2>1, <2>2, Declared DEF initiate_sync
<1>6. ASSUME NEW type \in Causes, perform_failover(type), failovers < MaxFailovers
      PROVE  PairInv'
  BY <1>6, FailoverStep, CentumPairAssumption DEF FailoverType
<1>7. CASE manual_switchover /\ failovers < MaxFailovers
  BY <1>7, FailoverStep DEF FailoverType, manual_switchover
<1>8. CASE UNCHANGED centumPairVars
  BY <1>0, <1>8, PairChanges DEF centumPairVars
<1> QED BY <1>1, <1>2, <1>3, <1>4, <1>5, <1>6, <1>7, <1>8 DEF CentumPairNext, Mates

(* However often the log has wrapped round, it has an entry for each *)
(* failover that fits and its latest entry is the last one; every manual *)
(* switchover in it was a success within half a second; and a bumpless *)
(* transfer is reported only for a unit that was declared synchronised *)
(* since it was last copied to, whatever the application writes. *)
THEOREM FailoverLogIsRight == CentumSpec => [](CentumPairTypeOK /\ LogIsRight)
<1>1. CentumInit => PairInv
  BY PairInit DEF CentumInit
<1>2. PairInv /\ [CentumNext]_centumVars => PairInv'
  BY PairStepIs DEF CentumNext, centumVars, BatchStep, PairStep, ControlStep, StationStep,
                    centumPairVars
<1>3. PairInv => CentumPairTypeOK /\ LogIsRight
  BY DEF PairInv, LogIsRight, ManualIsGood
<1> QED BY <1>1, <1>2, <1>3, PTL DEF CentumSpec

-----------------------------------------------------------------------------
(* The function blocks. *)

LEMMA WithinIs ==
  ASSUME NEW x \in Int, NEW lo \in Int, NEW hi \in Int, lo <= hi
  PROVE  /\ Within(x, lo, hi) \in lo .. hi
         /\ \A y \in lo .. hi : Size(Within(x, lo, hi) - y) <= Size(x - y)
BY DEF Within, Size

(* The change of the output in one execution. *)
LEMMA LimitedIs ==
  ASSUME NEW change \in Int, NEW dt \in 1 .. 2
  PROVE  /\ Limited(change, dt) \in Int
         /\ MvChange > 0 => Size(Limited(change, dt)) <= 2 * MvChange
<1>1. MvChange \in Nat
  BY CentumControlAssumption
<1>2. CASE dt = 1
  <2>1. Limited(change, dt) = IF MvChange > 0 THEN Within(change, -MvChange, MvChange) ELSE change
    BY <1>1, <1>2 DEF Limited
  <2> QED BY <1>1, <2>1 DEF Within, Size
<1>3. CASE dt = 2
  <2>1. Limited(change, dt)
          = IF MvChange > 0 THEN Within(change, -(2 * MvChange), 2 * MvChange) ELSE change
    BY <1>1, <1>3 DEF Limited
  <2> QED BY <1>1, <2>1 DEF Within, Size
<1> QED BY <1>2, <1>3

LEMMA TuningTypes ==
  /\ Kp \in Int /\ KpOverTi \in Int /\ KpTd \in Int /\ MvChange \in Int
  /\ MvLow \in Int /\ MvHigh \in Int /\ MvLow <= MvHigh
  /\ PvSet \subseteq Int /\ SvSet \subseteq Int
BY CentumControlAssumption

(* The terms of the controller are numbers. *)
LEMMA TermsAre ==
  ASSUME NEW b \in CPid, NEW pv \in Int, NEW dt \in 1 .. 2
  PROVE  /\ Error(b, pv) \in Int
         /\ PositionalSum(b, pv, dt) \in Int
         /\ VelocityChange(b, pv, dt) \in Int /\ PositionalChange(b, pv, dt) \in Int
<1>1. /\ b.sv \in Int /\ b.integral \in Int /\ b.lastError \in Int /\ b.lastPv \in Int
      /\ b.mv \in Int
  BY DEF CPid
<1>2. Error(b, pv) \in Int
  BY <1>1 DEF Error
<1>3. \A x, y \in Int : x * y \in Int /\ x + y \in Int /\ x - y \in Int /\ x \div dt \in Int
  <2>1. CASE dt = 1
    BY <2>1
  <2>2. CASE dt = 2
    BY <2>2
  <2> QED BY <2>1, <2>2
<1>4. dt \in Int
  OBVIOUS
<1>5. PositionalSum(b, pv, dt) \in Int
  BY <1>1, <1>2, <1>3, <1>4 DEF PositionalSum
<1>6. VelocityChange(b, pv, dt) \in Int
  <2>1. /\ Kp * (Error(b, pv) - b.lastError) \in Int
        /\ KpOverTi * dt * Error(b, pv) \in Int
        /\ (KpTd * (b.lastPv - pv)) \div dt \in Int
    BY <1>1, <1>2, <1>3, <1>4, TuningTypes
  <2> QED BY <1>3, <2>1 DEF VelocityChange
<1>7. PositionalChange(b, pv, dt) \in Int
  <2>1. /\ Kp * Error(b, pv) \in Int /\ KpOverTi * PositionalSum(b, pv, dt) \in Int
        /\ (KpTd * (Error(b, pv) - b.lastError)) \div dt \in Int
    BY <1>1, <1>2, <1>3, <1>5, TuningTypes
  <2> QED BY <1>1, <1>3, <2>1 DEF PositionalChange
<1> QED BY <1>2, <1>5, <1>6, <1>7

(* A block stays well formed when numbers replace numbers. *)
LEMMA ValuesReplaced ==
  ASSUME NEW b \in CPid, NEW pv \in Int, NEW mv \in Int, NEW tracking \in Int,
         NEW sum \in Int, NEW e \in Int, NEW last \in Int
  PROVE  /\ [b EXCEPT !.pv = pv, !.mv = mv, !.integral = sum, !.lastError = e, !.lastPv = last]
              \in CPid
         /\ [b EXCEPT !.tracking = tracking, !.mv = mv, !.integral = sum] \in CPid
BY DEF CPid

(* One execution outside manual mode. *)
LEMMA ExecutedIs ==
  ASSUME NEW b \in CPid, NEW pv \in Int, NEW dt \in 1 .. 2
  PROVE  LET new == Executed(b, pv, dt) IN
         /\ new \in CPid
         /\ b.mode # "MAN" =>
              /\ new.mv \in MvLow .. MvHigh
              /\ b.mv \in MvLow .. MvHigh /\ MvChange > 0 => Size(new.mv - b.mv) <= 2 * MvChange
<1> DEFINE new == Executed(b, pv, dt)
           change == IF b.velocity THEN VelocityChange(b, pv, dt) ELSE PositionalChange(b, pv, dt)
           sum == IF b.velocity THEN b.integral + KpOverTi * dt * Error(b, pv)
                  ELSE PositionalSum(b, pv, dt)
           to == b.mv + Limited(change, dt)
           mid == [b EXCEPT !.pv = pv, !.mv = to, !.integral = sum, !.lastError = Error(b, pv),
                            !.lastPv = pv]
<1>1. CASE b.mode = "MAN"
  <2>1. new = [b EXCEPT !.pv = pv, !.mv = b.tracking, !.integral = 0, !.lastError = 0, !.lastPv = pv]
    BY <1>1 DEF Executed
  <2> HIDE DEF new, change, sum, to, mid
  <2>2. new \in CPid
    <3>1. b.tracking \in Int
      BY DEF CPid
    <3>2. 0 \in Int
      OBVIOUS
    <3> QED BY <2>1, <3>1, <3>2, ValuesReplaced
  <2> QED BY <1>1, <2>2 DEF new
<1>2. CASE b.mode # "MAN"
  <2>1. new = anti_windup_clamp(mid)
    BY <1>2 DEF Executed
  <2>2. change \in Int /\ Error(b, pv) \in Int
    BY TermsAre
  <2>3. sum \in Int
    <3>1. \A x, y \in Int : x * y \in Int
      OBVIOUS
    <3>2. KpOverTi * dt * Error(b, pv) \in Int
      BY <2>2, <3>1, TuningTypes
    <3> QED BY SMTT(30), <3>2, TermsAre DEF CPid
  <2>4. Limited(change, dt) \in Int /\ (MvChange > 0 => Size(Limited(change, dt)) <= 2 * MvChange)
    <3> HIDE DEF change
    <3> QED BY <2>2, LimitedIs
  <2>5. b.mv \in Int /\ to \in Int /\ to - b.mv = Limited(change, dt)
    <3> HIDE DEF change
    <3> QED BY <2>4 DEF CPid
  <2> HIDE DEF to, sum, change
  <2>6. mid \in CPid /\ mid.mv = to
    BY <2>2, <2>3, <2>5 DEF CPid
  <2> HIDE DEF mid
  <2>7. anti_windup_clamp(mid) \in CPid /\ anti_windup_clamp(mid).mv = Within(to, MvLow, MvHigh)
    <3>1. Within(to, MvLow, MvHigh) \in Int
      BY <2>5, TuningTypes DEF Within
    <3> QED BY <2>6, <3>1 DEF anti_windup_clamp, CPid
  <2>8. /\ Within(to, MvLow, MvHigh) \in MvLow .. MvHigh
        /\ b.mv \in MvLow .. MvHigh => Size(Within(to, MvLow, MvHigh) - b.mv) <= Size(to - b.mv)
    BY <2>5, TuningTypes, WithinIs
  <2>9. ASSUME b.mv \in MvLow .. MvHigh, MvChange > 0
        PROVE  Size(Within(to, MvLow, MvHigh) - b.mv) <= 2 * MvChange
    <3>1. /\ Within(to, MvLow, MvHigh) - b.mv \in Int /\ to - b.mv \in Int
          /\ Size(Within(to, MvLow, MvHigh) - b.mv) \in Int /\ Size(to - b.mv) \in Int
      BY <2>5, <2>8, TuningTypes DEF Size
    <3> QED BY <2>4, <2>5, <2>8, <2>9, <3>1, TuningTypes
  <2> QED BY <1>2, <2>1, <2>7, <2>8, <2>9
<1> QED BY <1>1, <1>2

(* The blocks of the logic are well formed after each execution. *)
LEMMA ElementIs ==
  ASSUME NEW type, NEW v1 \in BOOLEAN, NEW v2 \in BOOLEAN, NEW old \in BOOLEAN
  PROVE  Element(type, v1, v2, old) \in BOOLEAN
BY DEF Element

ValveOrder ==
  (cpid.mode # "MAN" /\ cpid'.mode # "MAN" /\ cpid'.mv # cpid.mv
   /\ cpid'.tracking = cpid.tracking)
  => /\ cpid'.mv \in MvLow .. MvHigh
     /\ cpid.mv \in MvLow .. MvHigh /\ MvChange > 0
          => Size(cpid'.mv - cpid.mv) <= 2 * MvChange

SequenceOrder == (cseq.hold \/ cseq.abort) => cseq'.step \in {cseq.step, 0}

BlocksInv ==
  /\ cpid \in CPid /\ cseq \in CSeq /\ lc64 \in Lc64
  /\ lc64.mask = {i \in DOMAIN Elements : lc64.states[i]}

LEMMA BlocksInit == CentumControlInit => BlocksInv
<1> SUFFICES ASSUME CentumControlInit PROVE BlocksInv
  OBVIOUS
<1>1. cpid \in CPid
  BY DEF CentumControlInit, PidBlockInit, CPid, PidMode
<1>2. cseq \in CSeq
  BY DEF CentumControlInit, SequenceInit, CSeq, SeqState
<1>3. lc64 \in Lc64 /\ lc64.mask = {i \in DOMAIN Elements : lc64.states[i]}
  BY DEF CentumControlInit, LogicInit, Lc64
<1> QED BY <1>1, <1>2, <1>3 DEF BlocksInv

LEMMA SteppedIs ==
  ASSUME NEW s \in CSeq, NEW holds \in BOOLEAN
  PROVE  /\ Stepped(s, holds) \in CSeq
         /\ s.hold \/ s.abort => Stepped(s, holds).step = s.step
<1>1. s.step + 1 \in Nat
  BY DEF CSeq
<1> QED BY <1>1 DEF Stepped, CSeq, SeqState

LEMMA BlocksStep ==
  BlocksInv /\ [PidBlockNext \/ BlocksNext \/ SignalsChange]_centumControlVars
    => BlocksInv' /\ [ValveOrder]_centumControlVars /\ [SequenceOrder]_centumControlVars
<1> SUFFICES ASSUME BlocksInv, [PidBlockNext \/ BlocksNext \/ SignalsChange]_centumControlVars
             PROVE  BlocksInv' /\ ([ValveOrder]_centumControlVars /\ [SequenceOrder]_centumControlVars)
  OBVIOUS
<1>0. /\ cpid \in CPid /\ cseq \in CSeq /\ lc64 \in Lc64
      /\ lc64.mask = {i \in DOMAIN Elements : lc64.states[i]}
  BY DEF BlocksInv
<1>1. CASE pid_block_execute
  <2>1. PICK pv \in PvSet, dt \in 1 .. 2 : cpid' = Executed(cpid, pv, dt)
    BY <1>1 DEF pid_block_execute
  <2>2. cpid' \in CPid /\ ValveOrder
    BY <1>0, <2>1, ExecutedIs, TuningTypes DEF ValveOrder
  <2> QED BY <1>0, <1>1, <2>2 DEF pid_block_execute, BlocksInv, SequenceOrder
<1>2. CASE pid_operate
  <2>1. cpid.integral \in Int /\ cpid.mv \in Int /\ cpid.sv \in Int /\ cpid.pv \in Int
    BY <1>0 DEF CPid
  <2>2. ASSUME NEW mode \in {"MAN", "AUT", "CAS"}, cpid' = set_mode(cpid, mode)
        PROVE  cpid' \in CPid /\ ValveOrder
    <3>1. cpid.mv - Kp * (cpid.sv - cpid.pv) \in Int
      BY <2>1, TuningTypes
    <3>2. cpid' \in CPid /\ cpid'.mv = cpid.mv
      BY <1>0, <2>1, <2>2, <3>1 DEF set_mode, CPid, PidMode
    <3> QED BY <3>2 DEF ValveOrder
  <2>3. ASSUME NEW sv \in SvSet, cpid' = [cpid EXCEPT !.sv = sv]
        PROVE  cpid' \in CPid /\ ValveOrder
    BY <1>0, <2>3, TuningTypes DEF CPid, ValveOrder
  <2>4. ASSUME cpid.mode = "MAN",
               NEW mv \in {MvLow, MvHigh + 1}, cpid' = bumpless_transfer(cpid, mv)
        PROVE  cpid' \in CPid /\ ValveOrder
    <3>1. mv \in Int
      BY TuningTypes
    <3>2. cpid' = [cpid EXCEPT !.tracking = mv, !.mv = mv, !.integral = 0] /\ 0 \in Int
      BY <2>4 DEF bumpless_transfer
    <3>3. cpid' \in CPid
      BY <1>0, <3>1, <3>2, ValuesReplaced
    <3> QED BY <2>4, <3>3 DEF ValveOrder
  <2>5. cpid' \in CPid /\ ValveOrder
    BY <1>2, <2>2, <2>3, <2>4 DEF pid_operate
  <2> QED BY <1>0, <1>2, <2>5 DEF pid_operate, BlocksInv, SequenceOrder
<1>3. CASE sequence_execute
  <2>1. PICK holds \in BOOLEAN : cseq' = Stepped(cseq, holds)
    <3>1. PICK conditions : cseq' = Stepped(cseq, \A i \in DOMAIN conditions : conditions[i])
      BY <1>3 DEF sequence_execute
    <3> QED BY <3>1
  <2>2. cseq' \in CSeq /\ SequenceOrder
    BY <1>0, <2>1, SteppedIs DEF SequenceOrder
  <2> QED BY <1>0, <1>3, <2>2 DEF sequence_execute, BlocksInv, ValveOrder
<1>4. CASE sequence_hold \/ sequence_abort \/ sequence_reset \/ sequence_run
  <2>1. cseq' \in CSeq /\ cseq'.step \in {cseq.step, 0}
    <3>1. CASE sequence_hold
      BY <1>0, <3>1 DEF sequence_hold, CSeq
    <3>2. CASE sequence_abort
      BY <1>0, <3>2 DEF sequence_abort, CSeq, SeqState
    <3>3. CASE sequence_reset
      BY <1>0, <3>3 DEF sequence_reset, CSeq, SeqState
    <3>4. CASE sequence_run
      BY <1>0, <3>4 DEF sequence_run, CSeq, SeqState
    <3> QED BY <1>4, <3>1, <3>2, <3>3, <3>4
  <2>2. UNCHANGED <<cpid, lc64>>
    BY <1>4 DEF sequence_hold, sequence_abort, sequence_reset, sequence_run
  <2> QED BY <1>0, <2>1, <2>2 DEF BlocksInv, ValveOrder, SequenceOrder
<1>5. CASE lc64_execute
  <2>1. PICK inputs \in SUBSET LogicInputs :
          LET states == [i \in DOMAIN Elements |->
                           Element(Elements[i][1], Elements[i][2] \in inputs,
                                   Elements[i][3] \in inputs, lc64.states[i])]
          IN lc64' = [states |-> states, inputs |-> inputs,
                      mask |-> {i \in DOMAIN Elements : states[i]}]
    BY <1>5 DEF lc64_execute
  <2> DEFINE states == [i \in DOMAIN Elements |->
                          Element(Elements[i][1], Elements[i][2] \in inputs,
                                  Elements[i][3] \in inputs, lc64.states[i])]
  <2>2. states \in [DOMAIN Elements -> BOOLEAN]
    <3>1. \A i \in DOMAIN Elements : lc64.states[i] \in BOOLEAN
      BY <1>0 DEF Lc64
    <3>2. ASSUME NEW i \in DOMAIN Elements
          PROVE  Element(Elements[i][1], Elements[i][2] \in inputs,
                         Elements[i][3] \in inputs, lc64.states[i]) \in BOOLEAN
      <4>1. (Elements[i][2] \in inputs) \in BOOLEAN /\ (Elements[i][3] \in inputs) \in BOOLEAN
        OBVIOUS
      <4> QED BY <3>1, <4>1, ElementIs
    <3> QED BY <3>2
  <2>3. lc64' = [states |-> states, inputs |-> inputs,
                 mask |-> {i \in DOMAIN Elements : states[i]}]
    BY <2>1
  <2> HIDE DEF states
  <2>4. lc64' \in Lc64 /\ lc64'.mask = {i \in DOMAIN Elements : lc64'.states[i]}
    BY <2>2, <2>3 DEF Lc64
  <2> QED BY <1>0, <1>5, <2>4 DEF lc64_execute, BlocksInv, ValveOrder, SequenceOrder
<1>6. CASE SignalsChange \/ UNCHANGED centumControlVars
  BY <1>0, <1>6 DEF SignalsChange, centumControlVars, BlocksInv, ValveOrder, SequenceOrder
<1> QED BY <1>1, <1>2, <1>3, <1>4, <1>5, <1>6 DEF PidBlockNext, BlocksNext

LEMMA BlocksAlone ==
  [CentumNext]_centumVars => [PidBlockNext \/ BlocksNext \/ SignalsChange]_centumControlVars
BY DEF CentumNext, centumVars, BatchStep, PairStep, ControlStep, StationStep, centumControlVars

LEMMA BlocksInvHolds == CentumSpec => []BlocksInv
<1>1. CentumInit => BlocksInv
  BY BlocksInit DEF CentumInit
<1>2. BlocksInv /\ [CentumNext]_centumVars => BlocksInv'
  BY BlocksStep, BlocksAlone
<1> QED BY <1>1, <1>2, PTL DEF CentumSpec

(* Outside manual mode no execution takes the output out of its limits or *)
(* moves it faster than configured, for any tuning; a sequence told to *)
(* hold or abort takes no further step until it is reset. *)
THEOREM BlocksMoveSafelyHolds == CentumSpec => BlocksMoveSafely
<1>1. BlocksInv /\ [CentumNext]_centumVars
        => [ValveOrder]_centumControlVars /\ [SequenceOrder]_centumControlVars
  BY BlocksStep, BlocksAlone
<1>2. /\ ValveMovesSlowly <=> [][ValveOrder]_centumControlVars
      /\ RequestsStick <=> [][SequenceOrder]_centumControlVars
  BY DEF ValveMovesSlowly, RequestsStick, ValveOrder, SequenceOrder
<1> QED BY <1>1, <1>2, BlocksInvHolds, PTL DEF CentumSpec, BlocksMoveSafely

(* The PID, sequence and logic blocks stay well formed. *)
LEMMA BlocksTyped == CentumSpec => []CentumControlTypeOK
<1>1. BlocksInv => CentumControlTypeOK
  BY DEF BlocksInv, CentumControlTypeOK, handle_alarms
<1> QED BY <1>1, BlocksInvHolds, PTL

-----------------------------------------------------------------------------
(* The blocks without state: selector and split range. *)

SignalInv ==
  /\ signal.inputs \in [1 .. 4 -> Int] /\ signal.from \in Int /\ signal.to \in Int

LEMMA SignalsTyped ==
  /\ CentumControlInit => SignalInv
  /\ SignalInv /\ [SignalsChange]_signal => SignalInv'
<1>1. CentumControlInit => SignalInv
  BY DEF CentumControlInit, SignalInit, SignalInv
<1>2. ASSUME SignalsChange PROVE SignalInv'
  <2> DEFINE Levels1 == {-10, 0, 20, 39, 40, 41, 70, 100}
             Levels2 == {0, 21, 40, 90, 110}
  <2>1. Levels1 \subseteq Int /\ Levels2 \subseteq Int
    OBVIOUS
  <2>2. \/ signal' \in [inputs : [1 .. 4 -> 0 .. 3], from : {0}, to : {0}, locked : {{}}]
        \/ signal' \in [inputs : {[i \in 1 .. 4 |-> 0]}, from : Levels1, to : Levels2,
                        locked : SUBSET {1, 2}]
    BY <1>2, Zenon DEF SignalsChange
  <2> HIDE DEF Levels1, Levels2
  <2>3. CASE signal' \in [inputs : [1 .. 4 -> 0 .. 3], from : {0}, to : {0}, locked : {{}}]
    <3>1. signal'.inputs \in [1 .. 4 -> 0 .. 3] /\ signal'.from = 0 /\ signal'.to = 0
      BY <2>3
    <3> QED BY <3>1 DEF SignalInv
  <2>4. CASE signal' \in [inputs : {[i \in 1 .. 4 |-> 0]}, from : Levels1, to : Levels2,
                          locked : SUBSET {1, 2}]
    <3>1. signal'.inputs = [i \in 1 .. 4 |-> 0] /\ signal'.from \in Levels1 /\ signal'.to \in Levels2
      BY <2>4
    <3>2. signal'.from \in Int /\ signal'.to \in Int
      BY <2>1, <3>1
    <3>3. signal'.inputs \in [1 .. 4 -> Int]
      BY <3>1
    <3> QED BY <3>2, <3>3 DEF SignalInv
  <2> QED BY <2>2, <2>3, <2>4
<1> QED BY <1>1, <1>2 DEF SignalInv

(* The split range, valve by valve. *)
LEMMA PercentIs ==
  ASSUME NEW n \in Int, NEW m \in Int, n <= m, NEW d \in {40, 60}
  PROVE  /\ Percent(n, d) \in Int /\ Percent(m, d) \in Int
         /\ 0 <= Percent(n, d) /\ Percent(n, d) <= Percent(m, d) /\ Percent(m, d) <= 100
<1> DEFINE a == (100 * n) \div d
           b == (100 * m) \div d
<1>1. a \in Int /\ b \in Int /\ a <= b
  <2>1. CASE d = 40
    BY <2>1
  <2>2. CASE d = 60
    BY <2>2
  <2> QED BY <2>1, <2>2
<1> HIDE DEF a, b
<1> QED BY <1>1 DEF Percent, Within, a, b

LEMMA SplitIs ==
  ASSUME NEW a \in Int, NEW b \in Int, NEW locked
  PROVE  LET s == split_range(a, 40, locked)
             t == split_range(b, 40, locked)
         IN /\ t[2] > 0 /\ 1 \notin locked => t[1] = 100
            /\ a <= b => \A i \in 1 .. 2 : s[i] <= t[i]
<1> DEFINE First(x) == IF x <= 40 THEN Percent(x, 40) ELSE 100
           Second(x) == IF x <= 40 THEN 0 ELSE Percent(x - 40, 60)
<1>1. ASSUME NEW x \in Int
      PROVE  /\ split_range(x, 40, locked)[1] = IF 1 \in locked THEN 0 ELSE First(x)
             /\ split_range(x, 40, locked)[2] = IF 2 \in locked THEN 0 ELSE Second(x)
  <2>1. 100 - 40 = 60
    OBVIOUS
  <2>2. split_range(x, 40, locked)
          = [i \in 1 .. 2 |-> IF i \in locked THEN 0
                              ELSE (IF x <= 40 THEN <<Percent(x, 40), 0>>
                                    ELSE <<100, Percent(x - 40, 60)>>)[i]]
    BY <2>1 DEF split_range
  <2>3. CASE x <= 40
    BY <2>2, <2>3
  <2>4. CASE ~(x <= 40)
    BY <2>2, <2>4
  <2> QED BY <2>3, <2>4
<1>2. ASSUME NEW x \in Int, NEW y \in Int, x <= y
      PROVE  /\ First(x) \in Int /\ First(y) \in Int /\ First(x) <= First(y)
             /\ Second(x) \in Int /\ Second(y) \in Int /\ Second(x) <= Second(y) /\ 0 <= Second(x)
  <2>1. CASE y <= 40
    BY <1>2, <2>1, PercentIs
  <2>2. CASE x <= 40 /\ ~(y <= 40)
    <3>1. Percent(x, 40) \in Int /\ Percent(x, 40) <= 100
      BY PercentIs
    <3>2. Percent(y - 40, 60) \in Int /\ 0 <= Percent(y - 40, 60)
      BY PercentIs
    <3> QED BY <2>2, <3>1, <3>2
  <2>3. CASE ~(x <= 40) /\ ~(y <= 40)
    <3>1. x - 40 \in Int /\ y - 40 \in Int /\ x - 40 <= y - 40
      BY <1>2
    <3> QED BY <1>2, <2>3, <3>1, PercentIs
  <2> QED BY <1>2, <2>1, <2>2, <2>3
<1>3. Second(b) > 0 => First(b) = 100
  OBVIOUS
<1> HIDE DEF First, Second
<1> DEFINE s == split_range(a, 40, locked)
           t == split_range(b, 40, locked)
<1>4. /\ s[1] = (IF 1 \in locked THEN 0 ELSE First(a)) /\ s[2] = (IF 2 \in locked THEN 0 ELSE Second(a))
      /\ t[1] = (IF 1 \in locked THEN 0 ELSE First(b)) /\ t[2] = (IF 2 \in locked THEN 0 ELSE Second(b))
  BY <1>1
<1>5. a <= b => First(a) <= First(b) /\ Second(a) <= Second(b)
  BY <1>2
<1> HIDE DEF s, t
<1>6. t[2] > 0 /\ 1 \notin locked => t[1] = 100
  <2>1. SUFFICES ASSUME t[2] > 0, 1 \notin locked PROVE t[1] = 100
    OBVIOUS
  <2>2. t[2] = Second(b)
    BY <1>4, <2>1
  <2> QED BY <1>3, <1>4, <2>1, <2>2
<1>7. a <= b => s[1] <= t[1] /\ s[2] <= t[2]
  BY <1>4, <1>5
<1>8. (t[2] > 0 /\ 1 \notin locked => t[1] = 100) /\ (a <= b => \A i \in 1 .. 2 : s[i] <= t[i])
  <2>1. \A i \in 1 .. 2 : i = 1 \/ i = 2
    OBVIOUS
  <2> QED BY <1>6, <1>7, <2>1
<1> QED BY <1>8 DEF s, t

(* The selector.  An exchange puts the smaller of two values first. *)
LEMMA ExchangedIs ==
  ASSUME NEW v \in [1 .. 4 -> Int], NEW i \in 1 .. 4, NEW j \in 1 .. 4, i < j
  PROVE  LET w == Exchanged(v, <<i, j>>)
         IN /\ w \in [1 .. 4 -> Int]
            /\ w[i] = (IF v[i] > v[j] THEN v[j] ELSE v[i])
            /\ w[j] = (IF v[i] > v[j] THEN v[i] ELSE v[j])
            /\ \A k \in 1 .. 4 : k # i /\ k # j => w[k] = v[k]
<1>1. /\ v[i] \in Int /\ v[j] \in Int
      /\ Exchanged(v, <<i, j>>)
           = IF v[i] > v[j] THEN [v EXCEPT ![i] = v[j], ![j] = v[i]] ELSE v
  BY DEF Exchanged
<1>2. CASE v[i] > v[j]
  BY <1>1, <1>2
<1>3. CASE ~(v[i] > v[j])
  BY <1>1, <1>3
<1> QED BY <1>2, <1>3

(* The six exchanges one after another. *)
LEMMA ExchangesAre ==
  ASSUME NEW v
  PROVE  Exchanges(v) =
           LET w1 == Exchanged(v, <<1, 2>>)
               w2 == Exchanged(w1, <<1, 3>>)
               w3 == Exchanged(w2, <<1, 4>>)
               w4 == Exchanged(w3, <<2, 3>>)
               w5 == Exchanged(w4, <<2, 4>>)
           IN Exchanged(w5, <<3, 4>>)
<1> DEFINE w1 == Exchanged(v, <<1, 2>>)
           w2 == Exchanged(w1, <<1, 3>>)
           w3 == Exchanged(w2, <<1, 4>>)
           w4 == Exchanged(w3, <<2, 3>>)
           w5 == Exchanged(w4, <<2, 4>>)
           w6 == Exchanged(w5, <<3, 4>>)
           Eq(h) == h = [n \in 0 .. Len(PairsInOrder) |->
                           IF n = 0 THEN v ELSE Exchanged(h[n - 1], PairsInOrder[n])]
           after == CHOOSE h : Eq(h)
           g == [n \in 0 .. 6 |-> IF n = 0 THEN v ELSE << w1, w2, w3, w4, w5, w6 >>[n]]
<1>1. /\ Len(PairsInOrder) = 6
      /\ PairsInOrder[1] = <<1, 2>> /\ PairsInOrder[2] = <<1, 3>> /\ PairsInOrder[3] = <<1, 4>>
      /\ PairsInOrder[4] = <<2, 3>> /\ PairsInOrder[5] = <<2, 4>> /\ PairsInOrder[6] = <<3, 4>>
  BY DEF PairsInOrder
<1>2. /\ g = [n \in 0 .. 6 |-> g[n]]
      /\ g[0] = v /\ g[1] = w1 /\ g[2] = w2 /\ g[3] = w3 /\ g[4] = w4 /\ g[5] = w5 /\ g[6] = w6
  <2> HIDE DEF w1, w2, w3, w4, w5, w6
  <2> QED OBVIOUS
<1>3. \A n \in 0 .. 6 : g[n] = IF n = 0 THEN v ELSE Exchanged(g[n - 1], PairsInOrder[n])
  <2>1. \A n \in 0 .. 6 : n = 0 \/ n = 1 \/ n = 2 \/ n = 3 \/ n = 4 \/ n = 5 \/ n = 6
    OBVIOUS
  <2>2. /\ w1 = Exchanged(v, <<1, 2>>) /\ w2 = Exchanged(w1, <<1, 3>>)
        /\ w3 = Exchanged(w2, <<1, 4>>) /\ w4 = Exchanged(w3, <<2, 3>>)
        /\ w5 = Exchanged(w4, <<2, 4>>) /\ w6 = Exchanged(w5, <<3, 4>>)
    OBVIOUS
  <2> HIDE DEF g, w1, w2, w3, w4, w5, w6
  <2>3. ASSUME NEW n \in 0 .. 6 PROVE g[n] = IF n = 0 THEN v ELSE Exchanged(g[n - 1], PairsInOrder[n])
    <3>1. CASE n = 0
      BY <1>2, <3>1
    <3>2. CASE n = 1
      BY <1>1, <1>2, <2>2, <3>2
    <3>3. CASE n = 2
      BY <1>1, <1>2, <2>2, <3>3
    <3>4. CASE n = 3
      BY <1>1, <1>2, <2>2, <3>4
    <3>5. CASE n = 4
      BY <1>1, <1>2, <2>2, <3>5
    <3>6. CASE n = 5
      BY <1>1, <1>2, <2>2, <3>6
    <3>7. CASE n = 6
      BY <1>1, <1>2, <2>2, <3>7
    <3> QED BY <2>1, <3>1, <3>2, <3>3, <3>4, <3>5, <3>6, <3>7
  <2> QED BY <2>3
<1>4. Eq(g)
  <2> HIDE DEF g
  <2>1. g = [n \in 0 .. 6 |-> IF n = 0 THEN v ELSE Exchanged(g[n - 1], PairsInOrder[n])]
    BY <1>2, <1>3
  <2> QED BY <1>1, <2>1
<1>5. Eq(after)
  <2> HIDE DEF g
  <2> QED BY <1>4, Zenon
<1>6. Exchanges(v) = after[6]
  BY <1>1, Zenon DEF Exchanges
<1>7. \A n \in 0 .. 6 : after[n] = IF n = 0 THEN v ELSE Exchanged(after[n - 1], PairsInOrder[n])
  <2>1. after = [n \in 0 .. 6 |-> IF n = 0 THEN v ELSE Exchanged(after[n - 1], PairsInOrder[n])]
    <3> HIDE DEF after
    <3> QED BY <1>1, <1>5
  <2> HIDE DEF after
  <2> QED BY <2>1
<1> HIDE DEF after
<1>8. after[0] = v /\ after[1] = w1 /\ after[2] = w2 /\ after[3] = w3
  <2>1. after[0] = v
    BY <1>7
  <2>2. after[1] = w1
    BY <1>1, <1>7, <2>1
  <2>3. after[2] = w2
    <3> HIDE DEF w1
    <3> QED BY <1>1, <1>7, <2>2
  <2>4. after[3] = w3
    <3> HIDE DEF w2
    <3> QED BY <1>1, <1>7, <2>3
  <2> QED BY <2>1, <2>2, <2>3, <2>4
<1>9. after[4] = w4 /\ after[5] = w5 /\ after[6] = w6
  <2>1. after[4] = w4
    <3> HIDE DEF w3
    <3> QED BY <1>1, <1>7, <1>8
  <2>2. after[5] = w5
    <3> HIDE DEF w4
    <3> QED BY <1>1, <1>7, <2>1
  <2>3. after[6] = w6
    <3> HIDE DEF w5
    <3> QED BY <1>1, <1>7, <2>2
  <2> QED BY <2>1, <2>2, <2>3
<1> QED BY <1>6, <1>9

(* Two of four values are at most the second smallest, three at least. *)
Middle(a, b, c, d, m) ==
  /\ \/ a <= m /\ b <= m
     \/ a <= m /\ c <= m
     \/ a <= m /\ d <= m
     \/ b <= m /\ c <= m
     \/ b <= m /\ d <= m
     \/ c <= m /\ d <= m
  /\ \/ a >= m /\ b >= m /\ c >= m
     \/ a >= m /\ b >= m /\ d >= m
     \/ a >= m /\ c >= m /\ d >= m
     \/ b >= m /\ c >= m /\ d >= m

LEMMA MiddleIs ==
  ASSUME NEW v \in [1 .. 4 -> Int]
  PROVE  Exchanges(v)[2] \in Int /\ Middle(v[1], v[2], v[3], v[4], Exchanges(v)[2])
<1> DEFINE Swap(w, x, i, j) ==
             /\ x \in [1 .. 4 -> Int]
             /\ x[i] = (IF w[i] > w[j] THEN w[j] ELSE w[i])
             /\ x[j] = (IF w[i] > w[j] THEN w[i] ELSE w[j])
             /\ \A k \in 1 .. 4 : k # i /\ k # j => x[k] = w[k]
           w1 == Exchanged(v, <<1, 2>>)
           w2 == Exchanged(w1, <<1, 3>>)
           w3 == Exchanged(w2, <<1, 4>>)
           w4 == Exchanged(w3, <<2, 3>>)
           w5 == Exchanged(w4, <<2, 4>>)
           w6 == Exchanged(w5, <<3, 4>>)
<1>1. ASSUME NEW w \in [1 .. 4 -> Int], NEW i \in 1 .. 4, NEW j \in 1 .. 4, i < j
      PROVE  Swap(w, Exchanged(w, <<i, j>>), i, j)
  BY <1>1, ExchangedIs
<1>2. Swap(v, w1, 1, 2) /\ w1 \in [1 .. 4 -> Int]
  <2> HIDE DEF Swap
  <2>1. Swap(v, w1, 1, 2)
    BY <1>1
  <2> QED BY <2>1 DEF Swap
<1> HIDE DEF w1
<1>3. Swap(w1, w2, 1, 3) /\ w2 \in [1 .. 4 -> Int]
  <2> HIDE DEF Swap
  <2>1. Swap(w1, w2, 1, 3)
    BY <1>1, <1>2
  <2> QED BY <2>1 DEF Swap
<1> HIDE DEF w2
<1>4. Swap(w2, w3, 1, 4) /\ w3 \in [1 .. 4 -> Int]
  <2> HIDE DEF Swap
  <2>1. Swap(w2, w3, 1, 4)
    BY <1>1, <1>3
  <2> QED BY <2>1 DEF Swap
<1> HIDE DEF w3
<1>5. Swap(w3, w4, 2, 3) /\ w4 \in [1 .. 4 -> Int]
  <2> HIDE DEF Swap
  <2>1. Swap(w3, w4, 2, 3)
    BY <1>1, <1>4
  <2> QED BY <2>1 DEF Swap
<1> HIDE DEF w4
<1>6. Swap(w4, w5, 2, 4) /\ w5 \in [1 .. 4 -> Int]
  <2> HIDE DEF Swap
  <2>1. Swap(w4, w5, 2, 4)
    BY <1>1, <1>5
  <2> QED BY <2>1 DEF Swap
<1> HIDE DEF w5
<1>7. Swap(w5, w6, 3, 4)
  <2> HIDE DEF Swap
  <2> QED BY <1>1, <1>6
<1>8. Exchanges(v) = w6
  BY ExchangesAre DEF w1, w2, w3, w4, w5
<1> HIDE DEF w6
<1>9. /\ w1[1] = (IF v[1] > v[2] THEN v[2] ELSE v[1]) /\ w1[2] = (IF v[1] > v[2] THEN v[1] ELSE v[2])
      /\ w1[3] = v[3] /\ w1[4] = v[4]
  BY <1>2
<1>10. /\ w2[1] = (IF w1[1] > v[3] THEN v[3] ELSE w1[1]) /\ w2[3] = (IF w1[1] > v[3] THEN w1[1] ELSE v[3])
       /\ w2[2] = w1[2] /\ w2[4] = v[4]
  BY <1>3, <1>9
<1>11. /\ w3[4] = (IF w2[1] > v[4] THEN w2[1] ELSE v[4]) /\ w3[1] = (IF w2[1] > v[4] THEN v[4] ELSE w2[1])
       /\ w3[2] = w1[2] /\ w3[3] = w2[3]
  BY <1>4, <1>10
<1>12. /\ w4[2] = (IF w1[2] > w2[3] THEN w2[3] ELSE w1[2])
       /\ w4[3] = (IF w1[2] > w2[3] THEN w1[2] ELSE w2[3])
       /\ w4[4] = w3[4]
  BY <1>5, <1>11
<1>13. w5[2] = (IF w4[2] > w3[4] THEN w3[4] ELSE w4[2])
  BY <1>6, <1>12
<1>14. w6[2] = w5[2]
  BY <1>7
<1>15. /\ \A k \in 1 .. 4 : v[k] \in Int /\ w1[k] \in Int /\ w2[k] \in Int /\ w3[k] \in Int
                            /\ w4[k] \in Int /\ w5[k] \in Int
       /\ 1 \in 1 .. 4 /\ 2 \in 1 .. 4 /\ 3 \in 1 .. 4 /\ 4 \in 1 .. 4
  BY <1>2, <1>3, <1>4, <1>5, <1>6
<1> QED
  <2> HIDE DEF Swap
  <2>1. Exchanges(v)[2] = w5[2]
    BY <1>8, <1>14
  <2>2. w5[2] \in Int
    BY <1>15
  <2>3. Middle(v[1], v[2], v[3], v[4], w5[2])
    <3>1. /\ v[1] \in Int /\ v[2] \in Int /\ v[3] \in Int /\ v[4] \in Int
          /\ w1[1] \in Int /\ w1[2] \in Int /\ w2[1] \in Int /\ w2[3] \in Int
          /\ w3[4] \in Int /\ w4[2] \in Int /\ w5[2] \in Int
      BY <1>15
    <3> QED BY ONLY <3>1, <1>9, <1>10, <1>11, <1>12, <1>13, SMTT(60) DEF Middle
  <2> QED BY <2>1, <2>2, <2>3

LEMMA AtLeastTwo ==
  ASSUME NEW T, IsFiniteSet(T), NEW i \in T, NEW j \in T, i # j
  PROVE  Cardinality(T) >= 2
<1>1. IsFiniteSet({i}) /\ Cardinality({i}) = 1
  BY FS_Singleton
<1>2. IsFiniteSet({i} \cup {j}) /\ Cardinality({i} \cup {j}) = 2
  BY SMTT(60), <1>1, FS_AddElement
<1>3. Cardinality({i} \cup {j}) <= Cardinality(T) /\ Cardinality(T) \in Nat
  <2>1. {i} \cup {j} \in SUBSET T
    OBVIOUS
  <2> QED BY <2>1, FS_Subset, FS_CardinalityType
<1> QED BY <1>2, <1>3

LEMMA AtLeastThree ==
  ASSUME NEW T, IsFiniteSet(T), NEW i \in T, NEW j \in T, NEW k \in T, i # j, i # k, j # k
  PROVE  Cardinality(T) >= 3
<1>1. T \ {k} \in SUBSET T /\ i \in T \ {k} /\ j \in T \ {k}
  OBVIOUS
<1>2. IsFiniteSet(T \ {k}) /\ Cardinality(T \ {k}) = Cardinality(T) - 1
  BY FS_RemoveElement
<1>3. Cardinality(T \ {k}) >= 2
  <2> DEFINE U == T \ {k}
  <2>1. IsFiniteSet(U) /\ i \in U /\ j \in U
    BY <1>1, <1>2
  <2> HIDE DEF U
  <2>2. Cardinality(U) >= 2
    BY <2>1, AtLeastTwo
  <2> QED BY <2>2 DEF U
<1>4. Cardinality(T) \in Nat
  BY FS_CardinalityType
<1> QED BY <1>2, <1>3, <1>4

LEMMA SignalsAgree == SignalInv => BlocksAgree
<1> SUFFICES ASSUME SignalInv PROVE BlocksAgree
  OBVIOUS
<1> DEFINE v == signal.inputs
           m == selector(v, "mid")
           low == selector(v, "low")
           high == selector(v, "high")
           avg == selector(v, "avg")
<1>1. v \in [1 .. 4 -> Int] /\ v[1] \in Int /\ v[2] \in Int /\ v[3] \in Int /\ v[4] \in Int
  BY DEF SignalInv
<1>2. /\ m = Exchanges(v)[2] /\ low = Min(ToSet(v)) /\ high = Max(ToSet(v))
      /\ avg = (v[1] + v[2] + v[3] + v[4]) \div 4
  BY DEF selector
<1>3. m \in Int /\ Middle(v[1], v[2], v[3], v[4], m)
  <2> HIDE DEF v, m
  <2> QED BY <1>1, <1>2, MiddleIs
<1>4. ToSet(v) = {v[1], v[2], v[3], v[4]}
  <2>1. \A i \in 1 .. 4 : i = 1 \/ i = 2 \/ i = 3 \/ i = 4
    OBVIOUS
  <2> HIDE DEF v
  <2>2. ToSet(v) = {v[i] : i \in 1 .. 4}
    BY <1>1 DEF ToSet
  <2> QED BY <2>1, <2>2
<1> HIDE DEF v, m, low, high, avg
<1>5. /\ low \in ToSet(v) /\ \A y \in ToSet(v) : low <= y
      /\ high \in ToSet(v) /\ \A y \in ToSet(v) : y <= high
  <2>1. \E x \in ToSet(v) : \A y \in ToSet(v) : x <= y
    BY <1>1, <1>4
  <2>2. \E x \in ToSet(v) : \A y \in ToSet(v) : x >= y
    BY <1>1, <1>4
  <2>3. low \in ToSet(v) /\ \A y \in ToSet(v) : low <= y
    BY <1>2, <2>1, Zenon DEF Min
  <2>4. high \in ToSet(v) /\ \A y \in ToSet(v) : high >= y
    BY <1>2, <2>2, Zenon DEF Max
  <2> QED BY <1>1, <1>4, <2>3, <2>4
<1>6. \A i \in 1 .. 4 : low <= v[i] /\ v[i] <= high
  <2>1. \A i \in 1 .. 4 : v[i] \in ToSet(v)
    BY <1>1 DEF ToSet
  <2> QED BY <1>5, <2>1
<1>7. avg \in low .. high
  <2>1. low \in Int /\ high \in Int
    BY <1>1, <1>4, <1>5
  <2>2. /\ low <= v[1] /\ low <= v[2] /\ low <= v[3] /\ low <= v[4]
        /\ v[1] <= high /\ v[2] <= high /\ v[3] <= high /\ v[4] <= high
    BY <1>6
  <2> QED BY <1>1, <1>2, <2>1, <2>2
<1>8. IsFiniteSet(1 .. 4)
  <2>1. 1 \in Int /\ 4 \in Int
    OBVIOUS
  <2> QED BY <2>1, FS_Interval
<1>9. Cardinality({i \in 1 .. 4 : v[i] <= m}) >= 2
  <2> DEFINE T == {i \in 1 .. 4 : v[i] <= m}
  <2>1. IsFiniteSet(T)
    <3>1. T \in SUBSET (1 .. 4)
      OBVIOUS
    <3> QED BY <1>8, <3>1, FS_Subset
  <2>2. \E i, j \in T : i # j
    BY <1>3 DEF Middle
  <2> HIDE DEF T
  <2>3. Cardinality(T) >= 2
    BY <2>1, <2>2, AtLeastTwo
  <2> QED BY <2>3 DEF T
<1>10. Cardinality({i \in 1 .. 4 : v[i] >= m}) >= 3
  <2> DEFINE T == {i \in 1 .. 4 : v[i] >= m}
  <2>1. IsFiniteSet(T)
    <3>1. T \in SUBSET (1 .. 4)
      OBVIOUS
    <3> QED BY <1>8, <3>1, FS_Subset
  <2>2. \E i, j, k \in T : i # j /\ i # k /\ j # k
    BY <1>3 DEF Middle
  <2> HIDE DEF T
  <2>3. Cardinality(T) >= 3
    BY <2>1, <2>2, AtLeastThree
  <2> QED BY <2>3 DEF T
<1>11. LET a == split_range(signal.from, 40, signal.locked)
           b == split_range(signal.to, 40, signal.locked)
       IN /\ b[2] > 0 /\ 1 \notin signal.locked => b[1] = 100
          /\ signal.from <= signal.to => \A i \in 1 .. 2 : a[i] <= b[i]
  <2>1. signal.from \in Int /\ signal.to \in Int
    BY DEF SignalInv
  <2> QED BY <2>1, SplitIs
<1> QED BY <1>6, <1>7, <1>9, <1>10, <1>11 DEF BlocksAgree, v, m, low, high, avg

LEMMA SignalsAlone == [CentumNext]_centumVars => [SignalsChange]_signal
BY DEF CentumNext, centumVars, BatchStep, PairStep, ControlStep, StationStep, centumControlVars,
       PidBlockNext, BlocksNext, pid_block_execute, pid_operate, sequence_execute, sequence_hold,
       sequence_abort, sequence_reset, sequence_run, lc64_execute

(* The middle of four signals, the average and the split range are what *)
(* their names say, for any values. *)
LEMMA BlocksAgreeHolds == CentumSpec => []BlocksAgree
<1>1. CentumInit => SignalInv
  BY SignalsTyped DEF CentumInit
<1>2. SignalInv /\ [CentumNext]_centumVars => SignalInv'
  BY SignalsTyped, SignalsAlone
<1> QED BY <1>1, <1>2, SignalsAgree, PTL DEF CentumSpec

-----------------------------------------------------------------------------
(* The domains and their stations. *)

(* No domain empty or twice, no station in two places. *)
PlantOK(p) ==
  /\ p \in Seq(Domain)
  /\ \A d \in DOMAIN p : p[d].stations # <<>>
  /\ \A d, e \in DOMAIN p : p[d].id = p[e].id => d = e
  /\ \A d, e \in DOMAIN p :
       \A s \in DOMAIN p[d].stations, t \in DOMAIN p[e].stations :
         p[d].stations[s] = p[e].stations[t] => d = e /\ s = t

NotIn(p, id) == \A d \in DOMAIN p : \A s \in DOMAIN p[d].stations : p[d].stations[s] # id

LEMMA DomainTypes ==
  ASSUME NEW p \in Seq(Domain)
  PROVE  /\ Len(p) \in Nat /\ DOMAIN p = 1 .. Len(p)
         /\ \A d \in DOMAIN p : /\ p[d] \in Domain /\ p[d].id \in DomainIds
                                /\ p[d].stations \in Seq(StationIds)
                                /\ DOMAIN p[d].stations = 1 .. Len(p[d].stations)
                                /\ Len(p[d].stations) \in Nat
<1>1. Len(p) \in Nat /\ DOMAIN p = 1 .. Len(p)
  BY LenProperties
<1>2. ASSUME NEW d \in DOMAIN p
      PROVE  p[d] \in Domain /\ p[d].id \in DomainIds /\ p[d].stations \in Seq(StationIds)
  <2>1. p[d] \in Domain
    BY ElementOfSeq, <1>1
  <2> QED BY <2>1 DEF Domain
<1> QED BY <1>1, <1>2, LenProperties

(* A station more in a domain that exists. *)
LEMMA StationAdded ==
  ASSUME NEW p, PlantOK(p), NEW d \in DOMAIN p, NEW id \in StationIds, NotIn(p, id)
  PROVE  PlantOK([p EXCEPT ![d].stations = Append(@, id)])
<1> DEFINE old == p[d].stations
           new == Append(old, id)
           q == [p EXCEPT ![d].stations = Append(@, id)]
<1>1. /\ p \in Seq(Domain) /\ p[d] \in Domain /\ old \in Seq(StationIds) /\ DOMAIN p = 1 .. Len(p)
      /\ Len(old) \in Nat /\ DOMAIN old = 1 .. Len(old)
  BY DomainTypes DEF PlantOK
<1>2. /\ new \in Seq(StationIds) /\ DOMAIN new = 1 .. Len(old) + 1 /\ Len(new) = Len(old) + 1
      /\ \A i \in 1 .. Len(old) : new[i] = old[i]
      /\ new[Len(old) + 1] = id
  <2> HIDE DEF old
  <2>1. /\ new \in Seq(StationIds) /\ Len(new) = Len(old) + 1
        /\ \A i \in 1 .. Len(old) : new[i] = old[i]
        /\ new[Len(old) + 1] = id
    BY <1>1, AppendProperties
  <2> HIDE DEF new
  <2> QED BY <1>1, <2>1, LenProperties
<1>3. q = [p EXCEPT ![d] = [p[d] EXCEPT !.stations = new]]
  OBVIOUS
<1>4. [p[d] EXCEPT !.stations = new] \in Domain
  <2> HIDE DEF new
  <2> QED BY <1>1, <1>2 DEF Domain
<1>5. /\ q \in Seq(Domain) /\ DOMAIN q = DOMAIN p
      /\ q[d].stations = new /\ q[d].id = p[d].id
      /\ \A e \in DOMAIN p : e # d => q[e] = p[e]
  <2> DEFINE r == [p[d] EXCEPT !.stations = new]
  <2>1. r.stations = new /\ r.id = p[d].id
    <3> HIDE DEF new
    <3> QED BY <1>1 DEF Domain
  <2>2. q = [p EXCEPT ![d] = r] /\ r \in Domain
    BY <1>3, <1>4
  <2> HIDE DEF q, r
  <2>3. q \in Seq(Domain) /\ DOMAIN q = DOMAIN p
    BY <1>1, <2>2, ExceptSeq
  <2>4. q[d] = r /\ \A e \in DOMAIN p : e # d => q[e] = p[e]
    BY <1>1, <2>2
  <2> QED BY <2>1, <2>3, <2>4
<1>6. /\ \A e \in DOMAIN p : p[e].stations # <<>>
      /\ \A e, f \in DOMAIN p : p[e].id = p[f].id => e = f
      /\ \A e, f \in DOMAIN p :
           \A s \in DOMAIN p[e].stations, t \in DOMAIN p[f].stations :
             p[e].stations[s] = p[f].stations[t] => e = f /\ s = t
      /\ \A e \in DOMAIN p : \A s \in DOMAIN p[e].stations : p[e].stations[s] # id
  BY DEF PlantOK, NotIn
<1>7. new # <<>>
  <2> HIDE DEF new, old
  <2> QED BY <1>1, <1>2
<1>8. \A s \in DOMAIN new :
        \/ s \in DOMAIN old /\ new[s] = old[s]
        \/ s = Len(old) + 1 /\ new[s] = id
  <2> HIDE DEF new, old
  <2> QED BY <1>1, <1>2
<1> HIDE DEF q, new
<1>9. ASSUME NEW e \in DOMAIN p, NEW f \in DOMAIN p,
             NEW s \in DOMAIN q[e].stations, NEW t \in DOMAIN q[f].stations,
             q[e].stations[s] = q[f].stations[t]
      PROVE  e = f /\ s = t
  <2>1. CASE e = d /\ f = d
    BY <1>5, <1>6, <1>8, <1>9, <2>1
  <2>2. CASE e = d /\ f # d
    BY <1>5, <1>6, <1>8, <1>9, <2>2
  <2>3. CASE e # d /\ f = d
    BY <1>5, <1>6, <1>8, <1>9, <2>3
  <2>4. CASE e # d /\ f # d
    BY <1>5, <1>6, <1>9, <2>4
  <2> QED BY <2>1, <2>2, <2>3, <2>4
<1>10. PlantOK(q)
  BY <1>5, <1>6, <1>7, <1>9 DEF PlantOK
<1> QED BY <1>10 DEF q

(* A station in a domain of its own. *)
LEMMA DomainAdded ==
  ASSUME NEW p, PlantOK(p), NEW domain \in DomainIds, NEW id \in StationIds, NotIn(p, id),
         \A d \in DOMAIN p : p[d].id # domain
  PROVE  PlantOK(Append(p, [id |-> domain, stations |-> <<id>>]))
<1> DEFINE new == [id |-> domain, stations |-> <<id>>]
           q == Append(p, new)
<1>1. p \in Seq(Domain) /\ DOMAIN p = 1 .. Len(p) /\ Len(p) \in Nat
  BY DomainTypes DEF PlantOK
<1>2. /\ new \in Domain /\ new.id = domain /\ new.stations = <<id>>
      /\ DOMAIN new.stations = {1} /\ new.stations[1] = id /\ new.stations # <<>>
  <2>1. <<id>> \in Seq(StationIds) /\ DOMAIN <<id>> = {1} /\ <<id>>[1] = id /\ <<id>> # <<>>
    OBVIOUS
  <2> QED BY <2>1 DEF Domain
<1> HIDE DEF new
<1>3. /\ q \in Seq(Domain) /\ DOMAIN q = 1 .. Len(p) + 1
      /\ \A d \in DOMAIN p : q[d] = p[d]
      /\ q[Len(p) + 1] = new
  <2>1. /\ q \in Seq(Domain) /\ Len(q) = Len(p) + 1
        /\ \A d \in 1 .. Len(p) : q[d] = p[d]
        /\ q[Len(p) + 1] = new
    BY <1>1, <1>2, AppendProperties
  <2> HIDE DEF q
  <2> QED BY <1>1, <2>1, LenProperties
<1>4. \A d \in DOMAIN q :
        \/ d \in DOMAIN p /\ q[d] = p[d]
        \/ d = Len(p) + 1 /\ q[d] = new
  <2> HIDE DEF q
  <2> QED BY <1>1, <1>3
<1>5. /\ \A e \in DOMAIN p : p[e].stations # <<>> /\ p[e].id # domain
      /\ \A e, f \in DOMAIN p : p[e].id = p[f].id => e = f
      /\ \A e, f \in DOMAIN p :
           \A s \in DOMAIN p[e].stations, t \in DOMAIN p[f].stations :
             p[e].stations[s] = p[f].stations[t] => e = f /\ s = t
      /\ \A e \in DOMAIN p : \A s \in DOMAIN p[e].stations : p[e].stations[s] # id
  BY DEF PlantOK, NotIn
<1> HIDE DEF q
<1>6. ASSUME NEW e \in DOMAIN q, NEW f \in DOMAIN q,
             NEW s \in DOMAIN q[e].stations, NEW t \in DOMAIN q[f].stations,
             q[e].stations[s] = q[f].stations[t]
      PROVE  e = f /\ s = t
  <2>1. CASE q[e] = new /\ e = Len(p) + 1
    <3>1. s = 1 /\ q[e].stations[s] = id
      BY <1>2, <2>1
    <3>2. CASE f \in DOMAIN p /\ q[f] = p[f]
      BY <1>5, <1>6, <3>1, <3>2
    <3>3. CASE q[f] = new /\ f = Len(p) + 1
      BY <1>2, <2>1, <3>1, <3>3
    <3> QED BY <1>4, <3>2, <3>3
  <2>2. CASE e \in DOMAIN p /\ q[e] = p[e]
    <3>1. CASE f \in DOMAIN p /\ q[f] = p[f]
      BY <1>5, <1>6, <2>2, <3>1
    <3>2. CASE q[f] = new /\ f = Len(p) + 1
      BY <1>2, <1>5, <1>6, <2>2, <3>2
    <3> QED BY <1>4, <3>1, <3>2
  <2> QED BY <1>4, <2>1, <2>2
<1>7. \A d \in DOMAIN q : q[d].stations # <<>>
  BY <1>2, <1>4, <1>5
<1>8. \A d, e \in DOMAIN q : q[d].id = q[e].id => d = e
  BY <1>2, <1>4, <1>5
<1> QED BY <1>3, <1>6, <1>7, <1>8 DEF PlantOK, q, new

LEMMA JoinedIs ==
  ASSUME NEW p, PlantOK(p), NEW domain \in DomainIds, NEW id \in StationIds, NotIn(p, id)
  PROVE  PlantOK(Joined(p, domain, id))
<1>1. CASE \E d \in DOMAIN p : p[d].id = domain
  <2> DEFINE I == {i \in 1 .. Len(p) : p[i].id = domain}
             d == SelectInSeq(p, LAMBDA x : x.id = domain)
  <2>1. DOMAIN p = 1 .. Len(p) /\ Len(p) \in Nat
    BY DomainTypes DEF PlantOK
  <2>2. I # {} /\ I \subseteq Nat
    BY <1>1, <2>1
  <2>3. d = Min(I)
    BY <2>2 DEF SelectInSeq
  <2>4. d \in DOMAIN p
    <3>1. d \in I
      <4> HIDE DEF I, d
      <4> QED BY <2>2, <2>3, MinOfNats
    <3> QED BY <2>1, <3>1
  <2>5. Joined(p, domain, id) = IF Len(p[d].stations) < MaxStations
                                THEN [p EXCEPT ![d].stations = Append(@, id)] ELSE p
    BY <1>1, Zenon DEF Joined
  <2> HIDE DEF d
  <2> QED BY <2>4, <2>5, StationAdded
<1>2. CASE ~(\E d \in DOMAIN p : p[d].id = domain)
  <2>1. Joined(p, domain, id) = IF Len(p) < MaxDomains
                                THEN Append(p, [id |-> domain, stations |-> <<id>>]) ELSE p
    BY <1>2, Zenon DEF Joined
  <2> QED BY <1>2, <2>1, DomainAdded
<1> QED BY <1>1, <1>2

(* Where an entry was before the one at k was taken out. *)
Earlier(k, i) == IF i < k THEN i ELSE i + 1

LEMMA EarlierIs ==
  ASSUME NEW n \in Nat, NEW k \in 1 .. n
  PROVE  /\ \A i \in 1 .. n - 1 : Earlier(k, i) \in 1 .. n
         /\ \A i, j \in 1 .. n - 1 : Earlier(k, i) = Earlier(k, j) => i = j
BY DEF Earlier

LEMMA RemovedFrom ==
  ASSUME NEW T, NEW s \in Seq(T), NEW k \in DOMAIN s
  PROVE  /\ RemoveAt(s, k) \in Seq(T) /\ Len(s) - 1 \in Nat
         /\ DOMAIN RemoveAt(s, k) = 1 .. Len(s) - 1 /\ Len(RemoveAt(s, k)) = Len(s) - 1
         /\ \A i \in DOMAIN RemoveAt(s, k) :
              Earlier(k, i) \in DOMAIN s /\ RemoveAt(s, k)[i] = s[Earlier(k, i)]
         /\ \A i, j \in DOMAIN RemoveAt(s, k) : Earlier(k, i) = Earlier(k, j) => i = j
<1>1. /\ RemoveAt(s, k) \in Seq(T) /\ DOMAIN RemoveAt(s, k) = 1 .. Len(s) - 1
      /\ \A i \in 1 .. Len(s) - 1 : RemoveAt(s, k)[i] = s[Earlier(k, i)]
  BY RemovedIs DEF Earlier
<1>2. DOMAIN s = 1 .. Len(s) /\ Len(s) \in Nat /\ k \in 1 .. Len(s)
  BY LenProperties
<1>3. /\ \A i \in 1 .. Len(s) - 1 : Earlier(k, i) \in 1 .. Len(s)
      /\ \A i, j \in 1 .. Len(s) - 1 : Earlier(k, i) = Earlier(k, j) => i = j
  BY <1>2, EarlierIs
<1>4. Len(s) - 1 \in Nat
  BY <1>2
<1>5. Len(RemoveAt(s, k)) = Len(s) - 1
  <2> DEFINE r == RemoveAt(s, k)
  <2>1. r \in Seq(T) /\ DOMAIN r = 1 .. Len(s) - 1
    BY <1>1
  <2> HIDE DEF r
  <2>2. Len(r) = Len(s) - 1
    BY <1>4, <2>1, LenProperties
  <2> QED BY <2>2 DEF r
<1> QED BY <1>1, <1>2, <1>3, <1>4, <1>5

LEMMA LeftIs ==
  ASSUME NEW p, PlantOK(p), NEW d \in DOMAIN p, NEW k \in DOMAIN p[d].stations
  PROVE  PlantOK(Left(p, d, k))
<1>1. /\ p \in Seq(Domain) /\ p[d] \in Domain /\ p[d].stations \in Seq(StationIds)
      /\ DOMAIN p = 1 .. Len(p) /\ Len(p) \in Nat
      /\ Len(p[d].stations) \in Nat /\ DOMAIN p[d].stations = 1 .. Len(p[d].stations)
  BY DomainTypes DEF PlantOK
<1>2. /\ \A e \in DOMAIN p : p[e].stations # <<>>
      /\ \A e, f \in DOMAIN p : p[e].id = p[f].id => e = f
      /\ \A e, f \in DOMAIN p :
           \A s \in DOMAIN p[e].stations, t \in DOMAIN p[f].stations :
             p[e].stations[s] = p[f].stations[t] => e = f /\ s = t
  BY DEF PlantOK
<1>3. CASE Len(p[d].stations) = 1
  <2> DEFINE q == RemoveAt(p, d)
  <2>1. /\ q \in Seq(Domain)
        /\ \A e \in DOMAIN q : Earlier(d, e) \in DOMAIN p /\ q[e] = p[Earlier(d, e)]
        /\ \A e, f \in DOMAIN q : Earlier(d, e) = Earlier(d, f) => e = f
    BY <1>1, RemovedFrom
  <2>2. Left(p, d, k) = q
    BY <1>3 DEF Left
  <2> HIDE DEF q
  <2>3. PlantOK(q)
    <3>1. \A e \in DOMAIN q : q[e].stations # <<>>
      BY <1>2, <2>1
    <3>2. \A e, f \in DOMAIN q : q[e].id = q[f].id => e = f
      BY <1>2, <2>1
    <3>3. ASSUME NEW e \in DOMAIN q, NEW f \in DOMAIN q,
                 NEW s \in DOMAIN q[e].stations, NEW t \in DOMAIN q[f].stations,
                 q[e].stations[s] = q[f].stations[t]
          PROVE  e = f /\ s = t
      <4>1. Earlier(d, e) = Earlier(d, f) /\ s = t
        BY <1>2, <2>1, <3>3
      <4> QED BY <2>1, <4>1
    <3> QED BY <2>1, <3>1, <3>2, <3>3 DEF PlantOK
  <2> QED BY <2>2, <2>3
<1>4. CASE Len(p[d].stations) # 1
  <2> DEFINE old == p[d].stations
             new == RemoveAt(old, k)
             r == [p[d] EXCEPT !.stations = new]
             q == [p EXCEPT ![d] = r]
  <2>1. Left(p, d, k) = q
    BY <1>4 DEF Left
  <2>2. old \in Seq(StationIds) /\ k \in DOMAIN old
    BY <1>1
  <2>3. /\ new \in Seq(StationIds) /\ Len(new) = Len(old) - 1
        /\ \A i \in DOMAIN new : Earlier(k, i) \in DOMAIN old /\ new[i] = old[Earlier(k, i)]
        /\ \A i, j \in DOMAIN new : Earlier(k, i) = Earlier(k, j) => i = j
    <3> HIDE DEF old
    <3> QED BY <2>2, RemovedFrom
  <2> HIDE DEF new
  <2>4. r \in Domain /\ r.stations = new /\ r.id = p[d].id
    BY <1>1, <2>3 DEF Domain
  <2>5. new # <<>>
    <3>1. Len(old) # 1 /\ Len(old) >= 1 /\ Len(old) \in Nat
      BY <1>1, <1>4
    <3> HIDE DEF old
    <3> QED BY <2>3, <3>1
  <2> HIDE DEF q, r
  <2>6. /\ q \in Seq(Domain) /\ DOMAIN q = DOMAIN p
        /\ q[d] = r /\ \A e \in DOMAIN p : e # d => q[e] = p[e]
    <3>1. q = [p EXCEPT ![d] = r]
      BY DEF q
    <3> QED BY <1>1, <2>4, <3>1, ExceptSeq
  <2>7. ASSUME NEW e \in DOMAIN p, NEW f \in DOMAIN p,
               NEW s \in DOMAIN q[e].stations, NEW t \in DOMAIN q[f].stations,
               q[e].stations[s] = q[f].stations[t]
        PROVE  e = f /\ s = t
    <3>1. CASE e = d /\ f = d
      <4>1. Earlier(k, s) = Earlier(k, t)
        BY <1>2, <2>3, <2>4, <2>6, <2>7, <3>1
      <4> QED BY <2>3, <2>4, <2>6, <3>1, <4>1
    <3>2. CASE e = d /\ f # d
      BY <1>2, <2>3, <2>4, <2>6, <2>7, <3>2
    <3>3. CASE e # d /\ f = d
      BY <1>2, <2>3, <2>4, <2>6, <2>7, <3>3
    <3>4. CASE e # d /\ f # d
      BY <1>2, <2>6, <2>7, <3>4
    <3> QED BY <3>1, <3>2, <3>3, <3>4
  <2>8. \A e \in DOMAIN p : q[e].stations # <<>>
    BY <1>2, <2>4, <2>5, <2>6
  <2>9. \A e, f \in DOMAIN p : q[e].id = q[f].id => e = f
    BY <1>2, <2>4, <2>6
  <2> QED BY <2>1, <2>6, <2>7, <2>8, <2>9 DEF PlantOK
<1> QED BY <1>3, <1>4

(* What the checks ask for is what validation looks at. *)
LEMMA PlantValidates ==
  ASSUME NEW p, PlantOK(p)
  PROVE  system_validate(p) = IF p = <<>> THEN "WARNING" ELSE "OK"
<1>1. /\ \A e, f \in DOMAIN p : p[e].id = p[f].id => e = f
      /\ \A e, f \in DOMAIN p :
           \A s \in DOMAIN p[e].stations, t \in DOMAIN p[f].stations :
             p[e].stations[s] = p[f].stations[t] => e = f /\ s = t
  BY DEF PlantOK
<1>2. \A d \in DOMAIN p : IsInjective(p[d].stations)
  BY <1>1 DEF IsInjective
<1>3. ASSUME NEW d \in DOMAIN p, NEW e \in DOMAIN p, d < e
      PROVE  ToSet(p[d].stations) \intersect ToSet(p[e].stations) = {}
  <2>1. d # e
    <3>1. d \in Nat /\ e \in Nat
      BY DomainTypes DEF PlantOK
    <3> QED BY <1>3, <3>1
  <2> QED BY <1>1, <2>1 DEF ToSet
<1>4. ~(\E d, e \in DOMAIN p : d < e /\ ToSet(p[d].stations) \intersect ToSet(p[e].stations) # {})
  BY <1>3
<1>5. ~(\E d, e \in DOMAIN p : d # e /\ p[d].id = p[e].id)
  BY <1>1
<1> QED BY <1>2, <1>4, <1>5, Zenon DEF system_validate

LEMMA PlantKept ==
  /\ StationInit => PlantOK(plant)
  /\ PlantOK(plant) /\ [PlantNext]_plant => PlantOK(plant')
<1>1. ASSUME StationInit PROVE PlantOK(plant)
  <2>1. plant = <<>>
    BY <1>1 DEF StationInit
  <2>2. <<>> \in Seq(Domain) /\ DOMAIN <<>> = {}
    BY EmptySeq
  <2> QED BY <2>1, <2>2 DEF PlantOK
<1>2. ASSUME PlantOK(plant), add_station PROVE PlantOK(plant')
  <2>1. PICK domain \in DomainIds : \E id \in StationIds : ~StationInUse(id) /\ plant' = Joined(plant, domain, id)
    BY <1>2 DEF add_station
  <2>2. PICK id \in StationIds : ~StationInUse(id) /\ plant' = Joined(plant, domain, id)
    BY <2>1
  <2>3. NotIn(plant, id)
    BY <2>2 DEF NotIn, StationInUse
  <2> QED BY <1>2, <2>2, <2>3, JoinedIs
<1>3. ASSUME PlantOK(plant), remove_station PROVE PlantOK(plant')
  BY <1>3, LeftIs DEF remove_station
<1> QED BY <1>1, <1>2, <1>3 DEF PlantNext

-----------------------------------------------------------------------------
(* Nodes and modules of a control station. *)

FcsInv ==
  /\ fcs \in Fcs
  /\ \A i, j \in DOMAIN fcs.modules : fcs.modules[i].slot = fcs.modules[j].slot => i = j
  /\ \A i, j \in DOMAIN fcs.nodes : fcs.nodes[i] = fcs.nodes[j] => i = j

Module == [slot : Slots, channels : Nat]

LEMMA FcsTypes ==
  ASSUME fcs \in Fcs
  PROVE  /\ fcs = [nodes |-> fcs.nodes, modules |-> fcs.modules]
         /\ fcs.nodes \in Seq(Nat) /\ fcs.modules \in Seq(Module)
         /\ DOMAIN fcs.modules = 1 .. Len(fcs.modules) /\ Len(fcs.modules) \in Nat
         /\ DOMAIN fcs.nodes = 1 .. Len(fcs.nodes) /\ Len(fcs.nodes) \in Nat
<1>1. fcs.nodes \in Seq(Nat) /\ fcs.modules \in Seq(Module) /\ fcs = [nodes |-> fcs.nodes, modules |-> fcs.modules]
  BY DEF Fcs, Module
<1> QED BY <1>1, LenProperties

(* A value that a sequence does not hold yet. *)
LEMMA AppendedIs ==
  ASSUME NEW T, NEW s \in Seq(T), NEW x \in T
  PROVE  /\ Append(s, x) \in Seq(T) /\ DOMAIN Append(s, x) = 1 .. Len(s) + 1
         /\ DOMAIN s = 1 .. Len(s) /\ Len(s) \in Nat
         /\ \A i \in DOMAIN Append(s, x) :
              \/ i \in DOMAIN s /\ Append(s, x)[i] = s[i]
              \/ i = Len(s) + 1 /\ Append(s, x)[i] = x
<1> DEFINE t == Append(s, x)
<1>1. /\ t \in Seq(T) /\ Len(t) = Len(s) + 1
      /\ \A i \in 1 .. Len(s) : t[i] = s[i]
      /\ t[Len(s) + 1] = x
  BY AppendProperties
<1>2. DOMAIN s = 1 .. Len(s) /\ Len(s) \in Nat
  BY LenProperties
<1> HIDE DEF t
<1>3. DOMAIN t = 1 .. Len(s) + 1
  BY <1>1, LenProperties
<1>4. \A i \in DOMAIN t :
        \/ i \in DOMAIN s /\ t[i] = s[i]
        \/ i = Len(s) + 1 /\ t[i] = x
  BY <1>1, <1>2, <1>3
<1> QED BY <1>1, <1>2, <1>3, <1>4 DEF t

LEMMA FcsKept ==
  /\ StationInit => FcsInv
  /\ FcsInv /\ [FcsNext]_fcs => FcsInv'
<1>1. ASSUME StationInit PROVE FcsInv
  <2>1. fcs = [nodes |-> <<>>, modules |-> <<>>]
    BY <1>1 DEF StationInit
  <2>2. <<>> \in Seq(Nat) /\ <<>> \in Seq([slot : Slots, channels : Nat]) /\ DOMAIN <<>> = {}
    BY EmptySeq
  <2> QED BY <2>1, <2>2 DEF FcsInv, Fcs
<1>2. ASSUME FcsInv
      PROVE  /\ fcs \in Fcs
             /\ \A i, j \in DOMAIN fcs.modules : fcs.modules[i].slot = fcs.modules[j].slot => i = j
             /\ \A i, j \in DOMAIN fcs.nodes : fcs.nodes[i] = fcs.nodes[j] => i = j
  BY <1>2 DEF FcsInv
<1>3. ASSUME FcsInv, add_nio_node PROVE FcsInv'
  <2> DEFINE s == fcs.nodes
  <2>1. PICK a \in 1 .. MaxNodes + 1 : a \notin ToSet(s) /\ fcs' = [fcs EXCEPT !.nodes = Append(s, a)]
    BY <1>3 DEF add_nio_node
  <2>2. a \in Nat /\ s \in Seq(Nat) /\ fcs.modules \in Seq(Module)
    BY <1>2, <1>3, <2>1, FcsTypes, CentumStationAssumption
  <2>3. fcs'.nodes = Append(s, a) /\ fcs'.modules = fcs.modules
        /\ fcs' = [nodes |-> Append(s, a), modules |-> fcs.modules]
    BY <1>2, <1>3, <2>1 DEF Fcs
  <2>4. \A i \in DOMAIN s : s[i] # a
    BY <2>1 DEF ToSet
  <2>5. \A i, j \in DOMAIN s : s[i] = s[j] => i = j
    BY <1>2, <1>3
  <2> HIDE DEF s
  <2> DEFINE t == Append(s, a)
  <2>6. /\ t \in Seq(Nat)
        /\ \A i \in DOMAIN t :
             \/ i \in DOMAIN s /\ t[i] = s[i]
             \/ i = Len(s) + 1 /\ t[i] = a
    BY <2>2, AppendedIs
  <2> HIDE DEF t
  <2>7. \A i, j \in DOMAIN t : t[i] = t[j] => i = j
    BY <2>4, <2>5, <2>6
  <2>8. fcs' \in Fcs
    BY <2>2, <2>3, <2>6 DEF Fcs, Module, t
  <2>9. fcs'.nodes = t
    BY <2>3 DEF t
  <2> QED BY <1>2, <1>3, <2>3, <2>7, <2>8, <2>9 DEF FcsInv
<1>4. ASSUME FcsInv, add_io_module PROVE FcsInv'
  <2> DEFINE s == fcs.modules
  <2>1. PICK slot \in Slots \ SlotsUsed(fcs) : \E channels \in {0, 8} :
               fcs' = [fcs EXCEPT !.modules = Append(s, [slot |-> slot, channels |-> channels])]
    BY <1>4 DEF add_io_module
  <2>2. PICK channels \in {0, 8} :
               fcs' = [fcs EXCEPT !.modules = Append(s, [slot |-> slot, channels |-> channels])]
    BY <2>1
  <2> DEFINE x == [slot |-> slot, channels |-> channels]
             t == Append(s, x)
  <2>3. x \in Module /\ x.slot = slot
    BY <2>1, <2>2 DEF Module
  <2>4. s \in Seq(Module) /\ fcs.nodes \in Seq(Nat)
    BY <1>2, <1>4, FcsTypes
  <2>5. fcs' = [fcs EXCEPT !.modules = t]
    BY <2>2
  <2>6. \A i \in DOMAIN s : s[i].slot # slot
    BY <2>1 DEF SlotsUsed
  <2>7. \A i, j \in DOMAIN s : s[i].slot = s[j].slot => i = j
    BY <1>2, <1>4
  <2> HIDE DEF x
  <2>8. /\ t \in Seq(Module)
        /\ \A i \in DOMAIN t :
             \/ i \in DOMAIN s /\ t[i] = s[i]
             \/ i = Len(s) + 1 /\ t[i] = x
    <3> HIDE DEF s
    <3> QED BY <2>3, <2>4, AppendedIs
  <2> HIDE DEF t, s
  <2>9. \A i, j \in DOMAIN t : t[i].slot = t[j].slot => i = j
    BY <2>3, <2>6, <2>7, <2>8
  <2>10. fcs'.modules = t /\ fcs'.nodes = fcs.nodes
    BY <1>2, <1>4, <2>5 DEF Fcs
  <2>11. fcs' \in Fcs
    BY <1>2, <1>4, <2>5, <2>8 DEF Fcs, Module
  <2> QED BY <1>2, <1>4, <2>9, <2>10, <2>11 DEF FcsInv
<1>5. ASSUME FcsInv, remove_io_module PROVE FcsInv'
  <2> DEFINE s == fcs.modules
  <2>1. PICK k \in DOMAIN s : fcs' = [fcs EXCEPT !.modules = RemoveAt(s, k)]
    BY <1>5 DEF remove_io_module
  <2> DEFINE t == RemoveAt(s, k)
  <2>2. s \in Seq(Module)
    BY <1>2, <1>5, FcsTypes
  <2>3. \A i, j \in DOMAIN s : s[i].slot = s[j].slot => i = j
    BY <1>2, <1>5
  <2>4. fcs' = [fcs EXCEPT !.modules = t]
    BY <2>1
  <2> HIDE DEF s
  <2>5. /\ t \in Seq(Module)
        /\ \A i \in DOMAIN t : Earlier(k, i) \in DOMAIN s /\ t[i] = s[Earlier(k, i)]
        /\ \A i, j \in DOMAIN t : Earlier(k, i) = Earlier(k, j) => i = j
    BY <2>2, RemovedFrom
  <2> HIDE DEF t
  <2>6. \A i, j \in DOMAIN t : t[i].slot = t[j].slot => i = j
    BY <2>3, <2>5
  <2>7. fcs'.modules = t /\ fcs'.nodes = fcs.nodes /\ fcs' \in Fcs
    BY <1>2, <1>5, <2>4, <2>5 DEF Fcs, Module
  <2> QED BY <1>2, <1>5, <2>6, <2>7 DEF FcsInv
<1>6. ASSUME FcsInv, UNCHANGED fcs PROVE FcsInv'
  BY <1>6 DEF FcsInv
<1> QED BY <1>1, <1>3, <1>4, <1>5, <1>6 DEF FcsNext

LEMMA SlotsCounted == FcsInv => Cardinality(SlotsUsed(fcs)) = Len(fcs.modules)
<1> SUFFICES ASSUME FcsInv PROVE Cardinality(SlotsUsed(fcs)) = Len(fcs.modules)
  OBVIOUS
<1> DEFINE n == Len(fcs.modules)
           f == [i \in 1 .. n |-> fcs.modules[i].slot]
<1>1. n \in Nat /\ DOMAIN fcs.modules = 1 .. n
  BY FcsTypes DEF FcsInv
<1>2. \A i, j \in DOMAIN fcs.modules : fcs.modules[i].slot = fcs.modules[j].slot => i = j
  BY DEF FcsInv
<1>3. f \in Bijection(1 .. n, SlotsUsed(fcs))
  <2>1. \A i \in 1 .. n : f[i] = fcs.modules[i].slot
    OBVIOUS
  <2>2. f \in [1 .. n -> SlotsUsed(fcs)]
    BY <1>1 DEF SlotsUsed
  <2>3. \A i, j \in 1 .. n : f[i] = f[j] => i = j
    BY <1>1, <1>2, <2>1
  <2>4. \A x \in SlotsUsed(fcs) : \E i \in 1 .. n : f[i] = x
    BY <1>1, <2>1 DEF SlotsUsed
  <2> HIDE DEF f, n
  <2> QED BY <2>2, <2>3, <2>4 DEF Bijection, Injection, Surjection, IsInjective
<1>4. IsFiniteSet(1 .. n) /\ Cardinality(1 .. n) = n
  <2> HIDE DEF n
  <2>1. 1 \in Int /\ n \in Int
    BY <1>1
  <2>2. IsFiniteSet(1 .. n) /\ Cardinality(1 .. n) = IF 1 > n THEN 0 ELSE n - 1 + 1
    BY <2>1, FS_Interval
  <2> QED BY <1>1, <2>2
<1> HIDE DEF f
<1>5. Cardinality(1 .. n) = Cardinality(SlotsUsed(fcs))
  BY <1>3, <1>4, FS_Bijection DEF ExistsBijection
<1> QED BY <1>4, <1>5

-----------------------------------------------------------------------------
(* Devices and schedule of a segment. *)

Device == [address : Addresses, vcrs : Nat]

SegmentInv ==
  /\ segment \in Segment
  /\ \A i, j \in DOMAIN segment.devices :
       segment.devices[i].address = segment.devices[j].address => i = j
  /\ \E k \in Nat : segment.macrocycle = 1200 * k

LEMMA SegmentTypes ==
  ASSUME segment \in Segment
  PROVE  segment.devices \in Seq(Device) /\ segment.macrocycle \in Nat
BY DEF Segment, Device

(* A whole number of milliseconds is scheduled. *)
LEMMA ScheduledIs ==
  ASSUME NEW seg, seg.devices \in Seq(Device)
  PROVE  \E k \in Nat : Scheduled(seg) = 1000 * k
<1> DEFINE S == DOMAIN seg.devices
           val(i) == seg.devices[i].vcrs * 1000
           f == [i \in S |-> val(i)]
           Eq(g) == g = [s \in SUBSET S |->
                           IF s = {} THEN 0
                           ELSE LET x == CHOOSE y \in s : TRUE IN val(x) + g[s \ {x}]]
           iter == CHOOSE g : Eq(g)
<1>1. IsFiniteSet(S)
  <2>1. S = 1 .. Len(seg.devices) /\ 1 \in Int /\ Len(seg.devices) \in Int
    BY LenProperties
  <2> HIDE DEF S
  <2> QED BY <2>1, FS_Interval
<1>2. \A i \in S : seg.devices[i].vcrs \in Nat
  <2> DEFINE ds == seg.devices
  <2>1. ds \in Seq(Device)
    OBVIOUS
  <2>2. \A i \in DOMAIN ds : ds[i] \in Device
    <3> HIDE DEF ds
    <3> QED BY <2>1, ElementOfSeq, LenProperties
  <2> QED BY <2>2 DEF Device
<1>3. \A i \in S : val(i) \in Int /\ val(i) = 1000 * seg.devices[i].vcrs
  BY <1>2
<1>4. f \in [S -> Int] /\ \A i \in S : f[i] = val(i)
  <2> HIDE DEF val
  <2> QED BY <1>3
<1> HIDE DEF f, val, S
<1>5. PICK g : g \in Sums(S, f)
  BY <1>1, <1>4, SumsExist
<1>6. Eq(g)
  <2>1. /\ g \in [SUBSET S -> Int]
        /\ \A s \in SUBSET S : g[s] = IF s = {} THEN 0 ELSE f[Picked(s)] + g[s \ {Picked(s)}]
    BY <1>5 DEF Sums
  <2>2. ASSUME NEW s \in SUBSET S, s # {} PROVE f[Picked(s)] = val(Picked(s))
    <3>1. Picked(s) \in S
      BY <2>2 DEF Picked
    <3> QED BY <1>4, <3>1
  <2>3. g = [s \in SUBSET S |-> IF s = {} THEN 0 ELSE val(Picked(s)) + g[s \ {Picked(s)}]]
    <3>1. \A s \in SUBSET S :
            g[s] = IF s = {} THEN 0 ELSE val(Picked(s)) + g[s \ {Picked(s)}]
      BY <2>1, <2>2
    <3> QED BY <2>1, <3>1
  <2> QED BY <2>3, Zenon DEF Picked
<1>7. Eq(iter)
  BY <1>6, Zenon
<1>8. Scheduled(seg) = iter[S]
  BY Zenon DEF Scheduled, MapThenSumSet, MapThenFoldSet, S, val
<1> DEFINE T == {s \in SUBSET S : \E k \in Nat : iter[s] = 1000 * k}
<1>9. ASSUME NEW s \in SUBSET S
      PROVE  iter[s] = IF s = {} THEN 0 ELSE val(Picked(s)) + iter[s \ {Picked(s)}]
  <2>1. ASSUME NEW h, Eq(h)
        PROVE  h[s] = IF s = {} THEN 0 ELSE val(Picked(s)) + h[s \ {Picked(s)}]
    BY <2>1 DEF Picked
  <2> HIDE DEF iter, Eq
  <2> QED BY <1>7, <2>1
<1> HIDE DEF iter
<1>10. {} \in T
  <2>1. {} \in SUBSET S
    OBVIOUS
  <2>2. iter[{}] = 0
    BY <1>9, <2>1, Zenon
  <2>3. 0 = 1000 * 0 /\ 0 \in Nat
    OBVIOUS
  <2> QED BY <2>1, <2>2, <2>3
<1>11. ASSUME NEW s \in SUBSET S, s # {}, \A x \in s : s \ {x} \in T
       PROVE  s \in T
  <2> DEFINE x == Picked(s)
  <2>1. x \in s /\ x \in S
    BY <1>11 DEF Picked
  <2> HIDE DEF x
  <2>2. iter[s] = val(x) + iter[s \ {x}]
    BY <1>9, <1>11 DEF x
  <2>3. PICK k \in Nat : iter[s \ {x}] = 1000 * k
    BY ZenonT(40), <1>11, <2>1
  <2> DEFINE c == seg.devices[x].vcrs
  <2>4. val(x) = 1000 * c /\ c \in Nat
    BY <1>2, <1>3, <2>1 DEF S
  <2> HIDE DEF c
  <2>5. iter[s] = 1000 * (c + k) /\ c + k \in Nat
    BY <2>2, <2>3, <2>4
  <2> QED BY <2>5
<1>12. S \in T
  <2>1. SUBSET S \subseteq T
    <3> HIDE DEF T
    <3> QED BY <1>1, <1>10, <1>11, SubsetInduction
  <2> QED BY <2>1
<1> QED BY <1>8, <1>12

LEMMA SegmentKept ==
  /\ StationInit => SegmentInv
  /\ SegmentInv /\ [SegmentNext]_segment => SegmentInv'
<1>1. ASSUME StationInit PROVE SegmentInv
  <2>1. segment = [devices |-> <<>>, macrocycle |-> 0]
    BY <1>1 DEF StationInit
  <2>2. <<>> \in Seq([address : Addresses, vcrs : Nat]) /\ DOMAIN <<>> = {}
    BY EmptySeq
  <2>3. segment \in Segment
    BY <2>1, <2>2 DEF Segment
  <2>4. 0 \in Nat /\ segment.macrocycle = 1200 * 0
    BY <2>1
  <2> QED BY <2>1, <2>2, <2>3, <2>4 DEF SegmentInv
<1> DEFINE s == segment.devices
<1>2. ASSUME SegmentInv
      PROVE  /\ segment \in Segment /\ s \in Seq(Device) /\ segment.macrocycle \in Nat
             /\ \A i, j \in DOMAIN s : s[i].address = s[j].address => i = j
             /\ \E k \in Nat : segment.macrocycle = 1200 * k
  BY <1>2, SegmentTypes DEF SegmentInv
<1>3. ASSUME SegmentInv, add_device PROVE SegmentInv'
  <2>1. PICK address \in Addresses : \E vcrs \in 0 .. 2 :
               /\ \A i \in DOMAIN s : s[i].address # address
               /\ segment' = [segment EXCEPT !.devices = Append(s, [address |-> address, vcrs |-> vcrs])]
    BY <1>3 DEF add_device
  <2>2. PICK vcrs \in 0 .. 2 :
               /\ \A i \in DOMAIN s : s[i].address # address
               /\ segment' = [segment EXCEPT !.devices = Append(s, [address |-> address, vcrs |-> vcrs])]
    BY <2>1
  <2> DEFINE x == [address |-> address, vcrs |-> vcrs]
             t == Append(s, x)
  <2>3. x \in Device /\ x.address = address
    BY DEF Device
  <2>4. segment' = [segment EXCEPT !.devices = t]
    BY <2>2
  <2> HIDE DEF x
  <2>5. /\ t \in Seq(Device)
        /\ \A i \in DOMAIN t :
             \/ i \in DOMAIN s /\ t[i] = s[i]
             \/ i = Len(s) + 1 /\ t[i] = x
    <3>1. s \in Seq(Device)
      BY <1>2, <1>3
    <3> HIDE DEF s
    <3> QED BY <2>3, <3>1, AppendedIs
  <2>6. \A i, j \in DOMAIN s : s[i].address = s[j].address => i = j
    BY <1>2, <1>3
  <2>7. \A i \in DOMAIN s : s[i].address # address
    BY <2>2
  <2> HIDE DEF t, s
  <2>8. \A i, j \in DOMAIN t : t[i].address = t[j].address => i = j
    BY <2>3, <2>5, <2>6, <2>7
  <2>9. segment' \in Segment /\ segment'.devices = t /\ segment'.macrocycle = segment.macrocycle
    BY <1>2, <1>3, <2>4, <2>5 DEF Segment, Device
  <2> QED BY <1>2, <1>3, <2>8, <2>9 DEF SegmentInv
<1>4. ASSUME SegmentInv, remove_device PROVE SegmentInv'
  <2>1. PICK k \in DOMAIN s : segment' = [segment EXCEPT !.devices = RemoveAt(s, k)]
    BY <1>4 DEF remove_device
  <2> DEFINE t == RemoveAt(s, k)
  <2>2. s \in Seq(Device) /\ \A i, j \in DOMAIN s : s[i].address = s[j].address => i = j
    BY <1>2, <1>4
  <2>3. segment' = [segment EXCEPT !.devices = t]
    BY <2>1
  <2> HIDE DEF s
  <2>4. /\ t \in Seq(Device)
        /\ \A i \in DOMAIN t : Earlier(k, i) \in DOMAIN s /\ t[i] = s[Earlier(k, i)]
        /\ \A i, j \in DOMAIN t : Earlier(k, i) = Earlier(k, j) => i = j
    BY <2>2, RemovedFrom
  <2> HIDE DEF t
  <2>5. \A i, j \in DOMAIN t : t[i].address = t[j].address => i = j
    BY <2>2, <2>4
  <2>6. segment' \in Segment /\ segment'.devices = t /\ segment'.macrocycle = segment.macrocycle
    BY <1>2, <1>4, <2>3, <2>4 DEF Segment, Device
  <2> QED BY <1>2, <1>4, <2>5, <2>6 DEF SegmentInv
<1>5. ASSUME SegmentInv, schedule_rebuild PROVE SegmentInv'
  <2> DEFINE c == (Scheduled(segment) * 120) \div 100
  <2>1. segment' = [segment EXCEPT !.macrocycle = c]
    BY <1>5 DEF schedule_rebuild
  <2>2. PICK k \in Nat : Scheduled(segment) = 1000 * k
    BY <1>2, <1>5, ScheduledIs
  <2>3. c = 1200 * k /\ c \in Nat
    BY <2>2
  <2> HIDE DEF c
  <2>4. segment' \in Segment /\ segment'.devices = segment.devices /\ segment'.macrocycle = c
    BY <1>2, <1>5, <2>1, <2>3 DEF Segment
  <2> QED BY <1>2, <1>5, <2>3, <2>4 DEF SegmentInv
<1>6. ASSUME SegmentInv, UNCHANGED segment PROVE SegmentInv'
  BY <1>6 DEF SegmentInv
<1> QED BY <1>1, <1>3, <1>4, <1>5, <1>6 DEF SegmentNext

-----------------------------------------------------------------------------
(* Gateway, requests and recipes. *)

GatewayInv ==
  /\ gateway = [counts |-> gateway.counts, port |-> gateway.port]
  /\ gateway.counts \in Gateway /\ gateway.port \in PortStatistics
  /\ gateway.port.min <= gateway.port.max

LEMMA CountedIs ==
  ASSUME NEW s \in PortStatistics, s.min <= s.max, NEW success \in BOOLEAN, NEW latency \in Nat
  PROVE  /\ Counted(s, success, latency) \in PortStatistics
         /\ Counted(s, success, latency).min <= Counted(s, success, latency).max
<1> DEFINE max == IF latency > s.max THEN latency ELSE s.max
           min == IF latency < s.min \/ s.min = 0 THEN latency ELSE s.min
<1>1. /\ s.received \in Nat /\ s.dropped \in Nat /\ s.min \in Nat /\ s.max \in Nat
      /\ s = [received |-> s.received, dropped |-> s.dropped, min |-> s.min, max |-> s.max]
  BY DEF PortStatistics
<1>2. max \in Nat /\ min \in Nat /\ min <= max
  BY <1>1
<1>3. CASE ~success
  <2>1. Counted(s, success, latency) = [s EXCEPT !.dropped = s.dropped + 1]
    BY <1>3 DEF Counted
  <2> QED BY <1>1, <2>1 DEF PortStatistics
<1>4. CASE success
  <2>1. Counted(s, success, latency) = [s EXCEPT !.received = s.received + 1, !.max = max, !.min = min]
    BY <1>4 DEF Counted
  <2> HIDE DEF max, min
  <2>2. Counted(s, success, latency)
          = [received |-> s.received + 1, dropped |-> s.dropped, min |-> min, max |-> max]
    BY <1>1, <2>1 DEF PortStatistics
  <2> QED BY <1>1, <1>2, <2>2 DEF PortStatistics
<1> QED BY <1>3, <1>4

LEMMA GatewayKept ==
  /\ StationInit => GatewayInv
  /\ GatewayInv /\ [GatewayNext]_gateway => GatewayInv'
<1>1. ASSUME StationInit PROVE GatewayInv
  BY <1>1 DEF StationInit, GatewayInv, Gateway, PortStatistics
<1>2. ASSUME GatewayInv, cgw_add PROVE GatewayInv'
  <2>1. PICK kind \in DOMAIN GatewayLimit :
               /\ gateway.counts[kind] < GatewayLimit[kind]
               /\ gateway' = [gateway EXCEPT !.counts[kind] = @ + 1]
    BY <1>2 DEF cgw_add
  <2> DEFINE c == gateway.counts
             n == [c EXCEPT ![kind] = c[kind] + 1]
  <2>2. c \in Gateway /\ kind \in {"opc", "modbus", "segments"}
    BY <1>2 DEF GatewayInv, GatewayLimit
  <2>3. gateway' = [gateway EXCEPT !.counts = n]
    BY <2>1
  <2>4. n \in Gateway
    <3>1. CASE kind = "opc"
      BY <2>1, <2>2, <3>1 DEF Gateway, GatewayLimit
    <3>2. CASE kind = "modbus"
      BY <2>1, <2>2, <3>2 DEF Gateway, GatewayLimit
    <3>3. CASE kind = "segments"
      BY <2>1, <2>2, <3>3 DEF Gateway, GatewayLimit
    <3> QED BY <2>2, <3>1, <3>2, <3>3
  <2> HIDE DEF n
  <2>5. gateway' = [counts |-> n, port |-> gateway.port]
    BY <1>2, <2>3 DEF GatewayInv
  <2> QED BY <1>2, <2>4, <2>5 DEF GatewayInv
<1>3. ASSUME GatewayInv, update_statistics PROVE GatewayInv'
  <2>1. PICK success \in BOOLEAN : \E latency \in 0 .. 3 :
               gateway' = [gateway EXCEPT !.port = Counted(@, success, latency)]
    BY <1>3 DEF update_statistics
  <2>2. PICK latency \in 0 .. 3 :
               gateway' = [gateway EXCEPT !.port = Counted(@, success, latency)]
    BY <2>1
  <2> DEFINE n == Counted(gateway.port, success, latency)
  <2>3. n \in PortStatistics /\ n.min <= n.max
    BY <1>3, CountedIs DEF GatewayInv
  <2>4. gateway' = [gateway EXCEPT !.port = n]
    BY <2>2
  <2> HIDE DEF n
  <2>5. gateway' = [counts |-> gateway.counts, port |-> n]
    BY <1>3, <2>4 DEF GatewayInv
  <2> QED BY <1>3, <2>3, <2>5 DEF GatewayInv
<1> QED BY <1>1, <1>2, <1>3 DEF GatewayNext, GatewayInv

RequestInv == request \in Request /\ request.sent \in {0, 1}

LEMMA RequestKept ==
  /\ StationInit => RequestInv
  /\ RequestInv /\ [modbus_exchange]_request => RequestInv'
<1>1. ASSUME StationInit PROVE RequestInv
  BY <1>1 DEF StationInit, RequestInv, Request
<1>2. ASSUME RequestInv, modbus_exchange PROVE RequestInv'
  <2>1. PICK bits, exceptionBit, damage :
               request' = [parse_response(bits, exceptionBit, damage)
                             EXCEPT !.damaged = (damage # {}), !.sent = 1 - @]
    BY <1>2 DEF modbus_exchange
  <2> DEFINE r == parse_response(bits, exceptionBit, damage)
  <2>2. r \in Request /\ r.sent \in {0, 1}
    <3>1. \/ r = [request EXCEPT !.success = FALSE]
          \/ r = [request EXCEPT !.success = FALSE, !.exception = TRUE]
          \/ r = [request EXCEPT !.success = TRUE, !.data = request.sent]
      BY DEF parse_response
    <3>2. request \in Request /\ request.sent \in {0, 1}
      BY <1>2 DEF RequestInv
    <3> HIDE DEF r
    <3> QED BY <3>1, <3>2 DEF Request
  <2> HIDE DEF r
  <2> DEFINE b == damage # {}
             n == 1 - r.sent
  <2>3. b \in BOOLEAN /\ n \in {0, 1}
    BY <2>2
  <2>4. request' = [r EXCEPT !.damaged = b, !.sent = n]
    BY <2>1 DEF r
  <2> HIDE DEF b, n
  <2>5. request' = [success |-> r.success, exception |-> r.exception, data |-> r.data,
                    damaged |-> b, sent |-> n]
    BY <2>2, <2>4 DEF Request
  <2> QED BY <2>2, <2>3, <2>5 DEF RequestInv, Request
<1> QED BY <1>1, <1>2 DEF RequestInv

RecipeInv ==
  /\ recipe.target \in Nat \ {0} /\ recipe.formula \in Seq(Nat)
  /\ recipe = [target |-> recipe.target, formula |-> recipe.formula]
  /\ ProportionsKept

LEMMA QuotientIs ==
  ASSUME NEW t \in Nat \ {0}, NEW n \in Nat
  PROVE  (t * n) \div t = n /\ ((2 * t) * n) \div t = 2 * n
<1>1. \A q \in Nat : (t * q) \div t = q
  BY Z3T(30)
<1>2. 2 * n \in Nat /\ (2 * t) * n = t * (2 * n)
  OBVIOUS
<1> QED BY <1>1, <1>2

LEMMA RecipeKept ==
  /\ StationInit => RecipeInv
  /\ RecipeInv /\ [RecipeNext]_recipe => RecipeInv'
<1>1. ASSUME StationInit PROVE RecipeInv
  <2>1. PICK size \in Sizes : recipe = [target |-> size, formula |-> <<>>]
    BY <1>1 DEF StationInit
  <2>2. size \in Nat \ {0}
    BY CentumStationAssumption
  <2>3. <<>> \in Seq(Nat) /\ DOMAIN <<>> = {}
    BY EmptySeq
  <2> QED BY <2>1, <2>2, <2>3 DEF RecipeInv, ProportionsKept
<1> DEFINE t == recipe.target
           s == recipe.formula
<1>2. ASSUME RecipeInv
      PROVE  /\ t \in Nat \ {0} /\ s \in Seq(Nat) /\ recipe = [target |-> t, formula |-> s]
             /\ DOMAIN s = 1 .. Len(s) /\ Len(s) \in Nat
             /\ \A i \in DOMAIN s : s[i] \in {t, 2 * t}
  BY <1>2, LenProperties DEF RecipeInv, ProportionsKept
<1>3. ASSUME RecipeInv, add_formula_item PROVE RecipeInv'
  <2>1. PICK parts \in 1 .. 2 : recipe' = [recipe EXCEPT !.formula = Append(@, parts * recipe.target)]
    BY <1>3 DEF add_formula_item
  <2> DEFINE x == parts * t
             n == Append(s, x)
  <2>2. x \in Nat /\ x \in {t, 2 * t}
    <3>1. CASE parts = 1
      BY <1>2, <1>3, <3>1
    <3>2. CASE parts = 2
      BY <1>2, <1>3, <3>2
    <3> QED BY <3>1, <3>2
  <2>3. recipe' = [recipe EXCEPT !.formula = n]
    BY <2>1
  <2> HIDE DEF x
  <2>4. /\ n \in Seq(Nat)
        /\ \A i \in DOMAIN n :
             \/ i \in DOMAIN s /\ n[i] = s[i]
             \/ i = Len(s) + 1 /\ n[i] = x
    <3>1. s \in Seq(Nat)
      BY <1>2, <1>3
    <3> HIDE DEF s
    <3> QED BY <2>2, <3>1, AppendedIs
  <2> HIDE DEF n, s, t
  <2>5. recipe' = [target |-> t, formula |-> n]
    BY <1>2, <1>3, <2>3
  <2>6. \A i \in DOMAIN n : n[i] \in {t, 2 * t}
    BY <1>2, <1>3, <2>2, <2>4
  <2> QED BY <1>2, <1>3, <2>4, <2>5, <2>6 DEF RecipeInv, ProportionsKept
<1>4. ASSUME RecipeInv, scale_recipe PROVE RecipeInv'
  <2>1. PICK size \in Sizes : recipe' = Scaled(recipe, size)
    BY <1>4 DEF scale_recipe
  <2> DEFINE n == [i \in DOMAIN s |-> (s[i] * size) \div t]
  <2>2. size \in Nat \ {0}
    BY CentumStationAssumption
  <2>3. recipe' = [recipe EXCEPT !.formula = n, !.target = size]
    BY <2>1 DEF Scaled
  <2>4. ASSUME NEW i \in DOMAIN s PROVE n[i] \in {size, 2 * size} /\ n[i] \in Nat
    <3> DEFINE y == (s[i] * size) \div t
    <3>1. n[i] = y
      OBVIOUS
    <3> HIDE DEF n, t, s
    <3>2. t \in Nat \ {0} /\ s[i] \in {t, 2 * t} /\ size \in Nat
      BY <1>2, <1>4, <2>2
    <3>3. (t * size) \div t = size /\ ((2 * t) * size) \div t = 2 * size
      BY <3>2, QuotientIs
    <3>4. y = size \/ y = 2 * size
      BY <3>2, <3>3 DEF y
    <3> QED BY <3>1, <3>2, <3>4
  <2>5. DOMAIN n = DOMAIN s
    OBVIOUS
  <2> HIDE DEF n, s, t
  <2>6. recipe' = [target |-> size, formula |-> n]
    BY <1>2, <1>4, <2>3
  <2>7. n \in Seq(Nat)
    <3>1. n \in [1 .. Len(s) -> Nat]
      <4>1. DOMAIN n = 1 .. Len(s) /\ n = [i \in DOMAIN n |-> n[i]]
        BY <1>2, <1>4, <2>5 DEF n
      <4> QED BY <2>4, <2>5, <4>1
    <3> QED BY SMTT(30), <1>2, <1>4, <3>1, SeqDef
  <2> QED BY <2>2, <2>4, <2>5, <2>6, <2>7 DEF RecipeInv, ProportionsKept
<1>5. ASSUME RecipeInv, UNCHANGED recipe PROVE RecipeInv'
  BY <1>5 DEF RecipeInv, ProportionsKept
<1> QED BY <1>1, <1>3, <1>4, <1>5 DEF RecipeNext

-----------------------------------------------------------------------------
StationInv ==
  PlantOK(plant) /\ FcsInv /\ SegmentInv /\ GatewayInv /\ RequestInv /\ RecipeInv

LEMMA StationsAlone ==
  [CentumNext]_centumVars =>
    /\ [PlantNext]_plant /\ [FcsNext]_fcs /\ [SegmentNext]_segment
    /\ [GatewayNext]_gateway /\ [modbus_exchange]_request /\ [RecipeNext]_recipe
<1> SUFFICES ASSUME [CentumNext]_centumVars
             PROVE  /\ [PlantNext]_plant /\ [FcsNext]_fcs /\ [SegmentNext]_segment
                    /\ [GatewayNext]_gateway /\ [modbus_exchange]_request /\ [RecipeNext]_recipe
  OBVIOUS
<1>1. CASE StationStep
  <2>1. CASE PlantNext
    BY <2>1 DEF PlantNext, add_station, remove_station
  <2>2. CASE FcsNext
    BY <2>2 DEF FcsNext, add_nio_node, add_io_module, remove_io_module
  <2>3. CASE SegmentNext
    BY <2>3 DEF SegmentNext, add_device, remove_device, schedule_rebuild
  <2>4. CASE GatewayNext
    BY <2>4 DEF GatewayNext, cgw_add, update_statistics
  <2>5. CASE modbus_exchange
    BY <2>5 DEF modbus_exchange
  <2>6. CASE RecipeNext
    BY <2>6 DEF RecipeNext, add_formula_item, scale_recipe
  <2> QED BY <1>1, <2>1, <2>2, <2>3, <2>4, <2>5, <2>6 DEF StationStep
<1>2. CASE UNCHANGED stationVars
  BY <1>2 DEF stationVars
<1>3. StationStep \/ UNCHANGED stationVars
  BY DEF CentumNext, centumVars, BatchStep, PairStep, ControlStep
<1> QED BY <1>1, <1>2, <1>3

LEMMA StationInvHolds == CentumSpec => []StationInv
<1>1. CentumInit => StationInv
  BY PlantKept, FcsKept, SegmentKept, GatewayKept, RequestKept, RecipeKept DEF CentumInit, StationInv
<1>2. StationInv /\ [CentumNext]_centumVars => StationInv'
  <2> SUFFICES ASSUME StationInv, [CentumNext]_centumVars PROVE StationInv'
    OBVIOUS
  <2>1. PlantOK(plant') /\ FcsInv'
    BY PlantKept, FcsKept, StationsAlone DEF StationInv
  <2>2. SegmentInv' /\ GatewayInv'
    BY SegmentKept, GatewayKept, StationsAlone DEF StationInv
  <2>3. RequestInv' /\ RecipeInv'
    BY RequestKept, RecipeKept, StationsAlone DEF StationInv
  <2> QED BY <2>1, <2>2, <2>3 DEF StationInv
<1> QED BY <1>1, <1>2, PTL DEF CentumSpec

LEMMA StationInvSuffices ==
  StationInv => StationTypeOK /\ TablesStayValid /\ ProportionsKept
<1> SUFFICES ASSUME StationInv PROVE StationTypeOK /\ TablesStayValid /\ ProportionsKept
  OBVIOUS
<1>1. StationTypeOK
  BY DEF StationInv, StationTypeOK, PlantOK, FcsInv, SegmentInv, GatewayInv, RequestInv
<1>2. system_validate(plant) = IF plant = <<>> THEN "WARNING" ELSE "OK"
  BY PlantValidates DEF StationInv
<1>3. \A d \in DOMAIN plant : plant[d].stations # <<>>
  BY DEF StationInv, PlantOK
<1>4. Cardinality(SlotsUsed(fcs)) = Len(fcs.modules) /\ IsInjective(fcs.nodes)
  BY SlotsCounted DEF StationInv, FcsInv, IsInjective
<1>5. \A i, j \in DOMAIN segment.devices :
        i # j => segment.devices[i].address # segment.devices[j].address
  BY DEF StationInv, SegmentInv
<1>6. segment.macrocycle % 1200 = 0
  <2>1. PICK k \in Nat : segment.macrocycle = 1200 * k
    BY DEF StationInv, SegmentInv
  <2> QED BY <2>1
<1>7. ProportionsKept
  BY DEF StationInv, RecipeInv
<1> QED BY <1>1, <1>2, <1>3, <1>4, <1>5, <1>6, <1>7 DEF TablesStayValid

(* What the components of a CENTUM VP station promise of their state, for *)
(* any tables of recipes, limits, tuning, signals and lengths of the log: *)
(* phases in their order and acknowledged, a log that is right, blocks that*)
(* agree with their reference, tables without duplicates, recipes in *)
(* proportion. *)
THEOREM CentumIsSound == CentumSpec => []CentumSound
<1>1. CentumSpec => [](StationTypeOK /\ TablesStayValid /\ ProportionsKept)
  BY StationInvHolds, StationInvSuffices, PTL
<1>2. CentumSound <=> /\ (BatchTypeOK /\ SequentialExecution /\ AcknowledgedOnce)
                      /\ (CentumPairTypeOK /\ LogIsRight)
                      /\ CentumControlTypeOK /\ BlocksAgree
                      /\ (StationTypeOK /\ TablesStayValid /\ ProportionsKept)
  BY DEF CentumSound
<1> QED BY <1>1, <1>2, BatchInOrder, FailoverLogIsRight, BlocksTyped, BlocksAgreeHolds, PTL
=============================================================================
