--------------------------- MODULE InductionLemmas ---------------------------
(***************************************************************************)
(* Facts that the proofs of the other modules cite by name. *)
(* *)
(* Induction over the naturals, stated with sets, where theorems that take *)
(* an operator cannot be cited: it rests on the well-foundedness of < and *)
(* is used for what the loops of the program compute, which the models *)
(* write as functions on 0 .. n defined by recursion.  Sums over finite *)
(* sets, images of finite sets, the least of two numbers, rings. *)
(***************************************************************************)
EXTENDS Integers, FiniteSetsExt, SequencesExt, FiniteSetTheorems, SequenceTheorems,
        WellFoundedInduction, TLAPS

(* A set of naturals has a least element. *)
LEMMA LeastNat ==
  ASSUME NEW T, T \subseteq Nat, T # {}
  PROVE  \E x \in T : \A y \in T : x <= y
<1> DEFINE R == {ss \in Nat \X Nat : ss[1] < ss[2]}
<1>1. OpToRel(<,Nat) = R
  BY Zenon DEF OpToRel
<1>2. IsWellFoundedOn(R, Nat)
  BY <1>1, NatLessThanWellFounded, Zenon
<1>3. PICK x \in T : \A y \in T : ~ (<<y, x>> \in R)
  <2> HIDE DEF R
  <2> QED BY <1>2, WFMin
<1>4. ASSUME NEW y \in T PROVE x <= y
  <2>1. ~ (<<y, x>> \in R)
    BY <1>3
  <2>2. y \in Nat /\ x \in Nat
    OBVIOUS
  <2> QED BY <2>1, <2>2
<1> QED BY <1>4

(* What holds at 0 and passes from each number to the next holds up to n. *)
LEMMA SetInduction ==
  ASSUME NEW n \in Nat, NEW T, 0 \in T, \A k \in 0 .. n - 1 : k \in T => k + 1 \in T
  PROVE  0 .. n \subseteq T
<1> DEFINE M == {k \in 0 .. n : k \notin T}
<1>1. SUFFICES ASSUME M # {} PROVE FALSE
  OBVIOUS
<1>2. PICK k \in M : \A y \in M : k <= y
  <2>1. M \subseteq Nat OBVIOUS
  <2> HIDE DEF M
  <2> QED BY <1>1, <2>1, LeastNat
<1>3. k \in 1 .. n /\ k - 1 \in 0 .. n - 1 /\ k - 1 \notin M
  BY <1>2
<1> QED BY <1>3, <1>2

(* The courses of a loop of n turns from s0 on, where turn a takes a value *)
(* x to F[a][x]. *)
Courses(n, S, s0, F) ==
  {g \in [0 .. n -> S] : /\ g[0] = s0
                        /\ \A a \in 1 .. n : g[a] = F[a][g[a - 1]]}

(* Every loop has a course. *)
LEMMA Iteration ==
  ASSUME NEW n \in Nat, NEW S, NEW s0 \in S, NEW F \in [1 .. n -> [S -> S]]
  PROVE  Courses(n, S, s0, F) # {}
<1> DEFINE Sol(k) == {g \in [0 .. n -> S] :
                        /\ g[0] = s0
                        /\ \A a \in 1 .. k : g[a] = F[a][g[a - 1]]}
           T == {k \in 0 .. n : Sol(k) # {}}
<1>1. 0 \in T
  <2>1. [a \in 0 .. n |-> s0] \in Sol(0)
    OBVIOUS
  <2> HIDE DEF Sol
  <2> QED BY <2>1
<1>2. ASSUME NEW k \in 0 .. n - 1, k \in T PROVE k + 1 \in T
  <2>1. PICK g \in Sol(k) : TRUE
    BY <1>2
  <2> DEFINE h == [g EXCEPT ![k + 1] = F[k + 1][g[k]]]
  <2>2. g[k] \in S /\ k + 1 \in 1 .. n
    OBVIOUS
  <2>3. F[k + 1][g[k]] \in S
    BY <2>2
  <2>4. h \in [0 .. n -> S]
    BY <2>3, <2>2
  <2>5. h[0] = s0 /\ \A a \in 1 .. k : h[a] = g[a] /\ h[a - 1] = g[a - 1]
    BY <2>1, <2>2
  <2>6. h[k + 1] = F[k + 1][h[k]]
    BY <2>2
  <2>7. \A a \in 1 .. k + 1 : h[a] = F[a][h[a - 1]]
    <3> HIDE DEF h
    <3>1. \A a \in 1 .. k : h[a] = F[a][h[a - 1]]
      BY <2>1, <2>5
    <3>2. \A a \in 1 .. k + 1 : a \in 1 .. k \/ a = k + 1
      OBVIOUS
    <3>3. (k + 1) - 1 = k
      OBVIOUS
    <3> QED BY <3>1, <3>2, <3>3, <2>6
  <2>8. h \in Sol(k + 1)
    <3> HIDE DEF h
    <3> QED BY <2>4, <2>5, <2>7
  <2> HIDE DEF Sol
  <2> QED BY <2>2, <2>8
<1>3. n \in T
  <2> HIDE DEF T
  <2>1. 0 .. n \subseteq T
    BY <1>1, <1>2, SetInduction
  <2> QED BY <2>1
<1> QED BY <1>3 DEF Courses

-----------------------------------------------------------------------------
(* Finite sets that are written as images and unions of images. *)

LEMMA FiniteImage ==
  ASSUME NEW S, IsFiniteSet(S), NEW f, f = [x \in S |-> f[x]]
  PROVE  IsFiniteSet({f[x] : x \in S})
<1> DEFINE T == {f[x] : x \in S}
<1>1. f \in Surjection(S, T)
  BY DEF Surjection
<1>2. IsFiniteSet(T)
  <2> HIDE DEF T
  <2> QED BY <1>1, FS_Surjection
<1> QED BY <1>2

LEMMA FiniteUnion ==
  ASSUME NEW S, IsFiniteSet(S), NEW f, f = [x \in S |-> f[x]], \A x \in S : IsFiniteSet(f[x])
  PROVE  IsFiniteSet(UNION {f[x] : x \in S})
<1> DEFINE T == {f[x] : x \in S}
<1>1. IsFiniteSet(T)
  BY FiniteImage
<1>2. \A X \in T : IsFiniteSet(X)
  OBVIOUS
<1>3. IsFiniteSet(UNION T)
  <2> HIDE DEF T
  <2> QED BY <1>1, <1>2, FS_UNION
<1> QED BY <1>3

-----------------------------------------------------------------------------
(* The least and the largest of two numbers. *)

LEMMA MinOfTwo ==
  ASSUME NEW a \in Int, NEW b \in Int
  PROVE  Min({a, b}) = IF a <= b THEN a ELSE b
BY Zenon, SMT DEF Min

LEMMA MaxOfTwo ==
  ASSUME NEW a \in Int, NEW b \in Int
  PROVE  Max({a, b}) = IF a >= b THEN a ELSE b
BY DEF Max

LEMMA MinOfNats ==
  ASSUME NEW T, T \subseteq Nat, T # {}
  PROVE  Min(T) \in T /\ \A y \in T : Min(T) <= y
BY LeastNat DEF Min

LEMMA MaxOfSome ==
  ASSUME NEW n \in Nat, NEW T, T \subseteq 0 .. n, T # {}
  PROVE  Max(T) \in T /\ \A y \in T : y <= Max(T)
<1> DEFINE U == {n - y : y \in T}
<1>1. U \subseteq Nat /\ U # {}
  <2>1. \A y \in T : y \in 0 .. n /\ n - y \in Nat
    OBVIOUS
  <2>2. PICK y : y \in T
    OBVIOUS
  <2>3. n - y \in U
    BY <2>2
  <2> QED BY <2>1, <2>3
<1>2. PICK u \in U : \A v \in U : u <= v
  <2> HIDE DEF U
  <2> QED BY <1>1, LeastNat
<1>3. PICK x \in T : u = n - x
  OBVIOUS
<1>4. \A y \in T : y <= x
  <2> TAKE y \in T
  <2>1. n - y \in U
    OBVIOUS
  <2>2. u <= n - y
    BY <1>2, <2>1
  <2> QED BY <1>3, <2>2
<1> QED BY <1>4, Zenon DEF Max

-----------------------------------------------------------------------------
(* Places of a ring of n entries: the one before the next of w is w. *)

LEMMA RingOrder ==
  ASSUME NEW n \in Nat, n > 0, NEW w \in 0 .. n - 1
  PROVE  /\ (w + 1) % n \in 0 .. n - 1
         /\ (w + 1) % n = IF w + 1 = n THEN 0 ELSE w + 1
<1>1. CASE w + 1 < n
  <2>1. (w + 1) % n = w + 1
    BY <1>1
  <2> QED BY <1>1, <2>1
<1>2. CASE w + 1 = n
  <2>1. (w + 1) % n = 0
    BY <1>2
  <2> QED BY <1>2, <2>1
<1> QED BY <1>1, <1>2

(* What goes round a ring comes back where it was. *)
LEMMA RingIs ==
  ASSUME NEW n \in Nat, n > 0, NEW y \in 0 .. n - 1, NEW x \in Int,
         x = y \/ x = y + n \/ x = y + n + n
  PROVE  x % n = y
BY Z3T(30)

-----------------------------------------------------------------------------
(* Induction over the subsets of a finite set. *)

LEMMA SubsetInduction ==
  ASSUME NEW S, IsFiniteSet(S), NEW T, {} \in T,
         \A s \in SUBSET S : s # {} /\ (\A x \in s : s \ {x} \in T) => s \in T
  PROVE  SUBSET S \subseteq T
<1> DEFINE n == Cardinality(S)
           U == {k \in 0 .. n : \A s \in SUBSET S : Cardinality(s) = k => s \in T}
<1>1. n \in Nat
  BY FS_CardinalityType
<1>2. ASSUME NEW s \in SUBSET S
      PROVE  /\ IsFiniteSet(s) /\ Cardinality(s) \in 0 .. n
             /\ \A x \in s : Cardinality(s \ {x}) = Cardinality(s) - 1
  <2>1. IsFiniteSet(s) /\ Cardinality(s) <= n
    BY FS_Subset
  <2>2. Cardinality(s) \in Nat
    BY <2>1, FS_CardinalityType
  <2>3. \A x \in s : Cardinality(s \ {x}) = Cardinality(s) - 1
    BY <2>1, FS_RemoveElement
  <2> HIDE DEF n
  <2> QED BY <1>1, <2>1, <2>2, <2>3
<1> HIDE DEF n
<1>3. 0 \in U
  <2>1. ASSUME NEW s \in SUBSET S, Cardinality(s) = 0 PROVE s \in T
    BY <1>2, <2>1, FS_EmptySet
  <2> QED BY <1>1, <2>1
<1>4. ASSUME NEW k \in 0 .. n - 1, k \in U PROVE k + 1 \in U
  <2>1. ASSUME NEW s \in SUBSET S, Cardinality(s) = k + 1 PROVE s \in T
    <3>1. s # {}
      <4>1. k + 1 # 0
        BY <1>1
      <4>2. Cardinality({}) = 0
        BY FS_EmptySet
      <4> QED BY <2>1, <4>1, <4>2, Zenon
    <3>2. ASSUME NEW x \in s PROVE s \ {x} \in T
      <4>1. Cardinality(s \ {x}) = k
        BY <1>2, <1>4, <2>1
      <4> QED BY <1>4, <4>1
    <3> QED BY <3>1, <3>2
  <2> QED BY <1>1, <1>4, <2>1
<1>5. 0 .. n \subseteq U
  <2> HIDE DEF U
  <2> QED BY <1>1, <1>3, <1>4, SetInduction
<1> QED BY <1>2, <1>5

-----------------------------------------------------------------------------
(* Sums over finite sets: the functions that give each subset of S the sum *)
(* of its values of f, as the folds of the library compute it, from the *)
(* element that CHOOSE takes on. *)

Picked(s) == CHOOSE x \in s : TRUE

Sums(S, f) ==
  {g \in [SUBSET S -> Int] :
     \A s \in SUBSET S : g[s] = IF s = {} THEN 0 ELSE f[Picked(s)] + g[s \ {Picked(s)}]}

LEMMA SumsExist ==
  ASSUME NEW S, NEW f, IsFiniteSet(S), f \in [S -> Int]
  PROVE  \E g : g \in Sums(S, f)
<1> DEFINE n == Cardinality(S)
           Good(g, s) == g[s] = IF s = {} THEN 0 ELSE f[Picked(s)] + g[s \ {Picked(s)}]
           Sol(k) == {g \in [SUBSET S -> Int] : \A s \in SUBSET S : Cardinality(s) <= k => Good(g, s)}
           U == {k \in 0 .. n : \E g : g \in Sol(k)}
<1>1. n \in Nat
  BY FS_CardinalityType
<1>2. ASSUME NEW s \in SUBSET S
      PROVE  /\ Cardinality(s) \in 0 .. n /\ (Cardinality(s) = 0 <=> s = {})
             /\ s # {} => Picked(s) \in s
             /\ \A x \in s : Cardinality(s \ {x}) = Cardinality(s) - 1
  <2>1. IsFiniteSet(s) /\ Cardinality(s) <= n
    BY FS_Subset
  <2>2. Cardinality(s) \in Nat
    BY <2>1, FS_CardinalityType
  <2>3. \A x \in s : Cardinality(s \ {x}) = Cardinality(s) - 1
    BY <2>1, FS_RemoveElement
  <2>4. Cardinality(s) = 0 <=> s = {}
    BY <2>1, FS_EmptySet
  <2>5. s # {} => Picked(s) \in s
    BY DEF Picked
  <2> HIDE DEF n
  <2> QED BY <1>1, <2>1, <2>2, <2>3, <2>4, <2>5
<1> HIDE DEF n
<1>3. 0 \in U
  <2> DEFINE g == [s \in SUBSET S |-> 0]
  <2>1. g \in Sol(0)
    <3>1. ASSUME NEW s \in SUBSET S, Cardinality(s) <= 0 PROVE s = {}
      BY <1>2, <3>1
    <3> QED BY <3>1
  <2> HIDE DEF g, Sol
  <2> QED BY <1>1, <2>1
<1>4. ASSUME NEW k \in 0 .. n - 1, k \in U PROVE k + 1 \in U
  <2>1. PICK g : g \in Sol(k)
    BY <1>4
  <2> DEFINE h == [s \in SUBSET S |-> IF s = {} THEN 0 ELSE f[Picked(s)] + g[s \ {Picked(s)}]]
  <2>2. h \in [SUBSET S -> Int]
    <3>1. ASSUME NEW s \in SUBSET S, s # {} PROVE f[Picked(s)] + g[s \ {Picked(s)}] \in Int
      <4>1. Picked(s) \in S /\ s \ {Picked(s)} \in SUBSET S
        BY <1>2, <3>1
      <4>2. f[Picked(s)] \in Int /\ g[s \ {Picked(s)}] \in Int
        BY <2>1, <4>1
      <4> QED BY <4>2
    <3> QED BY <3>1
  <2>3. ASSUME NEW s \in SUBSET S, Cardinality(s) <= k PROVE h[s] = g[s]
    BY <2>1, <2>3
  <2>4. ASSUME NEW s \in SUBSET S, Cardinality(s) <= k + 1 PROVE Good(h, s)
    <3>1. CASE s = {}
      BY <3>1
    <3>2. CASE s # {}
      <4>1. Picked(s) \in s /\ s \ {Picked(s)} \in SUBSET S
            /\ Cardinality(s \ {Picked(s)}) = Cardinality(s) - 1 /\ Cardinality(s) \in Int
        BY <1>2, <3>2
      <4>2. Cardinality(s \ {Picked(s)}) <= k
        BY <2>4, <4>1
      <4>3. h[s \ {Picked(s)}] = g[s \ {Picked(s)}]
        BY <2>3, <4>1, <4>2
      <4>4. h[s] = f[Picked(s)] + g[s \ {Picked(s)}]
        BY <3>2
      <4> QED BY <3>2, <4>3, <4>4
    <3> QED BY <3>1, <3>2
  <2>5. h \in Sol(k + 1)
    <3> HIDE DEF h, Good
    <3> QED BY <2>2, <2>4
  <2> HIDE DEF h, Sol
  <2> QED BY <1>1, <2>5
<1>5. n \in U
  <2> HIDE DEF U
  <2>1. 0 .. n \subseteq U
    BY <1>1, <1>3, <1>4, SetInduction
  <2> QED BY <1>1, <2>1
<1>6. PICK g : g \in Sol(n)
  BY <1>5
<1>7. \A s \in SUBSET S : Good(g, s)
  BY <1>1, <1>2, <1>6
<1> QED BY <1>6, <1>7 DEF Sums

(* The order in which the elements are taken does not matter. *)
AnyOrder(S, f, g) == \A s \in SUBSET S : \A x \in s : g[s] = f[x] + g[s \ {x}]

LEMMA SumsAnyOrder ==
  ASSUME NEW S, NEW f, NEW g, IsFiniteSet(S), f \in [S -> Int], g \in Sums(S, f)
  PROVE  AnyOrder(S, f, g)
<1> DEFINE T == {s \in SUBSET S : \A x \in s : g[s] = f[x] + g[s \ {x}]}
<1>1. {} \in T
  OBVIOUS
<1>2. /\ g \in [SUBSET S -> Int]
      /\ \A s \in SUBSET S : s # {} => g[s] = f[Picked(s)] + g[s \ {Picked(s)}]
  BY DEF Sums
<1>3. ASSUME NEW s \in SUBSET S, s # {}, \A x \in s : s \ {x} \in T PROVE s \in T
  <2>1. SUFFICES ASSUME NEW x \in s PROVE g[s] = f[x] + g[s \ {x}]
    OBVIOUS
  <2> DEFINE p == Picked(s)
  <2>2. p \in s
    BY <1>3 DEF Picked
  <2>3. g[s] = f[p] + g[s \ {p}]
    BY <1>2, <1>3
  <2> HIDE DEF p
  <2>4. CASE x = p
    BY <2>3, <2>4
  <2>5. CASE x # p
    <3>1. x \in s \ {p} /\ p \in s \ {x} /\ (s \ {p}) \ {x} = (s \ {x}) \ {p}
          /\ s \ {p} \in SUBSET S /\ s \ {x} \in SUBSET S /\ (s \ {x}) \ {p} \in SUBSET S
      BY <2>2, <2>5
    <3>2. g[s \ {p}] = f[x] + g[(s \ {p}) \ {x}] /\ g[s \ {x}] = f[p] + g[(s \ {x}) \ {p}]
      BY <1>3, <2>2, <3>1
    <3>3. f[x] \in Int /\ f[p] \in Int /\ g[(s \ {x}) \ {p}] \in Int
      BY <1>2, <2>2, <3>1
    <3>4. g[s \ {p}] = f[x] + g[(s \ {x}) \ {p}]
      BY <3>1, <3>2, Zenon
    <3> DEFINE c == g[(s \ {x}) \ {p}]
    <3>5. g[s] = f[p] + (f[x] + c) /\ g[s \ {x}] = f[p] + c /\ c \in Int
      BY <2>3, <3>2, <3>3, <3>4, Zenon
    <3> HIDE DEF c
    <3> QED BY <3>3, <3>5
  <2> QED BY <2>4, <2>5
<1>4. SUBSET S \subseteq T
  <2> HIDE DEF T
  <2> QED BY <1>1, <1>3, SubsetInduction
<1> QED BY <1>4 DEF AnyOrder

OfFew(S, f, g) ==
  /\ g[{}] = 0
  /\ \A a \in S : g[{a}] = f[a]
  /\ \A a, b \in S : a # b => g[{a, b}] = f[a] + f[b]
  /\ \A a, b, c \in S : a # b /\ a # c /\ b # c => g[{a, b, c}] = f[a] + f[b] + f[c]

LEMMA SumsOfFew ==
  ASSUME NEW S, NEW f, NEW g, IsFiniteSet(S), f \in [S -> Int], g \in Sums(S, f)
  PROVE  OfFew(S, f, g)
<1>1. g[{}] = 0
  BY DEF Sums
<1>2. \A s \in SUBSET S : \A x \in s : g[s] = f[x] + g[s \ {x}]
  <2>1. AnyOrder(S, f, g)
    BY SumsAnyOrder
  <2> QED BY <2>1 DEF AnyOrder
<1>3. ASSUME NEW a \in S PROVE g[{a}] = f[a]
  <2>1. {a} \in SUBSET S /\ a \in {a} /\ {a} \ {a} = {}
    OBVIOUS
  <2>2. g[{a}] = f[a] + g[{}]
    BY <1>2, <2>1, Zenon
  <2> QED BY <1>1, <2>2
<1>4. ASSUME NEW a \in S, NEW b \in S, a # b PROVE g[{a, b}] = f[a] + f[b]
  <2>1. {a, b} \in SUBSET S /\ a \in {a, b} /\ {a, b} \ {a} = {b}
    BY <1>4
  <2>2. g[{a, b}] = f[a] + g[{b}]
    BY <1>2, <2>1, Zenon
  <2> QED BY <1>3, <2>2
<1>5. ASSUME NEW a \in S, NEW b \in S, NEW c \in S, a # b, a # c, b # c
      PROVE  g[{a, b, c}] = f[a] + f[b] + f[c]
  <2>1. {a, b, c} \in SUBSET S /\ a \in {a, b, c} /\ {a, b, c} \ {a} = {b, c}
    BY <1>5
  <2>2. g[{a, b, c}] = f[a] + g[{b, c}]
    BY <1>2, <2>1, Zenon
  <2>3. g[{b, c}] = f[b] + f[c]
    BY <1>4, <1>5
  <2> QED BY <2>2, <2>3
<1> QED BY ZenonT(30), <1>1, <1>3, <1>4, <1>5 DEF OfFew

(* The sums of a part of the set are the sums of the whole. *)
LEMMA SumsBelow ==
  ASSUME NEW S, NEW f, NEW g, f \in [S -> Int], g \in Sums(S, f), NEW T \in SUBSET S
  PROVE  [s \in SUBSET T |-> g[s]] \in Sums(T, [x \in T |-> f[x]])
<1> DEFINE h == [s \in SUBSET T |-> g[s]]
           e == [x \in T |-> f[x]]
<1>1. g \in [SUBSET S -> Int] /\ SUBSET T \subseteq SUBSET S
  BY DEF Sums
<1>2. h \in [SUBSET T -> Int] /\ \A s \in SUBSET T : h[s] = g[s]
  BY <1>1
<1>3. ASSUME NEW s \in SUBSET T
      PROVE  h[s] = IF s = {} THEN 0 ELSE e[Picked(s)] + h[s \ {Picked(s)}]
  <2>1. g[s] = IF s = {} THEN 0 ELSE f[Picked(s)] + g[s \ {Picked(s)}]
    BY <1>1 DEF Sums
  <2>2. s # {} => Picked(s) \in s
    BY Zenon DEF Picked
  <2>3. s # {} => e[Picked(s)] = f[Picked(s)]
    BY <2>2
  <2>4. s \ {Picked(s)} \in SUBSET T
    OBVIOUS
  <2>5. h[s] = g[s] /\ h[s \ {Picked(s)}] = g[s \ {Picked(s)}]
    BY <1>2, <2>4
  <2> HIDE DEF h, e
  <2> QED BY <2>1, <2>3, <2>5
<1> HIDE DEF h, e
<1> QED BY <1>2, <1>3 DEF Sums, h, e

(* A part of the set has the same sum whichever way it is summed. *)
LEMMA SumsOfPart ==
  ASSUME NEW S, NEW f, NEW g, IsFiniteSet(S), f \in [S -> Int], g \in Sums(S, f),
         NEW P \in SUBSET S, NEW e, NEW h, e \in [P -> Int], h \in Sums(P, e),
         \A x \in P : e[x] = f[x]
  PROVE  h[P] = g[P]
<1> DEFINE T == {s \in SUBSET P : h[s] = g[s]}
<1>1. IsFiniteSet(P)
  BY FS_Subset
<1>2. g[{}] = 0 /\ AnyOrder(S, f, g) /\ h[{}] = 0 /\ AnyOrder(P, e, h)
  BY <1>1, SumsAnyOrder DEF Sums
<1>3. {} \in T
  BY <1>2
<1>4. ASSUME NEW s \in SUBSET P, s # {}, \A x \in s : s \ {x} \in T PROVE s \in T
  <2>1. PICK x \in s : TRUE
    BY <1>4
  <2>2. s \in SUBSET S
    OBVIOUS
  <2>3. g[s] = f[x] + g[s \ {x}] /\ h[s] = e[x] + h[s \ {x}]
    BY <1>2, <2>1, <2>2 DEF AnyOrder
  <2>4. h[s \ {x}] = g[s \ {x}] /\ e[x] = f[x]
    BY <1>4, <2>1
  <2> QED BY <2>3, <2>4
<1>5. SUBSET P \subseteq T
  <2> HIDE DEF T
  <2> QED BY <1>1, <1>3, <1>4, SubsetInduction
<1> QED BY <1>5

(* Sums of natural numbers: they are one, they add up over disjoint parts, *)
(* they grow with the set and are at most added by a union. *)
LEMMA SumsAreNat ==
  ASSUME NEW S, NEW f, NEW g, IsFiniteSet(S), f \in [S -> Nat], g \in Sums(S, f)
  PROVE  \A s \in SUBSET S : g[s] \in Nat
<1> DEFINE T == {s \in SUBSET S : g[s] \in Nat}
<1>1. g \in [SUBSET S -> Int] /\ g[{}] = 0 /\ AnyOrder(S, f, g)
  <2>1. f \in [S -> Int]
    OBVIOUS
  <2> QED BY <2>1, SumsAnyOrder DEF Sums
<1>2. {} \in T
  BY <1>1
<1>3. ASSUME NEW s \in SUBSET S, s # {}, \A x \in s : s \ {x} \in T PROVE s \in T
  <2>1. PICK x \in s : TRUE
    BY <1>3
  <2>2. g[s] = f[x] + g[s \ {x}] /\ g[s \ {x}] \in Nat /\ f[x] \in Nat
    BY <1>1, <1>3, <2>1 DEF AnyOrder
  <2> QED BY <2>2
<1>4. SUBSET S \subseteq T
  <2> HIDE DEF T
  <2> QED BY <1>2, <1>3, SubsetInduction
<1> QED BY <1>4

LEMMA SumsAddUp ==
  ASSUME NEW S, NEW f, NEW g, IsFiniteSet(S), f \in [S -> Int], g \in Sums(S, f),
         NEW A \in SUBSET S, NEW B \in SUBSET S, A \cap B = {}
  PROVE  g[A \cup B] = g[A] + g[B]
<1> DEFINE T == {s \in SUBSET B : g[A \cup s] = g[A] + g[s]}
<1>1. g \in [SUBSET S -> Int] /\ g[{}] = 0 /\ AnyOrder(S, f, g)
  BY SumsAnyOrder DEF Sums
<1>2. {} \in T
  <2>1. A \cup {} = A /\ g[A] \in Int
    BY <1>1
  <2> QED BY <1>1, <2>1
<1>3. ASSUME NEW s \in SUBSET B, s # {}, \A x \in s : s \ {x} \in T PROVE s \in T
  <2>1. PICK x \in s : TRUE
    BY <1>3
  <2>2. /\ s \in SUBSET S /\ A \cup s \in SUBSET S /\ x \in A \cup s
        /\ (A \cup s) \ {x} = A \cup (s \ {x})
        /\ s \ {x} \in SUBSET S
    BY <2>1
  <2>3. g[s] = f[x] + g[s \ {x}] /\ g[A \cup s] = f[x] + g[A \cup (s \ {x})]
    BY <1>1, <2>1, <2>2 DEF AnyOrder
  <2>4. g[A \cup (s \ {x})] = g[A] + g[s \ {x}]
    BY <1>3, <2>1
  <2>5. f[x] \in Int /\ g[A] \in Int /\ g[s \ {x}] \in Int
    BY <1>1, <2>2
  <2> QED BY <2>3, <2>4, <2>5
<1>4. IsFiniteSet(B)
  BY FS_Subset
<1>5. SUBSET B \subseteq T
  <2> HIDE DEF T
  <2> QED BY <1>2, <1>3, <1>4, SubsetInduction
<1> QED BY <1>5

LEMMA SumsGrow ==
  ASSUME NEW S, NEW f, NEW g, IsFiniteSet(S), f \in [S -> Nat], g \in Sums(S, f),
         NEW A \in SUBSET S, NEW B \in SUBSET A
  PROVE  g[B] <= g[A]
<1>1. A \ B \in SUBSET S /\ B \in SUBSET S /\ B \cap (A \ B) = {} /\ B \cup (A \ B) = A
  OBVIOUS
<1>2. f \in [S -> Int]
  OBVIOUS
<1>3. g[B \cup (A \ B)] = g[B] + g[A \ B]
  BY <1>1, <1>2, SumsAddUp
<1>4. g[B] \in Nat /\ g[A \ B] \in Nat
  BY <1>1, SumsAreNat
<1>5. g[A] = g[B] + g[A \ B]
  BY <1>1, <1>3, Zenon
<1> QED BY <1>4, <1>5

LEMMA SumsOfUnion ==
  ASSUME NEW S, NEW f, NEW g, IsFiniteSet(S), f \in [S -> Nat], g \in Sums(S, f),
         NEW A \in SUBSET S, NEW B \in SUBSET S
  PROVE  g[A \cup B] <= g[A] + g[B]
<1>1. B \ A \in SUBSET S /\ A \cap (B \ A) = {} /\ A \cup (B \ A) = A \cup B
  OBVIOUS
<1>2. f \in [S -> Int]
  OBVIOUS
<1>3. g[A \cup (B \ A)] = g[A] + g[B \ A]
  BY <1>1, <1>2, SumsAddUp
<1>4. g[A] \in Nat /\ g[B] \in Nat /\ g[B \ A] \in Nat
  BY <1>1, SumsAreNat
<1>5. B \ A \in SUBSET B
  OBVIOUS
<1>6. g[B \ A] <= g[B]
  BY <1>5, SumsGrow
<1> QED BY <1>1, <1>3, <1>4, <1>6

(* Smaller numbers have a smaller sum. *)
LEMMA SumsCompare ==
  ASSUME NEW S, NEW e, NEW f, NEW g, NEW h, IsFiniteSet(S),
         e \in [S -> Int], f \in [S -> Int], \A x \in S : e[x] <= f[x],
         g \in Sums(S, e), h \in Sums(S, f)
  PROVE  g[S] <= h[S]
<1> DEFINE T == {s \in SUBSET S : g[s] <= h[s]}
<1>1. /\ g \in [SUBSET S -> Int] /\ g[{}] = 0 /\ AnyOrder(S, e, g)
      /\ h \in [SUBSET S -> Int] /\ h[{}] = 0 /\ AnyOrder(S, f, h)
  BY SumsAnyOrder DEF Sums
<1>2. {} \in T
  BY <1>1
<1>3. ASSUME NEW s \in SUBSET S, s # {}, \A x \in s : s \ {x} \in T PROVE s \in T
  <2>1. PICK x \in s : TRUE
    BY <1>3
  <2>2. g[s] = e[x] + g[s \ {x}] /\ h[s] = f[x] + h[s \ {x}]
    BY <1>1, <2>1 DEF AnyOrder
  <2>3. e[x] \in Int /\ f[x] \in Int /\ g[s \ {x}] \in Int /\ h[s \ {x}] \in Int /\ e[x] <= f[x]
    BY <1>1, <2>1
  <2>4. g[s \ {x}] <= h[s \ {x}]
    BY <1>3, <2>1
  <2>5. g[s] <= h[s]
    BY <2>2, <2>3, <2>4
  <2> QED BY <2>5
<1>4. SUBSET S \subseteq T
  <2> HIDE DEF T
  <2> QED BY <1>2, <1>3, SubsetInduction
<1> QED BY <1>4

-----------------------------------------------------------------------------
(* Taking an entry out of a sequence moves the ones behind it up by one. *)

LEMMA RemovedIs ==
  ASSUME NEW T, NEW s \in Seq(T), NEW k \in DOMAIN s
  PROVE  /\ RemoveAt(s, k) \in Seq(T)
         /\ DOMAIN RemoveAt(s, k) = 1 .. Len(s) - 1
         /\ \A i \in 1 .. Len(s) - 1 : RemoveAt(s, k)[i] = s[IF i < k THEN i ELSE i + 1]
<1>1. DOMAIN s = 1 .. Len(s) /\ Len(s) \in Nat /\ k \in Nat /\ k >= 1 /\ k <= Len(s)
  BY LenProperties
<1> DEFINE a == SubSeq(s, 1, k - 1)
           b == SubSeq(s, k + 1, Len(s))
<1>2. /\ a \in Seq(T) /\ Len(a) = k - 1 /\ \A i \in 1 .. k - 1 : a[i] = s[i]
      /\ b \in Seq(T) /\ Len(b) = Len(s) - k /\ \A i \in 1 .. Len(s) - k : b[i] = s[k + i]
  BY SMTT(30), <1>1, SubSeqProperties
<1> HIDE DEF a, b
<1>3. /\ a \o b \in Seq(T) /\ Len(a \o b) = Len(s) - 1
      /\ \A i \in 1 .. Len(s) - 1 : (a \o b)[i] = IF i <= k - 1 THEN a[i] ELSE b[i - (k - 1)]
  <2>1. /\ a \o b \in Seq(T) /\ Len(a \o b) = Len(a) + Len(b)
        /\ \A i \in 1 .. Len(a) + Len(b) :
             (a \o b)[i] = IF i <= Len(a) THEN a[i] ELSE b[i - Len(a)]
    BY <1>2, ConcatProperties
  <2>2. Len(a) = k - 1 /\ Len(a) + Len(b) = Len(s) - 1
    BY <1>1, <1>2
  <2> QED BY <2>1, <2>2
<1>4. ASSUME NEW i \in 1 .. Len(s) - 1 PROVE (a \o b)[i] = s[IF i < k THEN i ELSE i + 1]
  <2>1. CASE i < k
    BY <1>1, <1>2, <1>3, <2>1
  <2>2. CASE ~(i < k)
    <3>1. i - (k - 1) \in 1 .. Len(s) - k /\ k + (i - (k - 1)) = i + 1 /\ ~(i <= k - 1)
      BY <1>1, <2>2
    <3>2. b[i - (k - 1)] = s[k + (i - (k - 1))]
      BY <1>2, <3>1
    <3>3. (a \o b)[i] = b[i - (k - 1)]
      BY <1>3, <3>1
    <3> QED BY <2>2, <3>1, <3>2, <3>3
  <2> QED BY <2>1, <2>2
<1>5. DOMAIN (a \o b) = 1 .. Len(s) - 1
  BY <1>3, LenProperties
<1> QED BY <1>3, <1>4, <1>5 DEF RemoveAt, a, b

(* InsertAt of the library: the new element, what follows moves back. *)
LEMMA InsertedIs ==
  ASSUME NEW T, NEW s \in Seq(T), NEW k \in 1 .. Len(s) + 1, NEW e \in T
  PROVE  /\ InsertAt(s, k, e) \in Seq(T)
         /\ Len(InsertAt(s, k, e)) = Len(s) + 1
         /\ \A i \in 1 .. Len(s) + 1 :
              InsertAt(s, k, e)[i] = IF i < k THEN s[i] ELSE IF i = k THEN e ELSE s[i - 1]
<1> DEFINE n == Len(s)
           a == SubSeq(s, 1, k - 1)
           b == SubSeq(s, k, n)
           c == a \o <<e>>
<1>1. n \in Nat /\ k \in Nat /\ k >= 1 /\ k <= n + 1 /\ \A i \in 1 .. n : s[i] \in T
  BY LenProperties, ElementOfSeq
<1> HIDE DEF n
<1>2. a \in Seq(T) /\ Len(a) = k - 1 /\ \A i \in 1 .. k - 1 : a[i] = s[i]
  <2>1. \A i \in 1 .. k - 1 : s[i] \in T
    BY <1>1
  <2> QED BY SMTT(30), <1>1, <2>1, SubSeqProperties
<1>3. b \in Seq(T) /\ Len(b) = n - k + 1 /\ \A i \in 1 .. n - k + 1 : b[i] = s[k + i - 1]
  <2>1. \A i \in k .. n : s[i] \in T
    BY <1>1
  <2> QED BY SMTT(30), <1>1, <2>1, SubSeqProperties
<1> HIDE DEF a, b
<1>4. c \in Seq(T) /\ Len(c) = k /\ (\A i \in 1 .. k - 1 : c[i] = s[i]) /\ c[k] = e
  <2>1. c = Append(a, e)
    BY <1>2
  <2>2. /\ Append(a, e) \in Seq(T) /\ Len(Append(a, e)) = Len(a) + 1
        /\ \A i \in 1 .. Len(a) : Append(a, e)[i] = a[i]
        /\ Append(a, e)[Len(a) + 1] = e
    BY <1>2, AppendProperties
  <2> HIDE DEF c
  <2> QED BY <1>1, <1>2, <2>1, <2>2
<1> HIDE DEF c
<1>5. /\ c \o b \in Seq(T) /\ Len(c \o b) = n + 1
      /\ \A i \in 1 .. n + 1 : (c \o b)[i] = IF i <= k THEN c[i] ELSE b[i - k]
  <2>1. /\ c \o b \in Seq(T) /\ Len(c \o b) = Len(c) + Len(b)
        /\ \A i \in 1 .. Len(c) + Len(b) :
             (c \o b)[i] = IF i <= Len(c) THEN c[i] ELSE b[i - Len(c)]
    BY <1>3, <1>4, ConcatProperties
  <2>2. Len(c) = k /\ Len(c) + Len(b) = n + 1
    BY <1>1, <1>3, <1>4
  <2> QED BY <2>1, <2>2
<1>6. ASSUME NEW i \in 1 .. n + 1
      PROVE  (c \o b)[i] = IF i < k THEN s[i] ELSE IF i = k THEN e ELSE s[i - 1]
  <2>1. CASE i <= k
    BY <1>1, <1>4, <1>5, <2>1
  <2>2. CASE ~(i <= k)
    <3>1. i - k \in 1 .. n - k + 1 /\ k + (i - k) - 1 = i - 1 /\ ~(i < k) /\ i # k
      BY <1>1, <2>2
    <3>2. b[i - k] = s[k + (i - k) - 1]
      BY <1>3, <3>1
    <3> QED BY <1>5, <2>2, <3>1, <3>2
  <2> QED BY <2>1, <2>2
<1> QED BY <1>5, <1>6 DEF InsertAt, a, b, c, n

-----------------------------------------------------------------------------
(* Quotients and square roots of natural numbers. *)

LEMMA QuotientSpans ==
  ASSUME NEW a \in Nat, NEW b \in Nat, b > 0
  PROVE  a \div b \in Nat /\ b * (a \div b) <= a /\ a < b * (a \div b) + b
OBVIOUS

LEMMA ProductGrows ==
  ASSUME NEW a \in Nat, NEW b \in Nat, NEW c \in Nat, a <= b
  PROVE  a * c \in Nat /\ b * c \in Nat /\ a * c <= b * c
OBVIOUS

LEMMA QuotientUnique ==
  ASSUME NEW a \in Nat, NEW b \in Nat, b > 0, NEW q \in Nat, b * q <= a, a < b * q + b
  PROVE  a \div b = q
<1> DEFINE p == a \div b
<1>1. p \in Nat /\ b * p <= a /\ a < b * p + b
  BY QuotientSpans
<1> HIDE DEF p
<1>2. ASSUME NEW m \in Nat, NEW n \in Nat, m < n, b * n <= a, a < b * m + b PROVE FALSE
  <2>1. (m + 1) * b <= n * b
    BY <1>2, ProductGrows
  <2>2. (m + 1) * b = b * m + b /\ n * b = b * n
    OBVIOUS
  <2>3. b * m \in Nat /\ b * n \in Nat
    OBVIOUS
  <2> QED BY <1>2, <2>1, <2>2, <2>3
<1>3. p = q
  BY <1>1, <1>2
<1> QED BY <1>3 DEF p

LEMMA QuotientGrows ==
  ASSUME NEW a \in Nat, NEW b \in Nat, b > 0, NEW c \in Nat, a <= c
  PROVE  a \div b <= c \div b
<1> DEFINE p == a \div b
           q == c \div b
<1>1. /\ p \in Nat /\ b * p <= a /\ a < b * p + b
      /\ q \in Nat /\ b * q <= c /\ c < b * q + b
  BY QuotientSpans
<1> HIDE DEF p, q
<1>2. ASSUME q < p PROVE FALSE
  <2>1. (q + 1) * b <= p * b
    BY <1>1, <1>2, ProductGrows
  <2>2. (q + 1) * b = b * q + b /\ p * b = b * p /\ b * p \in Nat /\ b * q \in Nat
    BY <1>1
  <2> QED BY <1>1, <2>1, <2>2
<1>3. p <= q
  BY <1>1, <1>2
<1> QED BY <1>3 DEF p, q

LEMMA RootExists ==
  ASSUME NEW n \in Nat
  PROVE  \E r \in 0 .. n : r * r <= n /\ (r + 1) * (r + 1) > n
<1> DEFINE T == {r \in 0 .. n : r * r <= n}
<1>1. T \subseteq 0 .. n /\ T # {}
  <2>1. 0 \in T
    OBVIOUS
  <2> QED BY <2>1
<1>2. Max(T) \in T /\ \A y \in T : y <= Max(T)
  <2> HIDE DEF T
  <2> QED BY <1>1, MaxOfSome
<1> DEFINE r == Max(T)
<1>3. r \in 0 .. n /\ r * r <= n
  BY <1>2
<1>4. ASSUME (r + 1) * (r + 1) <= n PROVE FALSE
  <2>1. r + 1 \notin T
    <3> HIDE DEF T
    <3>1. r \in Nat
      BY <1>3
    <3> QED BY <1>2, <3>1
  <2> HIDE DEF T, r
  <2>2. 1 <= r + 1 /\ r \in Nat /\ r + 1 \in Nat
    BY <1>3
  <2>3. 1 * (r + 1) <= (r + 1) * (r + 1)
    BY <2>2, ProductGrows
  <2>4. (r + 1) * (r + 1) \in Nat
    BY <2>2
  <2>5. r + 1 \in 0 .. n
    BY <1>4, <2>2, <2>3, <2>4
  <2> QED BY <1>4, <2>1, <2>5 DEF T
<1> HIDE DEF T, r
<1>5. (r + 1) * (r + 1) \in Nat
  BY <1>3
<1> QED BY <1>3, <1>4, <1>5
=============================================================================
