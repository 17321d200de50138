----------------------------- MODULE Availability -----------------------------
(***************************************************************************)
(* The availability model (availability_model.c): fault trees that cache *)
(* the probability of their gates, a two-state Markov model that caches *)
(* its steady state, and the formulas of reliability block diagrams and *)
(* safety integrity. *)
(* *)
(* Probabilities are fractions <<numerator, denominator>>, exact where the *)
(* code rounds.  The nodes of a tree are numbered so that a child has a *)
(* smaller number than its gate: callers build trees, not cycles. *)
(* *)
(* `outdated` is not in the program: the gates below which a child was *)
(* added after they were evaluated. *)
(***************************************************************************)
EXTENDS Integers, Sequences, FiniteSets, FiniteSetsExt, SequencesExt, Functions

CONSTANTS
  BasicEvent,   \* numbers of the basic events
  Probability,  \* probability of each basic event
  Gates,        \* numbers of the gates
  GateTypes,    \* the type of each gate
  GateK,        \* k of the voting gates
  MaxChildren,  \* children a gate may have, 8 in the code
  Rates         \* transition rates that are set

Fraction == {p \in Nat \X Nat : p[1] <= p[2] /\ p[2] > 0}

GateType == {"OR", "AND", "VOTING", "INHIBIT"}

(* A tree has finitely many nodes, each with a number of its own. *)
ASSUME AvailabilityAssumption ==
  /\ BasicEvent \subseteq Nat /\ Gates \subseteq Nat /\ BasicEvent \cap Gates = {}
  /\ IsFiniteSet(BasicEvent \cup Gates)
  /\ Probability \in [BasicEvent -> Fraction] /\ GateTypes \in [Gates -> GateType]
  /\ GateK \in [Gates -> Nat] /\ MaxChildren \in Nat
  /\ Rates \subseteq Nat

VARIABLES
  ft,       \* the children, the evaluated flags and the cached results of the gates
  outdated,
  markov    \* the rates, the steady state as weights, and solved

TreeNode == BasicEvent \cup Gates

NoResult == <<0, 1>>

TreeInit ==
  /\ ft = [children |-> [g \in Gates |-> << >>], evaluated |-> [g \in Gates |-> FALSE],
           result |-> [g \in Gates |-> NoResult]]
  /\ outdated = {}

-----------------------------------------------------------------------------
(* Block diagrams. *)

Complement(p) == <<p[2] - p[1], p[2]>>

rbd_series_availability(ps) ==
  LET product[k \in 0 .. Len(ps)] ==
        IF k = 0 THEN <<1, 1>>
        ELSE <<product[k - 1][1] * ps[k][1], product[k - 1][2] * ps[k][2]>>
  IN  product[Len(ps)]

rbd_parallel_availability(ps) ==
  Complement(rbd_series_availability([k \in DOMAIN ps |-> Complement(ps[k])]))

MeanOf(ps) ==
  LET sum[k \in 0 .. Len(ps)] ==
        IF k = 0 THEN <<0, 1>>
        ELSE <<sum[k - 1][1] * ps[k][2] + ps[k][1] * sum[k - 1][2], sum[k - 1][2] * ps[k][2]>>
  IN  <<sum[Len(ps)][1], sum[Len(ps)][2] * Len(ps)>>

Power(x, n) ==
  LET power[i \in 0 .. n] == IF i = 0 THEN 1 ELSE x * power[i - 1]
  IN  power[n]

binom(n, k) == Cardinality(kSubset(k, 1 .. n))

(* -1 when k of n is not a vote. *)
rbd_k_of_n_availability(k, n, p) ==
  IF k > n \/ n = 0 THEN <<-1, 1>>
  ELSE <<SumFunction([i \in k .. n |-> binom(n, i) * Power(p[1], i) * Power(p[2] - p[1], n - i)]),
         Power(p[2], n)>>

-----------------------------------------------------------------------------
(* Fault trees. *)

GateOf(type, k, ps) ==
  CASE type = "OR"  -> rbd_parallel_availability(ps)
    [] type = "AND" -> rbd_series_availability(ps)
    [] type = "VOTING" -> rbd_k_of_n_availability(k, Len(ps), MeanOf(ps))
    [] type = "INHIBIT" /\ Len(ps) >= 2 -> rbd_series_availability(SubSeq(ps, 1, 2))
    [] OTHER -> NoResult

(* The probability of a node, trusting the results of the nodes in cached. *)
ValueOf(cached) ==
  LET value[n \in TreeNode] ==
        IF n \in BasicEvent THEN Probability[n]
        ELSE IF n \in cached THEN ft.result[n]
        ELSE GateOf(GateTypes[n], GateK[n],
                    [i \in DOMAIN ft.children[n] |-> value[ft.children[n][i]]])
  IN  value

Evaluated == {g \in Gates : ft.evaluated[g]}

(* The gates that evaluating a node goes through. *)
Visited(root) ==
  LET below[n \in TreeNode] ==
        IF n \in BasicEvent \cup Evaluated THEN {}
        ELSE {n} \cup UNION {below[c] : c \in Range(ft.children[n])}
  IN  below[root]

(* The nodes below a node. *)
Under(root) ==
  LET below[n \in TreeNode] ==
        IF n \in BasicEvent THEN {}
        ELSE UNION {{c} \cup below[c] : c \in Range(ft.children[n])}
  IN  below[root]

(* Only the gate itself has to be evaluated again, not those above it. *)
ft_add_child(g, c) ==
  /\ Len(ft.children[g]) < MaxChildren
  /\ c < g /\ \A other \in Gates : c \notin Range(ft.children[other])
  /\ ft' = [ft EXCEPT !.children[g] = Append(@, c), !.evaluated[g] = FALSE]
  /\ outdated' = (outdated \cup {a \in Evaluated : g \in Under(a)}) \ {g}

(* A voting gate without children divides by zero: callers build it first. *)
ft_evaluate(root) ==
  LET visited == Visited(root) IN
  /\ \A g \in visited : GateTypes[g] = "VOTING" => ft.children[g] # << >>
  /\ ft' = [ft EXCEPT
       !.result = [g \in Gates |-> IF g \in visited THEN ValueOf(Evaluated)[g] ELSE @[g]],
       !.evaluated = [g \in Gates |-> @[g] \/ g \in visited]]
  /\ outdated' = {g \in Gates : \/ g \in outdated
                                \/ g \in visited /\ Under(g) \cap outdated # {}}

(* The basic events found through AND gates alone; what an OR gate *)
(* collects is dropped again.  At most one set is returned. *)
ft_minimal_cut_sets(root) ==
  LET found[n \in TreeNode] ==
        IF n \in BasicEvent THEN {n}
        ELSE IF GateTypes[n] = "AND" THEN UNION {found[c] : c \in Range(ft.children[n])}
        ELSE {}
  IN  IF found[root] = {} THEN {} ELSE {found[root]}

TreeNext ==
  /\ \/ \E g \in Gates, c \in TreeNode : ft_add_child(g, c)
     \/ \E g \in Gates : ft_evaluate(g)
  /\ UNCHANGED markov

-----------------------------------------------------------------------------
(* The Markov model: rates[1] leads from up to down, rates[2] back. *)

markov_init == markov = [rates |-> <<0, 0>>, steady |-> <<1, 1>>, solved |-> FALSE]

markov_set_transition(from, rate) ==
  markov' = [markov EXCEPT !.rates[from] = rate, !.solved = FALSE]

(* The iteration starts from the uniform distribution, which is what it *)
(* returns when both rates are zero. *)
markov_solve_steady_state ==
  markov' = [markov EXCEPT !.solved = TRUE,
    !.steady = IF markov.rates = <<0, 0>> THEN <<1, 1>>
               ELSE <<markov.rates[2], markov.rates[1]>>]

(* -1 until the model is solved. *)
markov_compute_availability ==
  IF markov.solved THEN <<markov.steady[1], markov.steady[1] + markov.steady[2]>> ELSE <<-1, 1>>

(* The mean time to the first failure, or what stands for never.  It is *)
(* the inverse of the flow into the down state. *)
markov_mttff ==
  LET flow == markov.steady[1] * markov.rates[1] IN
  CASE ~ markov.solved -> <<-1, 1>>
    [] markov.solved /\ flow > 0 -> <<markov.steady[1] + markov.steady[2], flow>>
    [] OTHER -> <<1000000000, 1>>

MarkovNext ==
  /\ \/ \E from \in 1 .. 2, rate \in Rates : markov_set_transition(from, rate)
     \/ markov_solve_steady_state
  /\ UNCHANGED <<ft, outdated>>

-----------------------------------------------------------------------------
(* Safety integrity. *)

(* Probabilities of failure in units of 10^-9. *)
availability_sil_from_pfd(pfd) ==
  CASE pfd <= 0 \/ pfd >= 10000 -> 0
    [] pfd \in 1000 .. 9999 -> 1
    [] pfd \in 100 .. 999 -> 2
    [] pfd \in 10 .. 99 -> 3
    [] OTHER -> 4

(* Failure on demand of a channel and of votes, in units of 1/60000; x is *)
(* the rate times the proof test interval and beta the common cause share, *)
(* both in tenths. *)
Independent(x, beta)     == (10 - beta) * x * (10 - beta) * x
availability_pfd_single_channel(x) == 3000 * x
availability_pfd_1oo2(x, beta) == 2 * Independent(x, beta) + 300 * beta * x
availability_pfd_2oo3(x, beta) == 6 * Independent(x, beta) + 300 * beta * x

(* Fault tolerance for a safety integrity level and a safe failure *)
(* fraction in percent. *)
availability_hft_required(sil, sff) ==
  LET class == CASE sff < 60 -> 1 [] sff \in 60 .. 89 -> 2 [] OTHER -> 3
  IN  Max({0, sil - class})

(* The unavailability is in millionths. *)
availability_nines(u) == Max({k \in 0 .. 6 : u <= 10 ^ (6 - k)})

-----------------------------------------------------------------------------
(* Properties. *)

AvailTypeOK ==
  /\ \A g \in Gates : Len(ft.children[g]) <= MaxChildren
  /\ outdated \subseteq Gates
  /\ markov.rates \in [1 .. 2 -> Rates \cup {0}] /\ markov.solved \in BOOLEAN

(* A gate that counts as evaluated has the probability of its tree, in *)
(* whatever order children are added and gates evaluated, unless a child *)
(* was added further down: the flag of the gates above is not cleared *)
(* (availability_model.c:340), and what they are evaluated to lives on in *)
(* the gates evaluated from them. *)
CachedIsTrue ==
  \A g \in Evaluated \ outdated : ft.result[g] = ValueOf({})[g]

(* Probabilities stay probabilities as long as each voting gate in the *)
(* tree has the k children it votes on; one that has fewer evaluates to -1.*)
Short(n) == n \in Gates /\ GateTypes[n] = "VOTING" /\ GateK[n] > Len(ft.children[n])

ResultIsProbability ==
  \A g \in Evaluated \ outdated :
    (\A n \in {g} \cup Under(g) : ~ Short(n)) =>
      0 <= ft.result[g][1] /\ ft.result[g][1] <= ft.result[g][2]

(* When the events of S occur, does the node's? *)
Occurs(S, root) ==
  LET happens[n \in TreeNode] ==
        IF n \in BasicEvent THEN n \in S
        ELSE LET on == {c \in Range(ft.children[n]) : happens[c]} IN
             CASE GateTypes[n] = "OR"  -> on # {}
               [] GateTypes[n] = "AND" -> on = Range(ft.children[n])
               [] GateTypes[n] = "INHIBIT" -> /\ Len(ft.children[n]) >= 2
                                              /\ {ft.children[n][1], ft.children[n][2]} \subseteq on
               [] OTHER -> Cardinality(on) >= GateK[n]
  IN  happens[root]

(* The events returned for a tree are in each of its cut sets; when the *)
(* tree has AND gates alone they are the minimal cut set.  (With an OR *)
(* gate in the tree what is returned need not be a cut set at all.) *)
CutSetIsNecessary ==
  \A g \in Gates : \A cut \in ft_minimal_cut_sets(g) :
    /\ \A S \in SUBSET BasicEvent : Occurs(S, g) => cut \subseteq S
    /\ (\A n \in ({g} \cup Under(g)) \cap Gates : GateTypes[n] = "AND") => Occurs(cut, g)

(* What a solved model says belongs to its present rates: up and down *)
(* balance, and the time to failure is what the availability implies. *)
SolutionIsCurrent ==
  markov.solved =>
    /\ markov.steady[1] * markov.rates[1] = markov.steady[2] * markov.rates[2]
    /\ markov_compute_availability[1] * markov.rates[1] > 0 =>
         markov_mttff[1] * markov_compute_availability[1] * markov.rates[1]
           = markov_mttff[2] * markov_compute_availability[2]
=============================================================================
