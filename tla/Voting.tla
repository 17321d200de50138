------------------------------- MODULE Voting --------------------------------
(***************************************************************************)
(* Voting on redundant signals (voting_mechanism.c): a voter collects the *)
(* values of its inputs one call at a time, an input may be declared *)
(* invalid, and the algorithm the voter was created with selects a value. *)
(* *)
(* Values are integers and the threshold is a percentage, so that whether *)
(* two values agree is exact.  A selected value is a fraction, the sum of *)
(* what was averaged over its weight. *)
(***************************************************************************)
EXTENDS Integers, Sequences, FiniteSets, FiniteSetsExt, SequencesExt

CONSTANTS
  Signals,           \* values an input may take
  Threshold,         \* discrepancy_threshold, in percent
  MaxVoterInputs,    \* VOTING_MAX_INPUTS
  VotingAlgorithms,  \* the algorithms voters are created with
  WiredInputs,       \* how many inputs the caller wires to a voter of each algorithm
  WeightOf           \* the weight the caller gives to each input

Algorithm == {"MAJORITY", "WEIGHTED", "MEDIAN", "MIDVALUE", "AVERAGE", "HIGH_SELECT",
              "LOW_SELECT", "2OO3", "2OO4", "BYZANTINE"}
Verdict   == {"OK", "DISCREPANCY", "INSUFFICIENT_INPUTS", "BYZANTINE_FAULT"}
VoterSlot == 0 .. MaxVoterInputs - 1

ASSUME VotingAssumption ==
  /\ Signals \subseteq Int /\ Threshold \in 0 .. 100 /\ MaxVoterInputs \in Nat \ {0}
  /\ VotingAlgorithms \subseteq Algorithm
  /\ WiredInputs \in [VotingAlgorithms -> 1 .. MaxVoterInputs]
  /\ WeightOf \in [VoterSlot -> Nat \ {0}]   \* voting_set_input: 1.0 instead of zero or less

VARIABLE voter

Unset == [value |-> 0, valid |-> FALSE]

voting_init ==
  \E a \in VotingAlgorithms :
    voter = [algorithm |-> a, n_inputs |-> 0, inputs |-> [i \in VoterSlot |-> Unset],
             result |-> "OK", selected |-> <<0, 1>>, majority_count |-> 0]

-----------------------------------------------------------------------------
(* Agreement and rank. *)

Magnitude(x)   == IF x < 0 THEN -x ELSE x
ScaleOf(x)     == Max({Magnitude(x), 1})
Near(x, y, scale) == 100 * Magnitude(x - y) <= Threshold * scale

Looked(v)  == 0 .. v.n_inputs - 1
Valid(v)   == {i \in Looked(v) : v.inputs[i].valid}
ValueAt(v, i) == v.inputs[i].value

Read(v, S)    == [i \in S |-> ValueAt(v, i)]

(* The values read in ascending order: the k-th has fewer than k below it, *)
(* and k that are not above it. *)
Ranked(read) ==
  LET below(x)  == {i \in DOMAIN read : read[i] < x}
      within(x) == {i \in DOMAIN read : read[i] <= x}
  IN  [k \in 1 .. Cardinality(DOMAIN read) |->
         CHOOSE x \in Range(read) :
           Cardinality(below(x)) < k /\ k <= Cardinality(within(x))]

Plain(x) == <<x, 1>>
Mean(x, y) == <<x + y, 2>>
Vote(verdict, selected) == [verdict |-> verdict, selected |-> selected]

(* Too few inputs: the value selected before stays. *)
Insufficient(v) == Vote("INSUFFICIENT_INPUTS", v.selected)

-----------------------------------------------------------------------------
(* The algorithms.  2oo3 and 2oo4 vote on the first inputs whether they *)
(* are valid or not. *)

(* Mutant: the three values are not sorted. *)
voting_2oo3_unsorted(v) ==
  LET lo  == ValueAt(v, 0)
      mid == ValueAt(v, 1)
      hi  == ValueAt(v, 2)
      top == Max({Magnitude(lo), Magnitude(mid), Magnitude(hi)})
      near(x, y) == Near(x, y, IF top = 0 THEN 1 ELSE top) IN
  IF near(lo, mid) /\ near(mid, hi) THEN Vote("OK", Plain(mid))
  ELSE IF near(lo, mid) THEN Vote("OK", Mean(lo, mid))
  ELSE IF near(mid, hi) THEN Vote("OK", Mean(mid, hi))
  ELSE Vote("DISCREPANCY", Plain(mid))

voting_2oo3(v) ==
  LET r   == Ranked(Read(v, 0 .. 2))
      top == Max({Magnitude(r[k]) : k \in 1 .. 3})
      near(k) == Near(r[k], r[k + 1], IF top = 0 THEN 1 ELSE top) IN
  CASE near(1) /\ near(2)   -> Vote("OK", Plain(r[2]))
    [] near(1) /\ ~ near(2) -> Vote("OK", Mean(r[1], r[2]))
    [] ~ near(1) /\ near(2) -> Vote("OK", Mean(r[2], r[3]))
    [] OTHER                -> Vote("DISCREPANCY", Plain(r[2]))

voting_2oo4(v) ==
  LET r     == Ranked(Read(v, 0 .. 3))
      scale == Max({Magnitude(r[1]), Magnitude(r[4]), 1})
      near(k) == Near(r[k], r[k + 1], scale) IN
  Vote(IF near(2) /\ (near(1) \/ near(3)) THEN "OK" ELSE "DISCREPANCY", Mean(r[2], r[3]))

MedianOf(v) == LET r == Ranked(Read(v, Valid(v))) IN r[(Len(r) \div 2) + 1]

voting_median(v) ==
  IF Valid(v) = {} THEN Insufficient(v) ELSE Vote("OK", Plain(MedianOf(v)))

voting_midvalue(v) ==
  LET r == Ranked(Read(v, Valid(v)))
      h == Len(r) \div 2 IN
  CASE Valid(v) = {}   -> Insufficient(v)
    [] Len(r) % 2 = 1  -> Vote("OK", Plain(r[h + 1]))
    [] OTHER           -> Vote("OK", Mean(r[h], r[h + 1]))

(* The valid inputs within the threshold of a reference. *)
Agreeing(v, reference) ==
  {i \in Valid(v) : Near(ValueAt(v, i), reference, ScaleOf(reference))}

Weighted(v, weight) ==
  LET with == Agreeing(v, MedianOf(v)) IN
  CASE Valid(v) = {} -> Insufficient(v)
    [] Valid(v) # {} /\ with = {} -> Vote("DISCREPANCY", Plain(MedianOf(v)))
    [] OTHER         -> Vote("OK", <<SumFunction([i \in with |-> weight[i] * ValueAt(v, i)]),
                                     SumFunction([i \in with |-> weight[i]])>>)

voting_average_with_check(v) == Weighted(v, [i \in VoterSlot |-> 1])
voting_weighted(v)           == Weighted(v, WeightOf)

voting_high_select(v) ==
  IF Valid(v) = {} THEN Insufficient(v)
  ELSE Vote("OK", Plain(Max({ValueAt(v, i) : i \in Valid(v)})))

voting_low_select(v) ==
  IF Valid(v) = {} THEN Insufficient(v)
  ELSE Vote("OK", Plain(Min({ValueAt(v, i) : i \in Valid(v)})))

(* Who agrees with input i, itself included; the input with the most, the *)
(* first of them, is believed when it has enough. *)
Support(v, i) == Cardinality(Agreeing(v, ValueAt(v, i)))
Tolerated(n)  == (n - 1) \div 3

voting_byzantine_resilient(v) ==
  LET most == Max({Support(v, i) : i \in Valid(v)})
      best == Min({i \in Valid(v) : Support(v, i) = most}) IN
  IF v.n_inputs < 3 \/ Valid(v) = {} THEN Insufficient(v)
  ELSE Vote(IF most < v.n_inputs - Tolerated(v.n_inputs) THEN "BYZANTINE_FAULT" ELSE "OK",
            Plain(ValueAt(v, best)))

voting_has_majority(v) ==
  v.n_inputs >= 2 /\ \E i \in Valid(v) : Support(v, i) > v.n_inputs \div 2

VoteOf(v) ==
  CASE v.algorithm = "2OO3" /\ v.n_inputs >= 3 -> voting_2oo3(v)
    [] v.algorithm = "2OO4" /\ v.n_inputs >= 4 -> voting_2oo4(v)
    [] v.algorithm = "MEDIAN"      -> voting_median(v)
    [] v.algorithm = "WEIGHTED"    -> voting_weighted(v)
    [] v.algorithm = "MIDVALUE"    -> voting_midvalue(v)
    [] v.algorithm = "AVERAGE"     -> voting_average_with_check(v)
    [] v.algorithm = "HIGH_SELECT" -> voting_high_select(v)
    [] v.algorithm = "LOW_SELECT"  -> voting_low_select(v)
    [] v.algorithm = "BYZANTINE"   -> voting_byzantine_resilient(v)
    [] OTHER                       -> Insufficient(v)

-----------------------------------------------------------------------------
(* The calls. *)

voting_set_input(i, x) ==
  voter' = [voter EXCEPT !.inputs[i] = [value |-> x, valid |-> TRUE],
                         !.n_inputs = Max({@, i + 1})]

voting_invalidate_input(i) == voter' = [voter EXCEPT !.inputs[i].valid = FALSE]

(* A weighted voter without inputs reports to its caller alone, its own *)
(* result stays. *)
voting_execute ==
  LET vote  == VoteOf(voter)
      quiet == voter.algorithm = "WEIGHTED" /\ Valid(voter) = {} IN
  voter' = [voter EXCEPT
    !.result = IF quiet THEN @ ELSE vote.verdict,
    !.selected = vote.selected,
    !.majority_count = IF voter.algorithm = "WEIGHTED" /\ vote.verdict = "OK"
                       THEN Cardinality(Agreeing(voter, MedianOf(voter))) ELSE @]

VoterNext ==
  \/ \E i \in 0 .. WiredInputs[voter.algorithm] - 1 :
       (\E x \in Signals : voting_set_input(i, x)) \/ voting_invalidate_input(i)
  \/ voting_execute

-----------------------------------------------------------------------------
(* Properties. *)

VoterTypeOK ==
  /\ voter.algorithm \in Algorithm /\ voter.n_inputs \in 0 .. MaxVoterInputs
  /\ \A i \in VoterSlot : voter.inputs[i].value \in Signals \cup {0}
                          /\ voter.inputs[i].valid \in BOOLEAN
  /\ voter.result \in Verdict /\ voter.majority_count \in 0 .. MaxVoterInputs

(* x / y lies between the least and the largest of a set of values. *)
Within(fraction, values) ==
  Min(values) * fraction[2] <= fraction[1] /\ fraction[1] <= Max(values) * fraction[2]

AllAgree(v, S) == \A i, j \in S : Near(ValueAt(v, i), ValueAt(v, j), ScaleOf(ValueAt(v, i)))

(* voting_mechanism.h:121-122 ("With at most 1 Byzantine fault, 2oo3 *)
(* voting selects the correct value provided 2 of 3 inputs are correct"): *)
(* when all inputs but one agree, that one cannot move the selected value *)
(* out of their range, wherever it lies itself.  With four inputs the *)
(* Byzantine voter may select the odd value, but only one near to two of *)
(* the others, and it reports OK. *)
OneFaultIsMasked ==
  LET v == voter IN
  \A odd \in Looked(v) :
    LET rest   == Looked(v) \ {odd}
        values == {ValueAt(v, i) : i \in rest}
        vote   == VoteOf(v) IN
    Looked(v) = Valid(v) /\ AllAgree(v, rest) =>
      /\ \/ v.algorithm \in {"2OO3", "2OO4"} /\ vote.verdict # "INSUFFICIENT_INPUTS"
         \/ v.algorithm \in {"MEDIAN", "MIDVALUE"} /\ v.n_inputs >= 3
         => Within(vote.selected, values)
      /\ v.algorithm = "BYZANTINE" /\ v.n_inputs >= 4 =>
           /\ vote.verdict = "OK"
           /\ Cardinality({i \in rest : Near(ValueAt(v, i), vote.selected[1],
                                             ScaleOf(vote.selected[1]))}) >= 2

(* An input declared invalid has no say in the vote of the algorithms that *)
(* take validity into account: any other value in its place would give the *)
(* same, and what is selected lies between valid values. *)
InvalidHasNoVote ==
  LET v == voter IN
  v.algorithm \notin {"2OO3", "2OO4"} =>
    /\ \A i \in Looked(v) \ Valid(v), x \in Signals :
         VoteOf([v EXCEPT !.inputs[i].value = x]) = VoteOf(v)
    /\ VoteOf(v).verdict # "INSUFFICIENT_INPUTS" =>
         Within(VoteOf(v).selected, {ValueAt(v, i) : i \in Valid(v)})

(* An accepted Byzantine vote is a majority vote. *)
AcceptedIsMajority ==
  voter.algorithm = "BYZANTINE" /\ VoteOf(voter).verdict = "OK" => voting_has_majority(voter)
=============================================================================
