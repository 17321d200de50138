------------------------------ MODULE MCLibrary -------------------------------
(***************************************************************************)
(* What mini-dcs-redundancy-failover offers: the redundancy group with *)
(* modules of any health, and beside it version vectors, voting, *)
(* diagnostics and the availability model.  A behaviour runs one part, the *)
(* others stay as they are.  They share no state, so that nothing is lost *)
(* by it. *)
(***************************************************************************)
EXTENDS RedundancyGroup, VersionVectors, Voting, DiagMonitor, Availability

VARIABLE part

treeVars    == <<ft, outdated, markov>>
libraryVars == <<grp, vectorVars, voter, monitorVars, treeVars, part>>

(* A part that does not run keeps one of its initial states. *)
LibraryInit ==
  /\ Init /\ VectorInit /\ voting_init /\ diag_init /\ TreeInit /\ markov_init
  /\ part \in {"group", "vectors", "voter", "faults", "trend", "link", "tree", "markov"}
  /\ part # "voter" => voter.algorithm = "2OO3"

GroupStep   == part = "group" /\ Next
               /\ UNCHANGED <<vectorVars, voter, monitorVars, treeVars>>
VectorStep  == part = "vectors" /\ VectorNext
               /\ UNCHANGED <<grp, voter, monitorVars, treeVars>>
VoterStep   == part = "voter" /\ VoterNext
               /\ UNCHANGED <<grp, vectorVars, monitorVars, treeVars>>
MonitorStep == /\ \/ part = "faults" /\ DiagNext
                  \/ part = "trend" /\ TrendNext
                  \/ part = "link" /\ LinkNext
               /\ UNCHANGED <<grp, vectorVars, voter, treeVars>>
ModelStep   == /\ \/ part = "tree" /\ TreeNext
                  \/ part = "markov" /\ MarkovNext
               /\ UNCHANGED <<grp, vectorVars, voter, monitorVars>>

LibraryNext ==
  /\ GroupStep \/ VectorStep \/ VoterStep \/ MonitorStep \/ ModelStep
  /\ UNCHANGED part

LibrarySpec == LibraryInit /\ [][LibraryNext]_libraryVars

(* Lines 108-133 of failover_engine.c, one slot after the other. *)
LoopResult(late) ==
  LET step[i \in 0 .. N] ==
        IF i = 0 THEN grp
        ELSE IF i - 1 \in late
             THEN module_set_health(step[i - 1], i - 1, "FAULTY")
             ELSE step[i - 1]
  IN  step[N]

(* The closed form of the timeout loop is what the loop computes, for any *)
(* set of late slots and any group the calls can build. *)
ClosedFormIsLoop ==
  \A late \in SUBSET {s \in Slot : Watched(s)} :
    timed_out(grp, late) = LoopResult(late)

(* What votes, diagnostics and models promise, looked at in the part that *)
(* runs: see the conjuncts. *)
LibrarySound ==
  /\ part = "group" => TypeOK /\ ClosedFormIsLoop
  /\ part = "vectors" => VectorTypeOK
  /\ part = "voter" => VoterTypeOK /\ OneFaultIsMasked /\ InvalidHasNoVote /\ AcceptedIsMajority
  /\ part \in {"faults", "trend"} =>
       DiagTypeOK /\ LogIsCensus /\ ExtremesAreReached /\ TrendIsOfTheNewest
  /\ part \in {"tree", "markov"} =>
       /\ AvailTypeOK /\ CachedIsTrue /\ ResultIsProbability /\ CutSetIsNecessary
       /\ SolutionIsCurrent

-----------------------------------------------------------------------------
(* Instances. *)

SomeWired   == [a \in VotingAlgorithms |-> IF a \in {"2OO4", "BYZANTINE"} THEN 4 ELSE 3]
SomeWeights == [i \in 0 .. 3 |-> IF i = 1 THEN 2 ELSE 1]

SomeProbability == [n \in 1 .. 4 |-> IF n = 2 THEN <<1, 3>> ELSE <<1, 2>>]
SomeGateTypes   == [g \in 5 .. 7 |-> CASE g = 5 -> "AND" [] g = 6 -> "VOTING" [] OTHER -> "OR"]
SomeGateK       == [g \in 5 .. 7 |-> 2]

-----------------------------------------------------------------------------
(* Functions against their references. *)

(* One of n is a parallel system, n of n a series system, and every *)
(* further channel that has to work costs availability. *)
ASSUME VotesAreBlockDiagrams ==
  \A n \in 1 .. 4, a \in 0 .. 5 :
    LET p    == <<a, 5>>
        all  == [i \in 1 .. n |-> p]
        k_of(k) == rbd_k_of_n_availability(k, n, p) IN
    /\ k_of(1) = rbd_parallel_availability(all)
    /\ k_of(n) = rbd_series_availability(all)
    /\ \A k \in 1 .. n - 1 : k_of(k + 1)[1] <= k_of(k)[1]
    /\ k_of(n + 1) = <<-1, 1>>

(* One good channel of two is safer on demand than two of three, both are *)
(* safer than a single channel as long as failures are rare, and with *)
(* common cause alone redundancy gains nothing. *)
ASSUME RedundancyPays ==
  \A x \in 0 .. 10, beta \in 0 .. 10 :
    LET one == availability_pfd_single_channel(x) IN
    /\ availability_pfd_1oo2(x, beta) <= availability_pfd_2oo3(x, beta)
    /\ availability_pfd_1oo2(x, beta) <= one
    /\ x <= 5 => availability_pfd_2oo3(x, beta) <= one
    /\ availability_pfd_1oo2(x, 10) = one

(* A higher level asks for no less tolerance, a larger safe share for no *)
(* more, and a smaller probability gives no lower level. *)
ASSUME IntegrityIsMonotone ==
  /\ \A sil \in 1 .. 4, sff \in {0, 59, 60, 89, 90, 100}, more \in {0, 59, 60, 89, 90, 100} :
       /\ sff <= more => availability_hft_required(sil, more) <= availability_hft_required(sil, sff)
       /\ sil < 4 => availability_hft_required(sil, sff) <= availability_hft_required(sil + 1, sff)
  /\ \A x \in {1, 9, 10, 99, 100, 999, 1000, 9999, 10000}, y \in {1, 10, 500, 20000} :
       x <= y => availability_sil_from_pfd(y) <= availability_sil_from_pfd(x)
  /\ \A u \in {1, 2, 10, 11, 999, 1000, 100000, 1000000} :
       LET nines == availability_nines(u) IN
       u <= 10 ^ (6 - nines) /\ (nines < 6 => u > 10 ^ (5 - nines))

(* The coverage computed back from the split rates is never below the one *)
(* the monitor was created with, and reaches it at the ends alone. *)
ASSUME CoverageIsNotUnderstated ==
  \A c \in 0 .. 100 :
    LET split    == SplitRate(c)
        measured == diag_coverage_factor(split.dd, split.du) IN
    /\ split.dd + split.du + split.s = 200
    /\ measured >= c /\ (measured = c => c \in {0, 1, 99, 100})
    /\ diag_coverage_class(0) = "None" /\ diag_coverage_class(measured) = "None" => c < 60
=============================================================================
