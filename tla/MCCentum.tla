------------------------------ MODULE MCCentum ------------------------------
(***************************************************************************)
(* CENTUM VP: the batch manager, the redundant pair of a control station, *)
(* its function blocks, and its configuration and communication, side by *)
(* side.  A behaviour runs one of them, the others stay as they are: they *)
(* share no state.  Instances, and the checks of the functions no state *)
(* machine calls. *)
(***************************************************************************)
EXTENDS CentumBatch, CentumControl, CentumStation

VARIABLE part

centumVars == <<vars, centumPairVars, centumControlVars, stationVars, part>>

CentumInit ==
  /\ Init /\ CentumPairInit /\ CentumControlInit /\ StationInit
  /\ part \in {"batch", "pair", "pid", "blocks", "signals", "plant", "fcs", "segment",
               "gateway", "modbus", "recipe"}
  /\ part # "pair" => \A flag \in {"hw", "sw", "mem", "db"} : cpair.primary.flags[flag]
  /\ part # "pid" => cpid.velocity /\ cpid.direct
  /\ part # "recipe" => \A size \in Sizes : recipe.target <= size

(* Only the batch is fair: see FairSpec. *)
BatchStep(A) ==
  part = "batch" /\ A /\ UNCHANGED <<centumPairVars, centumControlVars, stationVars, part>>
Scans == \E dt \in ScanTimes \ {0} : Execute(dt)

PairStep ==
  /\ part = "pair" /\ CentumPairNext
  /\ UNCHANGED <<vars, centumControlVars, stationVars, part>>

ControlStep ==
  /\ \/ part = "pid" /\ PidBlockNext
     \/ part = "blocks" /\ BlocksNext
     \/ part = "signals" /\ SignalsChange
  /\ UNCHANGED <<vars, centumPairVars, stationVars, part>>

StationStep ==
  /\ \/ part = "plant" /\ PlantNext
     \/ part = "fcs" /\ FcsNext
     \/ part = "segment" /\ SegmentNext
     \/ part = "gateway" /\ GatewayNext
     \/ part = "modbus" /\ modbus_exchange
     \/ part = "recipe" /\ RecipeNext
  /\ UNCHANGED <<vars, centumPairVars, centumControlVars, part>>

CentumNext == BatchStep(Next) \/ PairStep \/ ControlStep \/ StationStep

CentumSpec ==
  /\ CentumInit /\ [][CentumNext]_centumVars
  /\ WF_centumVars(BatchStep(Scans))
  /\ \A i \in DOMAIN Phases : WF_centumVars(BatchStep(Acknowledge(i)))

(* What the components promise of their state: see the conjuncts. *)
CentumSound ==
  /\ BatchTypeOK /\ AcknowledgedOnce /\ SequentialExecution
  /\ CentumPairTypeOK /\ LogIsRight
  /\ CentumControlTypeOK /\ BlocksAgree
  /\ StationTypeOK /\ TablesStayValid /\ ProportionsKept

(* What no step of a function block does, in the PID and in the sequence *)
(* block: see the two properties. *)
BlocksMoveSafely == ValveMovesSlowly /\ RequestsStick

-----------------------------------------------------------------------------
(* Two procedures.  The first has a unit procedure of two operations, one *)
(* of them with a dangling phase, a dangling unit procedure, and one whose *)
(* first operation dangles; the second procedure is empty. *)
TwoProcedures == << <<1, 9, 2>>, << >> >>
TwoUnitProcs  == << <<1, 2>>, <<9, 3>> >>
Three         == << <<1, 2>>, <<9, 3>>, <<2>> >>

ThreePhases ==
  << [max_duration_sec |-> 2, requires_acknowledgment |-> FALSE],
     [max_duration_sec |-> 1, requires_acknowledgment |-> TRUE],
     [max_duration_sec |-> 3, requires_acknowledgment |-> FALSE] >>

Good == [hw |-> TRUE, sw |-> TRUE, mem |-> TRUE, db |-> TRUE]
GoodOrNot == {Good, [Good EXCEPT !.hw = FALSE], [Good EXCEPT !.mem = FALSE, !.db = FALSE]}

ThreeSteps == <<2, 0, 1>>
SomeElements ==
  << <<"AND", 0, 1>>, <<"SR", 0, 1>>, <<"RS", 1, 2>>, <<"XOR", 0, 2>>, <<"NOT", 1, 1>>,
     <<"OR", 1, 2>>, <<"TON", 0, 0>> >>

-----------------------------------------------------------------------------
(* A licence counts points, stations and displays; addresses stay in a *)
(* byte; a damaged packet is refused for its length only. *)
ASSUME StationRules ==
  LET p == << [id |-> 1, stations |-> <<1, 2, 3, 4>>], [id |-> 2, stations |-> <<5>>] >>
      l == [valid |-> TRUE, expired |-> FALSE, tags |-> 500, fcs |-> 2, his |-> 1]
      header == [length |-> 8, dest |-> <<1, 2>>, src |-> <<1, 3>>]
  IN /\ license_check(p, l) /\ ~license_check(p, [l EXCEPT !.tags = 499])
     /\ ~license_check(p, [l EXCEPT !.his = 0]) /\ ~license_check(p, [l EXCEPT !.expired = TRUE])
     /\ system_validate(Append(p, [id |-> 3, stations |-> <<4>>])) = "TAG_DUP"
     /\ \A d \in 0 .. 17, s \in {1, 254, 300} : \A i \in 1 .. 4 : vnet_calc_ip_address(d, s)[i] \in 0 .. 255
     /\ verify_packet(header, TRUE, 8) /\ ~verify_packet(header, FALSE, 8)
     /\ ~verify_packet([header EXCEPT !.src = <<1, 0>>], TRUE, 8)
     /\ \A q \in 0 .. 255 : opc_is_good(q) <=> q \in 192 .. 255

(* A module of the configuration is in slot 0 to 11 and has channels; what *)
(* overruns is what exceeds the scan; a conversion there and back is exact.*)
ASSUME FcsRules ==
  LET f == [nodes |-> <<1>>, modules |-> << [slot |-> 11, channels |-> 8] >>]
  IN /\ validate_configuration(f, 20, 10000) /\ total_io_points(f) = 8
     /\ ~validate_configuration([f EXCEPT !.nodes = << >>], 1, 10000)
     /\ ~validate_configuration(f, 1, 9999) /\ validate_configuration([f EXCEPT !.nodes = << >>], 0, 10000)
     /\ ~validate_configuration([f EXCEPT !.modules[1].slot = 12], 1, 10000)
     /\ overruns(200, 1000) = 1 /\ overruns(20, 1000) = 0
     /\ \A raw \in 4 .. 20 : eu_to_raw(raw_to_eu(raw, 4, 20, 160), 4, 20, 160) = raw
     /\ eu_to_raw(999, 4, 20, 160) = 20 /\ raw_to_eu(5, 4, 4, 160) = 0

(* A request frame says how many bytes follow, and says it wrongly beyond *)
(* 127 registers: the count is one byte. *)
ASSUME FrameRules ==
  /\ frame_length("READ_HOLDING", 9) = 8 /\ frame_length("WRITE_MULTI_REGS", 2) = 13
  /\ frame_length("WRITE_SINGLE_REG", 1) = 8
  /\ byte_count(127) = 254 /\ byte_count(128) = 0
  /\ validate_recipe([target |-> 3, formula |-> <<6>>], 1, 2, 4)
  /\ ~validate_recipe([target |-> 3, formula |-> << >>], 1, 2, 4)
  /\ ~validate_recipe([target |-> 5, formula |-> <<6>>], 1, 2, 4)
  /\ ratio_block(3, 2, 1) = 7 /\ ratio_block(3, -2, 1) = 0
=============================================================================
