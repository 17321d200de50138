------------------------------ MODULE H1Device ------------------------------
(***************************************************************************)
(* What hangs on an H1 segment and the wire itself: function blocks, their *)
(* modes and parameters (ff_h1_application.c), the capabilities of a *)
(* device (ff_h1_device.c), power and spurs of the segment *)
(* (ff_h1_segment.c), Manchester code and frame check of the physical *)
(* layer (ff_h1_physical.c). *)
(* *)
(* A byte is a sequence of eight bits, the first the most significant. *)
(* Lengths are in m, currents in mA, resistances in Ohm/km, so that their *)
(* product is a voltage in uV; voltages are kept in tenths of a uV for the *)
(* ten per cent added to the current. *)
(***************************************************************************)
EXTENDS Integers, Sequences, FiniteSets, FiniteSetsExt, SequencesExt

CONSTANTS PermittedModes,         \* sets of modes a block may permit
          Values,
          Messages, MaxDamage,    \* bits of a frame; half-bits inverted on the way
          Trunk, Temperature,     \* length and degrees
          Supply, MaxCurrent,     \* after the conditioner, in 0.1 uV; mA
          Currents, Spurs, Cables, MaxH1Devices

BlockModes == {"OOS", "IMAN", "LO", "MAN", "AUTO", "CAS", "RCAS", "ROUT"}

ASSUME H1DeviceAssumption ==
  /\ PermittedModes \subseteq SUBSET (BlockModes \ {"OOS"}) /\ Values # {}
  /\ {MaxDamage, Trunk, Temperature, Supply, MaxCurrent, MaxH1Devices} \subseteq Nat
  /\ Messages \subseteq Seq({0, 1}) /\ Currents \subseteq Nat /\ Spurs \subseteq Nat
  /\ Cables \subseteq {"A", "B", "C", "D"}

VARIABLES h1Block,    \* ff_function_block_t of a device and the state of its resource block
          h1Line,     \* bytes sent and the half-bits that arrive
          h1Seg       \* devices of ff_segment_config_t

h1DeviceVars == <<h1Block, h1Line, h1Seg>>

-----------------------------------------------------------------------------
(* Modes. *)
Neighbours == {{"AUTO", "MAN"}, {"AUTO", "CAS"}, {"CAS", "RCAS"}, {"AUTO", "RCAS"}}

mode_transition_allowed(from, to, permitted) ==
  /\ to \in permitted \/ to = "OOS"
  /\ \/ "OOS" \in {from, to}
     \/ {from, to} \in Neighbours
     \/ from = "MAN" /\ to \notin {"CAS", "RCAS", "ROUT"}

FirstPermitted(modes, permitted) ==
  LET fits == {i \in DOMAIN modes : modes[i] \in permitted}
  IN IF fits = {} THEN "OOS" ELSE modes[Min(fits)]

mode_determine_actual(target, permitted, cascade_ready, fault) ==
  LET remote == target \in {"CAS", "RCAS"}
  IN IF fault THEN FirstPermitted(<<"LO">>, permitted)
     ELSE IF target \in permitted /\ (remote => cascade_ready) THEN target
     ELSE FirstPermitted(IF remote THEN <<"AUTO", "MAN">> ELSE <<"MAN">>, permitted)

(* The caller writes mode.target and stores what determine_actual returns. *)
TargetSet ==
  \E target \in BlockModes, cascade_ready, fault \in BOOLEAN :
    h1Block' = [h1Block EXCEPT !.target = target,
                  !.actual = mode_determine_actual(target, h1Block.permitted, cascade_ready, fault)]

ResourceReports == \E good \in BOOLEAN : h1Block' = [h1Block EXCEPT !.resource_good = good]

(* An error of the device stays in block_err after it is repaired. *)
fb_execute ==
  LET oos == h1Block.actual = "OOS"
      bad == ~oos /\ ~h1Block.resource_good
  IN h1Block' = [h1Block EXCEPT !.executing = ~oos /\ ~bad,
                   !.err = (IF oos THEN @ \union {"OOS"} ELSE @ \ {"OOS"})
                           \union (IF bad THEN {"DEVICE_FAULT"} ELSE {})]

(* Parameters by index: what the object dictionary and the block allow. *)
(* MODE_BLK as a parameter is not the mode the block runs in. *)
Dictionary == [SP |-> {"r", "w"}, MODE_BLK |-> {"r", "w"}, PV |-> {"r"}, GONE |-> {"r", "w"}]
BlockParams == [SP |-> {"r", "w"}, MODE_BLK |-> {"r", "w"}, PV |-> {"r", "w"}]

od_lookup(index) == index \in DOMAIN Dictionary

fms_read_parameter(index) ==
  CASE ~od_lookup(index) -> "NO_OBJECT"
    [] od_lookup(index) /\ "r" \notin Dictionary[index] -> "ACCESS"
    [] OTHER -> IF index \in DOMAIN BlockParams /\ "r" \in BlockParams[index] THEN "OK" ELSE "NO_OBJECT"

fms_write_status(index, mode) ==
  CASE ~od_lookup(index) -> "NO_OBJECT"
    [] od_lookup(index) /\ "w" \notin Dictionary[index] -> "READ_ONLY"
    [] OTHER -> IF index \notin DOMAIN BlockParams \/ "w" \notin BlockParams[index] THEN "NO_OBJECT"
                ELSE IF mode = "OOS" /\ index # "MODE_BLK" THEN "ACCESS" ELSE "OK"

fms_write_parameter ==
  \E index \in DOMAIN Dictionary \union {"UNKNOWN"}, v \in Values :
    /\ fms_write_status(index, h1Block.actual) = "OK"
    /\ h1Block' = [h1Block EXCEPT !.params[index] = v]

(* A link is from one parameter to another; zero names none. *)
link_validate(src, dst) ==
  src # dst /\ 0 \notin {src.block, dst.block, src.param, dst.param}

H1BlockNext == TargetSet \/ ResourceReports \/ fb_execute \/ fms_write_parameter

-----------------------------------------------------------------------------
(* What a device declares. *)
itk_mandatory_features(version) ==
  LET four == {"TIME_SYNC"}
      five == four \union {"MULTI_VCR", "ALERTS"}
      six  == five \union {"TRENDS", "BLOCK_INSTANT", "ADV_DIAG"}
  IN CASE version \in {40, 45, 46} -> four
       [] version \in {50, 51, 52} -> five
       [] version \in {60, 61, 62} -> six
       [] version = 70 -> six \union {"FDI"}
       [] OTHER -> {}
itk_check_compliance(features, version) == itk_mandatory_features(version) \subseteq features

dd_validate_value(low, high, v) == v >= low /\ v <= high

(* Types 16 and 17 have no bit in the 16-bit mask. *)
cff_supports_fb(mask, type) == type < 18 /\ type \in mask \intersect 0 .. 15
cff_link_compatible(a, b)   == (a.bnu > 0 /\ b.bnu > 0) \/ (a.qub > 0 /\ b.qub > 0)

(* Fields of a 32-byte identity, by their places; version and reserved *)
(* bytes are not compared. *)
device_identity_parse(raw) ==
  [manufacturer |-> SubSeq(raw, 1, 6), serial |-> SubSeq(raw, 7, 20), type |-> SubSeq(raw, 21, 22),
   revision |-> raw[23], dd_revision |-> raw[24]]
device_identity_equal(r, s) == device_identity_parse(r) = device_identity_parse(s)

-----------------------------------------------------------------------------
(* The wire: a one is high then low, a zero low then high; a pair that is *)
(* neither is read as a zero. *)
manchester_encode(bits) ==
  [i \in 1 .. 2 * Len(bits) |-> IF i % 2 = 1 THEN bits[(i + 1) \div 2] ELSE 1 - bits[i \div 2]]
manchester_decode(half) ==
  [i \in 1 .. Len(half) \div 2 |-> IF half[2 * i - 1] = 1 /\ half[2 * i] = 0 THEN 1 ELSE 0]

start_delimiter == <<1, 0, 1, 1, 0, 0, 1, 0, 0, 1, 0, 0, 1, 1, 0, 1>>
end_delimiter   == <<1, 0, 1, 1, 0, 0, 1, 1, 0, 0, 1, 0, 0, 1, 1, 0>>
delimiter_detect(delimiter, half, pos) == SubSeq(half, pos, pos + 15) = delimiter

(* CRC-16 of polynomial 0x1021, a bit at a time. *)
ff_crc16_ccitt(bits) ==
  LET crc[n \in 0 .. Len(bits)] ==
        IF n = 0 THEN [i \in 1 .. 16 |-> 1]
        ELSE LET was == crc[n - 1]
                 out == was[1] # bits[n]
                 up  == Append(Tail(was), 0)
             IN [i \in 1 .. 16 |-> IF out /\ i \in {4, 11, 16} THEN 1 - up[i] ELSE up[i]]
  IN crc[Len(bits)]

(* The check goes after the data, its low byte first. *)
LowFirst(crc) == SubSeq(crc, 9, 16) \o SubSeq(crc, 1, 8)
crc16_append(bits) == bits \o LowFirst(ff_crc16_ccitt(bits))

crc16_verify(bits) ==
  /\ Len(bits) >= 16
  /\ LET data == SubSeq(bits, 1, Len(bits) - 16) IN bits = crc16_append(data)

h1_total_half_bits(preamble, octets)  == 16 * (preamble + 1 + octets + 1)
h1_frame_fits(preamble, octets)       == preamble + 1 + octets + 1 <= 15 + 1 + 255 + 1

SendFrame ==
  /\ h1Line.sent = << >>
  /\ \E m \in Messages : h1Line' = [sent |-> m, half |-> manchester_encode(crc16_append(m)), hit |-> 0]

Noise ==
  /\ h1Line.sent # << >> /\ h1Line.hit < MaxDamage
  /\ \E i \in DOMAIN h1Line.half :
       h1Line' = [h1Line EXCEPT !.half[i] = 1 - @, !.hit = @ + 1]

H1LineNext == SendFrame \/ Noise

-----------------------------------------------------------------------------
(* The segment. *)
cable_spec == [A |-> [ohm |-> 44, longest |-> 1900, vf |-> 78],
               B |-> [ohm |-> 112, longest |-> 1200, vf |-> 65],
               C |-> [ohm |-> 112, longest |-> 400, vf |-> 65],
               D |-> [ohm |-> 28, longest |-> 200, vf |-> 60]]

(* Resistance in Ohm/km at a temperature: 0.393 % for a degree above 20. *)
ohm_per_km(cable) ==
  cable_spec[cable].ohm + (cable_spec[cable].ohm * 393 * (Temperature - 20)) \div 100000
cable_voltage_drop(length, cable, tenths_mA) == tenths_mA * length * ohm_per_km(cable)

(* In m, the budget in mV; the conditioner takes half a volt. *)
max_trunk_length(supply, least, mA, cable) ==
  LET budget == supply - least - 500
  IN IF mA <= 0 \/ budget <= 0 THEN 0 - 1
     ELSE Min({(budget * 1000) \div (mA * ohm_per_km(cable)), cable_spec[cable].longest})

CurrentOf(device) == IF device.current = 0 THEN 20 ELSE device.current   \* FF_DEVICE_QUIESCENT_MA
TotalTenths(devices) == 11 * FoldLeft(LAMBDA s, d : s + CurrentOf(d), 0, devices)

VoltageAt(devices, i) ==
  Supply - cable_voltage_drop(Trunk, "A", TotalTenths(devices))
         - cable_voltage_drop(devices[i].spur, devices[i].cable, 10 * CurrentOf(devices[i]))

(* ff_segment_power_budget: enough current, and 9 V at each device. *)
power_budget(devices) ==
  /\ TotalTenths(devices) <= 10 * MaxCurrent
  /\ \A i \in DOMAIN devices : VoltageAt(devices, i) >= 90000000

h1_max_spur_length(n) ==
  CASE n \notin 1 .. 32 -> 0 - 1 [] n \in 1 .. 12 -> 120 [] n \in 13 .. 14 -> 90
    [] n \in 15 .. 18 -> 60 [] n \in 19 .. 24 -> 30 [] OTHER -> 1
segment_validate_spurs(devices) ==
  \A i \in DOMAIN devices : devices[i].spur <= h1_max_spur_length(Len(devices))

(* In ns.  The longest spur counts, not the slowest. *)
h1_propagation_delay(length, cable) == (length * 1000) \div (3 * cable_spec[cable].vf)
segment_round_trip_time(devices) ==
  LET longest == CHOOSE i \in DOMAIN devices : \A j \in DOMAIN devices : devices[j].spur <= devices[i].spur
  IN 2 * (h1_propagation_delay(Trunk, "A") + h1_propagation_delay(devices[longest].spur, devices[longest].cable))
     + 750000

AddH1Device ==
  /\ Len(h1Seg) < MaxH1Devices
  /\ \E c \in Currents, s \in Spurs, k \in Cables :
       h1Seg' = Append(h1Seg, [current |-> c, spur |-> s, cable |-> k])

fisco_verify_compatibility(device, source) ==
  /\ {device.type, source.type} \subseteq {"FISCO", "FNICO"}
  /\ device.ui >= source.uo /\ device.ii >= source.io /\ device.pi >= source.po
  /\ (device.ci > source.uo => device.ci <= 5) /\ device.li <= 20

(* Levels 0 (good) to 3 (critical): mV, 0.1 V, mV, rates per 100 000. *)
segment_health_evaluate(d) ==
  LET above(v, warn, degraded) == IF v > degraded THEN 2 ELSE IF v > warn THEN 1 ELSE 0
      missing == IF d.expected > 0 THEN d.expected - d.detected ELSE 0
  IN Max({IF d.signal < 500 THEN 2 ELSE IF d.signal < 750 THEN 1 ELSE 0,
          IF d.dc < 90 THEN 3 ELSE IF d.dc < 120 THEN 1 ELSE 0,
          above(d.noise, 50, 75), above(d.retransmitted, 500, 1000), above(d.errors, 1, 10),
          IF missing > 1 THEN 3 ELSE IF missing = 1 THEN 1 ELSE 0})

commissioning_ready(checklist) == \A c \in DOMAIN checklist : checklist[c]

-----------------------------------------------------------------------------
H1DeviceInit ==
  /\ h1Block \in [target : {"OOS"}, actual : {"OOS"}, permitted : PermittedModes, executing : {FALSE},
                  err : {{}}, resource_good : {TRUE},
                  params : {[p \in DOMAIN BlockParams |-> CHOOSE v \in Values : TRUE]}]
  /\ h1Line = [sent |-> << >>, half |-> << >>, hit |-> 0] /\ h1Seg = << >>

H1DeviceTypeOK ==
  /\ h1Block \in [target : BlockModes, actual : BlockModes, permitted : PermittedModes,
                  executing : BOOLEAN, err : SUBSET {"OOS", "DEVICE_FAULT"}, resource_good : BOOLEAN,
                  params : [DOMAIN BlockParams -> Values]]
  /\ h1Line \in [sent : Messages \union {<< >>}, half : Seq({0, 1}), hit : 0 .. MaxDamage]
  /\ h1Seg \in Seq([current : Currents, spur : Spurs, cable : Cables])

(* Whatever the target, the cascade and the faults, a block runs in a mode *)
(* it permits or is out of service. *)
ModeIsPermitted == h1Block.actual \in h1Block.permitted \union {"OOS"}

(* What a frame says, by the decoder, which itself reports no bad pair. *)
Read == manchester_decode(h1Line.half)
Says(bits) == SubSeq(bits, 1, Len(bits) - 16)

(* A frame to which nothing happened is accepted and says what was sent. *)
UndamagedIsAccepted ==
  h1Line.sent # << >> /\ h1Line.hit = 0 => crc16_verify(Read) /\ Says(Read) = h1Line.sent

(* And whatever happened, so does a frame that is accepted. *)
DamageIsSeen == h1Line.sent # << >> /\ crc16_verify(Read) => Says(Read) = h1Line.sent

(* A segment that cannot feed its devices, or whose spurs are too long, *)
(* does not become fit by one device more. *)
MoreIsNotBetter ==
  [][h1Seg # << >> /\ ~(power_budget(h1Seg) /\ segment_validate_spurs(h1Seg))
     => ~(power_budget(h1Seg') /\ segment_validate_spurs(h1Seg'))]_h1Seg
=============================================================================
