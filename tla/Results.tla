------------------------------- MODULE Results -------------------------------
(***************************************************************************)
(* Decoding of what Sampler measured (src/Job.cpp:96-159).  For each       *)
(* classical register the service sends one hexadecimal number per shot; a *)
(* sample is the sequence of its digits (none if "0x" is missing), a bit   *)
(* string the sequence of its bits, the leftmost first.                    *)
(***************************************************************************)
EXTENDS Integers, SequencesExt

CONSTANT Unreadable     \* results that decodeResults refuses

HexDigits == 0 .. 15

Readable(sample) == sample # << >> /\ \A i \in DOMAIN sample : sample[i] \in HexDigits

Bits(sample) == [k \in 1 .. 4 * Len(sample) |->
    (sample[(k + 3) \div 4] \div 2^(3 - ((k - 1) % 4))) % 2]

\* Only zeros may exceed the width of the register.
Fits(sample, width) ==
    \A k \in 1 .. 4 * Len(sample) - width : Bits(sample)[k] = 0

\* Superfluous zeros go, missing ones come, both on the left.
Bitstring(sample, width) ==
    LET excess == 4 * Len(sample) - width
    IN  [k \in 1 .. width |-> IF k + excess < 1 THEN 0 ELSE Bits(sample)[k + excess]]

\* The answer for one register: num_bits (0 if absent) and the samples.
ValidAnswer(answer, width, shots) ==
    /\ answer.bits \in {0, width}
    /\ Len(answer.samples) = shots
    /\ \A i \in DOMAIN answer.samples :
          Readable(answer.samples[i]) /\ Fits(answer.samples[i], width)

ValidData(data, registers, shots) ==
    /\ Cardinality(DOMAIN data) = Len(registers)
    /\ \A r \in DOMAIN registers :
          /\ registers[r].name \in DOMAIN data
          /\ ValidAnswer(data[registers[r].name], registers[r].width, shots)

\* Fault: the register declared first comes first.
MutShot(data, registers, index) == FlattenSeq([r \in DOMAIN registers |->
    Bitstring(data[registers[r].name].samples[index], registers[r].width)])
\* The register declared last is on the left.
Shot(data, registers, index) == FlattenSeq(Reverse([r \in DOMAIN registers |->
    Bitstring(data[registers[r].name].samples[index], registers[r].width)]))

Histogram(shots) == [key \in ToSet(shots) |->
    Cardinality({i \in DOMAIN shots : shots[i] = key})]

DecodeResults(data, registers, shots) ==
    IF ~ValidData(data, registers, shots) THEN Unreadable
    ELSE LET samples == [i \in 1 .. shots |-> Shot(data, registers, i)]
         IN  [shots |-> samples, histogram |-> Histogram(samples)]
=============================================================================
