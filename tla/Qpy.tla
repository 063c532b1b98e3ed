-------------------------------- MODULE Qpy --------------------------------
(***************************************************************************)
(* QPY programs (src/Qpy.cpp): the registers in the header of the file,    *)
(* and the text in which the file travels.  A file is a record of the      *)
(* fields the device looks at; its texts and offsets are left out.         *)
(***************************************************************************)
EXTENDS Integers, SequencesExt

CONSTANTS
    Qubits,     \* qubits of the backend
    NoContent   \* what decodeQpy refuses

-----------------------------------------------------------------------------
(* qpyRegisters *)

Supported(file) ==
    /\ file.version = 17
    /\ file.programs = 1
    /\ file.variables = 0
    /\ file.width \in 1 .. Qubits /\ file.bits > 0

\* Registers of classical bits; those of qubits are skipped.
Classical(file) == FlattenSeq([r \in DOMAIN file.registers |->
    IF file.registers[r].type = "c" THEN <<file.registers[r]>> ELSE << >>])

\* Bits of the registers in front of the one at index r.
Taken(registers, r) ==
    SumFunction([s \in 1 .. r - 1 |-> Len(registers[s].indices)])

\* A register goes on where the one in front of it ended.
Continues(registers, r, bits) ==
    /\ Taken(registers, r) + Len(registers[r].indices) <= bits
    /\ \A k \in DOMAIN registers[r].indices :
          registers[r].indices[k] = Taken(registers, r) + k - 1

QpyLayout(file) == [r \in DOMAIN Classical(file) |->
    [name |-> Classical(file)[r].name, width |-> Len(Classical(file)[r].indices)]]

\* The classical bits are partitioned by registers in declaration order.
QpyRegisters(file) ==
    LET registers == Classical(file)
        readable(r) ==
            /\ registers[r].inCircuit
            /\ registers[r].name # "" /\ registers[r].indices # << >>
            /\ \A s \in 1 .. r - 1 : registers[s].name # registers[r].name
            /\ Continues(registers, r, file.bits)
    IN  IF /\ Supported(file)
           /\ registers # << >>
           /\ \A r \in DOMAIN registers : readable(r)
           /\ Taken(registers, Len(registers) + 1) = file.bits
        THEN [ok |-> TRUE, registers |-> QpyLayout(file)]
        ELSE [ok |-> FALSE, registers |-> << >>]

-----------------------------------------------------------------------------
(* encodeQpy and decodeQpy: base64 without line breaks *)

Pad == 64       \* "="; the other characters are 0 to 63

\* zlib, as far as the device can tell: a stream knows where it ends.
Compress(content) == <<Len(content)>> \o content
Uncompress(stream) ==
    IF stream # << >> /\ Len(stream) = 1 + stream[1]
    THEN Tail(stream) ELSE NoContent

\* Bit k of a sequence of numbers of the given number of bits each.
BitAt(numbers, size, k) ==
    IF k > size * Len(numbers) THEN 0
    ELSE (numbers[1 + (k - 1) \div size] \div 2^(size - 1 - ((k - 1) % size))) % 2

\* Number i of the given size in the bits of numbers of another size.
Regroup(numbers, from, to, i) ==
    SumFunction([k \in 1 .. to |->
        BitAt(numbers, from, (i - 1) * to + k) * 2^(to - k)])

Ceil(n, d) == (n + d - 1) \div d

Encode64(bytes) == [i \in 1 .. 4 * Ceil(Len(bytes), 3) |->
    IF i <= Ceil(8 * Len(bytes), 6) THEN Regroup(bytes, 8, 6, i) ELSE Pad]

Padding(text) ==
    IF Last(text) # Pad THEN 0
    ELSE IF text[Len(text) - 1] # Pad THEN 1 ELSE 2

\* Fault: bits behind the last byte are ignored.
MutDecode64(text) ==
    LET digits == SubSeq(text, 1, Len(text) - Padding(text))
    IN  IF \E i \in DOMAIN digits : digits[i] = Pad THEN << >>
        ELSE [i \in 1 .. (6 * Len(digits)) \div 8 |-> Regroup(digits, 6, 8, i)]
\* Empty if the text is refused: zlib refuses an empty stream.
Decode64(text) ==
    LET digits == SubSeq(text, 1, Len(text) - Padding(text))
        size == (6 * Len(digits)) \div 8
    IN  IF \/ \E i \in DOMAIN digits : digits[i] = Pad
           \/ \E k \in 8 * size + 1 .. 6 * Len(digits) : BitAt(digits, 6, k) # 0
        THEN << >>
        ELSE [i \in 1 .. size |-> Regroup(digits, 6, 8, i)]

EncodeQpy(content) == Encode64(Compress(content))
DecodeQpy(text) ==
    IF text = << >> \/ Len(text) % 4 # 0 THEN NoContent
    ELSE Uncompress(Decode64(text))
=============================================================================
