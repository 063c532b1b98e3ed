------------------------------- MODULE Sampler -------------------------------
(***************************************************************************)
(* One program on its way through the device: it is written, its registers *)
(* are read, its native gates declared, it is sent, measured, and the      *)
(* results are decoded, by the handle that submitted it or by one that     *)
(* retrieved the job.                                                      *)
(*                                                                         *)
(* Clients write programs statement by statement.  A statement carries its *)
(* tokens, which is all that Program sees, and what it means in OpenQASM,  *)
(* which only the service and the properties know.                         *)
(***************************************************************************)
EXTENDS Program, Results, Qpy

CONSTANTS
    Versions,       \* tokens of the version
    Statements,     \* [text, registers, gates, calls, nests, top, supported]
    Files,          \* QPY files, see Qpy
    Contents,       \* and bytes of such files
    Texts,          \* texts of QPY programs in jobs of others
    Shots,
    MaxStatements,  \* bound: statements of a program
    MaxMeasured,    \* bound: statements of a program that is measured
    None

ASSUME SamplerAssumption ==
    /\ Shots \in Nat \ {0}
    /\ MaxStatements \in Nat /\ MaxMeasured \in Nat
    /\ \A s \in Statements : s.nests \in -1 .. 1

\* Files hold registers with indices of bits; no register is named None.
ASSUME FilesAssumption ==
    /\ None \notin Words
    /\ \A file \in Files :
          /\ file.bits \in Int /\ file.registers \in Seq(ToSet(file.registers))
          /\ \A r \in DOMAIN file.registers :
                file.registers[r].indices \in Seq(Int) /\ file.registers[r].name # None

\* Contents are bytes, as many as a number in front of them can count
\* (bound), and texts are characters of base64.
ASSUME QpyAssumption ==
    /\ \A content \in Contents : content \in Seq(0 .. 255) /\ Len(content) <= 255
    /\ \A text \in Texts : text \in Seq(0 .. 64)

VARIABLES
    source,     \* the program as the client means it
    stage,
    registers,  \* Job::registers of this program
    payload,    \* the program as it travels
    retrieved,  \* the bytes of a QPY program that was read back
    measured,   \* the bits of each shot, none if the answer is malformed
    data,       \* the answer of the service
    results     \* what the client is shown

vars == <<source, stage, registers, payload, retrieved, measured, data, results>>

-----------------------------------------------------------------------------
(* Programs and their meaning *)

Written(version, statements) ==
    [format |-> "QASM3", version |-> version, statements |-> statements]

Text(s) == <<Comment, "OPENQASM", s.version, Semicolon>>
    \o FlattenSeq([i \in DOMAIN s.statements |-> s.statements[i].text])

(***************************************************************************)
(* The statements of OpenQASM, by their tokens t.                          *)
(***************************************************************************)
Keywords == {"gate", Open, Close, "include", "bit", "creg"}
Refusing == {"input", "output", "pragma", "@"}

\* bit[n](x) and bit(x) are casts.
Cast(t, i, n) ==
    /\ t[i] = "bit"
    /\ \/ i + 1 <= n /\ t[i + 1] = "("
       \/ /\ i + 4 <= n /\ t[i + 1] = "[" /\ Number(t[i + 2])
          /\ t[i + 3] = "]" /\ t[i + 4] = "("

\* Up to the n-th token the statement has expressions only.
Expressions(t, n) ==
    \A i \in 1 .. n : t[i] \in Keywords \cup Refusing => Cast(t, i, n)

Inert(s, nests) == s.supported /\ s.registers = << >> /\ s.nests = nests

\* An assignment, a call and the like; what opens a scope; what is refused.
IsSimple(s, t, n) ==
    /\ n \in 0 .. Len(t) /\ Expressions(t, n)
    /\ \/ n = Len(t) /\ Inert(s, 0) /\ ~s.top
       \/ n = Len(t) - 1 /\ t[n + 1] = Open /\ Inert(s, 1) /\ ~s.top
       \/ n < Len(t) /\ t[n + 1] \in Refusing /\ ~s.supported

IsClosing(s, t) == t = <<Close>> /\ Inert(s, -1) /\ ~s.top

IsInclude(s, t) ==
    /\ Len(t) >= 3 /\ t[1] = "include"
    /\ IF t[2] = "stdgates.inc" /\ t[3] = Semicolon
       THEN Len(t) = 3 /\ Inert(s, 0) /\ s.top ELSE ~s.supported

IsDeclaration(s, t, name, size) ==
    /\ \/ t = <<"bit", "[", size, "]", name, Semicolon>>
       \/ t = <<"creg", name, "[", size, "]", Semicolon>>
       \/ t = <<"bit", name, Semicolon>> /\ size = "1"
    /\ IF Number(size) /\ Numeral[size] # 0
       THEN /\ s.supported /\ s.top /\ s.nests = 0
            /\ s.registers = <<[name |-> name, width |-> Numeral[size]]>>
       ELSE ~s.supported

\* The first brace of a gate is matched by its last token.
IsGate(s, t, open) ==
    /\ Inert(s, 0) /\ s.top
    /\ t[1] = "gate" /\ open \in 2 .. Len(t) /\ t[open] = Open
    /\ \A i \in 2 .. open - 1 : t[i] # Open
    /\ \A i \in open .. Len(t) :
          Occurrences(Open, t, open, i) = Occurrences(Close, t, open, i) <=> i = Len(t)

\* The gates that a statement calls and defines, by the tokens around them.
Names(s, t) ==
    /\ \A g \in NativeGates :
          /\ g \in s.gates <=> \E i \in 1 .. Len(t) - 1 : t[i] = "gate" /\ t[i + 1] = g
          /\ g \in s.calls <=> \E i \in 1 .. Len(t) - 1 :
                /\ i > 1 => t[i - 1] # "gate"
                /\ t[i] = g
                /\ t[i + 1] \in {"(", "$"} \cup Words
    /\ t # << >> => t[Len(t)] \notin NativeGates \cup {"gate"}

IsStatement(s) ==
    LET t == Tokenize(s.text)
    IN  /\ s.text \in Seq(ToSet(s.text))
        /\ s.registers \in Seq([name : Words, width : Nat])
        /\ s.nests \in -1 .. 1
        /\ s.supported => Lexes(s.text) /\ Names(s, t)
        /\ \/ ~Lexes(s.text)
           \/ \E n \in 0 .. Len(t) : IsSimple(s, t, n)
           \/ IsClosing(s, t)
           \/ IsInclude(s, t)
           \/ \E name \in Words, size \in DOMAIN Numeral :
                 IsDeclaration(s, t, name, size)
           \/ \E open \in 2 .. Len(t) : IsGate(s, t, open)

\* What statements mean is what they say in OpenQASM.
ASSUME StatementsAssumption ==
    /\ \A s \in Statements : IsStatement(s)
    /\ {Comment, Unclosed} \cap Versions = {}

Depth(statements, n) == SumFunction([i \in 1 .. n |-> statements[i].nests])

Declared(statements) ==
    FlattenSeq([i \in DOMAIN statements |-> statements[i].registers])

DistinctNames(rs) == \A i, j \in DOMAIN rs : rs[i].name = rs[j].name => i = j

\* The programs of docs/api.md:215-222.
Documented(s) ==
    LET st == s.statements
    IN  /\ s.version \in {"3", "3.0", "3.1"}
        /\ \A i \in DOMAIN st :
              /\ st[i].supported
              /\ Depth(st, i) >= 0
              /\ st[i].top => Depth(st, i - 1) = 0
        /\ Depth(st, Len(st)) = 0
        /\ Declared(st) # << >> /\ DistinctNames(Declared(st))
        /\ Width(Declared(st)) <= MaxSize

\* The registers partition the bits in their order.
Partitioned(file) ==
    LET rs == Classical(file)
    IN  /\ file.version = 17 /\ file.programs = 1 /\ file.variables = 0
        /\ file.width \in 1 .. Qubits
        /\ file.bits > 0
        /\ FlattenSeq([i \in DOMAIN rs |-> rs[i].indices])
              = [k \in 1 .. file.bits |-> k - 1]
        /\ DistinctNames(rs)
        /\ \A i \in DOMAIN rs :
              rs[i].inCircuit /\ rs[i].name # "" /\ rs[i].indices # << >>

Meant(s) == IF s.format = "QASM3" THEN Documented(s) ELSE Partitioned(s.file)
Layout(s) == IF s.format = "QASM3" THEN Declared(s.statements) ELSE QpyLayout(s.file)

-----------------------------------------------------------------------------
(* Init, and the steps of the client and the device *)

Init ==
    /\ source \in {Written(version, << >>) : version \in Versions}
                    \cup [format : {"QPY"}, file : Files, content : Contents]
                    \cup {[format |-> "foreign"]}
    /\ stage = "writing"
    /\ registers = None /\ payload = None /\ retrieved = None
    /\ measured = None /\ data = None /\ results = None

Write(statement) ==
    /\ stage = "writing" /\ source.format = "QASM3"
    /\ Len(source.statements) < MaxStatements
    /\ source' = [source EXCEPT !.statements = Append(@, statement)]
    /\ UNCHANGED <<stage, registers, payload, retrieved, measured, data, results>>

\* The registers as setPrograms reads them.
Read(s) == IF s.format = "QASM3" THEN OutputRegisters(Text(s))
                                 ELSE QpyRegisters(s.file)

\* Job::setPrograms with one program.
SetPrograms ==
    /\ stage = "writing" /\ source.format # "foreign"
    /\ stage' = IF Read(source).ok THEN "configured" ELSE "refused"
    /\ registers' = Read(source).registers
    /\ UNCHANGED <<source, payload, retrieved, measured, data, results>>

\* Job::submit.
Submit ==
    /\ stage = "configured"
    /\ payload' = IF source.format = "QASM3" THEN DeclareNativeGates(Text(source))
                                             ELSE EncodeQpy(source.content)
    /\ stage' = "submitted"
    /\ UNCHANGED <<source, registers, retrieved, measured, data, results>>

\* Job::retrieve of this job: the handle has the program that travelled.
Retrieve ==
    /\ stage = "submitted"
    /\ \/ /\ source.format = "QASM3"
          /\ registers' = OutputRegisters(payload).registers
          /\ UNCHANGED retrieved
       \/ /\ source.format = "QPY"
          /\ retrieved' = DecodeQpy(payload)
          /\ UNCHANGED registers
    /\ stage' = "retrieved"
    /\ UNCHANGED <<source, payload, measured, data, results>>

\* Job::retrieve of a job another program submitted.
RetrieveForeign == \E text \in Texts :
    /\ stage = "writing" /\ source.format = "foreign"
    /\ payload' = text
    /\ retrieved' = DecodeQpy(text)
    /\ stage' = "retrieved"
    /\ UNCHANGED <<source, registers, measured, data, results>>

\* The service: numbers of the registers, by name, with or without zeros on
\* the left.  Bit k of a shot is the k-th classical bit of the program.  Of
\* the bits of a number, and of its n digits, the lowest is the first.
Bit(bits, k) == IF k \in DOMAIN bits THEN bits[k] ELSE 0
Digits(bits, n) == [i \in 1 .. n |->
    LET low == 4 * (n - i)
    IN  8 * Bit(bits, low + 4) + 4 * Bit(bits, low + 3)
            + 2 * Bit(bits, low + 2) + Bit(bits, low + 1)]
Length(bits, zeros) ==
    IF zeros THEN Ceil(Len(bits), 4) + 1
    ELSE Min({n \in 1 .. Ceil(Len(bits), 4) + 1 :
                 \A k \in 4 * n + 1 .. Len(bits) : bits[k] = 0})

Answers(rs, outcome, zeros, counted) ==
    [name \in {rs[i].name : i \in DOMAIN rs} |->
        LET r == CHOOSE i \in DOMAIN rs : rs[i].name = name
            first == Width(SubSeq(rs, 1, r - 1)) + 1
            bits(shot) == SubSeq(outcome[shot], first, first + rs[r].width - 1)
        IN  [bits |-> IF counted THEN rs[r].width ELSE 0,
             samples |-> [shot \in 1 .. Shots |->
                Digits(bits(shot), Length(bits(shot), zeros))]]]

\* Bound: shots with at most one bit set, or all.
Patterns(n) == {[k \in 1 .. n |-> IF k \in S THEN 1 ELSE 0] :
                   S \in {1 .. n} \cup {{k} : k \in 0 .. n}}

Measure ==
    /\ stage \in {"submitted", "retrieved"} /\ source.format # "foreign"
    /\ source.format = "QASM3" => Len(source.statements) <= MaxMeasured
    /\ \E outcome \in [1 .. Shots -> Patterns(Width(Layout(source)))],
          zeros, counted \in BOOLEAN :
          /\ measured' = outcome
          /\ data' = Answers(Layout(source), outcome, zeros, counted)
    /\ stage' = "measured"
    /\ UNCHANGED <<source, registers, payload, retrieved, results>>

\* Answers with something missing, superfluous or out of range.
Malformed(rs) ==
    LET zero == [shot \in 1 .. Shots |-> [k \in 1 .. Width(rs) |-> 0]]
        good == Answers(rs, zero, TRUE, TRUE)
        spoil(name, sample) == [good EXCEPT ![name].samples[Shots] = sample]
    IN  {[name \in DOMAIN good \cup {None} |->
             IF name = None THEN good[rs[1].name] ELSE good[name]]}
        \cup UNION {LET name == rs[r].name
                        width == rs[r].width
                    IN  {[n \in DOMAIN good \ {name} |-> good[n]],
                         [good EXCEPT ![name].bits = width + 1],
                         [good EXCEPT ![name].samples = Tail(@)],
                         [good EXCEPT ![name].samples = @ \o @],
                         spoil(name, << >>), spoil(name, <<16>>),
                         spoil(name, Digits([k \in 1 .. width + 1 |-> IF k > width THEN 1 ELSE 0],
                                        Ceil(width + 1, 4)))} :
                    r \in DOMAIN rs}

Garble ==
    /\ stage = "submitted"
    /\ source.format = "QASM3" => Len(source.statements) <= MaxMeasured
    /\ data' \in Malformed(Layout(source)) /\ measured' = << >>
    /\ stage' = "measured"
    /\ UNCHANGED <<source, registers, payload, retrieved, results>>

\* Job::results, with the register layout the handle has.
Fetch ==
    /\ stage = "measured"
    /\ results' = DecodeResults(data, registers, Shots)
    /\ stage' = "done"
    /\ UNCHANGED <<source, registers, payload, retrieved, measured, data>>

Next ==
    \/ \E statement \in Statements : Write(statement)
    \/ SetPrograms \/ Submit \/ Retrieve \/ RetrieveForeign
    \/ Measure \/ Garble \/ Fetch

Spec == Init /\ [][Next]_vars

-----------------------------------------------------------------------------
(* Properties *)

(***************************************************************************)
(* "The device reads classical declarations to reconstruct results in      *)
(* declaration order" (docs/api.md:210): it accepts the programs that the  *)
(* documentation admits and no other, and finds their registers, neither   *)
(* those of gate bodies and casts nor fewer, also in the program that was  *)
(* sent and in QPY files, whose "classical registers must partition its    *)
(* bits in declaration order" (docs/api.md:228).                           *)
(***************************************************************************)
RegistersAsDeclared ==
    /\ stage = "refused" => ~Meant(source)
    /\ stage \notin {"writing", "refused"} /\ source.format # "foreign" =>
          Meant(source) /\ registers = Layout(source)

(***************************************************************************)
(* "The device supplies missing ECR/RZZ definitions" and "authored gate    *)
(* definitions and includes remain unchanged" (docs/api.md:208-210): what  *)
(* is sent is the program with one definition of each native gate that it  *)
(* calls and does not define, in front of the first call, and of no other; *)
(* the registers stay, and declaring again changes nothing.                *)
(***************************************************************************)
NativeGatesDeclared == payload # None /\ source.format = "QASM3" =>
    LET st == source.statements
        called(g) == \E i \in DOMAIN st : g \in st[i].calls
        defined(g) == \E i \in DOMAIN st : g \in st[i].gates
        added == Len(payload) - Len(Text(source))
        supplied == SubSeq(payload, 5, 4 + added)
    IN  /\ Text(source) = SubSeq(payload, 1, 4)
                              \o SubSeq(payload, 5 + added, Len(payload))
        /\ \A g \in NativeGates :
              Cardinality({i \in 1 .. added - 1 :
                              supplied[i] = "gate" /\ supplied[i + 1] = g})
                = IF called(g) /\ ~defined(g) THEN 1 ELSE 0
        /\ OutputRegisters(payload) = OutputRegisters(Text(source))
        /\ DeclareNativeGates(payload) = payload

(***************************************************************************)
(* "Bits follow classical declaration order, with the highest bit index on *)
(* the left.  Leading zeros and shot order are preserved" and "malformed   *)
(* results fail rather than fabricating counts" (docs/api.md): every shot  *)
(* is shown as it was measured, through the handle that submitted or one   *)
(* that retrieved, and every answer that does not match the layout of the  *)
(* program is refused.                                                     *)
(***************************************************************************)
ResultsAsMeasured == stage = "done" =>
    IF measured = << >> THEN results = Unreadable
    ELSE /\ results.shots = [i \in DOMAIN measured |-> Reverse(measured[i])]
         /\ FoldFunction(+, 0, results.histogram) = Shots
         /\ \A i \in DOMAIN results.shots :
               results.histogram[results.shots[i]]
                 = Quantify(DOMAIN measured, LAMBDA j : measured[j] = measured[i])

(***************************************************************************)
(* "Retrieval restores the raw QPY bytes" (docs/api.md:236), whatever      *)
(* their number; and a text of another producer is read as the content it  *)
(* is the encoding of, or refused: two texts never mean the same program.  *)
(***************************************************************************)
QpyTravels ==
    /\ stage = "retrieved" /\ source.format = "QPY" =>
          retrieved = source.content
    /\ source.format = "foreign" /\ retrieved \notin {None, NoContent} =>
          EncodeQpy(retrieved) = payload
=============================================================================
