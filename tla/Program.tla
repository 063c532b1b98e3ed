------------------------------- MODULE Program -------------------------------
(***************************************************************************)
(* What the device reads from an OpenQASM program without parsing it       *)
(* (src/Program.cpp): the native gates it has to declare, and the          *)
(* classical registers the results are classified by.  A program is the    *)
(* sequence of its tokens; a refusal is Refused, whichever code it has.    *)
(***************************************************************************)
EXTENDS Integers, SequencesExt

CONSTANTS
    Words,      \* tokens that are names: a letter or "_", then alphanumerics
    Numeral,    \* value of the tokens that are numbers
    MaxSize,    \* largest std::size_t
    Comment,    \* a comment, whatever it says
    Unclosed    \* a comment or a string literal that does not end

Refused == [ok |-> FALSE, registers |-> << >>]
Found(registers) == [ok |-> TRUE, registers |-> registers]

NativeGates == {"ecr", "rzz"}

-----------------------------------------------------------------------------
(* Scanning *)

\* Punctuation.
Open == "{"
Close == "}"
Semicolon == ";"
Comma == ","
NoToken == ""

\* Comments separate tokens and are dropped.
Lexes(text) == \A i \in DOMAIN text : text[i] # Unclosed
Token(piece) == IF piece = Comment THEN << >> ELSE <<piece>>
Tokenize(text) == FlattenSeq([i \in DOMAIN text |-> Token(text[i])])

\* The token at a cursor; past the end one that no caller accepts.
At(tokens, cursor) == IF cursor \in DOMAIN tokens THEN tokens[cursor] ELSE NoToken

Name(token) == token \in Words
Number(token) == token \in DOMAIN Numeral /\ Numeral[token] <= MaxSize

Occurrences(token, tokens, first, last) ==
    Cardinality({i \in first .. last : tokens[i] = token})

\* Where the body of the gate after the cursor begins, and where it ends.
Openings(tokens, cursor) ==
    {i \in cursor .. Len(tokens) : tokens[i] = Open}
Closings(tokens, open) == {i \in open .. Len(tokens) :
    Occurrences(Open, tokens, open, i) = Occurrences(Close, tokens, open, i)}

\* The cursor behind the gate, 0 if it does not end.
SkipGate(tokens, cursor) ==
    IF Openings(tokens, cursor) = {} THEN 0
    ELSE LET ends == Closings(tokens, Min(Openings(tokens, cursor)))
         IN  IF ends = {} THEN 0 ELSE Min(ends) + 1

-----------------------------------------------------------------------------
(* declareNativeGates *)

Defines(tokens, gate) == \E i \in 4 .. Len(tokens) - 1 :
    tokens[i] = "gate" /\ tokens[i + 1] = gate

\* Fault: every occurrence of the name is a call of the gate.
MutCalls(tokens, gate) == \E i \in 4 .. Len(tokens) - 1 :
    tokens[i - 1] # "gate" /\ tokens[i] = gate
\* A call is followed by its parameters or its first qubit.
Calls(tokens, gate) == \E i \in 4 .. Len(tokens) - 1 :
    /\ tokens[i - 1] # "gate"
    /\ tokens[i] = gate
    /\ tokens[i + 1] \in {"(", "$"} \cup Words

\* The declarations, as far as they matter to a scanner.
Declaration == [
    ecr |-> <<"gate", "ecr", "a", Comma, "b", Open, "U", "(", "0", ")", "a", Semicolon,
              "ctrl", "@", "U", "(", "pi", ")", "a", Comma, "b", Semicolon, Close>>,
    rzz |-> <<"gate", "rzz", "(", "theta", ")", "a", Comma, "b", Open, "gphase",
              "(", "theta", ")", Semicolon, "ctrl", "@", "U", "a", Comma, "b", Semicolon, Close>>]

\* Words are no punctuation, comments are no tokens, and 1 is a size.
ASSUME ProgramAssumption ==
    /\ Comment # Unclosed
    /\ Words \cap {"(", "["} = {}
    /\ {Comment, Unclosed} \cap
          ({"OPENQASM", Semicolon} \cup UNION {ToSet(Declaration[g]) : g \in NativeGates}) = {}
    /\ \A number \in DOMAIN Numeral : Numeral[number] \in Nat
    /\ "1" \in DOMAIN Numeral /\ Numeral["1"] = 1 /\ MaxSize \in Nat \ {0}

Missing(tokens, gate) ==
    IF Calls(tokens, gate) /\ ~Defines(tokens, gate)
    THEN Declaration[gate] ELSE << >>

\* Behind the third token, the semicolon of the version.
Insertion(text) == Min({i \in DOMAIN text : Len(Tokenize(SubSeq(text, 1, i))) = 3})

DeclareNativeGates(text) ==
    SubSeq(text, 1, Insertion(text))
        \o Missing(Tokenize(text), "ecr") \o Missing(Tokenize(text), "rzz")
        \o SubSeq(text, Insertion(text) + 1, Len(text))

-----------------------------------------------------------------------------
(* outputRegisters *)

Header(tokens) ==
    /\ Len(tokens) >= 3
    /\ tokens[1] = "OPENQASM" /\ tokens[2] \in {"3", "3.0", "3.1"}
    /\ tokens[3] = Semicolon

\* bit name; bit[n] name; creg name[n]; -- where each has its parts.
Form(tokens, cursor) ==
    LET token(k) == At(tokens, cursor + k)
    IN  CASE token(0) = "creg" ->
               [name |-> token(1), size |-> token(3), length |-> 5,
                shaped |-> token(2) = "[" /\ token(4) = "]"]
          [] token(0) = "bit" /\ token(1) = "[" ->
               [name |-> token(4), size |-> token(2), length |-> 5,
                shaped |-> token(3) = "]"]
          [] token(0) = "bit" /\ token(1) # "[" ->
               [name |-> token(1), size |-> "1", length |-> 2, shaped |-> TRUE]

Failed(scan) == [scan EXCEPT !.ok = FALSE]
Width(registers) == SumFunction([r \in DOMAIN registers |-> registers[r].width])

\* Fault: declarations are read in nested scopes too.
MutTopLevel(scan) == TRUE
TopLevel(scan) == scan.depth = 0

\* A cast to bits declares nothing.
Declare(tokens, scan) ==
    LET form == Form(tokens, scan.cursor)
        past == [scan EXCEPT !.cursor = @ + form.length]
        count == Numeral[form.size]
    IN  IF ~(form.shaped /\ Number(form.size)) THEN Failed(scan)
        ELSE IF tokens[scan.cursor] = "bit" /\ form.name = "(" THEN past
        ELSE IF /\ TopLevel(scan)
                /\ At(tokens, past.cursor) = Semicolon
                /\ count # 0 /\ Name(form.name)
                /\ \A i \in DOMAIN scan.registers :
                      scan.registers[i].name # form.name
                /\ count <= MaxSize - Width(scan.registers)
        THEN [past EXCEPT !.cursor = @ + 1, !.registers =
                Append(@, [name |-> form.name, width |-> count])]
        ELSE Failed(scan)

\* One round of the loop: a statement the scanner knows, or one token.
Step(tokens, scan) ==
    LET token == tokens[scan.cursor]
        past(n) == [scan EXCEPT !.cursor = @ + n]
        behind == SkipGate(tokens, scan.cursor + 1)
    IN  CASE token = "gate" ->
               IF TopLevel(scan) /\ behind # 0
               THEN [scan EXCEPT !.cursor = behind] ELSE Failed(scan)
          [] token = Open -> [past(1) EXCEPT !.depth = @ + 1]
          [] token = Close ->
               IF scan.depth # 0 THEN [past(1) EXCEPT !.depth = @ - 1]
                                 ELSE Failed(scan)
          [] token = "include" ->
               IF /\ TopLevel(scan)
                  /\ At(tokens, scan.cursor + 1) = "stdgates.inc"
                  /\ At(tokens, scan.cursor + 2) = Semicolon
               THEN past(3) ELSE Failed(scan)
          [] token \in {"bit", "creg"} -> Declare(tokens, scan)
          [] token \in {"input", "output", "pragma", "@"} -> Failed(scan)
          [] OTHER -> past(1)

Round(tokens, scan) ==
    IF scan.ok /\ scan.cursor <= Len(tokens) THEN Step(tokens, scan) ELSE scan

Scan(tokens) == FoldLeft(LAMBDA scan, i : Round(tokens, scan),
    [cursor |-> 4, depth |-> 0, registers |-> << >>, ok |-> TRUE], tokens)

OutputRegisters(text) ==
    LET tokens == Tokenize(text)
        scan == Scan(tokens)
    IN  IF /\ Lexes(text) /\ Header(tokens)
           /\ scan.ok /\ scan.depth = 0 /\ scan.registers # << >>
        THEN Found(scan.registers) ELSE Refused
=============================================================================
