------------------------------ MODULE MCSampler ------------------------------
(***************************************************************************)
(* Small instances of Sampler: statements around the native gates, the     *)
(* declarations and the scopes of OpenQASM, and QPY files around the       *)
(* partition of the classical bits.                                        *)
(***************************************************************************)
EXTENDS Sampler, TLC

MCWords == {"gate", "ecr", "rzz", "a", "b", "c", "d", "q", "x", "theta", "if",
            "bit", "creg", "qubit", "measure", "input", "ctrl", "U", "pi", "gphase"}
MCNumeral == "0" :> 0 @@ "1" :> 1 @@ "2" :> 2 @@ "5" :> 5 @@ "9" :> 9

Plain == [registers |-> << >>, gates |-> {}, calls |-> {}, nests |-> 0,
          top |-> FALSE, supported |-> TRUE]
Statement(text) == [Plain EXCEPT !.registers = @] @@ [text |-> text]
Registers(text, name, width) == [Statement(text) EXCEPT
    !.registers = <<[name |-> name, width |-> width]>>, !.top = TRUE]
Gate(text, gates) == [Statement(text) EXCEPT !.gates = gates, !.top = TRUE]
Calling(text, calls) == [Statement(text) EXCEPT !.calls = calls]
Not(statement) == [statement EXCEPT !.supported = FALSE]

MCStatements == {
    Registers(<<"bit", "b", ";">>, "b", 1),
    Registers(<<"bit", "[", "2", "]", "c", ";">>, "c", 2),
    Registers(<<"creg", "d", "[", "5", "]", ";">>, "d", 5),
    Registers(<<"creg", "b", "[", "2", "]", ";">>, "b", 2),
    Not(Statement(<<"bit", "[", "0", "]", "c", ";">>)),
    Not(Statement(<<"bit", "[", "9", "]", "c", ";">>)),
    \* Casts, and comments and gates that look like declarations.
    Statement(<<"x", "=", "bit", "[", "2", "]", "(", "c", ")", ";">>),
    Statement(<<Comment>>),
    Not(Statement(<<Unclosed>>)),
    \* Scopes, and what must not be in them.
    [Statement(<<"if", "(", "b", ")", "{">>) EXCEPT !.nests = 1],
    [Statement(<<"}">>) EXCEPT !.nests = -1],
    Not(Statement(<<"input", "a", ";">>)),
    [Statement(<<"include", "stdgates.inc", ";">>) EXCEPT !.top = TRUE],
    Not(Statement(<<"include", "a", ";">>)),
    \* Native gates: calls, definitions, and other things of that name.
    Calling(<<"ecr", "q", "[", "0", "]", ",", "q", "[", "1", "]", ";">>, {"ecr"}),
    Calling(<<"ecr", "$", "0", ",", "$", "1", ";">>, {"ecr"}),
    Calling(<<"rzz", "(", "pi", ")", "$", "0", ",", "$", "1", ";">>, {"rzz"}),
    Gate(<<"gate", "ecr", "a", ",", "b", "{", "x", "a", ";", "}">>, {"ecr"}),
    Gate(<<"gate", "rzz", "(", "theta", ")", "a", ",", "b", "{", "}">>, {"rzz"}),
    [Gate(<<"gate", "x", "a", ",", "b", "{", "ecr", "a", ",", "b", ";", "}">>, {})
        EXCEPT !.calls = {"ecr"}],
    Statement(<<"qubit", "[", "2", "]", "ecr", ";">>),
    Statement(<<"measure", "ecr", "[", "1", "]", ";">>)}

\* QPY files: registers of up to three bits in the right or a wrong order.
MCRegister == [type : {"c"}, name : {"c"}, inCircuit : {TRUE},
               indices : {<<0>>, <<1>>, <<0, 1>>, <<1, 0>>, <<1, 2>>}]
    \cup [type : {"c"}, name : {"e", ""}, inCircuit : BOOLEAN, indices : {<<2>>}]
    \cup [type : {"q"}, name : {"c"}, inCircuit : {TRUE}, indices : {<<0, 1>>}]
    \cup [type : {"c"}, name : {"f"}, inCircuit : {TRUE}, indices : {<< >>}]
MCFile == [version |-> 17, programs |-> 1, variables |-> 0, width |-> 2,
           bits |-> 3, registers |-> << >>]
MCFiles ==
    [version : {17}, programs : {1}, variables : {0}, width : {2}, bits : 2 .. 3,
     registers : UNION {[1 .. n -> MCRegister] : n \in 0 .. 3}]
    \cup {[MCFile EXCEPT !.registers = <<[type |-> "c", name |-> "c",
               inCircuit |-> TRUE, indices |-> <<0, 1, 2>>]>>, ![field] = value] :
          field \in {"version", "programs", "variables", "width"}, value \in {0, 1, 2, 3, 17}}

\* Contents whose streams have every length modulo three.
MCContents == {<<255>>, <<1, 128>>, <<0, 255, 7>>}
MCTexts == [1 .. 4 -> {0, 4, 16, 63, Pad}] \cup {<<0, 0>>}
=============================================================================
