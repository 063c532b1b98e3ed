------------------------------- MODULE Metadata -------------------------------
(***************************************************************************)
(* From the JSON of a backend to what a session offers (src/Metadata.cpp). *)
(* Physical qubits are numbered from 0; an operation is offered for tuples *)
(* of qubits, in their order.  Calibration values are taken as parsed:     *)
(* None if they are absent or out of range.                                *)
(***************************************************************************)
EXTENDS Integers, SequencesExt

CONSTANT None   \* absent value

ASSUME NoneIsNoLength == None \notin Nat

\* Metadata that parseMetadata refuses.
Malformed == [refused |-> TRUE]

Instructions == {"measure", "reset", "if_else"}
Elements(s) == {s[i] : i \in DOMAIN s}
Unique(s) == \A i, j \in DOMAIN s : s[i] = s[j] => i = j

\* A tuple of distinct qubits of the backend.
Tuple(sites, count) ==
    sites # << >> /\ Unique(sites) /\ \A i \in DOMAIN sites : sites[i] \in 0 .. count - 1

\* Documents with values of the types that the parser asks for.
Documents(conf, props) ==
    /\ conf.count \in Int
    /\ DOMAIN conf.gates = 1 .. Len(conf.gates) /\ Len(conf.gates) \in Nat
    /\ \A i \in DOMAIN conf.gates : conf.gates[i].map \subseteq Seq(Int)
    /\ DOMAIN props.qubits = 1 .. Len(props.qubits) /\ Len(props.qubits) \in Nat
    /\ \A i \in DOMAIN props.qubits : props.qubits[i].operational \in BOOLEAN
    /\ DOMAIN props.gates = 1 .. Len(props.gates) /\ Len(props.gates) \in Nat
    /\ \A i \in DOMAIN props.gates :
          /\ props.gates[i].qubits \in Seq(Int)
          /\ props.gates[i].operational \in BOOLEAN

-----------------------------------------------------------------------------
(* The configuration: which operations there are, and where *)

GatesNamed(conf, name) == {i \in DOMAIN conf.gates : conf.gates[i].name = name}

ValidMap(map, count) ==
    /\ \A t \in map : Tuple(t, count)
    /\ \A t, u \in map : Len(t) = Len(u)

ValidConfiguration(conf) ==
    /\ conf.name # "" /\ conf.count > 0
    /\ \A t \in conf.coupling : Tuple(t, conf.count) /\ Len(t) = 2
    /\ conf.basis # << >> /\ Unique(conf.basis)
    /\ \A name \in Elements(conf.basis) :
          /\ Cardinality(GatesNamed(conf, name)) <= 1
          /\ \A i \in GatesNamed(conf, name) : ValidMap(conf.gates[i].map, conf.count)

\* An operation without tuples has no arity yet.
Operation(sites) == [
    arity |-> IF sites = {} THEN None ELSE Len(CHOOSE t \in sites : TRUE),
    sites |-> sites,
    calibrations |-> << >>]

\* Instructions that are not basis gates act on every single qubit.
ConfiguredSites(conf, name) ==
    IF name \in Elements(conf.basis)
    THEN UNION {conf.gates[i].map : i \in GatesNamed(conf, name)}
    ELSE IF name = "if_else" THEN {} ELSE {<<q>> : q \in 0 .. conf.count - 1}

Configured(conf) ==
    [name \in Elements(conf.basis) \cup (Elements(conf.instructions) \cap Instructions)
        |-> Operation(ConfiguredSites(conf, name))]

-----------------------------------------------------------------------------
(* The properties: calibrations, and what does not work *)

ReadoutsOf(props) == {<<i - 1>> : i \in {j \in DOMAIN props.qubits :
    props.qubits[j].duration # None \/ props.qubits[j].fidelity # None}}

Readout(qubit) == [duration |-> qubit.duration, fidelity |-> qubit.fidelity,
                   operational |-> TRUE]

\* Readout calibration is that of the operation measure, if there is one.
WithReadout(operations, props) ==
    IF "measure" \notin DOMAIN operations THEN operations
    ELSE [operations EXCEPT !["measure"].calibrations =
             [t \in ReadoutsOf(props) |-> Readout(props.qubits[t[1] + 1])]]

Or(value, other) == IF value # None THEN value ELSE other

\* Fault: the entry of the gate has the last word.
MutMerge(readout, gate) ==
    [duration |-> Or(gate.duration, readout.duration),
     fidelity |-> Or(gate.fidelity, readout.fidelity),
     operational |-> readout.operational /\ gate.operational]
Merge(readout, gate) ==
    [duration |-> Or(readout.duration, gate.duration),
     fidelity |-> Or(readout.fidelity, gate.fidelity),
     operational |-> readout.operational /\ gate.operational]

Calibrated(parse, gate) ==
    gate.qubits \in DOMAIN parse.operations[gate.gate].calibrations

\* parse.readouts are the readout calibrations that the entry of a
\* measurement may still repeat.
Repeats(parse, gate) == gate.gate = "measure" /\ gate.qubits \in parse.readouts

\* Fault: the tuples of earlier entries count as configured.
MutAccepted(conf, parse, gate) ==
    LET operation == parse.operations[gate.gate]
    IN  /\ Tuple(gate.qubits, conf.count)
        /\ operation.sites # {} => gate.qubits \in operation.sites
        /\ Calibrated(parse, gate) => Repeats(parse, gate)
\* Configured tuples are authoritative.
Accepted(conf, parse, gate) ==
    LET operation == parse.operations[gate.gate]
    IN  /\ Tuple(gate.qubits, conf.count)
        /\ ConfiguredSites(conf, gate.gate) # {} => gate.qubits \in operation.sites
        /\ operation.arity \in {None, Len(gate.qubits)}
        /\ Calibrated(parse, gate) => Repeats(parse, gate)

Placed(parse, gate) ==
    LET operation == parse.operations[gate.gate]
        calibrations == operation.calibrations
        value == [duration |-> gate.duration, fidelity |-> gate.fidelity,
                  operational |-> gate.operational]
        merged == IF Calibrated(parse, gate)
                  THEN Merge(calibrations[gate.qubits], value) ELSE value
    IN  [operation EXCEPT !.arity = Len(gate.qubits), !.sites = @ \cup {gate.qubits},
                          !.calibrations =
            [t \in DOMAIN calibrations \cup {gate.qubits} |->
                IF t = gate.qubits THEN merged ELSE calibrations[t]]]

\* One entry of the gate calibrations; those of other gates are skipped.
Calibrate(conf, parse, gate) ==
    IF ~parse.ok \/ gate.gate \notin DOMAIN parse.operations THEN parse
    ELSE IF ~Accepted(conf, parse, gate) THEN [parse EXCEPT !.ok = FALSE]
    ELSE [parse EXCEPT !.operations[gate.gate] = Placed(parse, gate),
                       !.readouts = IF Calibrated(parse, gate) THEN @ \ {gate.qubits}
                                                         ELSE @]

\* Fault: a faulty qubit only takes the operations on itself.
MutFaulty(operation, sites, faultySites) ==
    \/ \E q \in faultySites : sites = <<q>>
    \/ /\ sites \in DOMAIN operation.calibrations
       /\ ~operation.calibrations[sites].operational
Faulty(operation, sites, faultySites) ==
    \/ \E i \in DOMAIN sites : sites[i] \in faultySites
    \/ /\ sites \in DOMAIN operation.calibrations
       /\ ~operation.calibrations[sites].operational

Working(operation, faultySites) ==
    LET sites == {t \in operation.sites : ~Faulty(operation, t, faultySites)}
    IN  [operation EXCEPT !.sites = sites,
            !.calibrations = [t \in sites \cap DOMAIN @ |-> @[t]]]

\* parseMetadata.
ParseMetadata(conf, props) ==
    LET start == [ok |-> ValidConfiguration(conf) /\ Len(props.qubits) <= conf.count,
                  operations |-> WithReadout(Configured(conf), props),
                  readouts |-> ReadoutsOf(props)]
        parse == FoldLeft(LAMBDA p, gate : Calibrate(conf, p, gate), start, props.gates)
        faultySites == {i - 1 : i \in {j \in DOMAIN props.qubits :
                                          ~props.qubits[j].operational}}
    IN  IF ~start.ok THEN Malformed ELSE IF ~parse.ok THEN Malformed
        ELSE [name |-> conf.name, count |-> conf.count, coupling |-> conf.coupling,
              operations |-> [name \in DOMAIN parse.operations |->
                                 Working(parse.operations[name], faultySites)]]

\* A backend without properties (404).
NoProperties == [qubits |-> << >>, gates |-> << >>]
=============================================================================
