--------------------------- MODULE Session_proofs ---------------------------
(***************************************************************************)
(* Proofs about sessions, for any parameters a client may set, in any      *)
(* order, and any environments, key files and replies: a session starts    *)
(* with each value of its first source and with documents that do not      *)
(* contradict each other, it offers what they describe and what works of   *)
(* it, and a diagnostic tells what made the last call fail.                *)
(*                                                                         *)
(* The first needs that the configuration of a session that has not        *)
(* started is what its parameters say and nothing else: a failed           *)
(* initialization leaves nothing of what it had resolved.  What a session  *)
(* offers needs that its metadata stay those of the replies it started     *)
(* with; what parseMetadata makes of documents of any size is described by *)
(* induction on how many gate entries have been read.                      *)
(***************************************************************************)
EXTENDS Session, Sequences_proofs

-----------------------------------------------------------------------------
(* The fold of parseMetadata, step by step *)

\* The parses of the first entries, by the sets of their indices.
ParseIterates(f, conf, start, gates, n) ==
    f = [s \in SUBSET (1 .. n) |->
            IF s = {} THEN start ELSE Calibrate(conf, f[s \ {Max(s)}], gates[Max(s)])]

\* What parseMetadata folds.
ParseEntries(conf, start, gates) ==
    FoldLeft(LAMBDA p, gate : Calibrate(conf, p, gate), start, gates)

\* The fold is the last of the parses, if there are such.
LEMMA FoldIsIterate ==
  ASSUME NEW conf, NEW start, NEW n \in Nat, NEW gates, DOMAIN gates = 1 .. n
  PROVE  ParseEntries(conf, start, gates)
            = (CHOOSE f : ParseIterates(f, conf, start, gates, n))[1 .. n]
  BY DEF ParseEntries, FoldLeft, MapThenFoldSet, ParseIterates

\* There are such iterates.
LEMMA ParsesExist ==
  ASSUME NEW conf, NEW start, NEW gates
  PROVE  \A n \in Nat : \E f : ParseIterates(f, conf, start, gates, n)
  <1> DEFINE P(n) == \E f : ParseIterates(f, conf, start, gates, n)
             S == {n \in Nat : P(n)}
  <1>1. 0 \in S
    <2> DEFINE f == [s \in SUBSET (1 .. 0) |-> start]
    <2>1. \A s \in SUBSET (1 .. 0) : s = {}
      OBVIOUS
    <2>2. ParseIterates(f, conf, start, gates, 0)
      BY <2>1 DEF ParseIterates
    <2>3. QED
      BY <2>2
  <1>2. ASSUME NEW n \in Nat, P(n)
        PROVE  P(n + 1)
    <2>1. PICK g : ParseIterates(g, conf, start, gates, n)
      BY <1>2
    <2> DEFINE f == [s \in SUBSET (1 .. n + 1) |->
                        IF n + 1 \in s
                        THEN Calibrate(conf, g[s \ {n + 1}], gates[n + 1]) ELSE g[s]]
    <2>2. ASSUME NEW s \in SUBSET (1 .. n + 1)
          PROVE  f[s] = IF s = {} THEN start
                        ELSE Calibrate(conf, f[s \ {Max(s)}], gates[Max(s)])
      <3>1. CASE n + 1 \in s
        <4>1. Max(s) = n + 1
          <5>1. s \subseteq Int /\ \A k \in s : k <= n + 1
            OBVIOUS
          <5>2. QED
            BY <3>1, <5>1, MaxIs
        <4>2. /\ s \ {n + 1} \in SUBSET (1 .. n + 1)
              /\ n + 1 \notin s \ {n + 1}
          OBVIOUS
        <4>3. f[s \ {n + 1}] = g[s \ {n + 1}]
          BY <4>2
        <4>4. f[s] = Calibrate(conf, g[s \ {n + 1}], gates[n + 1])
          BY <3>1
        <4>5. QED
          BY <3>1, <4>1, <4>3, <4>4
      <3>2. CASE n + 1 \notin s
        <4>1. s \in SUBSET (1 .. n)
          BY <3>2
        <4>2. f[s] = g[s]
          BY <3>2
        <4>3. g[s] = IF s = {} THEN start
                     ELSE Calibrate(conf, g[s \ {Max(s)}], gates[Max(s)])
          BY <2>1, <4>1 DEF ParseIterates
        <4>4. /\ s \ {Max(s)} \in SUBSET (1 .. n + 1)
              /\ n + 1 \notin s \ {Max(s)}
          BY <3>2
        <4>5. f[s \ {Max(s)}] = g[s \ {Max(s)}]
          BY <4>4
        <4>6. QED
          BY <4>2, <4>3, <4>5
      <3>3. QED
        BY <3>1, <3>2
    <2>3. DOMAIN f = SUBSET (1 .. n + 1)
      OBVIOUS
    <2>4. f = [s \in SUBSET (1 .. n + 1) |-> f[s]]
      OBVIOUS
    <2> HIDE DEF f
    <2>5. ParseIterates(f, conf, start, gates, n + 1)
      BY <2>2, <2>4 DEF ParseIterates
    <2>6. QED
      BY <2>5
  <1>3. \A n \in Nat : n \in S => n + 1 \in S
    BY <1>2
  <1> HIDE DEF P
  <1>4. Nat \subseteq S
    <2> HIDE DEF S
    <2>1. QED
      BY <1>1, <1>3, SetInduction
  <1>5. QED
    BY <1>4 DEF P

\* The parses p after 0, 1, 2, ..., n entries, of which the last is the fold.
Parses(conf, start, gates, n, p) ==
    /\ p[0] = start
    /\ \A i \in 1 .. n : p[i] = Calibrate(conf, p[i - 1], gates[i])
    /\ ParseEntries(conf, start, gates) = p[n]

\* There are such parses.
LEMMA ParseSteps ==
  ASSUME NEW conf, NEW start, NEW n \in Nat, NEW gates, DOMAIN gates = 1 .. n
  PROVE  \E p : Parses(conf, start, gates, n, p)
  <1> DEFINE f == CHOOSE f : ParseIterates(f, conf, start, gates, n)
             p == [i \in 0 .. n |-> f[1 .. i]]
  <1>1. ParseIterates(f, conf, start, gates, n)
    BY ParsesExist
  <1>2. ParseEntries(conf, start, gates) = f[1 .. n]
    BY FoldIsIterate
  <1> HIDE DEF f
  <1>3. p[0] = start
    <2>1. 1 .. 0 = {} /\ {} \in SUBSET (1 .. n)
      OBVIOUS
    <2>2. f[{}] = start
      BY <1>1, <2>1 DEF ParseIterates
    <2>3. QED
      BY <2>1, <2>2
  <1>4. ASSUME NEW i \in 1 .. n
        PROVE  p[i] = Calibrate(conf, p[i - 1], gates[i])
    <2>1. /\ 1 .. i \in SUBSET (1 .. n) /\ i \in 1 .. i
          /\ (1 .. i) \ {i} = 1 .. i - 1
          /\ i - 1 \in 0 .. n
      OBVIOUS
    <2>2. Max(1 .. i) = i
      <3>1. 1 .. i \subseteq Int /\ \A k \in 1 .. i : k <= i
        OBVIOUS
      <3>2. QED
        BY <2>1, <3>1, MaxIs
    <2>3. f[1 .. i] = Calibrate(conf, f[(1 .. i) \ {Max(1 .. i)}], gates[Max(1 .. i)])
      <3>1. 1 .. i # {}
        BY <2>1
      <3>2. QED
        BY <1>1, <2>1, <3>1 DEF ParseIterates
    <2>4. f[1 .. i] = Calibrate(conf, f[1 .. i - 1], gates[i])
      BY <2>1, <2>2, <2>3
    <2>5. p[i] = f[1 .. i] /\ p[i - 1] = f[1 .. i - 1]
      BY <2>1
    <2>6. QED
      BY <2>4, <2>5
  <1>5. p[n] = f[1 .. n]
    OBVIOUS
  <1> HIDE DEF p
  <1>6. Parses(conf, start, gates, n, p)
    BY <1>2, <1>3, <1>4, <1>5 DEF Parses
  <1>7. QED
    BY <1>6

-----------------------------------------------------------------------------
(* What a parse says after the first i entries *)

\* The operations there are, and the entries for them.
Names(conf) == DOMAIN Configured(conf)
Entries(props, name, i) == {j \in 1 .. i : props.gates[j].gate = name}
EntrySites(props, name, i) == {props.gates[j].qubits : j \in Entries(props, name, i)}
ReadoutSites(props, name) == IF name = "measure" THEN ReadoutsOf(props) ELSE {}
ReadoutValue(props, name, t, field) ==
    IF t \in ReadoutSites(props, name) THEN props.qubits[t[1] + 1][field] ELSE None

\* An entry that agrees with the configuration and with those before it.
Fitting(conf, props, i) ==
    LET gate == props.gates[i]
        configured == ConfiguredSites(conf, gate.gate)
    IN  /\ Tuple(gate.qubits, conf.count)
        /\ configured # {} => gate.qubits \in configured
        /\ \A j \in Entries(props, gate.gate, i - 1) :
              /\ props.gates[j].qubits # gate.qubits
              /\ Len(props.gates[j].qubits) = Len(gate.qubits)

Valid(conf, props) == ValidConfiguration(conf) /\ Len(props.qubits) <= conf.count
Sound(conf, props, i) ==
    /\ Valid(conf, props)
    /\ \A j \in 1 .. i : props.gates[j].gate \in Names(conf) => Fitting(conf, props, j)

\* The value of a field: that of the readout, or else that of the entry.
FieldSays(props, name, i, t, field, value) ==
    LET readout == ReadoutValue(props, name, t, field)
        mine == {j \in Entries(props, name, i) : props.gates[j].qubits = t}
    IN  /\ readout # None => value = readout
        /\ readout = None /\ mine = {} => value = None
        /\ readout = None => \A j \in mine : value = props.gates[j][field]

\* The calibration c of the tuple t.
CalibrationIs(props, name, i, t, c) ==
    /\ c.operational <=> \A j \in Entries(props, name, i) :
          props.gates[j].qubits = t => props.gates[j].operational
    /\ FieldSays(props, name, i, t, "duration", c.duration)
    /\ FieldSays(props, name, i, t, "fidelity", c.fidelity)

\* The operation op of that name.
Describes(conf, props, name, i, op) ==
    LET configured == ConfiguredSites(conf, name)
    IN  /\ op = [arity |-> op.arity, sites |-> op.sites, calibrations |-> op.calibrations]
        /\ op.sites = IF configured # {} THEN configured ELSE EntrySites(props, name, i)
        /\ \A t \in op.sites : op.arity = Len(t)
        /\ op.sites = {} => op.arity = None
        /\ DOMAIN op.calibrations
              = ReadoutSites(props, name) \cup EntrySites(props, name, i)
        /\ \A t \in DOMAIN op.calibrations :
              CalibrationIs(props, name, i, t, op.calibrations[t])

\* The parse p.
Parsed(conf, props, i, p) ==
    /\ p = [ok |-> p.ok, operations |-> p.operations, readouts |-> p.readouts]
    /\ p.ok <=> Sound(conf, props, i)
    /\ p.ok =>
          /\ DOMAIN p.operations = Names(conf)
          /\ p.operations = [name \in Names(conf) |-> p.operations[name]]
          /\ \A name \in Names(conf) :
                Describes(conf, props, name, i, p.operations[name])
          /\ "measure" \in Names(conf) =>
                p.readouts = ReadoutsOf(props) \ EntrySites(props, "measure", i)

\* The types of entries and sites.
LEMMA EntryTypes ==
  ASSUME NEW conf, NEW props, Documents(conf, props),
         NEW i \in DOMAIN props.gates
  PROVE  /\ i \in Nat /\ i - 1 \in Nat /\ i >= 1
         /\ props.gates[i].qubits \in Seq(Int)
         /\ Len(props.gates[i].qubits) \in Nat
         /\ Len(props.gates[i].qubits) # None
  BY NoneIsNoLength DEF Documents

\* What one more entry adds.
LEMMA OneMoreEntry ==
  ASSUME NEW props, NEW name, NEW i \in Nat, i >= 1
  PROVE  /\ props.gates[i].gate = name =>
               /\ Entries(props, name, i) = Entries(props, name, i - 1) \cup {i}
               /\ EntrySites(props, name, i)
                     = EntrySites(props, name, i - 1) \cup {props.gates[i].qubits}
         /\ props.gates[i].gate # name =>
               /\ Entries(props, name, i) = Entries(props, name, i - 1)
               /\ EntrySites(props, name, i) = EntrySites(props, name, i - 1)
         /\ i \notin Entries(props, name, i - 1)
  <1>1. 1 .. i = (1 .. i - 1) \cup {i} /\ i \notin 1 .. i - 1
    OBVIOUS
  <1>2. CASE props.gates[i].gate = name
    <2>1. Entries(props, name, i) = Entries(props, name, i - 1) \cup {i}
      BY <1>1, <1>2 DEF Entries
    <2>2. QED
      BY <1>1, <1>2, <2>1 DEF EntrySites, Entries
  <1>3. CASE props.gates[i].gate # name
    <2>1. Entries(props, name, i) = Entries(props, name, i - 1)
      BY <1>1, <1>3 DEF Entries
    <2>2. QED
      BY <1>1, <1>3, <2>1 DEF EntrySites, Entries
  <1>4. QED
    BY <1>2, <1>3

-----------------------------------------------------------------------------
(* The configuration *)

\* No two members of a set of at most one.
LEMMA AtMostOne ==
  ASSUME NEW S, IsFiniteSet(S), Cardinality(S) <= 1, NEW i \in S, NEW j \in S
  PROVE  i = j
  <1>1. SUFFICES ASSUME i # j PROVE FALSE
    OBVIOUS
  <1>2. /\ IsFiniteSet({i}) /\ Cardinality({i}) = 1
    BY FS_Singleton
  <1>3. Cardinality({i} \cup {j}) = 2
    BY <1>1, <1>2, FS_AddElement, SMTT(60)
  <1>4. {i} \cup {j} \subseteq S
    OBVIOUS
  <1>5. Cardinality({i} \cup {j}) <= Cardinality(S)
    BY <1>4, FS_Subset
  <1>6. Cardinality(S) \in Nat
    BY FS_CardinalityType
  <1>7. QED
    BY <1>3, <1>5, <1>6

\* The tuples of an operation in a valid configuration.
LEMMA ConfiguredTuples ==
  ASSUME NEW conf, NEW props, Documents(conf, props), ValidConfiguration(conf),
         NEW name, NEW t \in ConfiguredSites(conf, name),
         NEW u \in ConfiguredSites(conf, name)
  PROVE  /\ Tuple(t, conf.count) /\ Len(t) = Len(u)
         /\ t \in Seq(Int) /\ Len(t) \in Nat
  <1>1. CASE name \in Elements(conf.basis)
    <2> DEFINE mine == GatesNamed(conf, name)
    <2>1. PICK i \in mine : t \in conf.gates[i].map
      BY <1>1 DEF ConfiguredSites
    <2>2. PICK j \in mine : u \in conf.gates[j].map
      BY <1>1 DEF ConfiguredSites
    <2>3. mine \subseteq 1 .. Len(conf.gates) /\ Len(conf.gates) \in Nat
      BY DEF GatesNamed, Documents
    <2>4. IsFiniteSet(1 .. Len(conf.gates))
      BY <2>3, FS_Interval
    <2>5. IsFiniteSet(mine)
      BY <2>3, <2>4, FS_Subset
    <2>6. /\ Cardinality(mine) <= 1
          /\ ValidMap(conf.gates[i].map, conf.count)
      BY <1>1, <2>1 DEF ValidConfiguration
    <2> HIDE DEF mine
    <2>7. i = j
      BY <2>5, <2>6, AtMostOne
    <2>8. t \in Seq(Int)
      BY <2>1, <2>3 DEF Documents
    <2>9. QED
      BY <2>1, <2>2, <2>6, <2>7, <2>8 DEF ValidMap
  <1>2. CASE name \notin Elements(conf.basis)
    <2>1. PICK q \in 0 .. conf.count - 1 : t = <<q>>
      BY <1>2 DEF ConfiguredSites
    <2>2. PICK r \in 0 .. conf.count - 1 : u = <<r>>
      BY <1>2 DEF ConfiguredSites
    <2>3. /\ DOMAIN t = {1} /\ t[1] = q /\ Len(t) = 1 /\ Len(u) = 1
          /\ t \in Seq(Int) /\ t # << >>
      BY <2>1, <2>2
    <2>4. QED
      BY <2>1, <2>3 DEF Tuple, Unique
  <1>3. QED
    BY <1>1, <1>2

-----------------------------------------------------------------------------
(* One more entry *)

\* The code accepts exactly the entries that fit.
LEMMA AcceptedIsFitting ==
  ASSUME NEW conf, NEW props, Documents(conf, props),
         NEW i \in DOMAIN props.gates, NEW p, Parsed(conf, props, i - 1, p), p.ok,
         props.gates[i].gate \in Names(conf)
  PROVE  Accepted(conf, p, props.gates[i]) <=> Fitting(conf, props, i)
  <1> DEFINE gate == props.gates[i]
             name == gate.gate
             op == p.operations[name]
             configured == ConfiguredSites(conf, name)
             mine == Entries(props, name, i - 1)
             Apart == \A j \in mine : /\ props.gates[j].qubits # gate.qubits
                                      /\ Len(props.gates[j].qubits) = Len(gate.qubits)
  <1>1. Describes(conf, props, name, i - 1, op) /\ Sound(conf, props, i - 1)
    BY DEF Parsed
  <1>2. i - 1 \in Nat /\ Len(gate.qubits) # None
    BY EntryTypes
  <1>3. ASSUME NEW j \in mine
        PROVE  /\ j \in 1 .. i - 1 /\ props.gates[j].gate = name
               /\ Fitting(conf, props, j)
               /\ Len(props.gates[j].qubits) # None
               /\ props.gates[j].qubits \in EntrySites(props, name, i - 1)
    <2>1. j \in 1 .. i - 1 /\ props.gates[j].gate = name
      BY DEF Entries
    <2>2. Fitting(conf, props, j)
      BY <1>1, <2>1 DEF Sound
    <2>3. j \in DOMAIN props.gates
      BY <2>1 DEF Documents
    <2>4. Len(props.gates[j].qubits) # None
      BY <2>3, EntryTypes
    <2>5. QED
      BY <2>1, <2>2, <2>4 DEF EntrySites
  <1>4. ASSUME NEW j \in mine
        PROVE  props.gates[j].qubits \in op.sites
    <2>1. configured # {} => props.gates[j].qubits \in configured
      BY <1>3 DEF Fitting
    <2>2. QED
      BY <1>1, <1>3, <2>1 DEF Describes
  <1>5. ASSUME NEW t \in op.sites PROVE op.arity = Len(t)
    BY <1>1 DEF Describes
  <1>6. configured # {} => op.sites = configured
    BY <1>1 DEF Describes
  <1>7. Accepted(conf, p, gate) <=>
           /\ Tuple(gate.qubits, conf.count)
           /\ configured # {} => gate.qubits \in op.sites
           /\ op.arity \in {None, Len(gate.qubits)}
           /\ Calibrated(p, gate) => Repeats(p, gate)
    BY DEF Accepted
  <1>8. Fitting(conf, props, i) <=>
           /\ Tuple(gate.qubits, conf.count)
           /\ configured # {} => gate.qubits \in configured
           /\ Apart
    BY DEF Fitting
  <1>9. /\ Calibrated(p, gate) <=> \/ gate.qubits \in ReadoutSites(props, name)
                                   \/ gate.qubits \in EntrySites(props, name, i - 1)
    BY <1>1 DEF Calibrated, Describes
  <1>10. gate.qubits \in EntrySites(props, name, i - 1)
            <=> \E j \in mine : props.gates[j].qubits = gate.qubits
    BY DEF EntrySites
  <1>11. Repeats(p, gate) <=>
            /\ name = "measure"
            /\ gate.qubits \in ReadoutSites(props, name)
            /\ gate.qubits \notin EntrySites(props, name, i - 1)
    BY DEF Repeats, Parsed, ReadoutSites
  <1>12. gate.qubits \in ReadoutSites(props, name) => name = "measure"
    BY DEF ReadoutSites
  <1>13. op.sites = {} => op.arity = None
    BY <1>1 DEF Describes
  <1>14. configured = {} /\ op.sites # {} => \E j \in mine : TRUE
    BY <1>1 DEF Describes, EntrySites
  <1> HIDE DEF gate, op, configured, mine
  <1>15. ASSUME Accepted(conf, p, gate) PROVE Fitting(conf, props, i)
    <2>1. ASSUME NEW j \in mine
          PROVE  Len(props.gates[j].qubits) = Len(gate.qubits)
      BY <1>3, <1>4, <1>5, <1>7, <1>15 DEF mine
    <2>2. ASSUME NEW j \in mine PROVE props.gates[j].qubits # gate.qubits
      BY <1>7, <1>9, <1>10, <1>11, <1>15
    <2>3. QED
      BY <1>6, <1>7, <1>8, <1>15, <2>1, <2>2
  <1>16. ASSUME Fitting(conf, props, i) PROVE Accepted(conf, p, gate)
    <2>1. op.arity \in {None, Len(gate.qubits)}
      <3>1. CASE op.sites = {}
        BY <1>13, <3>1
      <3>2. CASE op.sites # {} /\ configured # {}
        BY <1>5, <1>6, <1>8, <1>16, <3>2
      <3>3. CASE op.sites # {} /\ configured = {}
        BY <1>4, <1>5, <1>8, <1>14, <1>16, <3>3
      <3>4. QED
        BY <3>1, <3>2, <3>3
    <2>2. Calibrated(p, gate) => Repeats(p, gate)
      BY <1>8, <1>9, <1>10, <1>11, <1>12, <1>16
    <2>3. QED
      BY <1>6, <1>7, <1>8, <1>16, <2>1, <2>2
  <1>17. QED
    BY <1>15, <1>16 DEF gate

\* A name has no more to say if the entry is not its own, a tuple has not if
\* the entry is for another.
LEMMA OtherCalibration ==
  ASSUME NEW props, NEW name, NEW i \in Nat, i >= 1, NEW t, NEW c,
         \/ props.gates[i].gate # name
         \/ props.gates[i].qubits # t,
         CalibrationIs(props, name, i - 1, t, c)
  PROVE  CalibrationIs(props, name, i, t, c)
  <1> DEFINE mine(k) == {j \in Entries(props, name, k) : props.gates[j].qubits = t}
  <1>1. mine(i) = mine(i - 1)
    BY OneMoreEntry
  <1>2. (\A j \in Entries(props, name, i) :
             props.gates[j].qubits = t => props.gates[j].operational)
        <=> \A j \in mine(i) : props.gates[j].operational
    OBVIOUS
  <1>3. (\A j \in Entries(props, name, i - 1) :
             props.gates[j].qubits = t => props.gates[j].operational)
        <=> \A j \in mine(i - 1) : props.gates[j].operational
    OBVIOUS
  <1>4. ASSUME NEW field, NEW value, FieldSays(props, name, i - 1, t, field, value)
        PROVE  FieldSays(props, name, i, t, field, value)
    BY <1>1, <1>4 DEF FieldSays
  <1> HIDE DEF mine
  <1>5. QED
    BY <1>1, <1>2, <1>3, <1>4 DEF CalibrationIs

\* The operations of other names stay as they are.
LEMMA OtherDescribes ==
  ASSUME NEW conf, NEW props, NEW name, NEW i \in Nat, i >= 1, NEW op,
         props.gates[i].gate # name,
         Describes(conf, props, name, i - 1, op)
  PROVE  Describes(conf, props, name, i, op)
  <1>1. EntrySites(props, name, i) = EntrySites(props, name, i - 1)
    BY OneMoreEntry
  <1>2. ASSUME NEW t \in DOMAIN op.calibrations
        PROVE  CalibrationIs(props, name, i, t, op.calibrations[t])
    <2>1. CalibrationIs(props, name, i - 1, t, op.calibrations[t])
      BY DEF Describes
    <2>2. QED
      BY <2>1, OtherCalibration
  <1>3. QED
    BY <1>1, <1>2 DEF Describes

\* What the code writes for a tuple that has no entry yet.
LEMMA MergedCalibration ==
  ASSUME NEW conf, NEW props, Documents(conf, props),
         NEW i \in DOMAIN props.gates, NEW name, props.gates[i].gate = name,
         NEW t, props.gates[i].qubits = t, t \notin EntrySites(props, name, i - 1),
         NEW c, NEW merged,
         t \in ReadoutSites(props, name) =>
            /\ CalibrationIs(props, name, i - 1, t, c)
            /\ merged = Merge(c, [duration |-> props.gates[i].duration,
                                  fidelity |-> props.gates[i].fidelity,
                                  operational |-> props.gates[i].operational]),
         t \notin ReadoutSites(props, name) =>
            merged = [duration |-> props.gates[i].duration,
                      fidelity |-> props.gates[i].fidelity,
                      operational |-> props.gates[i].operational]
  PROVE  CalibrationIs(props, name, i, t, merged)
  <1> DEFINE gate == props.gates[i]
             mine(k) == {j \in Entries(props, name, k) : props.gates[j].qubits = t}
  <1>1. i \in Nat /\ i >= 1
    BY EntryTypes
  <1>2. mine(i - 1) = {}
    BY DEF EntrySites
  <1>3. mine(i) = {i}
    BY <1>1, <1>2, OneMoreEntry
  <1>4. gate.operational \in BOOLEAN
    BY DEF Documents
  <1>5. (merged.operational <=> gate.operational)
    <2>1. CASE t \in ReadoutSites(props, name)
      <3>1. c.operational
        BY <1>2, <2>1 DEF CalibrationIs
      <3> DEFINE both == c.operational /\ gate.operational
      <3>2. merged = [duration |-> Or(c.duration, gate.duration),
                      fidelity |-> Or(c.fidelity, gate.fidelity),
                      operational |-> both]
        BY <2>1, Zenon DEF Merge
      <3>3. both <=> gate.operational
        BY <3>1
      <3> HIDE DEF both
      <3>4. merged.operational = both
        BY <3>2
      <3>5. QED
        BY <3>3, <3>4
    <2>2. CASE t \notin ReadoutSites(props, name)
      BY <2>2
    <2>3. QED
      BY <2>1, <2>2
  <1>6. ASSUME NEW field, NEW value, NEW own, own = gate[field],
               NEW old,
               t \in ReadoutSites(props, name) =>
                  /\ FieldSays(props, name, i - 1, t, field, old)
                  /\ value = Or(old, own),
               t \notin ReadoutSites(props, name) => value = own
        PROVE  FieldSays(props, name, i, t, field, value)
    <2> DEFINE readout == ReadoutValue(props, name, t, field)
    <2>1. ASSUME t \in ReadoutSites(props, name)
          PROVE  old = readout
      BY <1>2, <1>6, <2>1 DEF FieldSays
    <2>2. ASSUME t \notin ReadoutSites(props, name)
          PROVE  readout = None
      BY <2>2 DEF ReadoutValue
    <2> HIDE DEF readout
    <2>3. value = IF readout # None THEN readout ELSE own
      BY <1>6, <2>1, <2>2 DEF Or
    <2>4. \A j \in mine(i) : props.gates[j][field] = own
      BY <1>3, <1>6
    <2>5. mine(i) # {}
      BY <1>3
    <2>6. QED
      BY <2>3, <2>4, <2>5 DEF FieldSays, readout
  <1>7. FieldSays(props, name, i, t, "duration", merged.duration)
    <2>1. gate.duration = gate["duration"]
      OBVIOUS
    <2>2. ASSUME t \in ReadoutSites(props, name)
          PROVE  /\ FieldSays(props, name, i - 1, t, "duration", c.duration)
                 /\ merged.duration = Or(c.duration, gate.duration)
      BY <2>2 DEF CalibrationIs, Merge
    <2>3. t \notin ReadoutSites(props, name) => merged.duration = gate.duration
      OBVIOUS
    <2>4. QED
      BY <1>6, <2>1, <2>2, <2>3
  <1>8. FieldSays(props, name, i, t, "fidelity", merged.fidelity)
    <2>1. gate.fidelity = gate["fidelity"]
      OBVIOUS
    <2>2. ASSUME t \in ReadoutSites(props, name)
          PROVE  /\ FieldSays(props, name, i - 1, t, "fidelity", c.fidelity)
                 /\ merged.fidelity = Or(c.fidelity, gate.fidelity)
      BY <2>2 DEF CalibrationIs, Merge
    <2>3. t \notin ReadoutSites(props, name) => merged.fidelity = gate.fidelity
      OBVIOUS
    <2>4. QED
      BY <1>6, <2>1, <2>2, <2>3
  <1>9. (\A j \in Entries(props, name, i) :
             props.gates[j].qubits = t => props.gates[j].operational)
        <=> gate.operational
    <2>1. (\A j \in Entries(props, name, i) :
               props.gates[j].qubits = t => props.gates[j].operational)
          <=> \A j \in mine(i) : props.gates[j].operational
      OBVIOUS
    <2>2. QED
      BY <1>3, <2>1
  <1>10. QED
    BY <1>5, <1>7, <1>8, <1>9 DEF CalibrationIs

\* What the code makes of an operation by an entry that fits.
LEMMA PlacedDescribes ==
  ASSUME NEW conf, NEW props, Documents(conf, props),
         NEW i \in DOMAIN props.gates, NEW p, Parsed(conf, props, i - 1, p), p.ok,
         NEW name \in Names(conf), props.gates[i].gate = name,
         Fitting(conf, props, i)
  PROVE  Describes(conf, props, name, i, Placed(p, props.gates[i]))
  <1> DEFINE gate == props.gates[i]
             t == gate.qubits
             op == p.operations[name]
             old == op.calibrations
             value == [duration |-> gate.duration, fidelity |-> gate.fidelity,
                       operational |-> gate.operational]
             merged == IF Calibrated(p, gate) THEN Merge(old[t], value) ELSE value
             placed == Placed(p, gate)
             configured == ConfiguredSites(conf, name)
             sites == op.sites \cup {t}
             new == [u \in DOMAIN old \cup {t} |-> IF u = t THEN merged ELSE old[u]]
  <1>1. Describes(conf, props, name, i - 1, op) /\ Sound(conf, props, i - 1)
    BY DEF Parsed
  <1>2. i \in Nat /\ i >= 1 /\ i - 1 \in Nat /\ Len(t) \in Nat
    BY EntryTypes
  <1>3. placed = [arity |-> Len(t), sites |-> sites, calibrations |-> new]
    <2>1. op = [arity |-> op.arity, sites |-> op.sites, calibrations |-> old]
      BY <1>1 DEF Describes
    <2>2. placed = [op EXCEPT !.arity = Len(t), !.sites = op.sites \cup {t},
                              !.calibrations = new]
      BY DEF Placed
    <2> HIDE DEF op, old, t, merged, placed, new
    <2>3. QED
      BY <2>1, <2>2
  <1>4. /\ EntrySites(props, name, i) = EntrySites(props, name, i - 1) \cup {t}
        /\ Entries(props, name, i) = Entries(props, name, i - 1) \cup {i}
    BY <1>2, OneMoreEntry
  <1>5. /\ configured # {} => t \in configured
        /\ t \notin EntrySites(props, name, i - 1)
        /\ \A j \in Entries(props, name, i - 1) : Len(props.gates[j].qubits) = Len(t)
    BY DEF Fitting, EntrySites
  <1>6. sites = IF configured # {} THEN configured ELSE EntrySites(props, name, i)
    <2>1. op.sites = IF configured # {} THEN configured
                     ELSE EntrySites(props, name, i - 1)
      BY <1>1 DEF Describes
    <2> HIDE DEF op, t, configured
    <2>2. QED
      BY <1>4, <1>5, <2>1
  <1>7. ASSUME NEW u \in sites PROVE Len(t) = Len(u)
    <2>1. CASE configured # {}
      <3>1. u \in configured /\ t \in configured
        BY <1>5, <1>6, <2>1
      <3>2. ValidConfiguration(conf)
        BY <1>1 DEF Sound, Valid
      <3>3. QED
        BY <3>1, <3>2, ConfiguredTuples
    <2>2. CASE configured = {}
      <3>1. u \in EntrySites(props, name, i - 1) \cup {t}
        BY <1>4, <1>6, <2>2
      <3>2. QED
        BY <1>5, <3>1 DEF EntrySites
    <2>3. QED
      BY <2>1, <2>2
  <1>8. DOMAIN old = ReadoutSites(props, name) \cup EntrySites(props, name, i - 1)
    BY <1>1 DEF Describes
  <1>9. /\ DOMAIN new = DOMAIN old \cup {t}
        /\ new[t] = merged
        /\ \A u \in DOMAIN old : u # t => new[u] = old[u]
    <2> HIDE DEF t, merged, old
    <2>1. QED
      OBVIOUS
  <1>10. CalibrationIs(props, name, i, t, merged)
    <2>1. Calibrated(p, gate) <=> t \in ReadoutSites(props, name)
      BY <1>5, <1>8 DEF Calibrated
    <2>2. ASSUME t \in ReadoutSites(props, name)
          PROVE  /\ CalibrationIs(props, name, i - 1, t, old[t])
                 /\ merged = Merge(old[t], value)
      BY <1>1, <1>8, <2>1, <2>2 DEF Describes
    <2>3. t \notin ReadoutSites(props, name) => merged = value
      BY <2>1
    <2> HIDE DEF merged, old
    <2>4. QED
      BY <1>5, <2>2, <2>3, MergedCalibration
  <1>11. ASSUME NEW u \in DOMAIN old, u # t
         PROVE  CalibrationIs(props, name, i, u, old[u])
    <2>1. CalibrationIs(props, name, i - 1, u, old[u])
      BY <1>1 DEF Describes
    <2>2. QED
      BY <1>2, <1>11, <2>1, OtherCalibration
  <1> HIDE DEF gate, t, op, old, value, merged, placed, configured, sites, new
  <1>12. ASSUME NEW u \in DOMAIN new PROVE CalibrationIs(props, name, i, u, new[u])
    BY <1>9, <1>10, <1>11
  <1>13. /\ placed.arity = Len(t) /\ placed.sites = sites
         /\ placed.calibrations = new
    BY <1>3
  <1>14. t \in sites
    BY DEF sites
  <1>15. DOMAIN new = ReadoutSites(props, name) \cup EntrySites(props, name, i)
    BY <1>4, <1>8, <1>9
  <1>16. Describes(conf, props, name, i, placed)
    BY <1>3, <1>6, <1>7, <1>12, <1>13, <1>14, <1>15 DEF Describes, configured
  <1>17. QED
    BY <1>16 DEF placed, gate

\* One more entry leaves a description of the parse that is one entry longer.
LEMMA StepParsed ==
  ASSUME NEW conf, NEW props, Documents(conf, props),
         NEW i \in DOMAIN props.gates, NEW p, Parsed(conf, props, i - 1, p)
  PROVE  Parsed(conf, props, i, Calibrate(conf, p, props.gates[i]))
  <1> DEFINE gate == props.gates[i]
             q == Calibrate(conf, p, gate)
             name == gate.gate
  <1>1. /\ i \in Nat /\ i >= 1 /\ i - 1 \in Nat
        /\ 1 .. i = (1 .. i - 1) \cup {i}
    BY EntryTypes
  <1>2. Sound(conf, props, i)
           <=> /\ Sound(conf, props, i - 1)
               /\ name \in Names(conf) => Fitting(conf, props, i)
    BY <1>1 DEF Sound
  <1>3. p = [ok |-> p.ok, operations |-> p.operations, readouts |-> p.readouts]
    BY DEF Parsed
  <1>4. p.ok <=> Sound(conf, props, i - 1)
    BY DEF Parsed
  <1>5. CASE ~p.ok
    <2>1. q = p
      BY <1>5 DEF Calibrate
    <2>2. QED
      BY <1>2, <1>3, <1>4, <1>5, <2>1 DEF Parsed
  <1>6. ASSUME p.ok
        PROVE  /\ DOMAIN p.operations = Names(conf)
               /\ p.operations = [n \in Names(conf) |-> p.operations[n]]
               /\ \A n \in Names(conf) :
                     Describes(conf, props, n, i - 1, p.operations[n])
               /\ "measure" \in Names(conf) =>
                     p.readouts = ReadoutsOf(props) \ EntrySites(props, "measure", i - 1)
    BY <1>6 DEF Parsed
  <1>7. ASSUME p.ok, NEW n \in Names(conf), n # name
        PROVE  Describes(conf, props, n, i, p.operations[n])
    BY <1>1, <1>6, <1>7, OtherDescribes
  <1>8. CASE p.ok /\ name \notin Names(conf)
    <2>1. q = p
      BY <1>6, <1>8 DEF Calibrate
    <2>2. \A n \in Names(conf) : Describes(conf, props, n, i, p.operations[n])
      BY <1>7, <1>8
    <2>3. "measure" \in Names(conf) =>
             EntrySites(props, "measure", i) = EntrySites(props, "measure", i - 1)
      BY <1>1, <1>8, OneMoreEntry
    <2>4. p.ok <=> Sound(conf, props, i)
      BY <1>2, <1>4, <1>8
    <2> HIDE DEF q, name
    <2>5. Parsed(conf, props, i, p)
      BY <1>3, <1>6, <1>8, <2>2, <2>3, <2>4 DEF Parsed
    <2>6. QED
      BY <2>1, <2>5 DEF q
  <1>9. CASE p.ok /\ name \in Names(conf) /\ ~Fitting(conf, props, i)
    <2>1. ~Accepted(conf, p, gate)
      BY <1>9, AcceptedIsFitting
    <2>2. q = [p EXCEPT !.ok = FALSE]
      BY <1>6, <1>9, <2>1 DEF Calibrate
    <2>3. q = [ok |-> FALSE, operations |-> p.operations, readouts |-> p.readouts]
      <3> HIDE DEF q
      <3>1. QED
        BY <1>3, <2>2
    <2>4. ~q.ok /\ q = [ok |-> q.ok, operations |-> q.operations, readouts |-> q.readouts]
      <3> HIDE DEF q
      <3>1. QED
        BY <2>3
    <2>5. ~Sound(conf, props, i)
      BY <1>2, <1>9
    <2>6. QED
      BY <2>4, <2>5 DEF Parsed
  <1>10. CASE p.ok /\ name \in Names(conf) /\ Fitting(conf, props, i)
    <2> DEFINE placed == Placed(p, gate)
               operations == [p.operations EXCEPT ![name] = placed]
               readouts == IF Calibrated(p, gate) THEN p.readouts \ {gate.qubits}
                           ELSE p.readouts
    <2>1. Accepted(conf, p, gate)
      BY <1>10, AcceptedIsFitting
    <2>2. q = [p EXCEPT !.operations = operations, !.readouts = readouts]
      BY <1>6, <1>10, <2>1 DEF Calibrate
    <2>3. q = [ok |-> p.ok, operations |-> operations, readouts |-> readouts]
      <3> HIDE DEF q, operations, readouts
      <3>1. QED
        BY <1>3, <2>2
    <2>4. Describes(conf, props, name, i, placed)
      BY <1>10, PlacedDescribes
    <2>5. DOMAIN operations = Names(conf)
      BY <1>6, <1>10
    <2>6. ASSUME NEW n \in Names(conf)
          PROVE  Describes(conf, props, n, i, operations[n])
      <3>1. operations[n] = IF n = name THEN placed ELSE p.operations[n]
        BY <1>6, <1>10
      <3> HIDE DEF placed, operations, name
      <3>2. QED
        BY <1>7, <1>10, <2>4, <3>1
    <2>7. ASSUME "measure" \in Names(conf)
          PROVE  readouts = ReadoutsOf(props) \ EntrySites(props, "measure", i)
      <3>1. p.readouts = ReadoutsOf(props) \ EntrySites(props, "measure", i - 1)
        BY <1>6, <1>10, <2>7
      <3>2. /\ gate.qubits \notin EntrySites(props, name, i - 1)
            /\ DOMAIN p.operations[name].calibrations
                  = ReadoutSites(props, name) \cup EntrySites(props, name, i - 1)
        <4>1. gate.qubits \notin EntrySites(props, name, i - 1)
          BY <1>10 DEF Fitting, EntrySites
        <4>2. Describes(conf, props, name, i - 1, p.operations[name])
          BY <1>6, <1>10
        <4>3. QED
          BY <4>1, <4>2 DEF Describes
      <3>3. Calibrated(p, gate) <=> gate.qubits \in ReadoutSites(props, name)
        BY <3>2 DEF Calibrated
      <3>4. CASE name = "measure"
        <4>1. EntrySites(props, "measure", i)
                 = EntrySites(props, "measure", i - 1) \cup {gate.qubits}
          BY <1>1, <3>4, OneMoreEntry
        <4>2. Calibrated(p, gate) <=> gate.qubits \in ReadoutsOf(props)
          BY <3>3, <3>4 DEF ReadoutSites
        <4>3. QED
          BY <3>1, <4>1, <4>2
      <3>5. CASE name # "measure"
        <4>1. EntrySites(props, "measure", i) = EntrySites(props, "measure", i - 1)
          BY <1>1, <3>5, OneMoreEntry
        <4>2. ~Calibrated(p, gate)
          BY <3>3, <3>5 DEF ReadoutSites
        <4>3. QED
          BY <3>1, <4>1, <4>2
      <3>6. QED
        BY <3>4, <3>5
    <2>8. p.ok <=> Sound(conf, props, i)
      BY <1>2, <1>4, <1>10
    <2>9. operations = [n \in Names(conf) |-> operations[n]]
      BY <1>6, <1>10
    <2> HIDE DEF q, operations, readouts
    <2>10. /\ (q.ok <=> p.ok) /\ q.operations = operations /\ q.readouts = readouts
           /\ q = [ok |-> q.ok, operations |-> q.operations, readouts |-> q.readouts]
      BY <2>3
    <2>11. Parsed(conf, props, i, q)
      BY <2>5, <2>6, <2>7, <2>8, <2>9, <2>10 DEF Parsed
    <2>12. QED
      BY <2>11 DEF q
  <1>11. QED
    BY <1>5, <1>8, <1>9, <1>10

\* The parse of no entry.
Start(conf, props) ==
    [ok |-> ValidConfiguration(conf) /\ Len(props.qubits) <= conf.count,
     operations |-> WithReadout(Configured(conf), props),
     readouts |-> ReadoutsOf(props)]

\* What the code writes for a measurement of a qubit before it reads an entry.
LEMMA ReadoutCalibration ==
  ASSUME NEW conf, NEW props, Documents(conf, props), NEW t \in ReadoutsOf(props)
  PROVE  CalibrationIs(props, "measure", 0, t, Readout(props.qubits[t[1] + 1]))
  <1> DEFINE qubit == props.qubits[t[1] + 1]
             c == Readout(qubit)
  <1>1. Entries(props, "measure", 0) = {}
    BY DEF Entries
  <1>2. t \in ReadoutSites(props, "measure")
    BY DEF ReadoutSites
  <1>3. c = [duration |-> qubit.duration, fidelity |-> qubit.fidelity,
             operational |-> TRUE]
    BY DEF Readout
  <1>4. ASSUME NEW field
        PROVE  FieldSays(props, "measure", 0, t, field, qubit[field])
    BY <1>1, <1>2 DEF FieldSays, ReadoutValue
  <1>5. qubit.duration = qubit["duration"] /\ qubit.fidelity = qubit["fidelity"]
    OBVIOUS
  <1> HIDE DEF c, qubit
  <1>6. c.operational /\ c.duration = qubit.duration /\ c.fidelity = qubit.fidelity
    BY <1>3
  <1>7. FieldSays(props, "measure", 0, t, "duration", qubit.duration)
    BY <1>4, <1>5
  <1>8. FieldSays(props, "measure", 0, t, "fidelity", qubit.fidelity)
    BY <1>4, <1>5
  <1>9. CalibrationIs(props, "measure", 0, t, c)
    BY <1>1, <1>6, <1>7, <1>8 DEF CalibrationIs
  <1>10. QED
    BY <1>9 DEF c, qubit

\* Before the first entry the parse says what the configuration says.
LEMMA StartParsed ==
  ASSUME NEW conf, NEW props, Documents(conf, props)
  PROVE  Parsed(conf, props, 0, Start(conf, props))
  <1> DEFINE p == Start(conf, props)
             table == Configured(conf)
  <1>1. p = [ok |-> p.ok, operations |-> WithReadout(table, props),
             readouts |-> ReadoutsOf(props)]
    <2> DEFINE valid == ValidConfiguration(conf) /\ Len(props.qubits) <= conf.count
    <2>1. p = [ok |-> valid, operations |-> WithReadout(table, props),
               readouts |-> ReadoutsOf(props)]
      BY Zenon DEF Start
    <2> HIDE DEF p, valid
    <2>2. QED
      BY <2>1
  <1>2. p.ok <=> Sound(conf, props, 0)
    <2> DEFINE valid == ValidConfiguration(conf) /\ Len(props.qubits) <= conf.count
    <2>1. p = [ok |-> valid, operations |-> WithReadout(table, props),
               readouts |-> ReadoutsOf(props)]
      BY Zenon DEF Start
    <2>2. Sound(conf, props, 0) <=> valid
      BY DEF Sound, Valid
    <2> HIDE DEF p, valid
    <2>3. p.ok = valid
      BY <2>1
    <2>4. QED
      BY <2>2, <2>3
  <1>3. /\ DOMAIN table = Names(conf)
        /\ table = [n \in Names(conf) |-> table[n]]
        /\ \A n \in Names(conf) : table[n] = Operation(ConfiguredSites(conf, n))
    BY DEF Names, Configured
  <1>4. ASSUME ValidConfiguration(conf), NEW n \in Names(conf)
        PROVE  Describes(conf, props, n, 0, WithReadout(table, props)[n])
    <2> DEFINE sites == ConfiguredSites(conf, n)
               op == Operation(sites)
               new == WithReadout(table, props)[n]
               calibrations == IF n = "measure"
                               THEN [t \in ReadoutsOf(props) |->
                                        Readout(props.qubits[t[1] + 1])]
                               ELSE << >>
    <2>1. op = [arity |-> op.arity, sites |-> sites, calibrations |-> << >>]
      BY DEF Operation
    <2>2. sites = {} => op.arity = None
      BY DEF Operation
    <2>3. ASSUME NEW t \in sites PROVE op.arity = Len(t)
      <3>1. sites # {}
        OBVIOUS
      <3>2. PICK u \in sites : op.arity = Len(u)
        BY <3>1 DEF Operation
      <3>3. QED
        BY <1>4, <3>2, ConfiguredTuples
    <2>4. Entries(props, n, 0) = {} /\ EntrySites(props, n, 0) = {}
      BY DEF Entries, EntrySites
    <2>5. new = [arity |-> op.arity, sites |-> sites, calibrations |-> calibrations]
      <3>1. CASE n = "measure"
        <4>1. WithReadout(table, props)
                 = [table EXCEPT !["measure"].calibrations = calibrations]
          BY <1>3, <3>1 DEF WithReadout
        <4>2. new = [op EXCEPT !.calibrations = calibrations]
          <5> HIDE DEF calibrations, op
          <5>1. QED
            BY <1>3, <3>1, <4>1 DEF op
        <4> HIDE DEF new, op, calibrations, sites
        <4>3. QED
          BY <2>1, <4>2
      <3>2. CASE n # "measure"
        <4>1. new = op
          BY <1>3, <3>2 DEF WithReadout
        <4>2. calibrations = << >>
          BY <3>2
        <4> HIDE DEF new, op, calibrations, sites
        <4>3. QED
          BY <2>1, <4>1, <4>2
      <3>3. QED
        BY <3>1, <3>2
    <2>6. DOMAIN calibrations = ReadoutSites(props, n) \cup EntrySites(props, n, 0)
      <3>1. CASE n = "measure"
        BY <2>4, <3>1 DEF ReadoutSites
      <3>2. CASE n # "measure"
        BY <2>4, <3>2 DEF ReadoutSites
      <3>3. QED
        BY <3>1, <3>2
    <2>7. ASSUME NEW t \in DOMAIN calibrations
          PROVE  CalibrationIs(props, n, 0, t, calibrations[t])
      <3>1. n = "measure" /\ t \in ReadoutsOf(props)
        BY <2>4, <2>6 DEF ReadoutSites
      <3>2. calibrations[t] = Readout(props.qubits[t[1] + 1])
        BY <3>1
      <3>3. QED
        BY <3>1, <3>2, ReadoutCalibration
    <2> HIDE DEF op, new, calibrations
    <2>8. /\ new.arity = op.arity /\ new.sites = sites
          /\ new.calibrations = calibrations
      BY <2>5
    <2>9. Describes(conf, props, n, 0, new)
      BY <2>2, <2>3, <2>4, <2>5, <2>6, <2>7, <2>8 DEF Describes
    <2>10. QED
      BY <2>9 DEF new
  <1>5. /\ DOMAIN WithReadout(table, props) = Names(conf)
        /\ WithReadout(table, props)
              = [n \in Names(conf) |-> WithReadout(table, props)[n]]
    BY <1>3 DEF WithReadout
  <1>6. EntrySites(props, "measure", 0) = {}
    BY DEF EntrySites, Entries
  <1>7. Sound(conf, props, 0) => ValidConfiguration(conf)
    BY DEF Sound, Valid
  <1> HIDE DEF p, table
  <1>8. p.operations = WithReadout(table, props) /\ p.readouts = ReadoutsOf(props)
    BY <1>1
  <1>9. Parsed(conf, props, 0, p)
    BY <1>1, <1>2, <1>4, <1>5, <1>6, <1>7, <1>8 DEF Parsed
  <1>10. QED
    BY <1>9 DEF p

\* What parseMetadata has read after the last entry.
LEMMA ParseDescribes ==
  ASSUME NEW conf, NEW props, Documents(conf, props)
  PROVE  Parsed(conf, props, Len(props.gates),
                ParseEntries(conf, Start(conf, props), props.gates))
  <1> DEFINE n == Len(props.gates)
  <1>1. n \in Nat /\ DOMAIN props.gates = 1 .. n
    BY DEF Documents
  <1>2. PICK p : /\ p[0] = Start(conf, props)
                 /\ \A i \in 1 .. n : p[i] = Calibrate(conf, p[i - 1], props.gates[i])
                 /\ ParseEntries(conf, Start(conf, props), props.gates) = p[n]
    <2>1. \E p : Parses(conf, Start(conf, props), props.gates, n, p)
      BY <1>1, ParseSteps
    <2>2. QED
      BY <2>1, Zenon DEF Parses
  <1> DEFINE S == {i \in Nat : i <= n => Parsed(conf, props, i, p[i])}
  <1>3. 0 \in S
    BY <1>2, StartParsed
  <1>4. ASSUME NEW i \in Nat, i \in S PROVE i + 1 \in S
    <2>1. SUFFICES ASSUME i + 1 <= n PROVE Parsed(conf, props, i + 1, p[i + 1])
      OBVIOUS
    <2>2. i + 1 \in DOMAIN props.gates /\ i + 1 \in 1 .. n /\ (i + 1) - 1 = i /\ i <= n
      BY <1>1, <2>1
    <2>3. Parsed(conf, props, i, p[i])
      BY <1>4, <2>2
    <2> DEFINE k == i + 1
    <2>4. k - 1 = i /\ k \in 1 .. n /\ k \in DOMAIN props.gates
      BY <2>2
    <2> HIDE DEF k
    <2>5. p[k] = Calibrate(conf, p[k - 1], props.gates[k])
      BY <1>2, <2>4
    <2>6. Parsed(conf, props, k, Calibrate(conf, p[k - 1], props.gates[k]))
      BY <2>3, <2>4, StepParsed
    <2>7. QED
      BY <2>5, <2>6 DEF k
  <1>5. Nat \subseteq S
    <2> HIDE DEF S
    <2>1. QED
      BY <1>3, <1>4, SetInduction
  <1>6. n \in S
    BY <1>1, <1>5
  <1>7. QED
    BY <1>1, <1>2, <1>6

-----------------------------------------------------------------------------
(* The metadata *)

\* The qubits that do not work.
FaultySites(props) ==
    {i - 1 : i \in {j \in DOMAIN props.qubits : ~props.qubits[j].operational}}

\* Metadata are refused if and only if the documents contradict each other,
\* and offer what the documents describe and what works of it.
THEOREM MetadataDescribe ==
  ASSUME NEW conf, NEW props, Documents(conf, props),
         NEW m, m = ParseMetadata(conf, props)
  PROVE  /\ m # Malformed <=> Sound(conf, props, Len(props.gates))
         /\ m # Malformed =>
               /\ m.name = conf.name
               /\ DOMAIN m.operations = Names(conf)
               /\ \A name \in Names(conf) : \E op :
                     /\ Describes(conf, props, name, Len(props.gates), op)
                     /\ m.operations[name] = Working(op, FaultySites(props))
  <1> DEFINE start == Start(conf, props)
             parse == ParseEntries(conf, start, props.gates)
             offered == [name \in DOMAIN parse.operations |->
                            Working(parse.operations[name], FaultySites(props))]
             n == Len(props.gates)
             good == [name |-> conf.name, count |-> conf.count,
                      coupling |-> conf.coupling, operations |-> offered]
  <1>1. m = IF ~start.ok THEN Malformed ELSE IF ~parse.ok THEN Malformed ELSE good
    BY Zenon DEF ParseMetadata, ParseEntries, Start, FaultySites
  <1>2. Parsed(conf, props, n, parse)
    BY ParseDescribes
  <1>3. Parsed(conf, props, 0, start)
    BY StartParsed
  <1>4. /\ start.ok <=> Sound(conf, props, 0)
        /\ parse.ok <=> Sound(conf, props, n)
    BY <1>2, <1>3 DEF Parsed
  <1>5. Sound(conf, props, n) => Sound(conf, props, 0)
    BY DEF Sound
  <1>6. good # Malformed
    <2> HIDE DEF offered
    <2>1. DOMAIN good # DOMAIN Malformed
      <3>1. "name" \in DOMAIN good
        OBVIOUS
      <3>2. "name" \notin DOMAIN Malformed
        BY DEF Malformed
      <3>3. QED
        BY <3>1, <3>2
    <2> HIDE DEF good
    <2>2. QED
      BY <2>1
  <1>7. parse.ok =>
           /\ DOMAIN parse.operations = Names(conf)
           /\ \A name \in Names(conf) :
                 Describes(conf, props, name, n, parse.operations[name])
    BY <1>2 DEF Parsed
  <1>8. good.name = conf.name /\ good.operations = offered
    <2> HIDE DEF offered
    <2>1. QED
      OBVIOUS
  <1>9. /\ DOMAIN offered = DOMAIN parse.operations
        /\ \A name \in DOMAIN parse.operations :
              offered[name] = Working(parse.operations[name], FaultySites(props))
    OBVIOUS
  <1> HIDE DEF good, start, parse, offered, n
  <1>10. m # Malformed <=> Sound(conf, props, n)
    BY <1>1, <1>4, <1>5, <1>6
  <1>11. ASSUME m # Malformed
         PROVE  /\ m.name = conf.name
                /\ DOMAIN m.operations = Names(conf)
                /\ \A name \in Names(conf) : \E op :
                      /\ Describes(conf, props, name, n, op)
                      /\ m.operations[name] = Working(op, FaultySites(props))
    <2>1. m = good /\ parse.ok
      BY <1>1, <1>11
    <2>2. QED
      BY <1>7, <1>8, <1>9, <2>1
  <1>12. QED
    BY <1>10, <1>11 DEF n

-----------------------------------------------------------------------------
(* The inductive invariant *)

\* The configuration c of a session whose client has set the parameters g.
Says(c, g) ==
    /\ c.apiKey = Or(g["TOKEN"], "")
    /\ c.apiKeyConfigured <=> g["TOKEN"] # None
    /\ c.authFile = Or(g["AUTHFILE"], Unset)
    /\ c.backend = Or(g["BACKEND"], "")
    /\ c.backendConfigured <=> g["BACKEND"] # None
    /\ c.crn = Or(g["INSTANCE_CRN"], "")
    /\ c.crnConfigured <=> g["INSTANCE_CRN"] # None
    /\ c.baseUrl = Or(g["BASEURL"], "")
    /\ c.authUrl = Or(g["AUTHURL"], DefaultAuthUrl)
    /\ c.requestTimeout = Or(g["REQUEST_TIMEOUT"], DefaultTimeout)

Inv ==
    /\ world \in AllWorlds
    /\ given = [p \in Parameters |-> given[p]]
    /\ \A p \in Parameters : given[p] \in Values[p] \cup {None}
    /\ auth = None => configuration \in Configuration /\ Says(configuration, given)

-----------------------------------------------------------------------------
(* Parameters *)

\* The strings that configurations are made of are all there.
LEMMA TextHolds ==
  /\ "" \in Text /\ DefaultAuthUrl \in Text
  /\ \A crn \in DOMAIN Region : DefaultBaseUrl(Region[crn]) \in Text
  /\ \A p \in Parameters \ {"REQUEST_TIMEOUT"} : Values[p] \subseteq Text
  /\ \A w \in AllWorlds :
        /\ w.environment.apiKey \in Text
        /\ w.environment.backend \in Text
        /\ w.environment.crn \in Text
        /\ \A path \in Values["AUTHFILE"] \ {""} : w.files[path] \in Text
  <1>1. "" \in Text /\ DefaultAuthUrl \in Text
    BY DEF Text
  <1>2. ASSUME NEW crn \in DOMAIN Region
        PROVE  DefaultBaseUrl(Region[crn]) \in Text
    <2>1. DefaultBaseUrl(Region[crn]) \in Urls
      BY DEF Urls
    <2>2. QED
      BY <2>1 DEF Text
  <1>3. ASSUME NEW p \in Parameters \ {"REQUEST_TIMEOUT"}
        PROVE  Values[p] \subseteq Text
    <2>1. Values[p] \subseteq Chosen
      BY DEF Chosen
    <2>2. QED
      BY <2>1 DEF Text
  <1>4. ASSUME NEW w \in AllWorlds
        PROVE  Surroundings(w) \subseteq Text
    BY DEF Text
  <1>5. ASSUME NEW w \in AllWorlds
        PROVE  /\ w.environment.apiKey \in Surroundings(w)
               /\ w.environment.backend \in Surroundings(w)
               /\ w.environment.crn \in Surroundings(w)
    BY DEF Surroundings
  <1>6. ASSUME NEW w \in AllWorlds, NEW path \in Values["AUTHFILE"] \ {""}
        PROVE  w.files[path] \in Surroundings(w)
    BY DEF Surroundings
  <1>7. QED
    BY <1>1, <1>2, <1>3, <1>4, <1>5, <1>6

\* Configurations are the same if they have the same fields.
LEMMA SameConfiguration ==
  ASSUME NEW c \in Configuration, NEW d \in Configuration,
         c.apiKey = d.apiKey, c.apiKeyConfigured = d.apiKeyConfigured,
         c.authFile = d.authFile, c.backend = d.backend,
         c.backendConfigured = d.backendConfigured, c.crn = d.crn,
         c.crnConfigured = d.crnConfigured, c.baseUrl = d.baseUrl,
         c.authUrl = d.authUrl, c.requestTimeout = d.requestTimeout
  PROVE  c = d
  BY DEF Configuration

\* Only one configuration is what the parameters say.
LEMMA SaidOnce ==
  ASSUME NEW c \in Configuration, NEW d \in Configuration, NEW g,
         Says(c, g), Says(d, g)
  PROVE  c = d
  <1>1. /\ c.apiKeyConfigured = d.apiKeyConfigured
        /\ c.backendConfigured = d.backendConfigured
        /\ c.crnConfigured = d.crnConfigured
    BY DEF Says, Configuration
  <1>2. QED
    BY <1>1, SameConfiguration DEF Says

\* A parameter that is set says so, and leaves the others alone.
LEMMA SetOne ==
  ASSUME NEW c \in Configuration,
         NEW g, g = [q \in Parameters |-> g[q]], Says(c, g),
         NEW p \in Parameters, NEW v \in Values[p],
         NEW h, h = [g EXCEPT ![p] = v]
  PROVE  /\ WithParameter(c, p, v) \in Configuration
         /\ Says(WithParameter(c, p, v), h)
         /\ h = g => WithParameter(c, p, v) = c
  <1>1. /\ h[p] = v /\ v # None
        /\ \A q \in Parameters : q # p => h[q] = g[q]
    BY ValuesAssumption
  <1> DEFINE Same(q) == h[q] = g[q]
             d == WithParameter(c, p, v)
  <1>0. \A x : Or(v, x) = v
    BY <1>1 DEF Or
  <1>2. CASE p = "TOKEN"
    <2>1. d = [c EXCEPT !.apiKey = v, !.apiKeyConfigured = TRUE]
      BY <1>2 DEF WithParameter
    <2>2. v \in Text
      BY <1>2, ValuesAssumption, TextHolds DEF Parameters
    <2>3. d \in Configuration
      BY <2>1, <2>2 DEF Configuration
    <2>4. /\ d.apiKey = v /\ d.apiKeyConfigured = TRUE
          /\ d.authFile = c.authFile /\ d.backend = c.backend
          /\ d.backendConfigured = c.backendConfigured /\ d.crn = c.crn
          /\ d.crnConfigured = c.crnConfigured /\ d.baseUrl = c.baseUrl
          /\ d.authUrl = c.authUrl /\ d.requestTimeout = c.requestTimeout
      BY <2>1 DEF Configuration
    <2>5. /\ h["TOKEN"] = v
          /\ Same("AUTHFILE") /\ Same("BASEURL")
          /\ Same("AUTHURL") /\ Same("BACKEND")
          /\ Same("INSTANCE_CRN") /\ Same("REQUEST_TIMEOUT")
      BY <1>1, <1>2 DEF Parameters
    <2> HIDE DEF d
    <2>6. Says(d, h)
      BY <1>1, <1>0, <2>4, <2>5, ZenonT(60) DEF Says
    <2>7. h = g => d = c
      BY <2>3, <2>6, SaidOnce
    <2>8. QED
      BY <2>3, <2>6, <2>7 DEF d
  <1>3. CASE p = "AUTHFILE"
    <2>1. d = [c EXCEPT !.authFile = v]
      BY <1>3 DEF WithParameter
    <2>2. v \in Text
      BY <1>3, ValuesAssumption, TextHolds DEF Parameters
    <2>3. d \in Configuration
      BY <2>1, <2>2 DEF Configuration
    <2>4. /\ d.authFile = v
          /\ d.apiKey = c.apiKey /\ d.apiKeyConfigured = c.apiKeyConfigured
          /\ d.backend = c.backend /\ d.backendConfigured = c.backendConfigured
          /\ d.crn = c.crn /\ d.crnConfigured = c.crnConfigured
          /\ d.baseUrl = c.baseUrl /\ d.authUrl = c.authUrl
          /\ d.requestTimeout = c.requestTimeout
      BY <2>1 DEF Configuration
    <2>5. /\ h["AUTHFILE"] = v
          /\ Same("TOKEN") /\ Same("BASEURL")
          /\ Same("AUTHURL") /\ Same("BACKEND")
          /\ Same("INSTANCE_CRN") /\ Same("REQUEST_TIMEOUT")
      BY <1>1, <1>3 DEF Parameters
    <2> HIDE DEF d
    <2>6. Says(d, h)
      BY <1>1, <1>0, <2>4, <2>5, ZenonT(60) DEF Says
    <2>7. h = g => d = c
      BY <2>3, <2>6, SaidOnce
    <2>8. QED
      BY <2>3, <2>6, <2>7 DEF d
  <1>4. CASE p = "BASEURL"
    <2>1. d = [c EXCEPT !.baseUrl = v]
      BY <1>4 DEF WithParameter
    <2>2. v \in Text
      BY <1>4, ValuesAssumption, TextHolds DEF Parameters
    <2>3. d \in Configuration
      BY <2>1, <2>2 DEF Configuration
    <2>4. /\ d.baseUrl = v
          /\ d.apiKey = c.apiKey /\ d.apiKeyConfigured = c.apiKeyConfigured
          /\ d.authFile = c.authFile /\ d.backend = c.backend
          /\ d.backendConfigured = c.backendConfigured /\ d.crn = c.crn
          /\ d.crnConfigured = c.crnConfigured /\ d.authUrl = c.authUrl
          /\ d.requestTimeout = c.requestTimeout
      BY <2>1 DEF Configuration
    <2>5. /\ h["BASEURL"] = v
          /\ Same("TOKEN") /\ Same("AUTHFILE")
          /\ Same("AUTHURL") /\ Same("BACKEND")
          /\ Same("INSTANCE_CRN") /\ Same("REQUEST_TIMEOUT")
      BY <1>1, <1>4 DEF Parameters
    <2> HIDE DEF d
    <2>6. Says(d, h)
      BY <1>1, <1>0, <2>4, <2>5, ZenonT(60) DEF Says
    <2>7. h = g => d = c
      BY <2>3, <2>6, SaidOnce
    <2>8. QED
      BY <2>3, <2>6, <2>7 DEF d
  <1>5. CASE p = "AUTHURL"
    <2>1. d = [c EXCEPT !.authUrl = v]
      BY <1>5 DEF WithParameter
    <2>2. v \in Text
      BY <1>5, ValuesAssumption, TextHolds DEF Parameters
    <2>3. d \in Configuration
      BY <2>1, <2>2 DEF Configuration
    <2>4. /\ d.authUrl = v
          /\ d.apiKey = c.apiKey /\ d.apiKeyConfigured = c.apiKeyConfigured
          /\ d.authFile = c.authFile /\ d.backend = c.backend
          /\ d.backendConfigured = c.backendConfigured /\ d.crn = c.crn
          /\ d.crnConfigured = c.crnConfigured /\ d.baseUrl = c.baseUrl
          /\ d.requestTimeout = c.requestTimeout
      BY <2>1 DEF Configuration
    <2>5. /\ h["AUTHURL"] = v
          /\ Same("TOKEN") /\ Same("AUTHFILE")
          /\ Same("BASEURL") /\ Same("BACKEND")
          /\ Same("INSTANCE_CRN") /\ Same("REQUEST_TIMEOUT")
      BY <1>1, <1>5 DEF Parameters
    <2> HIDE DEF d
    <2>6. Says(d, h)
      BY <1>1, <1>0, <2>4, <2>5, ZenonT(60) DEF Says
    <2>7. h = g => d = c
      BY <2>3, <2>6, SaidOnce
    <2>8. QED
      BY <2>3, <2>6, <2>7 DEF d
  <1>6. CASE p = "BACKEND"
    <2>1. d = [c EXCEPT !.backend = v, !.backendConfigured = TRUE]
      BY <1>6 DEF WithParameter
    <2>2. v \in Text
      BY <1>6, ValuesAssumption, TextHolds DEF Parameters
    <2>3. d \in Configuration
      BY <2>1, <2>2 DEF Configuration
    <2>4. /\ d.backend = v /\ d.backendConfigured = TRUE
          /\ d.apiKey = c.apiKey /\ d.apiKeyConfigured = c.apiKeyConfigured
          /\ d.authFile = c.authFile /\ d.crn = c.crn
          /\ d.crnConfigured = c.crnConfigured /\ d.baseUrl = c.baseUrl
          /\ d.authUrl = c.authUrl /\ d.requestTimeout = c.requestTimeout
      BY <2>1 DEF Configuration
    <2>5. /\ h["BACKEND"] = v
          /\ Same("TOKEN") /\ Same("AUTHFILE")
          /\ Same("BASEURL") /\ Same("AUTHURL")
          /\ Same("INSTANCE_CRN") /\ Same("REQUEST_TIMEOUT")
      BY <1>1, <1>6 DEF Parameters
    <2> HIDE DEF d
    <2>6. Says(d, h)
      BY <1>1, <1>0, <2>4, <2>5, ZenonT(60) DEF Says
    <2>7. h = g => d = c
      BY <2>3, <2>6, SaidOnce
    <2>8. QED
      BY <2>3, <2>6, <2>7 DEF d
  <1>7. CASE p = "INSTANCE_CRN"
    <2>1. d = [c EXCEPT !.crn = v, !.crnConfigured = TRUE]
      BY <1>7 DEF WithParameter
    <2>2. v \in Text
      BY <1>7, ValuesAssumption, TextHolds DEF Parameters
    <2>3. d \in Configuration
      BY <2>1, <2>2 DEF Configuration
    <2>4. /\ d.crn = v /\ d.crnConfigured = TRUE
          /\ d.apiKey = c.apiKey /\ d.apiKeyConfigured = c.apiKeyConfigured
          /\ d.authFile = c.authFile /\ d.backend = c.backend
          /\ d.backendConfigured = c.backendConfigured /\ d.baseUrl = c.baseUrl
          /\ d.authUrl = c.authUrl /\ d.requestTimeout = c.requestTimeout
      BY <2>1 DEF Configuration
    <2>5. /\ h["INSTANCE_CRN"] = v
          /\ Same("TOKEN") /\ Same("AUTHFILE")
          /\ Same("BASEURL") /\ Same("AUTHURL")
          /\ Same("BACKEND") /\ Same("REQUEST_TIMEOUT")
      BY <1>1, <1>7 DEF Parameters
    <2> HIDE DEF d
    <2>6. Says(d, h)
      BY <1>1, <1>0, <2>4, <2>5 DEF Says
    <2>7. h = g => d = c
      BY <2>3, <2>6, SaidOnce
    <2>8. QED
      BY <2>3, <2>6, <2>7 DEF d
  <1>8. CASE p = "REQUEST_TIMEOUT"
    <2>1. d = [c EXCEPT !.requestTimeout = v]
      BY <1>8 DEF WithParameter
    <2>2. v \in Values["REQUEST_TIMEOUT"]
      BY <1>8, ValuesAssumption, TextHolds DEF Parameters
    <2>3. d \in Configuration
      BY <2>1, <2>2 DEF Configuration
    <2>4. /\ d.requestTimeout = v
          /\ d.apiKey = c.apiKey /\ d.apiKeyConfigured = c.apiKeyConfigured
          /\ d.authFile = c.authFile /\ d.backend = c.backend
          /\ d.backendConfigured = c.backendConfigured /\ d.crn = c.crn
          /\ d.crnConfigured = c.crnConfigured /\ d.baseUrl = c.baseUrl
          /\ d.authUrl = c.authUrl
      BY <2>1 DEF Configuration
    <2>5. /\ h["REQUEST_TIMEOUT"] = v
          /\ Same("TOKEN") /\ Same("AUTHFILE")
          /\ Same("BASEURL") /\ Same("AUTHURL")
          /\ Same("BACKEND") /\ Same("INSTANCE_CRN")
      BY <1>1, <1>8 DEF Parameters
    <2> HIDE DEF d
    <2>6. Says(d, h)
      BY <1>1, <1>0, <2>4, <2>5, ZenonT(60) DEF Says
    <2>7. h = g => d = c
      BY <2>3, <2>6, SaidOnce
    <2>8. QED
      BY <2>3, <2>6, <2>7 DEF d
  <1>9. QED
    BY <1>2, <1>3, <1>4, <1>5, <1>6, <1>7, <1>8 DEF Parameters

-----------------------------------------------------------------------------
(* What initialization resolves *)

\* A refusal is no success.
LEMMA RefusalFails ==
  ASSUME NEW status, status # "SUCCESS"
  PROVE  Refusal(status) # Success
  BY DEF Refusal, Success, Failure

\* What is got is a value, and what is not got is a failure.
LEMMA GotOrNot ==
  /\ \A v : Got(v).value = v /\ Got(v).failure = Success
  /\ \A s \in {"PERMISSIONDENIED", "INVALIDARGUMENT"} :
        NotGot(s).value = "" /\ NotGot(s).failure # Success
  <1>1. \A v : Got(v).value = v /\ Got(v).failure = Success
    BY DEF Got
  <1>2. ASSUME NEW s \in {"PERMISSIONDENIED", "INVALIDARGUMENT"}
        PROVE  NotGot(s).value = "" /\ NotGot(s).failure # Success
    <2>1. NotGot(s).value = "" /\ NotGot(s).failure = Refusal(s)
      BY DEF NotGot
    <2>2. QED
      BY <2>1, RefusalFails
  <1>3. QED
    BY <1>1, <1>2

\* The key is a string, and the key of its first source if there is one.
LEMMA KeyOfFirstSource ==
  ASSUME Inv, auth = None,
         NEW key, key = ApiKey(configuration, world.environment, world.files)
  PROVE  /\ key.value \in Text
         /\ key.failure = Success => key.value = FirstKey /\ FirstKey \notin NoKeys
  <1> DEFINE token == given["TOKEN"]
             path == given["AUTHFILE"]
             file == world.files[path]
  <1>1. /\ configuration.apiKey = Or(token, "")
        /\ configuration.apiKeyConfigured <=> token # None
        /\ configuration.authFile = Or(path, Unset)
    BY DEF Inv, Says
  <1>2. /\ token \in Values["TOKEN"] \cup {None}
        /\ path \in Values["AUTHFILE"] \cup {None}
    BY DEF Inv, Parameters
  <1>3. /\ world.environment.apiKey \in Text
        /\ world.environment.apiKey \notin NoKeys
        /\ path \notin {None, ""} => file \in Text
    BY <1>2, KeysAssumption, TextHolds DEF Inv
  <1>4. CASE token # None
    <2>1. key = Got(token)
      BY <1>1, <1>4 DEF ApiKey, Or
    <2>2. token \in Text /\ token \notin NoKeys
      BY <1>2, <1>4, ValuesAssumption, KeysAssumption, TextHolds DEF Parameters
    <2>3. FirstKey = token
      BY <1>4 DEF FirstKey, Explicitly
    <2>4. QED
      BY <2>1, <2>2, <2>3, GotOrNot
  <1>5. CASE token = None /\ path = None
    <2>1. key = Got(world.environment.apiKey)
      BY <1>1, <1>5 DEF ApiKey, Or
    <2>2. FirstKey = world.environment.apiKey
      BY <1>5 DEF FirstKey, Explicitly
    <2>3. QED
      BY <1>3, <2>1, <2>2, GotOrNot
  <1>6. CASE token = None /\ path # None
    <2>1. path # Unset
      BY <1>2, <1>6, ValuesAssumption
    <2>2. key = ReadApiKey(path, world.files)
      BY <1>1, <1>6, <2>1 DEF ApiKey, Or
    <2>3. CASE path = ""
      <3>1. key = NotGot("INVALIDARGUMENT")
        BY <2>2, <2>3 DEF ReadApiKey
      <3>2. key.value = "" /\ key.failure # Success
        BY <3>1, GotOrNot
      <3>3. QED
        BY <3>2, TextHolds
    <2>4. CASE path # "" /\ file \in NoKeys
      <3>1. \E status \in {"PERMISSIONDENIED", "INVALIDARGUMENT"} : key = NotGot(status)
        BY <2>2, <2>4 DEF ReadApiKey, NoKeys
      <3>2. key.value = "" /\ key.failure # Success
        BY <3>1, GotOrNot
      <3>3. QED
        BY <3>2, TextHolds
    <2>5. CASE path # "" /\ file \notin NoKeys
      <3>1. key = Got(file)
        BY <2>2, <2>5 DEF ReadApiKey, NoKeys
      <3>2. FirstKey = file
        BY <1>6, <2>5 DEF FirstKey, Explicitly
      <3>3. QED
        BY <1>3, <1>6, <2>5, <3>1, <3>2, GotOrNot
    <2>6. QED
      BY <2>3, <2>4, <2>5
  <1>7. QED
    BY <1>4, <1>5, <1>6

\* What is resolved is a configuration, and if nothing is refused it has
\* each value of its first source.
LEMMA ResolvesFirstSource ==
  ASSUME Inv, auth = None,
         NEW resolution,
         resolution = Resolve(configuration, world.environment, world.files),
         NEW r, r = resolution.configuration
  PROVE  /\ r \in Configuration
         /\ resolution.failure = Success =>
               /\ r.apiKey = FirstKey /\ FirstKey \notin NoKeys \cup {""}
               /\ r.backend = Explicitly("BACKEND", world.environment.backend)
               /\ r.crn = Explicitly("INSTANCE_CRN", world.environment.crn)
               /\ r.requestTimeout = Explicitly("REQUEST_TIMEOUT", DefaultTimeout)
               /\ r.authUrl = Explicitly("AUTHURL", DefaultAuthUrl)
               /\ ValidEndpoint(Endpoint[r.baseUrl])
               /\ ValidEndpoint(Endpoint[r.authUrl])
  <1> DEFINE c == configuration
             environment == world.environment
             key == ApiKey(c, environment, world.files)
             backend == FromEnvironment(c.backendConfigured, c.backend, environment.backend)
             crn == FromEnvironment(c.crnConfigured, c.crn, environment.crn)
             baseUrl == IF c.baseUrl = "" /\ crn \in DOMAIN Region
                        THEN DefaultBaseUrl(Region[crn]) ELSE c.baseUrl
  <1>1. c \in Configuration /\ Says(c, given)
    BY DEF Inv
  <1>2. /\ r = [c EXCEPT !.apiKey = key.value, !.backend = backend, !.crn = crn,
                         !.baseUrl = baseUrl]
        /\ resolution.failure = Refused(key, r)
    BY DEF Resolve
  <1>3. /\ key.value \in Text
        /\ key.failure = Success => key.value = FirstKey /\ FirstKey \notin NoKeys
    BY KeyOfFirstSource
  <1>4. /\ environment.backend \in Text /\ environment.crn \in Text
    BY TextHolds DEF Inv
  <1>5. backend \in Text /\ crn \in Text
    BY <1>1, <1>4 DEF Configuration, FromEnvironment
  <1>6. baseUrl \in Text
    BY <1>1, TextHolds DEF Configuration
  <1>7. /\ backend = Explicitly("BACKEND", environment.backend)
        /\ crn = Explicitly("INSTANCE_CRN", environment.crn)
    <2>1. /\ c.backend = Or(given["BACKEND"], "")
          /\ c.backendConfigured <=> given["BACKEND"] # None
          /\ c.crn = Or(given["INSTANCE_CRN"], "")
          /\ c.crnConfigured <=> given["INSTANCE_CRN"] # None
      BY <1>1 DEF Says
    <2>2. backend = Explicitly("BACKEND", environment.backend)
      BY <2>1 DEF FromEnvironment, Or, Explicitly
    <2>3. crn = Explicitly("INSTANCE_CRN", environment.crn)
      BY <2>1 DEF FromEnvironment, Or, Explicitly
    <2>4. QED
      BY <2>2, <2>3
  <1> HIDE DEF key, backend, crn, baseUrl
  <1>8. r \in Configuration
    BY <1>1, <1>2, <1>3, <1>5, <1>6 DEF Configuration
  <1>9. /\ r.apiKey = key.value /\ r.backend = backend /\ r.crn = crn
        /\ r.requestTimeout = c.requestTimeout /\ r.authUrl = c.authUrl
    BY <1>1, <1>2 DEF Configuration
  <1>10. /\ c.requestTimeout = Explicitly("REQUEST_TIMEOUT", DefaultTimeout)
         /\ c.authUrl = Explicitly("AUTHURL", DefaultAuthUrl)
    BY <1>1 DEF Says, Explicitly, Or
  <1>11. ASSUME resolution.failure = Success
         PROVE  /\ key.failure = Success /\ key.value # ""
                /\ ValidEndpoint(Endpoint[r.baseUrl])
                /\ ValidEndpoint(Endpoint[r.authUrl])
    BY <1>2, <1>11, RefusalFails DEF Refused
  <1>12. QED
    BY <1>3, <1>7, <1>8, <1>9, <1>10, <1>11

-----------------------------------------------------------------------------
(* The invariant, and what each step keeps *)

\* What a step must show: the invariant again, and the action property.
Kept == /\ Inv'
        /\ auth = None /\ auth' # None => StartsWithFirstSource
        /\ KeepsParameters

\* Sessions begin with what no parameter says.
LEMMA InitInv == Init => Inv
  <1> SUFFICES ASSUME Init PROVE Inv
    OBVIOUS
  <1>1. world \in AllWorlds
    BY DEF Init, AllWorlds
  <1>2. /\ given = [p \in Parameters |-> given[p]]
        /\ \A p \in Parameters : given[p] = None
    BY DEF Init
  <1>3. FreshConfiguration \in Configuration
    BY TextHolds DEF FreshConfiguration, Configuration
  <1>4. /\ given["TOKEN"] = None /\ given["AUTHFILE"] = None
        /\ given["BASEURL"] = None /\ given["AUTHURL"] = None
        /\ given["BACKEND"] = None /\ given["INSTANCE_CRN"] = None
        /\ given["REQUEST_TIMEOUT"] = None
    BY <1>2 DEF Parameters
  <1>5. \A x : Or(None, x) = x
    BY DEF Or
  <1>6. Says(FreshConfiguration, given)
    BY <1>4, <1>5 DEF Says, FreshConfiguration
  <1>7. QED
    BY <1>1, <1>2, <1>3, <1>6 DEF Init, Inv

\* Parses that leave the session alone, in a world of those there are.
LEMMA SessionSame ==
  ASSUME Inv, UNCHANGED session, world' \in AllWorlds
  PROVE  Kept
  <1>1. /\ configuration' = configuration /\ auth' = auth /\ metadata' = metadata
        /\ given' = given
    BY DEF session
  <1>2. Inv'
    BY <1>1 DEF Inv
  <1>3. QED
    BY <1>1, <1>2 DEF Kept, KeepsParameters

\* Setting a parameter.
LEMMA SetKeeps ==
  ASSUME Inv, NEW p \in DOMAIN Values, NEW v \in Values[p] \cup {None},
         SetParameter(p, v)
  PROVE  Kept
  <1>1. CASE UNCHANGED <<configuration, given>>
    <2>1. UNCHANGED session /\ world' = world
      BY <1>1 DEF SetParameter, session
    <2>2. QED
      BY <2>1, SessionSame DEF Inv
  <1>2. CASE /\ auth = None /\ p \in Parameters /\ v # None
             /\ configuration' = WithParameter(configuration, p, v)
             /\ given' = [given EXCEPT ![p] = v]
    <2>1. world' = world /\ auth' = auth /\ metadata' = metadata
      BY DEF SetParameter
    <2>2. /\ configuration \in Configuration /\ Says(configuration, given)
          /\ given = [q \in Parameters |-> given[q]]
      BY <1>2 DEF Inv
    <2>3. v \in Values[p]
      BY <1>2
    <2>4. /\ configuration' \in Configuration
          /\ Says(configuration', given')
          /\ given' = given => configuration' = configuration
      BY <1>2, <2>2, <2>3, SetOne
    <2>5. /\ given' = [q \in Parameters |-> given'[q]]
          /\ \A q \in Parameters : given'[q] \in Values[q] \cup {None}
      BY <1>2, <2>3 DEF Inv
    <2>6. Inv'
      BY <2>1, <2>4, <2>5 DEF Inv
    <2>7. QED
      BY <1>2, <2>1, <2>4, <2>6 DEF Kept, KeepsParameters
  <1>3. QED
    BY <1>1, <1>2 DEF SetParameter

\* Initialization.
LEMMA SessionInitKeeps ==
  ASSUME Inv, SessionInit
  PROVE  Kept
  <1> DEFINE resolution == Resolve(configuration, world.environment, world.files)
             r == resolution.configuration
  <1>1. CASE UNCHANGED <<configuration, auth, metadata>>
    <2>1. /\ configuration' = configuration /\ auth' = auth /\ metadata' = metadata
          /\ given' = given /\ world' = world
      BY <1>1 DEF SessionInit
    <2>2. Inv'
      BY <2>1 DEF Inv
    <2>3. QED
      BY <2>1, <2>2 DEF Kept, KeepsParameters
  <1>2. CASE /\ auth = None /\ resolution.failure = Success
             /\ configuration' = r /\ auth' = r
    <2>1. given' = given /\ world' = world
      BY DEF SessionInit
    <2>2. r \in Configuration
      BY <1>2, ResolvesFirstSource
    <2>3. auth' # None
      BY <1>2, <2>2, NoneAssumption
    <2>4. Inv'
      BY <2>1, <2>3 DEF Inv
    <2>5. /\ r.apiKey = FirstKey /\ FirstKey \notin NoKeys \cup {""}
          /\ r.backend = Explicitly("BACKEND", world.environment.backend)
          /\ r.crn = Explicitly("INSTANCE_CRN", world.environment.crn)
          /\ r.requestTimeout = Explicitly("REQUEST_TIMEOUT", DefaultTimeout)
          /\ r.authUrl = Explicitly("AUTHURL", DefaultAuthUrl)
          /\ ValidEndpoint(Endpoint[r.baseUrl])
          /\ ValidEndpoint(Endpoint[r.authUrl])
      BY <1>2, ResolvesFirstSource
    <2> HIDE DEF r
    <2>6. \A url \in {r.baseUrl, r.authUrl} :
             Endpoint[url].scheme = "https" \/ Endpoint[url].host \in Loopback
      BY <2>5 DEF ValidEndpoint
    <2>7. StartsWithFirstSource
      BY <1>2, <2>5, <2>6 DEF StartsWithFirstSource, NoKeys
    <2>8. KeepsParameters
      BY <1>2, <2>3 DEF KeepsParameters
    <2>9. QED
      BY <2>4, <2>7, <2>8 DEF Kept
  <1>3. QED
    BY <1>1, <1>2 DEF SessionInit, Commit

\* Every step.
LEMMA NextKeeps ==
  ASSUME Inv, [Next]_vars
  PROVE  Kept
  <1>1. ASSUME NEW p \in DOMAIN Values, NEW v \in Values[p] \cup {None},
               SetParameter(p, v)
        PROVE  Kept
    BY <1>1, SetKeeps
  <1>2. CASE SessionInit
    BY <1>2, SessionInitKeeps
  <1>3. CASE Query \/ \E p \in {"STATUS", "QUEUELENGTH"} : QueryStatus(p)
    <2>1. UNCHANGED session /\ world' = world
      BY <1>3 DEF Query, QueryStatus
    <2>2. QED
      BY <2>1, SessionSame DEF Inv
  <1>4. CASE ChangeWorld
    <2>1. UNCHANGED session /\ world' \in AllWorlds
      BY <1>4 DEF ChangeWorld, AllWorlds
    <2>2. QED
      BY <2>1, SessionSame
  <1>5. CASE UNCHANGED vars
    <2>1. UNCHANGED session /\ world' = world
      BY <1>5 DEF vars, session
    <2>2. QED
      BY <2>1, SessionSame DEF Inv
  <1>6. QED
    BY <1>1, <1>2, <1>3, <1>4, <1>5 DEF Next

\* The configuration of a session that has not started is what its
\* parameters say, always.
THEOREM InvAlways == Spec => []Inv
  <1>1. Inv /\ [Next]_vars => Inv'
    BY NextKeeps DEF Kept
  <1>2. QED
    BY InitInv, <1>1, PTL DEF Spec

\* A session starts with the key, the backend and the instance of their
\* first source, a failed attempt changes nothing, and a session that has
\* started keeps what it started with (Device.cpp:260-311, Auth.cpp:56-170).
THEOREM StartsAsTold == Spec => FirstSourceWins
  <1>1. Inv /\ [Next]_vars =>
           [/\ auth = None /\ auth' # None => StartsWithFirstSource
            /\ KeepsParameters]_vars
    BY NextKeeps DEF Kept
  <1>2. QED
    BY InvAlways, <1>1, PTL DEF Spec, FirstSourceWins

-----------------------------------------------------------------------------
(* What the diagnostic tells *)

\* What calls end with that no reply is to blame for.
OwnStatus == {"SUCCESS", "BADSTATE", "NOTSUPPORTED", "INVALIDARGUMENT",
              "PERMISSIONDENIED", "FATAL"}

\* No reply is to blame, and the diagnostic blames none.
LEMMA OwnFault ==
  ASSUME NEW status \in OwnStatus, Return(Refusal(status))
  PROVE  DiagnosticTells'
  <1>1. /\ last' = [status |-> status, diagnostic |-> DefaultDiagnostic(status)]
        /\ about' = None
    BY DEF Return, Boundary, Refusal, Failure
  <1>2. /\ status = "SUCCESS" <=> DefaultDiagnostic(status) = "NONE"
        /\ DefaultDiagnostic(status) \notin
              {"TIMEOUT", "TRANSPORT", "RATE_LIMIT", "SERVICE"}
    BY DEF DefaultDiagnostic, OwnStatus
  <1>3. last'.status = status /\ last'.diagnostic = DefaultDiagnostic(status)
    BY <1>1
  <1>4. QED
    BY <1>1, <1>2, <1>3 DEF DiagnosticTells

\* What becomes of a reply, by its error and status.
LEMMA CheckedReply ==
  ASSUME NEW reply, NEW f, f = CheckResponse(Send(reply))
  PROVE  /\ reply.error = "OPERATION_TIMEDOUT" => f = Failure("TIMEOUT", "TIMEOUT")
         /\ reply.error \notin {"OK", "OPERATION_TIMEDOUT"} =>
               f = Failure("FATAL", "TRANSPORT")
         /\ reply.error = "OK" =>
               /\ reply.status = 200 => f = Success
               /\ reply.status \in {401, 403} =>
                     f = Failure("PERMISSIONDENIED", "AUTHENTICATION")
               /\ reply.status = 404 => f = Failure("NOTFOUND", "NOT_FOUND")
               /\ reply.status = 429 => f = Failure("FATAL", "RATE_LIMIT")
               /\ reply.status \notin {200, 401, 403, 404, 429} =>
                     f = Failure("FATAL", "SERVICE")
  <1> DEFINE s == Send(reply)
  <1>1. /\ s.status = reply.status
        /\ s.timedOut <=> reply.error = "OPERATION_TIMEDOUT"
        /\ s.failed <=> reply.error # "OK"
    BY DEF Send
  <1> HIDE DEF s
  <1>2. f = CheckResponse(s)
    BY DEF s
  <1>3. QED
    BY <1>1, <1>2 DEF CheckResponse

\* The category of a reply, whoever sent it.
Category(reply, iam) ==
    IF reply.error = "OPERATION_TIMEDOUT" THEN "TIMEOUT"
    ELSE IF reply.error # "OK" THEN "TRANSPORT"
    ELSE IF reply.status = 200 THEN "INTERNAL"
    ELSE IF reply.status \in {401, 403} THEN "AUTHENTICATION"
    ELSE IF reply.status = 404 THEN "NOT_FOUND"
    ELSE IF reply.status = 429 THEN "RATE_LIMIT"
    ELSE IF iam /\ reply.status = 400 THEN "AUTHENTICATION" ELSE "SERVICE"

\* Blaming a reply is to tell its category.
LEMMA BlamedIsCategory ==
  ASSUME NEW request, NEW w, about' = Blame(request, w)
  PROVE  /\ Blamed' = Category(w[request], request = "iam")
         /\ about'.request = request
  <1>1. /\ about'.error = w[request].error /\ about'.status = w[request].status
        /\ about'.request = request
    BY DEF Blame
  <1>2. QED
    BY <1>1 DEF Blamed, Category

\* The diagnostic of a failure tells the category of the reply.
Tells(outcome, category) ==
    /\ outcome.status # "SUCCESS" /\ category # "NONE"
    /\ category = IF outcome.diagnostic = "NONE" THEN DefaultDiagnostic(outcome.status)
                                                 ELSE outcome.diagnostic

\* Failures tell their diagnostic, or that of their status.
LEMMA FailureTells ==
  /\ Tells(Failure("FATAL", "NONE"), "INTERNAL")
  /\ Tells(Failure("PERMISSIONDENIED", "NONE"), "AUTHENTICATION")
  /\ \A status, d : status # "SUCCESS" /\ d # "NONE" => Tells(Failure(status, d), d)
  <1>1. \A status, d : Failure(status, d).status = status
                        /\ Failure(status, d).diagnostic = d
    BY DEF Failure
  <1>2. DefaultDiagnostic("FATAL") = "INTERNAL"
        /\ DefaultDiagnostic("PERMISSIONDENIED") = "AUTHENTICATION"
    BY DEF DefaultDiagnostic
  <1>3. QED
    BY <1>1, <1>2 DEF Tells

\* A body that cannot be parsed is an internal error, and other failures
\* keep what the response was.
LEMMA GetTells ==
  ASSUME NEW reply, Get(reply) # Success
  PROVE  Tells(Get(reply), Category(reply, FALSE))
  <1> DEFINE f == CheckResponse(Send(reply))
  <1>1. Get(reply) = IF f = Success /\ reply.body = Garbled
                     THEN Refusal("FATAL") ELSE f
    BY DEF Get
  <1>2. CASE f = Success
    <2>1. Get(reply) = Failure("FATAL", "NONE")
      BY <1>1, <1>2 DEF Refusal
    <2>2. reply.error = "OK" /\ reply.status = 200
      BY <1>2, CheckedReply DEF Success, Failure
    <2>3. Category(reply, FALSE) = "INTERNAL"
      BY <2>2 DEF Category
    <2>4. QED
      BY <2>1, <2>3, FailureTells
  <1>3. CASE f # Success
    <2>1. Get(reply) = f
      BY <1>1, <1>3
    <2> HIDE DEF f
    <2>2. \E status \in {"TIMEOUT", "FATAL", "PERMISSIONDENIED", "NOTFOUND"} :
             /\ f = Failure(status, Category(reply, FALSE))
             /\ Category(reply, FALSE) # "NONE"
      BY <1>3, CheckedReply DEF Category, f
    <2>3. QED
      BY <2>1, <2>2, FailureTells
  <1>4. QED
    BY <1>2, <1>3

\* Where the category is NOT_FOUND, so is the status of the call.
LEMMA NotFoundIsStatus ==
  ASSUME NEW reply, Get(reply) # Success, Get(reply).status # "NOTFOUND"
  PROVE  Category(reply, "properties" = "iam") # "NOT_FOUND"
  <1> DEFINE f == CheckResponse(Send(reply))
  <1>1. Get(reply) = IF f = Success /\ reply.body = Garbled
                     THEN Refusal("FATAL") ELSE f
    BY DEF Get
  <1>2. SUFFICES ASSUME reply.error = "OK", reply.status = 404
                 PROVE  FALSE
    BY DEF Category
  <1>3. f = Failure("NOTFOUND", "NOT_FOUND")
    BY <1>2, CheckedReply
  <1>4. f.status = "NOTFOUND" /\ f # Success
    BY <1>3 DEF Failure, Success
  <1> HIDE DEF f
  <1>5. QED
    BY <1>1, <1>4

\* IAM rejects a key with 400, too.
LEMMA RefreshTells ==
  ASSUME NEW reply, Refresh(reply) # Success
  PROVE  Tells(Refresh(reply), Category(reply, TRUE))
  <1>1. CASE reply.error = "OK" /\ reply.status = 400
    <2>1. Refresh(reply) = Failure("PERMISSIONDENIED", "NONE")
      BY <1>1 DEF Refresh, Refusal
    <2>2. Category(reply, TRUE) = "AUTHENTICATION"
      BY <1>1 DEF Category
    <2>3. QED
      BY <2>1, <2>2, FailureTells
  <1>2. CASE ~(reply.error = "OK" /\ reply.status = 400)
    <2>1. Refresh(reply) = Get(reply)
      BY <1>2 DEF Refresh
    <2>2. Category(reply, TRUE) = Category(reply, FALSE)
      BY <1>2 DEF Category
    <2>3. QED
      BY <2>1, <2>2, GetTells
  <1>3. QED
    BY <1>1, <1>2

\* A call that fails for a reply tells the category of the reply, which is
\* not that of missing properties.
LEMMA ReplyBlamed ==
  ASSUME NEW w \in AllWorlds, NEW request \in Requests,
         NEW category, category = Category(w[request], request = "iam"),
         request = "properties" => category # "NOT_FOUND",
         NEW outcome, Tells(outcome, category),
         last' = Boundary(outcome, last),
         about' = Blame(request, w)
  PROVE  DiagnosticTells'
  <1>1. last'.status = outcome.status /\ last'.diagnostic = category
    BY DEF Tells, Boundary
  <1>2. about' # None
    BY NoneAssumption
  <1>3. Blamed' = category /\ about'.request = request
    BY BlamedIsCategory
  <1>4. outcome.status # "SUCCESS" /\ category # "NONE"
    BY DEF Tells
  <1>5. QED
    BY <1>1, <1>2, <1>3, <1>4 DEF DiagnosticTells

\* Setting a parameter.
LEMMA SetTells ==
  ASSUME NEW p, NEW v, SetParameter(p, v)
  PROVE  DiagnosticTells'
  <1>1. Success = Refusal("SUCCESS")
    BY DEF Success, Refusal
  <1>2. \E status \in OwnStatus : Return(Refusal(status))
    BY <1>1 DEF SetParameter, OwnStatus
  <1>3. QED
    BY <1>2, OwnFault

\* What is refused before the first request is the client's mistake.
LEMMA RefusedIsOwn ==
  ASSUME NEW c, NEW environment, NEW files
  PROVE  \E status \in OwnStatus :
            Resolve(c, environment, files).failure = Refusal(status)
  <1> DEFINE key == ApiKey(c, environment, files)
             r == Resolve(c, environment, files).configuration
             Own(failure) == \E status \in OwnStatus : failure = Refusal(status)
  <1>1. Success = Refusal("SUCCESS")
    BY DEF Success, Refusal
  <1>2. \A v : Own(Got(v).failure)
    BY <1>1 DEF Got, OwnStatus
  <1>3. \A s \in OwnStatus : Own(NotGot(s).failure)
    BY DEF NotGot
  <1>4. \A path : Own(ReadApiKey(path, files).failure)
    <2> HIDE DEF Own
    <2>1. SUFFICES ASSUME NEW path PROVE Own(ReadApiKey(path, files).failure)
      OBVIOUS
    <2>2. \/ \E s \in OwnStatus : ReadApiKey(path, files) = NotGot(s)
          \/ \E v : ReadApiKey(path, files) = Got(v)
      BY DEF ReadApiKey, OwnStatus
    <2>3. QED
      BY <1>2, <1>3, <2>2
  <1>5. Own(key.failure)
    <2> HIDE DEF Own
    <2>1. \/ \E v : key = Got(v)
          \/ \E path : key = ReadApiKey(path, files)
      BY DEF ApiKey
    <2>2. QED
      BY <1>2, <1>4, <2>1
  <1>6. Resolve(c, environment, files).failure = Refused(key, r)
    BY DEF Resolve
  <1>7. Own(Refused(key, r))
    <2> HIDE DEF key, r
    <2>1. QED
      BY <1>1, <1>5 DEF Refused, OwnStatus
  <1>8. QED
    BY <1>6, <1>7

\* An exchange of the initialization that fails tells its reply.
LEMMA ExchangeTells ==
  ASSUME Inv, NEW i \in Failing,
         last' = Boundary(Exchanges[i].outcome, last),
         about' = Blame(Exchanges[i].request, world)
  PROVE  DiagnosticTells'
  <1>1. i \in 1 .. 3 /\ Exchanges[i].outcome # Success
    BY DEF Failing
  <1>2. world \in AllWorlds
    BY DEF Inv
  <1>3. CASE i = 1
    <2>1. Exchanges[i].request = "iam" /\ Exchanges[i].outcome = Refresh(world["iam"])
      BY <1>3 DEF Exchanges
    <2>2. Tells(Exchanges[i].outcome, Category(world["iam"], "iam" = "iam"))
      BY <1>1, <2>1, RefreshTells
    <2>3. QED
      BY <1>2, <2>1, <2>2, ReplyBlamed DEF Requests
  <1>4. CASE i = 2
    <2>1. /\ Exchanges[i].request = "configuration"
          /\ Exchanges[i].outcome = Get(world["configuration"])
      BY <1>4 DEF Exchanges
    <2>2. Tells(Exchanges[i].outcome,
                Category(world["configuration"], "configuration" = "iam"))
      <3>1. ("configuration" = "iam") = FALSE
        OBVIOUS
      <3>2. QED
        BY <1>1, <2>1, <3>1, GetTells
    <2>3. QED
      BY <1>2, <2>1, <2>2, ReplyBlamed DEF Requests
  <1>5. CASE i = 3
    <2>1. /\ Exchanges[i].request = "properties"
          /\ Exchanges[i].outcome = GetProperties(world["properties"])
      BY <1>5 DEF Exchanges
    <2>2. /\ Exchanges[i].outcome = Get(world["properties"])
          /\ Exchanges[i].outcome.status # "NOTFOUND"
      BY <1>1, <2>1 DEF GetProperties
    <2>3. Tells(Exchanges[i].outcome,
                Category(world["properties"], "properties" = "iam"))
      <3>1. ("properties" = "iam") = FALSE
        OBVIOUS
      <3>2. QED
        BY <1>1, <2>2, <3>1, GetTells
    <2>4. Category(world["properties"], "properties" = "iam") # "NOT_FOUND"
      BY <1>1, <2>2, NotFoundIsStatus
    <2>5. QED
      BY <1>2, <2>1, <2>3, <2>4, ReplyBlamed DEF Requests
  <1>6. QED
    BY <1>1, <1>3, <1>4, <1>5

\* Initialization.
LEMMA SessionInitTells ==
  ASSUME Inv, SessionInit
  PROVE  DiagnosticTells'
  <1> DEFINE resolution == Resolve(configuration, world.environment, world.files)
  <1>1. Success = Refusal("SUCCESS")
    BY DEF Success, Refusal
  <1>2. \E status \in OwnStatus : resolution.failure = Refusal(status)
    BY RefusedIsOwn
  <1>3. \/ \E status \in OwnStatus : Return(Refusal(status))
        \/ Return(resolution.failure)
        \/ \E i \in Failing : /\ last' = Boundary(Exchanges[i].outcome, last)
                              /\ about' = Blame(Exchanges[i].request, world)
    BY <1>1 DEF SessionInit, OwnStatus
  <1> HIDE DEF resolution
  <1>4. QED
    BY <1>2, <1>3, OwnFault, ExchangeTells

\* Answers are values or what is not supported.
LEMMA AnswersAreOwn ==
  /\ \A value : Answer(value).status \in OwnStatus
  /\ NotSupported.status \in OwnStatus
  /\ \A property \in {"QUBITSNUM", "OPERATIONS", "COUPLINGMAP", "CUSTOM3"} :
        DeviceAnswer(property).status \in OwnStatus
  /\ \A name, sites : \A property \in {"QUBITSNUM", "SITES", "DURATION", "FIDELITY"} :
        OperationAnswer(name, sites, property).status \in OwnStatus
  /\ \A body : StatusAnswer(body).status \in OwnStatus
  <1>1. NotSupported.status \in OwnStatus
    BY DEF NotSupported, OwnStatus
  <1>2. ASSUME NEW value
        PROVE  Answer(value).status \in OwnStatus
    <2>1. CASE value = None
      BY <1>1, <2>1 DEF Answer
    <2>2. CASE value # None
      <3>1. Answer(value) = [status |-> "SUCCESS", value |-> value]
        BY <2>2 DEF Answer
      <3>2. QED
        BY <3>1 DEF OwnStatus
    <2>3. QED
      BY <2>1, <2>2
  <1> DEFINE Own(answer) == answer = NotSupported \/ \E v : answer = Answer(v)
  <1>3. \A answer : Own(answer) => answer.status \in OwnStatus
    BY <1>1, <1>2
  <1>4. ASSUME NEW property \in {"QUBITSNUM", "OPERATIONS", "COUPLINGMAP", "CUSTOM3"}
        PROVE  Own(DeviceAnswer(property))
    BY DEF DeviceAnswer
  <1>5. ASSUME NEW name, NEW sites,
               NEW property \in {"QUBITSNUM", "SITES", "DURATION", "FIDELITY"}
        PROVE  Own(OperationAnswer(name, sites, property))
    BY DEF OperationAnswer
  <1>6. ASSUME NEW body PROVE Own(StatusAnswer(body))
    BY DEF StatusAnswer
  <1> HIDE DEF Own
  <1>7. QED
    BY <1>1, <1>2, <1>3, <1>4, <1>5, <1>6

\* Queries.
LEMMA QueryTells ==
  ASSUME Query
  PROVE  DiagnosticTells'
  <1>1. \E status \in OwnStatus : Return(Refusal(status))
    BY AnswersAreOwn DEF Query, Answered, OwnStatus
  <1>2. QED
    BY <1>1, OwnFault

\* Queries that ask the service.
LEMMA QueryStatusTells ==
  ASSUME Inv, NEW property, QueryStatus(property)
  PROVE  DiagnosticTells'
  <1>1. CASE Get(world.status) # Success /\ last' = Boundary(Get(world.status), last)
             /\ about' = Blame("status", world)
    <2>1. world \in AllWorlds
      BY DEF Inv
    <2>2. Tells(Get(world["status"]), Category(world["status"], "status" = "iam"))
      <3>1. ("status" = "iam") = FALSE
        OBVIOUS
      <3>2. QED
        BY <1>1, <3>1, GetTells
    <2>3. QED
      BY <1>1, <2>1, <2>2, ReplyBlamed DEF Requests
  <1>2. CASE \E status \in OwnStatus : Return(Refusal(status))
    BY <1>2, OwnFault
  <1>3. QED
    BY <1>1, <1>2, AnswersAreOwn DEF QueryStatus, Answered, OwnStatus

\* The diagnostic tells the reply that decided the last call, and blames
\* neither network nor service for the client's mistakes, after any
\* sequence of calls (src/Device.cpp:89-131, src/Http.cpp:209-245).
THEOREM DiagnosticIsTrue == Spec => []DiagnosticTells
  <1>1. Init => DiagnosticTells
    BY DEF Init, DiagnosticTells, Success, Failure
  <1>2. Inv /\ DiagnosticTells /\ [Next]_vars => DiagnosticTells'
    <2> SUFFICES ASSUME Inv, DiagnosticTells, [Next]_vars PROVE DiagnosticTells'
      OBVIOUS
    <2>1. ASSUME NEW p, NEW v, SetParameter(p, v) PROVE DiagnosticTells'
      BY <2>1, SetTells
    <2>2. CASE SessionInit
      BY <2>2, SessionInitTells
    <2>3. CASE Query
      BY <2>3, QueryTells
    <2>4. ASSUME NEW p, QueryStatus(p) PROVE DiagnosticTells'
      BY <2>4, QueryStatusTells
    <2>5. CASE ChangeWorld \/ UNCHANGED vars
      <3>1. last' = last /\ about' = about
        BY <2>5 DEF ChangeWorld, vars
      <3>2. QED
        BY <3>1 DEF DiagnosticTells, Blamed
    <2>6. QED
      BY <2>1, <2>2, <2>3, <2>4, <2>5 DEF Next
  <1>3. QED
    BY <1>1, <1>2, InvAlways, PTL DEF Spec

-----------------------------------------------------------------------------
(* The metadata of a session *)

\* What was served lets a session start.
Usable ==
    LET parsed == ParseMetadata(served.conf, served.props)
    IN  parsed # Malformed /\ parsed.name = served.backend

\* A session has started if and only if what it was served last is usable,
\* and its metadata are those of what it was served.
Snapshot ==
    /\ auth = None => metadata = None
    /\ served # None \/ auth # None => /\ Documents(served.conf, served.props)
                                       /\ auth # None <=> Usable
    /\ metadata # None => metadata = ParseMetadata(served.conf, served.props)

\* Only an initialization changes them.
LEMMA SnapshotSame ==
  ASSUME Snapshot, auth' = auth, metadata' = metadata, served' = served
  PROVE  Snapshot'
  BY DEF Snapshot, Usable

\* Initialization.
LEMMA SessionInitSnapshot ==
  ASSUME Inv, Snapshot, SessionInit
  PROVE  Snapshot'
  <1> DEFINE resolution == Resolve(configuration, world.environment, world.files)
             r == resolution.configuration
             conf == world.configuration.body
             props == Properties(world.properties)
             parsed == ParseMetadata(conf, props)
             bodies == [conf |-> conf, props |-> props, backend |-> r.backend]
             usable == parsed # Malformed /\ parsed.name = r.backend
  <1>1. CASE UNCHANGED <<auth, metadata, served>>
    BY <1>1, SnapshotSame
  <1>2. CASE /\ auth = None /\ resolution.failure = Success /\ Failing = {}
             /\ served' = bodies
             /\ \/ ~usable /\ UNCHANGED <<auth, metadata>>
                \/ usable /\ auth' = r /\ metadata' = parsed
    <2>1. Documents(conf, props)
      <3>1. world \in AllWorlds
        BY DEF Inv
      <3>2. ASSUME NEW i \in 1 .. 3, Exchanges[i].outcome # Success
            PROVE  FALSE
        <4>1. \A j \in 1 .. 3 : j \notin Failing
          BY <1>2
        <4>2. \A j \in 1 .. 3 :
                 (\A k \in 1 .. j - 1 : Exchanges[k].outcome = Success)
                    => Exchanges[j].outcome = Success
          BY <4>1 DEF Failing
        <4> DEFINE Good(j) == Exchanges[j].outcome = Success
        <4>3. \A j \in 1 .. 3 : (\A k \in 1 .. j - 1 : Good(k)) => Good(j)
          BY <4>2
        <4>4. ~Good(i)
          BY <3>2
        <4> HIDE DEF Good
        <4>5. Good(1)
          BY <4>3
        <4>6. Good(2)
          BY <4>3, <4>5
        <4>7. Good(3)
          BY <4>3, <4>5, <4>6
        <4>8. QED
          BY <4>4, <4>5, <4>6, <4>7
      <3>3. /\ Get(world.configuration) = Success
            /\ GetProperties(world.properties) = Success
        <4>1. /\ Exchanges[2].outcome = Get(world.configuration)
              /\ Exchanges[3].outcome = GetProperties(world.properties)
          BY DEF Exchanges
        <4>2. QED
          BY <3>2, <4>1
      <3>4. QED
        BY <3>1, <3>3, DocumentsAssumption
    <2>2. r \in Configuration
      BY <1>2, ResolvesFirstSource
    <2>3. r # None
      BY <2>2, NoneAssumption
    <2>4. metadata = None
      BY <1>2 DEF Snapshot
    <2> HIDE DEF conf, props, r, parsed, usable
    <2>5. /\ served'.conf = conf /\ served'.props = props
          /\ served'.backend = r.backend
      BY <1>2
    <2>6. Usable' <=> usable
      BY <2>5 DEF Usable, usable, parsed
    <2>7. CASE ~usable /\ UNCHANGED <<auth, metadata>>
      <3>1. auth' = None /\ metadata' = None
        BY <1>2, <2>4, <2>7
      <3>2. QED
        BY <2>1, <2>5, <2>6, <2>7, <3>1 DEF Snapshot
    <2>8. CASE usable /\ auth' = r /\ metadata' = parsed
      <3>1. auth' # None
        BY <2>3, <2>8
      <3>2. metadata' = ParseMetadata(served'.conf, served'.props)
        BY <2>5, <2>8 DEF parsed
      <3>3. QED
        BY <2>1, <2>5, <2>6, <2>8, <3>1, <3>2 DEF Snapshot
    <2>9. QED
      BY <1>2, <2>7, <2>8
  <1>3. QED
    BY <1>1, <1>2 DEF SessionInit, Commit

\* What a session offers is what the last replies described, always.
THEOREM SnapshotAlways == Spec => []Snapshot
  <1>1. Init => Snapshot
    BY DEF Init, Snapshot
  <1>2. Inv /\ Snapshot /\ [Next]_vars => Snapshot'
    <2> SUFFICES ASSUME Inv, Snapshot, [Next]_vars PROVE Snapshot'
      OBVIOUS
    <2>1. ASSUME NEW p, NEW v, SetParameter(p, v) PROVE Snapshot'
      BY <2>1, SnapshotSame DEF SetParameter
    <2>2. CASE SessionInit
      BY <2>2, SessionInitSnapshot
    <2>3. CASE UNCHANGED session
      BY <2>3, SnapshotSame DEF session
    <2>4. QED
      BY <2>1, <2>2, <2>3 DEF Next, Query, QueryStatus, ChangeWorld, vars, session
  <1>3. QED
    BY <1>1, <1>2, InvAlways, PTL DEF Spec

\* The documents contradict each other exactly where the parser finds that
\* an entry does not fit.
LEMMA FittingAgrees ==
  ASSUME Documents(served.conf, served.props)
  PROVE  Sound(served.conf, served.props, Len(served.props.gates)) <=>
            LET gates == served.props.gates
                known == {i \in DOMAIN gates : Known(gates[i])}
            IN  /\ ValidConfiguration(served.conf)
                /\ Len(served.props.qubits) <= served.conf.count
                /\ \A i \in known : ~Contradict(gates[i])
                /\ \A i, j \in known : i # j => Agree(gates[i], gates[j])
  <1> DEFINE conf == served.conf
             props == served.props
             gates == props.gates
             n == Len(gates)
             known == {i \in DOMAIN gates : Known(gates[i])}
             Agrees == /\ \A i \in known : ~Contradict(gates[i])
                       /\ \A i, j \in known : i # j => Agree(gates[i], gates[j])
  <1>1. n \in Nat /\ DOMAIN gates = 1 .. n
    BY DEF Documents
  <1>2. \A i \in 1 .. n : i \in known <=> gates[i].gate \in Names(conf)
    BY <1>1 DEF Known, Names
  <1>3. Sound(conf, props, n) <=> /\ Valid(conf, props)
                                  /\ \A i \in known : Fitting(conf, props, i)
    BY <1>1, <1>2 DEF Sound
  <1>4. ASSUME NEW i \in known
        PROVE  Contradict(gates[i]) <=>
                  \/ ~Tuple(gates[i].qubits, conf.count)
                  \/ /\ ConfiguredSites(conf, gates[i].gate) # {}
                     /\ gates[i].qubits \notin ConfiguredSites(conf, gates[i].gate)
    <2>1. gates[i] \in Elements(gates)
      BY DEF Elements
    <2>2. gates[i].qubits \in {gate.qubits :
             gate \in {g \in Elements(gates) : g.gate = gates[i].gate}}
      BY <2>1
    <2>3. QED
      BY <2>2 DEF Contradict, StatedSites
  <1>5. ASSUME NEW i \in known
        PROVE  Fitting(conf, props, i) <=>
                  /\ ~Contradict(gates[i])
                  /\ \A j \in known : j < i => Agree(gates[i], gates[j])
    <2>1. i \in 1 .. n
      BY <1>1
    <2>2. Entries(props, gates[i].gate, i - 1)
             = {j \in known : j < i /\ gates[j].gate = gates[i].gate}
      BY <1>1, <1>2, <2>1 DEF Entries
    <2>3. (\A j \in known : j < i => Agree(gates[i], gates[j])) <=>
             \A j \in Entries(props, gates[i].gate, i - 1) :
                /\ gates[j].qubits # gates[i].qubits
                /\ Len(gates[j].qubits) = Len(gates[i].qubits)
      BY <2>2 DEF Agree
    <2>4. QED
      BY <1>4, <2>3 DEF Fitting
  <1>6. ASSUME \A i, j \in known : j < i => Agree(gates[i], gates[j])
        PROVE  \A i, j \in known : i # j => Agree(gates[i], gates[j])
    <2>1. SUFFICES ASSUME NEW i \in known, NEW j \in known, i # j
                   PROVE  Agree(gates[i], gates[j])
      OBVIOUS
    <2>2. i \in Nat /\ j \in Nat
      BY <1>1
    <2>3. CASE j < i
      BY <1>6, <2>3
    <2>4. CASE i < j
      <3>1. Agree(gates[j], gates[i])
        BY <1>6, <2>4
      <3>2. QED
        BY <3>1 DEF Agree
    <2>5. QED
      BY <2>1, <2>2, <2>3, <2>4
  <1>7. ASSUME \A i, j \in known : i # j => Agree(gates[i], gates[j])
        PROVE  \A i, j \in known : j < i => Agree(gates[i], gates[j])
    <2>1. \A i, j \in known : i \in Nat /\ j \in Nat
      BY <1>1
    <2>2. QED
      BY <1>7, <2>1
  <1> HIDE DEF known
  <1>8. (\A i \in known : Fitting(conf, props, i)) <=> Agrees
    BY <1>5, <1>6, <1>7
  <1>9. QED
    BY <1>3, <1>8 DEF Valid, known

\* A session starts with the metadata if they are of its backend and do not
\* contradict each other, and only then, however long the documents are
\* (src/Metadata.cpp:223-340, src/Device.cpp:288-311).
THEOREM ContradictionsAlwaysFail == Spec => []ContradictionsFail
  <1>1. Snapshot => ContradictionsFail
    <2> SUFFICES ASSUME Snapshot, served # None
                 PROVE  auth # None <=>
                    LET gates == served.props.gates
                        known == {i \in DOMAIN gates : Known(gates[i])}
                    IN  /\ served.conf.name = served.backend
                        /\ ValidConfiguration(served.conf)
                        /\ Len(served.props.qubits) <= served.conf.count
                        /\ \A i \in known : ~Contradict(gates[i])
                        /\ \A i, j \in known : i # j => Agree(gates[i], gates[j])
      BY DEF ContradictionsFail
    <2> DEFINE m == ParseMetadata(served.conf, served.props)
               sound == Sound(served.conf, served.props, Len(served.props.gates))
    <2>1. Documents(served.conf, served.props) /\ (auth # None <=> Usable)
      BY DEF Snapshot
    <2>2. /\ m # Malformed <=> sound
          /\ m # Malformed => m.name = served.conf.name
      BY <2>1, MetadataDescribe
    <2>3. Usable <=> m # Malformed /\ m.name = served.backend
      BY DEF Usable
    <2> HIDE DEF m, sound
    <2>4. auth # None <=> sound /\ served.conf.name = served.backend
      BY <2>1, <2>2, <2>3
    <2>5. QED
      BY <2>1, <2>4, FittingAgrees DEF sound
  <1>2. QED
    BY <1>1, SnapshotAlways, PTL

\* What a session offers is described by the documents it was served.
LEMMA OfferedIsDescribed ==
  ASSUME Snapshot, metadata # None
  PROVE  /\ Documents(served.conf, served.props)
         /\ Sound(served.conf, served.props, Len(served.props.gates))
         /\ \A name \in DOMAIN metadata.operations :
               /\ name \in Names(served.conf)
               /\ \E op : /\ Describes(served.conf, served.props, name,
                                       Len(served.props.gates), op)
                          /\ metadata.operations[name]
                                = Working(op, FaultySites(served.props))
  <1>1. /\ Documents(served.conf, served.props) /\ Usable
        /\ metadata = ParseMetadata(served.conf, served.props)
    BY DEF Snapshot
  <1>2. metadata # Malformed
    BY <1>1 DEF Usable
  <1>3. QED
    BY <1>1, <1>2, MetadataDescribe

\* The entries that the properties above mean are those of the parse.
LEMMA SameEntries ==
  ASSUME Documents(served.conf, served.props), NEW name
  PROVE  LET props == served.props
             n == Len(props.gates)
         IN  /\ n \in Nat /\ DOMAIN props.gates = 1 .. n
             /\ \A at : EntriesOf(name, at) = {props.gates[j] :
                   j \in {k \in Entries(props, name, n) : props.gates[k].qubits = at}}
             /\ StatedSites(name) = IF ConfiguredSites(served.conf, name) # {}
                                    THEN ConfiguredSites(served.conf, name)
                                    ELSE EntrySites(props, name, n)
  <1> DEFINE props == served.props
             n == Len(props.gates)
  <1>1. n \in Nat /\ DOMAIN props.gates = 1 .. n
    BY DEF Documents
  <1>2. ASSUME NEW at
        PROVE  {k \in Entries(props, name, n) : props.gates[k].qubits = at}
                  = {j \in DOMAIN props.gates :
                       props.gates[j].gate = name /\ props.gates[j].qubits = at}
    BY <1>1 DEF Entries
  <1>3. {gate.qubits : gate \in {g \in Elements(props.gates) : g.gate = name}}
           = EntrySites(props, name, n)
    BY <1>1 DEF Elements, EntrySites, Entries
  <1>4. QED
    BY <1>1, <1>2, <1>3 DEF EntriesOf, StatedSites

\* The tuples that are left work, and so do their qubits.
LEMMA WorkingSites ==
  ASSUME Documents(served.conf, served.props), NEW name, NEW op,
         Sound(served.conf, served.props, Len(served.props.gates)),
         name \in Names(served.conf),
         Describes(served.conf, served.props, name, Len(served.props.gates), op),
         NEW t \in op.sites
  PROVE  Faulty(op, t, FaultySites(served.props)) <=>
            ~ /\ \A q \in Elements(t) : Works(q)
              /\ \A gate \in EntriesOf(name, t) : gate.operational
  <1> DEFINE conf == served.conf
             props == served.props
             n == Len(props.gates)
             mine == Entries(props, name, n)
  <1>1. /\ n \in Nat /\ DOMAIN props.gates = 1 .. n
        /\ EntriesOf(name, t) = {props.gates[j] :
              j \in {k \in mine : props.gates[k].qubits = t}}
    BY SameEntries
  <1>2. \A i \in DOMAIN t : t[i] \in Int
    <2>1. Tuple(t, conf.count) /\ conf.count \in Int
      <3>1. CASE ConfiguredSites(conf, name) # {}
        <4>1. t \in ConfiguredSites(conf, name)
          BY <3>1 DEF Describes
        <4>2. ValidConfiguration(conf)
          BY DEF Sound, Valid
        <4>3. QED
          BY <4>1, <4>2, ConfiguredTuples DEF Documents
      <3>2. CASE ConfiguredSites(conf, name) = {}
        <4>1. PICK j \in mine : props.gates[j].qubits = t
          BY <3>2 DEF Describes, EntrySites
        <4>2. j \in 1 .. n /\ props.gates[j].gate = name
          BY <4>1 DEF Entries
        <4>3. Fitting(conf, props, j)
          BY <4>2 DEF Sound
        <4>4. QED
          BY <4>1, <4>3 DEF Fitting, Documents
      <3>3. QED
        BY <3>1, <3>2
    <2>2. QED
      BY <2>1 DEF Tuple
  <1>3. (\E i \in DOMAIN t : t[i] \in FaultySites(props))
           <=> ~ \A q \in Elements(t) : Works(q)
    <2>1. \A q \in Int : q \in FaultySites(props) <=> ~Works(q)
      <3>1. \A j \in DOMAIN props.qubits : j \in Nat
        BY DEF Documents
      <3>2. QED
        BY <3>1 DEF FaultySites, Works
    <2>2. QED
      BY <1>2, <2>1 DEF Elements
  <1>4. (t \in DOMAIN op.calibrations /\ ~op.calibrations[t].operational)
           <=> ~ \A gate \in EntriesOf(name, t) : gate.operational
    <2>1. (\A gate \in EntriesOf(name, t) : gate.operational)
             <=> \A j \in mine : props.gates[j].qubits = t => props.gates[j].operational
      BY <1>1
    <2>2. CASE t \in DOMAIN op.calibrations
      <3>1. CalibrationIs(props, name, n, t, op.calibrations[t])
        BY <2>2 DEF Describes
      <3>2. QED
        BY <2>1, <2>2, <3>1 DEF CalibrationIs
    <2>3. CASE t \notin DOMAIN op.calibrations
      <3>1. t \notin EntrySites(props, name, n)
        BY <2>3 DEF Describes
      <3>2. QED
        BY <2>1, <2>3, <3>1 DEF EntrySites
    <2>4. QED
      BY <2>2, <2>3
  <1>5. QED
    BY <1>3, <1>4 DEF Faulty

\* What is left of an operation is what works of it.
LEMMA WorkingIs ==
  ASSUME NEW conf, NEW props, NEW name, NEW i, NEW op, NEW faulty,
         Describes(conf, props, name, i, op),
         NEW w, w = Working(op, faulty)
  PROVE  /\ w.arity = op.arity
         /\ w.sites = {t \in op.sites : ~Faulty(op, t, faulty)}
         /\ DOMAIN w.calibrations = w.sites \cap DOMAIN op.calibrations
         /\ \A t \in DOMAIN w.calibrations : w.calibrations[t] = op.calibrations[t]
  <1> DEFINE sites == {t \in op.sites : ~Faulty(op, t, faulty)}
             old == op.calibrations
             new == [t \in sites \cap DOMAIN old |-> old[t]]
  <1>1. op = [arity |-> op.arity, sites |-> op.sites, calibrations |-> old]
    BY DEF Describes
  <1>2. w = [op EXCEPT !.sites = sites, !.calibrations = new]
    BY DEF Working
  <1>3. /\ DOMAIN new = sites \cap DOMAIN old
        /\ \A t \in DOMAIN new : new[t] = old[t]
    OBVIOUS
  <1> HIDE DEF new, sites
  <1>4. w.arity = op.arity /\ w.sites = sites /\ w.calibrations = new
    BY <1>1, <1>2
  <1>5. QED
    BY <1>3, <1>4 DEF sites

\* Operations are offered on the tuples that are stated for them and work,
\* and on no others (src/Metadata.cpp:236-266, 308-338).
THEOREM OperationsAlwaysWork == Spec => []OperationsWork
  <1>1. Snapshot => OperationsWork
    <2> SUFFICES ASSUME Snapshot, metadata # None,
                        NEW name \in DOMAIN metadata.operations
                 PROVE  metadata.operations[name].sites = {at \in StatedSites(name) :
                           /\ \A q \in Elements(at) : Works(q)
                           /\ \A gate \in EntriesOf(name, at) : gate.operational}
      BY DEF OperationsWork
    <2> DEFINE conf == served.conf
               props == served.props
               n == Len(props.gates)
    <2>1. Documents(conf, props) /\ Sound(conf, props, n)
      BY OfferedIsDescribed
    <2>2. PICK op : /\ Describes(conf, props, name, n, op)
                    /\ metadata.operations[name] = Working(op, FaultySites(props))
      BY OfferedIsDescribed
    <2>3. name \in Names(conf)
      BY OfferedIsDescribed
    <2>4. op.sites = StatedSites(name)
      BY <2>1, <2>2, SameEntries DEF Describes
    <2>5. metadata.operations[name].sites
             = {t \in op.sites : ~Faulty(op, t, FaultySites(props))}
      BY <2>2, WorkingIs
    <2>6. \A t \in op.sites : ~Faulty(op, t, FaultySites(props)) <=>
             /\ \A q \in Elements(t) : Works(q)
             /\ \A gate \in EntriesOf(name, t) : gate.operational
      BY <2>1, <2>2, <2>3, WorkingSites
    <2> HIDE DEF conf, props, n
    <2>7. QED
      BY <2>4, <2>5, <2>6
  <1>2. QED
    BY <1>1, SnapshotAlways, PTL

\* The readout of a measurement that is reported is that of the parse.
LEMMA SameReadout ==
  ASSUME Documents(served.conf, served.props), NEW name, NEW at \in Seq(Int),
         NEW field \in {"duration", "fidelity"}
  PROVE  (IF name = "measure" /\ Len(at) = 1 /\ at[1] + 1 \in DOMAIN served.props.qubits
          THEN {served.props.qubits[at[1] + 1][field]} \ {None} ELSE {})
            = {ReadoutValue(served.props, name, at, field)} \ {None}
  <1> DEFINE qubits == served.props.qubits
             value == ReadoutValue(served.props, name, at, field)
  <1>1. CASE at \in ReadoutSites(served.props, name)
    <2>1. name = "measure" /\ at \in ReadoutsOf(served.props)
      BY <1>1 DEF ReadoutSites
    <2>2. PICK i \in DOMAIN qubits : at = <<i - 1>>
      BY <2>1 DEF ReadoutsOf
    <2>3. i \in Nat
      BY DEF Documents
    <2>4. Len(at) = 1 /\ at[1] + 1 = i
      BY <2>2, <2>3
    <2>5. value = qubits[at[1] + 1][field]
      BY <1>1 DEF ReadoutValue
    <2> HIDE DEF qubits, value
    <2>6. QED
      BY <2>1, <2>2, <2>4, <2>5 DEF qubits, value
  <1>2. CASE at \notin ReadoutSites(served.props, name)
    <2>1. value = None
      BY <1>2 DEF ReadoutValue
    <2>2. ASSUME name = "measure", Len(at) = 1, at[1] + 1 \in DOMAIN qubits
          PROVE  qubits[at[1] + 1][field] = None
      <3> DEFINE i == at[1] + 1
      <3>1. at[1] \in Int /\ at = <<at[1]>>
        <4>1. 1 \in 1 .. Len(at) /\ DOMAIN at = 1 .. 1
          BY <2>2
        <4>2. at[1] \in Int
          BY <4>1
        <4>3. at = [k \in 1 .. 1 |-> at[k]]
          BY <4>1
        <4> DEFINE s == <<at[1]>>
        <4>4. s \in Seq(Int) /\ Len(s) = 1 /\ s[1] = at[1]
          BY <4>2
        <4> HIDE DEF s
        <4>5. s = [k \in 1 .. 1 |-> at[k]]
          BY <4>4
        <4>6. QED
          BY <4>2, <4>3, <4>5 DEF s
      <3>2. at = <<i - 1>>
        BY <3>1
      <3>3. at \notin ReadoutsOf(served.props)
        BY <1>2, <2>2 DEF ReadoutSites
      <3> HIDE DEF i
      <3>4. i \in DOMAIN qubits => qubits[i].duration = None /\ qubits[i].fidelity = None
        BY <3>2, <3>3 DEF ReadoutsOf
      <3>5. qubits[i].duration = None /\ qubits[i].fidelity = None
        BY <2>2, <3>4 DEF i
      <3>6. qubits[i].duration = qubits[i]["duration"]
            /\ qubits[i].fidelity = qubits[i]["fidelity"]
        OBVIOUS
      <3>7. QED
        BY <3>5, <3>6 DEF i
    <2> HIDE DEF value
    <2>3. QED
      BY <2>1, <2>2 DEF value
  <1>3. QED
    BY <1>1, <1>2

\* What is reported for a tuple is the value of its calibration.
LEMMA FieldReported ==
  ASSUME Documents(served.conf, served.props), NEW name, NEW at \in Seq(Int),
         NEW field \in {"duration", "fidelity"}, NEW value,
         FieldSays(served.props, name, Len(served.props.gates), at, field, value)
  PROVE  Reports(name, at, field) = {value} \ {None}
  <1> DEFINE props == served.props
             n == Len(props.gates)
             mine == {j \in Entries(props, name, n) : props.gates[j].qubits = at}
             readout == ReadoutValue(props, name, at, field)
             gates == {gate[field] : gate \in EntriesOf(name, at)} \ {None}
  <1>1. EntriesOf(name, at) = {props.gates[j] : j \in mine}
    BY SameEntries
  <1>2. Reports(name, at, field)
           = IF {readout} \ {None} # {} THEN {readout} \ {None} ELSE gates
    BY SameReadout DEF Reports
  <1>3. /\ readout # None => value = readout
        /\ readout = None /\ mine = {} => value = None
        /\ readout = None => \A j \in mine : value = props.gates[j][field]
    BY DEF FieldSays
  <1>4. readout = None => gates = {value} \ {None}
    <2> HIDE DEF readout, mine
    <2>1. QED
      BY <1>1, <1>3
  <1> HIDE DEF readout, gates
  <1>5. QED
    BY <1>2, <1>3, <1>4

\* The answer that the values reported for a tuple call for.
LEMMA ReportedAnswer ==
  ASSUME NEW reported, NEW value, reported = {value} \ {None}
  PROVE  Answer(value) = IF reported = {} THEN NotSupported
                         ELSE Answer(CHOOSE v \in reported : TRUE)
  BY DEF Answer

\* Durations and fidelities are answered as they are reported for this
\* operation on this very tuple, readouts first, and nothing else is
\* answered (src/Metadata.cpp:268-338, src/Device.cpp:596-679).
THEOREM CalibrationsAlwaysReported == Spec => []CalibrationsReported
  <1>1. Snapshot => CalibrationsReported
    <2> DEFINE tuples == {<<0>>, <<1>>, <<0, 1>>, <<1, 0>>}
               reported(name, at, property) ==
                  IF at \in metadata.operations[name].sites
                  THEN Reports(name, at, Quantity(property)) ELSE {}
    <2> SUFFICES ASSUME Snapshot, metadata # None,
                        NEW name \in DOMAIN metadata.operations,
                        NEW at \in tuples,
                        NEW property \in {"DURATION", "FIDELITY"}
                 PROVE  OperationAnswer(name, at, property)
                           = IF reported(name, at, property) = {} THEN NotSupported
                             ELSE Answer(CHOOSE v \in reported(name, at, property) : TRUE)
      BY Zenon DEF CalibrationsReported
    <2> DEFINE props == served.props
               n == Len(props.gates)
               field == Quantity(property)
               w == metadata.operations[name]
               c == w.calibrations[at]
               told == reported(name, at, property)
    <2>1. Documents(served.conf, props)
      BY OfferedIsDescribed
    <2>2. PICK op : /\ Describes(served.conf, props, name, n, op)
                    /\ w = Working(op, FaultySites(props))
      BY OfferedIsDescribed
    <2>3. /\ DOMAIN w.calibrations = w.sites \cap DOMAIN op.calibrations
          /\ \A t \in DOMAIN w.calibrations : w.calibrations[t] = op.calibrations[t]
      BY <2>2, WorkingIs
    <2>4. at \in Seq(Int) /\ field \in {"duration", "fidelity"}
      <3>1. \A q, r \in Int : <<q>> \in Seq(Int) /\ <<q, r>> \in Seq(Int)
        OBVIOUS
      <3>2. /\ <<0>> \in Seq(Int) /\ <<1>> \in Seq(Int)
            /\ <<0, 1>> \in Seq(Int) /\ <<1, 0>> \in Seq(Int)
        <4>1. 0 \in Int /\ 1 \in Int
          OBVIOUS
        <4>2. QED
          BY <3>1, <4>1, Zenon
      <3>3. at \in Seq(Int)
        BY <3>2, Zenon
      <3>4. field \in {"duration", "fidelity"}
        BY DEF Quantity
      <3>5. QED
        BY <3>3, <3>4
    <2>5. OperationAnswer(name, at, property)
             = IF (at # None /\ at \notin w.sites) \/ at \notin DOMAIN w.calibrations
               THEN NotSupported
               ELSE Answer(IF property = "DURATION" THEN c.duration ELSE c.fidelity)
      BY DEF OperationAnswer
    <2> HIDE DEF props, n, w
    <2>6. CASE at \notin w.sites
      <3>1. told = {}
        BY <2>6 DEF w
      <3>2. OperationAnswer(name, at, property) = NotSupported
        BY <2>3, <2>5, <2>6
      <3> HIDE DEF told
      <3>3. QED
        BY <3>1, <3>2 DEF told
    <2>7. CASE at \in w.sites /\ at \notin DOMAIN op.calibrations
      <3>1. OperationAnswer(name, at, property) = NotSupported
        BY <2>3, <2>5, <2>7
      <3>2. at \notin ReadoutSites(props, name) /\ at \notin EntrySites(props, name, n)
        BY <2>2, <2>7 DEF Describes
      <3>3. FieldSays(props, name, n, at, field, None)
        BY <3>2 DEF FieldSays, ReadoutValue, EntrySites
      <3>4. Reports(name, at, field) = {}
        BY <2>1, <2>4, <3>3, FieldReported DEF props, n
      <3>5. told = {}
        BY <3>4
      <3> HIDE DEF told
      <3>6. QED
        BY <3>1, <3>5 DEF told
    <2>8. CASE at \in w.sites /\ at \in DOMAIN op.calibrations
      <3> DEFINE value == IF property = "DURATION" THEN c.duration ELSE c.fidelity
      <3>1. at \in DOMAIN w.calibrations /\ c = op.calibrations[at]
        BY <2>3, <2>8
      <3>2. OperationAnswer(name, at, property) = Answer(value)
        BY <2>5, <2>8, <3>1
      <3>3. CalibrationIs(props, name, n, at, c)
        BY <2>2, <2>8, <3>1 DEF Describes
      <3>4. FieldSays(props, name, n, at, field, value)
        <4> HIDE DEF c
        <4>1. QED
          BY <3>3 DEF CalibrationIs, Quantity
      <3>5. Reports(name, at, field) = {value} \ {None}
        BY <2>1, <2>4, <3>4, FieldReported DEF props, n
      <3>6. told = {value} \ {None}
        BY <2>8, <3>5 DEF w
      <3> HIDE DEF told, value
      <3>7. Answer(value) = IF told = {} THEN NotSupported
                            ELSE Answer(CHOOSE v \in told : TRUE)
        BY <3>6, ReportedAnswer
      <3>8. QED
        BY <3>2, <3>7 DEF told
    <2>9. QED
      BY <2>6, <2>7, <2>8
  <1>2. QED
    BY <1>1, SnapshotAlways, PTL
=============================================================================
