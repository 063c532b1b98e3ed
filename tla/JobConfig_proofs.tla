---------------------------- MODULE JobConfig_proofs ----------------------------
(***************************************************************************)
(* Proofs about the configuration of a job, for any sources, limit, shot   *)
(* counts and program lists: the limit of executions holds in whichever    *)
(* order programs and shots come, no option is dropped by a change of the  *)
(* format, and what was submitted can be retrieved as it is shown.         *)
(*                                                                         *)
(* The limit alone is not inductive: that shots are within it for the      *)
(* programs a job has, and positive, needs that an executor source left    *)
(* positive shots behind; and so on.  Consistent has what is known of a    *)
(* job in every state, and Reflects that its fields are what the client    *)
(* was granted last.                                                       *)
(***************************************************************************)
EXTENDS JobConfig, TLAPS

-----------------------------------------------------------------------------
(* The inductive invariant *)

Job == [format : Formats \cup {"none"}, programs : Seq(Sources),
        registers : Seq(Int), shots : Nat, samplerOptionsSet : BOOLEAN,
        dynamicalDecoupling : DD, maxExecutionTime : Times, attempted : BOOLEAN]

\* What is known of a job, whatever was called and in whichever order.
Consistent(j) ==
    /\ j \in Job
    /\ j.shots > 0
    /\ ~j.samplerOptionsSet => j.dynamicalDecoupling = DefaultDD
    /\ j.registers = Layouts(j.format, j.programs)
    /\ IF j.format = "none" THEN j.programs = << >>
       ELSE /\ j.programs \in Seq(SourcesOf[j.format])
            /\ j.programs # << >>
            /\ Valid(j.format, j.programs)
    /\ j.format \in {"QASM3", "QPY"} => Allowed(Len(j.programs), j.shots)
    /\ j.format = "EXECUTOR" => /\ ~j.samplerOptionsSet
                                /\ Len(j.programs) = 1
                                /\ j.shots = PayloadShots[j.programs[1]]

\* What was sent is what the job, frozen by the submission, still shows.
Submitted == sent # NoPayload =>
    job.attempted /\ job.programs # << >> /\ sent = Payload(job)

Request == [format : Formats \cup {"none"}, programs : Seq(Sources),
            shots : SUBSET Nat, options : SUBSET DD, time : Times]

\* The job is what was asked for, and shots or options that were asked for
\* are marked, so that no executor payload takes their place.
Reflects(j, request) ==
    /\ request \in Request
    /\ request.format = j.format
    /\ request.programs = j.programs
    /\ request.time = j.maxExecutionTime
    /\ request.shots # {} => j.samplerOptionsSet /\ request.shots = {j.shots}
    /\ request.options # {} => j.samplerOptionsSet
    /\ {j.dynamicalDecoupling} =
          IF request.options = {} THEN {DefaultDD} ELSE request.options

\* Only a retrieved job is not what the client of this handle asked for.
Granted == ~job.attempted \/ sent # NoPayload => Reflects(job, asked)

Inv == Consistent(job) /\ Submitted /\ Granted

-----------------------------------------------------------------------------
(* Operators *)

\* A quotient times its divisor does not exceed the dividend.
LEMMA Quotient ==
  ASSUME NEW a \in Nat, NEW n \in Nat \ {0}, NEW l \in Nat, a <= l \div n
  PROVE  a * n <= l
  <1> DEFINE q == l \div n
  <1>1. q \in Int /\ q * n <= l
    BY SMT
  <1>2. a <= q
    OBVIOUS
  <1> HIDE DEF q
  <1>3. \E d \in Nat : q = a + d
    BY <1>1, <1>2
  <1>4. PICK d \in Nat : q = a + d
    BY <1>3
  <1>5. q * n = a * n + d * n /\ d * n >= 0
    BY <1>4
  <1>6. QED
    BY <1>1, <1>5

\* What is allowed is within the limit.
LEMMA AllowedMeans ==
  ASSUME NEW count \in Nat, NEW shots \in Nat, shots > 0, Allowed(count, shots)
  PROVE  count * shots <= Limit
  BY Quotient, NumbersAssumption DEF Allowed

\* Fewer programs are allowed if more are.
LEMMA AllowedFewer ==
  ASSUME NEW m \in Nat, NEW n \in Nat, m <= n, NEW shots \in Nat, shots > 0,
         Allowed(n, shots)
  PROVE  Allowed(m, shots)
  <1>1. Limit \div shots \in Int
    BY NumbersAssumption
  <1>2. QED
    BY <1>1 DEF Allowed

\* Sources by format.
LEMMA FormatSources ==
  /\ SourcesOf["QASM3"] = Qasm /\ SourcesOf["QPY"] = Qpy
  /\ SourcesOf["EXECUTOR"] = Executor
  /\ \A f \in Formats : SourcesOf[f] \subseteq Sources
  BY DEF SourcesOf, Formats, Sources

\* One register layout per program, none for the executor.
LEMMA LayoutsType ==
  ASSUME NEW f \in Formats, NEW s \in Seq(SourcesOf[f])
  PROVE  /\ Layouts(f, s) \in Seq(Int)
         /\ f # "EXECUTOR" =>
               /\ Len(Layouts(f, s)) = Len(s)
               /\ \A i \in 1 .. Len(s) : Layouts(f, s)[i] = Layout[s[i]]
  <1>1. CASE f = "EXECUTOR"
    BY <1>1 DEF Layouts
  <1>2. CASE f # "EXECUTOR"
    <2>1. s \in Seq(Qasm \cup Qpy) /\ DOMAIN s = 1 .. Len(s)
      BY <1>2, FormatSources DEF Formats
    <2>2. \A i \in 1 .. Len(s) : Layout[s[i]] \in Int
      BY <2>1, SourcesAssumption
    <2>3. Layouts(f, s) = [i \in 1 .. Len(s) |-> Layout[s[i]]]
      BY <1>2, <2>1 DEF Layouts
    <2>4. QED
      BY <2>1, <2>2, <2>3
  <1>3. QED
    BY <1>1, <1>2

\* A fresh job is consistent.
LEMMA FreshConsistent == Consistent(FreshJob) /\ ~FreshJob.attempted
  <1>1. FreshJob \in Job /\ FreshJob.shots > 0
    BY NumbersAssumption, OptionsAssumption DEF FreshJob, Job, Formats
  <1>2. Layouts("none", << >>) = << >>
    BY DEF Layouts
  <1>3. QED
    BY <1>1, <1>2 DEF Consistent, FreshJob, Formats

-----------------------------------------------------------------------------
(* Operations of a job *)

\* Setting programs leaves a consistent job, and all or nothing.
LEMMA SetProgramsConsistent ==
  ASSUME NEW j, Consistent(j), NEW f \in Formats, NEW s \in Seq(SourcesOf[f]),
         NEW r, r = SetPrograms(j, f, s)
  PROVE  /\ Consistent(r.job)
         /\ r.job.attempted = j.attempted
         /\ r.ok \/ r.job = j
  <1>1. CASE ~(/\ Configurable(j) /\ CheckProgramSupport(j, f, Len(s))
               /\ Valid(f, s))
    BY <1>1 DEF SetPrograms, Thrown
  <1>2. CASE /\ Configurable(j) /\ CheckProgramSupport(j, f, Len(s))
             /\ Valid(f, s)
    <2>1. r.ok /\ r.job = Commit(j, f, s)
      BY <1>2 DEF SetPrograms, Done
    <2>2. j \in Job /\ s # << >> /\ Len(s) \in Nat /\ s \in Seq(Sources)
      BY <1>2, FormatSources DEF Consistent, CheckProgramSupport
    <2>3. /\ r.job.programs = s /\ r.job.format = f
          /\ r.job.registers = Layouts(f, s)
          /\ r.job.shots = IF f = "EXECUTOR" THEN PayloadShots[s[1]] ELSE j.shots
          /\ r.job.samplerOptionsSet = j.samplerOptionsSet
          /\ r.job.dynamicalDecoupling = j.dynamicalDecoupling
          /\ r.job.maxExecutionTime = j.maxExecutionTime
          /\ r.job.attempted = j.attempted
      BY <2>1, <2>2 DEF Commit, Job
    <2>4. f = "EXECUTOR" => /\ Len(s) = 1 /\ ~j.samplerOptionsSet
                            /\ PayloadShots[s[1]] \in Nat
                            /\ PayloadShots[s[1]] > 0
      <3> SUFFICES ASSUME f = "EXECUTOR"
                   PROVE  /\ Len(s) = 1 /\ ~j.samplerOptionsSet
                          /\ PayloadShots[s[1]] \in Nat
                          /\ PayloadShots[s[1]] > 0
        OBVIOUS
      <3>1. Len(s) = 1 /\ ~j.samplerOptionsSet
        BY <1>2 DEF CheckProgramSupport
      <3>2. s \in Seq(Executor) /\ 1 \in DOMAIN s
        BY <3>1, FormatSources
      <3>3. s[1] \in Executor
        BY <3>2
      <3>4. QED
        BY <1>2, <3>1, <3>2, <3>3, SourcesAssumption DEF Valid
    <2>5. f # "EXECUTOR" => Allowed(Len(s), j.shots)
      BY <1>2 DEF CheckProgramSupport
    <2>6. r.job.shots \in Nat /\ r.job.shots > 0
      BY <2>2, <2>3, <2>4 DEF Consistent, Job
    <2>7. Layouts(f, s) \in Seq(Int)
      BY LayoutsType
    <2>8. r.job \in Job
      <3>1. r.job = [j EXCEPT !.programs = s, !.format = f,
                              !.registers = Layouts(f, s),
                              !.shots = r.job.shots]
        BY <2>1, <2>2, <2>3 DEF Commit, Job
      <3> DEFINE n == r.job.shots
      <3>2. n \in Nat
        BY <2>6
      <3> HIDE DEF n
      <3>3. [j EXCEPT !.programs = s, !.format = f,
                      !.registers = Layouts(f, s), !.shots = n] \in Job
        BY <2>2, <2>7, <3>2 DEF Job
      <3>4. QED
        BY <3>1, <3>3 DEF n
    <2>9. QED
      BY <1>2, <2>1, <2>2, <2>3, <2>4, <2>5, <2>6, <2>8
         DEF Consistent, Formats
  <1>3. QED
    BY <1>1, <1>2

\* So does setting shots, which are checked with the programs there are.
LEMMA SetShotsConsistent ==
  ASSUME NEW j, Consistent(j), NEW n \in Nat, NEW r, r = SetShots(j, n)
  PROVE  /\ Consistent(r.job)
         /\ r.job.attempted = j.attempted
         /\ r.ok \/ r.job = j
  <1>1. CASE ~(j.format # "EXECUTOR" /\ n # 0 /\ Allowed(Circuits(j), n))
    BY <1>1 DEF SetShots, Thrown
  <1>2. CASE j.format # "EXECUTOR" /\ n # 0 /\ Allowed(Circuits(j), n)
    <2>1. r.ok /\ r.job = [j EXCEPT !.shots = n, !.samplerOptionsSet = TRUE]
      BY <1>2 DEF SetShots, Done
    <2>2. j \in Job /\ Len(j.programs) \in Nat
      BY DEF Consistent, Job
    <2>3. /\ r.job \in Job /\ r.job.shots = n /\ r.job.samplerOptionsSet
          /\ r.job.programs = j.programs /\ r.job.format = j.format
          /\ r.job.registers = j.registers /\ r.job.attempted = j.attempted
      <3> DEFINE k == [j EXCEPT !.shots = n, !.samplerOptionsSet = TRUE]
      <3>1. /\ k \in Job /\ k.shots = n /\ k.samplerOptionsSet
            /\ k.programs = j.programs /\ k.format = j.format
            /\ k.registers = j.registers /\ k.attempted = j.attempted
        BY <2>2 DEF Job
      <3>2. r.job = k
        BY <2>1
      <3> HIDE DEF k
      <3>3. QED
        BY <3>1, <3>2
    <2>4. j.format # "none" => Allowed(Len(j.programs), n)
      <3>1. j.format # "none" => Len(j.programs) >= 1
        BY <2>2 DEF Consistent
      <3>2. QED
        BY <1>2, <2>2, <3>1 DEF Circuits
    <2>5. QED
      BY <1>2, <2>1, <2>3, <2>4 DEF Consistent
  <1>3. QED
    BY <1>1, <1>2

\* So do Sampler options, which an executor job refuses.
LEMMA SetDynamicalDecouplingConsistent ==
  ASSUME NEW j, Consistent(j), NEW options,
         NEW r, r = SetDynamicalDecoupling(j, options)
  PROVE  /\ Consistent(r.job)
         /\ r.job.attempted = j.attempted
         /\ r.ok \/ r.job = j
  <1>1. CASE ~(Configurable(j) /\ j.format # "EXECUTOR" /\ ValidOptions(options))
    BY <1>1 DEF SetDynamicalDecoupling, Thrown
  <1>2. CASE Configurable(j) /\ j.format # "EXECUTOR" /\ ValidOptions(options)
    <2>1. r.ok /\ r.job = [j EXCEPT !.dynamicalDecoupling = options,
                                    !.samplerOptionsSet = TRUE]
      BY <1>2 DEF SetDynamicalDecoupling, Done
    <2>2. j \in Job /\ options \in DD
      BY <1>2 DEF Consistent, ValidOptions
    <2>3. r.job \in Job
      BY <2>1, <2>2 DEF Job
    <2>4. /\ r.job.programs = j.programs /\ r.job.format = j.format
          /\ r.job.registers = j.registers /\ r.job.attempted = j.attempted
          /\ r.job.shots = j.shots
      BY <2>1, <2>2 DEF Job
    <2>5. r.job.samplerOptionsSet
      BY <2>1, <2>2 DEF Job
    <2>6. QED
      BY <1>2, <2>1, <2>3, <2>4, <2>5 DEF Consistent
  <1>3. QED
    BY <1>1, <1>2

\* The other fields do not matter.
LEMMA OthersConsistent ==
  ASSUME NEW j, Consistent(j)
  PROVE  /\ Consistent([j EXCEPT !.attempted = TRUE])
         /\ \A time \in Times : Consistent([j EXCEPT !.maxExecutionTime = time])
  <1>1. j \in Job
    BY DEF Consistent
  <1>2. ASSUME NEW k \in Job,
               \A f \in {"format", "programs", "registers", "shots",
                         "samplerOptionsSet", "dynamicalDecoupling"} : k[f] = j[f]
        PROVE  Consistent(k)
    <2>1. /\ k.format = j.format /\ k.programs = j.programs
          /\ k.registers = j.registers /\ k.shots = j.shots
          /\ k.samplerOptionsSet = j.samplerOptionsSet
          /\ k.dynamicalDecoupling = j.dynamicalDecoupling
      BY <1>2
    <2>2. QED
      BY <2>1 DEF Consistent
  <1>3. QED
    BY <1>1, <1>2 DEF Job

\* The programs that were set are those of the job, with their registers.
LEMMA SetProgramsSets ==
  ASSUME NEW j \in Job, NEW f \in Formats, NEW s,
         Configurable(j), CheckProgramSupport(j, f, Len(s)), Valid(f, s),
         NEW r, r = SetPrograms(j, f, s)
  PROVE  /\ r.ok
         /\ r.job.programs = s /\ r.job.format = f
         /\ r.job.registers = Layouts(f, s)
         /\ r.job.shots = IF f = "EXECUTOR" THEN PayloadShots[s[1]] ELSE j.shots
  <1>1. r.ok /\ r.job = Commit(j, f, s)
    BY DEF SetPrograms, Done
  <1>2. QED
    BY <1>1 DEF Commit, Job

-----------------------------------------------------------------------------
(* What was granted *)

\* Nothing was asked for a fresh job.
LEMMA FreshReflects == Reflects(FreshJob, NothingAsked)
  <1>1. NothingAsked \in Request
    BY OptionsAssumption DEF NothingAsked, Request
  <1>2. QED
    BY <1>1 DEF Reflects, FreshJob, NothingAsked

\* The programs that were granted are those of the job, and an executor
\* payload replaces its shots only if none were asked for.
LEMMA SetProgramsReflects ==
  ASSUME NEW j, Consistent(j), NEW request, Reflects(j, request),
         NEW f \in Formats, NEW s \in Seq(SourcesOf[f]),
         NEW r, r = SetPrograms(j, f, s), r.ok
  PROVE  Reflects(r.job, [request EXCEPT !.format = f, !.programs = s])
  <1>1. r.job = Commit(j, f, s) /\ CheckProgramSupport(j, f, Len(s))
    BY DEF SetPrograms, Thrown, Done
  <1>2. j \in Job
    BY DEF Consistent
  <1>3. /\ r.job.format = f /\ r.job.programs = s
        /\ f # "EXECUTOR" => r.job.shots = j.shots
        /\ f = "EXECUTOR" => ~j.samplerOptionsSet
        /\ r.job.samplerOptionsSet = j.samplerOptionsSet
        /\ r.job.dynamicalDecoupling = j.dynamicalDecoupling
        /\ r.job.maxExecutionTime = j.maxExecutionTime
    BY <1>1, <1>2 DEF Commit, Job, CheckProgramSupport
  <1> DEFINE k == [request EXCEPT !.format = f, !.programs = s]
  <1>4. /\ request \in Request /\ s \in Seq(Sources)
        /\ f \in Formats \cup {"none"}
    BY FormatSources DEF Reflects
  <1>5. /\ k \in Request
        /\ k.format = f /\ k.programs = s /\ k.time = request.time
        /\ k.shots = request.shots /\ k.options = request.options
    BY <1>4 DEF Request
  <1> HIDE DEF k
  <1>6. QED
    BY <1>3, <1>5 DEF Reflects, k

\* Shots that were granted are those of the job and marked.
LEMMA SetShotsReflects ==
  ASSUME NEW j, Consistent(j), NEW request, Reflects(j, request),
         NEW n \in Nat, NEW r, r = SetShots(j, n), r.ok
  PROVE  Reflects(r.job, [request EXCEPT !.shots = {n}])
  <1>1. r.job = [j EXCEPT !.shots = n, !.samplerOptionsSet = TRUE] /\ j \in Job
    BY DEF SetShots, Thrown, Done, Consistent
  <1>2. /\ r.job.format = j.format /\ r.job.programs = j.programs
        /\ r.job.shots = n /\ r.job.samplerOptionsSet
        /\ r.job.dynamicalDecoupling = j.dynamicalDecoupling
        /\ r.job.maxExecutionTime = j.maxExecutionTime
    BY <1>1 DEF Job
  <1> DEFINE k == [request EXCEPT !.shots = {n}]
  <1>3. request \in Request
    BY DEF Reflects
  <1>4. /\ k \in Request
        /\ k.format = request.format /\ k.programs = request.programs
        /\ k.time = request.time
        /\ k.shots = {n} /\ k.options = request.options
    BY <1>3 DEF Request
  <1> HIDE DEF k
  <1>5. QED
    BY <1>2, <1>4 DEF Reflects, k

\* So are options.
LEMMA SetDynamicalDecouplingReflects ==
  ASSUME NEW j, Consistent(j), NEW request, Reflects(j, request),
         NEW options, NEW r, r = SetDynamicalDecoupling(j, options), r.ok
  PROVE  Reflects(r.job, [request EXCEPT !.options = {options}])
  <1>1. /\ r.job = [j EXCEPT !.dynamicalDecoupling = options,
                             !.samplerOptionsSet = TRUE]
        /\ j \in Job /\ options \in DD
    BY DEF SetDynamicalDecoupling, Thrown, Done, Consistent, ValidOptions
  <1>2. /\ r.job.format = j.format /\ r.job.programs = j.programs
        /\ r.job.shots = j.shots /\ r.job.samplerOptionsSet
        /\ r.job.dynamicalDecoupling = options
        /\ r.job.maxExecutionTime = j.maxExecutionTime
    BY <1>1 DEF Job
  <1> DEFINE k == [request EXCEPT !.options = {options}]
  <1>3. request \in Request
    BY DEF Reflects
  <1>4. /\ k \in Request
        /\ k.format = request.format /\ k.programs = request.programs
        /\ k.time = request.time
        /\ k.shots = request.shots /\ k.options = {options}
    BY <1>1, <1>3 DEF Request
  <1> HIDE DEF k
  <1>5. QED
    BY <1>2, <1>4 DEF Reflects, k

\* And the time.
LEMMA SetTimeReflects ==
  ASSUME NEW j, Consistent(j), NEW request, Reflects(j, request),
         NEW time \in Times
  PROVE  Reflects([j EXCEPT !.maxExecutionTime = time],
                  [request EXCEPT !.time = time])
  <1> DEFINE m == [j EXCEPT !.maxExecutionTime = time]
             k == [request EXCEPT !.time = time]
  <1>1. j \in Job /\ request \in Request
    BY DEF Reflects, Consistent
  <1>2. /\ m.format = j.format /\ m.programs = j.programs /\ m.shots = j.shots
        /\ m.samplerOptionsSet = j.samplerOptionsSet
        /\ m.dynamicalDecoupling = j.dynamicalDecoupling
        /\ m.maxExecutionTime = time
    BY <1>1 DEF Job
  <1>3. /\ k \in Request
        /\ k.format = request.format /\ k.programs = request.programs
        /\ k.time = time
        /\ k.shots = request.shots /\ k.options = request.options
    BY <1>1 DEF Request
  <1> HIDE DEF m, k
  <1>4. QED
    BY <1>2, <1>3 DEF Reflects, m, k

-----------------------------------------------------------------------------
(* Retrieval *)

\* A retrieved job was read whole, or is not there.
LEMMA RetrieveMarks ==
  ASSUME NEW p, NEW read,
         read = IF p.program = "executor" THEN RetrieveExecutor(p)
                                          ELSE RetrieveSampler(p)
  PROVE  /\ Retrieve(p).ok <=> read.ok
         /\ read.ok => Retrieve(p).job = [read.job EXCEPT !.attempted = TRUE]
  BY DEF Retrieve, Done, Thrown

\* The sources of a payload with one format are sources of that format.
LEMMA UniformSources ==
  ASSUME NEW pubs \in Seq([circuit : [form : {"text"}, source : Qasm]
                                         \cup [form : {"object"}, source : Qpy],
                           shots : Nat]),
         Uniform(pubs)
  PROVE  /\ FormatOf(pubs[1]) \in Formats
         /\ pubs[1].shots \in Nat
         /\ [i \in DOMAIN pubs |-> pubs[i].circuit.source]
              \in Seq(SourcesOf[FormatOf(pubs[1])])
  <1> DEFINE Coded == [form : {"text"}, source : Qasm]
                         \cup [form : {"object"}, source : Qpy]
             Pub == [circuit : Coded, shots : Nat]
  <1>1. /\ DOMAIN pubs = 1 .. Len(pubs) /\ Len(pubs) \in Nat
        /\ 1 \in DOMAIN pubs
        /\ \A i \in DOMAIN pubs : pubs[i] \in Pub
    <2>1. pubs \in Seq(Pub) /\ pubs # << >>
      BY DEF Uniform
    <2> HIDE DEF Pub
    <2>2. QED
      BY <2>1
  <1>2. \A i \in DOMAIN pubs : pubs[i].circuit.source \in SourcesOf[FormatOf(pubs[1])]
    <2>1. SUFFICES ASSUME NEW i \in DOMAIN pubs
                   PROVE  pubs[i].circuit.source \in SourcesOf[FormatOf(pubs[i])]
      BY DEF Uniform
    <2>2. pubs[i].circuit \in Coded
      BY <1>1
    <2>3. QED
      BY <2>2, FormatSources DEF FormatOf
  <1>3. FormatOf(pubs[1]) \in Formats /\ pubs[1].shots \in Nat
    BY <1>1 DEF FormatOf, Formats
  <1> DEFINE S == SourcesOf[FormatOf(pubs[1])]
             t == [i \in DOMAIN pubs |-> pubs[i].circuit.source]
  <1>4. t \in Seq(S)
    <2> DEFINE n == Len(pubs)
    <2>1. n \in Nat /\ t \in [1 .. n -> S]
      BY <1>1, <1>2
    <2> HIDE DEF t, S, n
    <2>2. QED
      BY <2>1
  <1>5. QED
    BY <1>3, <1>4

\* Whatever others submitted, a job that could be read is consistent.
LEMMA RetrieveConsistent ==
  ASSUME NEW p \in Foreign, Retrieve(p).ok
  PROVE  Consistent(Retrieve(p).job)
  <1> DEFINE read == IF p.program = "executor" THEN RetrieveExecutor(p)
                                               ELSE RetrieveSampler(p)
  <1>1. read.ok /\ Retrieve(p).job = [read.job EXCEPT !.attempted = TRUE]
    BY RetrieveMarks
  <1>2. Consistent(read.job)
    <2>1. CASE p.program = "executor"
      <3>1. <<p.params>> \in Seq(SourcesOf["EXECUTOR"])
        BY <2>1, ForeignAssumption, FormatSources
      <3>2. read = SetPrograms(FreshJob, "EXECUTOR", <<p.params>>)
        BY <2>1 DEF RetrieveExecutor
      <3>3. "EXECUTOR" \in Formats
        BY DEF Formats
      <3> HIDE DEF read
      <3>4. QED
        BY <3>1, <3>2, <3>3, FreshConsistent, SetProgramsConsistent
    <2>2. CASE p.program # "executor"
      <3> DEFINE programs == [i \in DOMAIN p.pubs |-> p.pubs[i].circuit.source]
                 counted == SetShots(FreshJob, p.pubs[1].shots)
      <3>1. /\ Uniform(p.pubs) /\ counted.ok
            /\ read = SetPrograms(counted.job, FormatOf(p.pubs[1]), programs)
        BY <1>1, <2>2 DEF RetrieveSampler, Thrown
      <3>2. p.pubs \in Seq([circuit : [form : {"text"}, source : Qasm]
                                         \cup [form : {"object"}, source : Qpy],
                            shots : Nat])
        BY <2>2, ForeignAssumption
      <3>3. /\ FormatOf(p.pubs[1]) \in Formats
            /\ p.pubs[1].shots \in Nat
            /\ programs \in Seq(SourcesOf[FormatOf(p.pubs[1])])
        BY <3>1, <3>2, UniformSources
      <3> HIDE DEF read, counted, programs
      <3>4. Consistent(counted.job)
        BY <3>3, FreshConsistent, SetShotsConsistent DEF counted
      <3>5. QED
        BY <3>1, <3>3, <3>4, SetProgramsConsistent
    <2>3. QED
      BY <2>1, <2>2
  <1> HIDE DEF read
  <1>3. QED
    BY <1>1, <1>2, OthersConsistent

\* A retrieved job is not configured any more.
LEMMA RetrievedFrozen ==
  ASSUME NEW p \in Foreign, Retrieve(p).ok
  PROVE  Retrieve(p).job.attempted
  <1> DEFINE read == IF p.program = "executor" THEN RetrieveExecutor(p)
                                               ELSE RetrieveSampler(p)
             k == [read.job EXCEPT !.attempted = TRUE]
  <1>1. Retrieve(p).job = k
    BY RetrieveMarks
  <1>2. k \in Job
    BY <1>1, RetrieveConsistent DEF Consistent
  <1> HIDE DEF read
  <1>3. QED
    BY <1>1, <1>2 DEF Job

\* What is sent for OpenQASM and QPY programs, pub by pub.
LEMMA PubsSent ==
  ASSUME NEW j, Consistent(j), j.format \in {"QASM3", "QPY"}
  PROVE  /\ DOMAIN Pubs(j) = 1 .. Len(j.programs)
         /\ Len(j.programs) \in Nat \ {0} /\ Len(Pubs(j)) = Len(j.programs)
         /\ \A i \in 1 .. Len(j.programs) :
               /\ j.programs[i] \in SourcesOf[j.format]
               /\ Pubs(j)[i].shots = j.shots
               /\ FormatOf(Pubs(j)[i]) = j.format
               /\ Pubs(j)[i].circuit.source =
                     IF j.format = "QASM3" THEN Declare[j.programs[i]]
                                           ELSE j.programs[i]
               /\ Pubs(j)[i].circuit.source \in SourcesOf[j.format]
               /\ Layout[Pubs(j)[i].circuit.source] = Layout[j.programs[i]]
  <1>1. /\ j.programs \in Seq(SourcesOf[j.format]) /\ j.programs # << >>
    BY DEF Consistent
  <1>2. Len(j.programs) \in Nat \ {0} /\ DOMAIN j.programs = 1 .. Len(j.programs)
    BY <1>1
  <1>3. /\ DOMAIN Pubs(j) = 1 .. Len(j.programs)
        /\ Len(Pubs(j)) = Len(j.programs)
    BY <1>2 DEF Pubs
  <1>4. ASSUME NEW i \in 1 .. Len(j.programs)
        PROVE  /\ j.programs[i] \in SourcesOf[j.format]
               /\ Pubs(j)[i] = [circuit |-> Circuit(j.format, j.programs[i]),
                                shots |-> j.shots]
    BY <1>1, <1>2 DEF Pubs
  <1>5. ASSUME NEW s \in SourcesOf[j.format], NEW pub,
               pub = [circuit |-> Circuit(j.format, s), shots |-> j.shots]
        PROVE  /\ pub.shots = j.shots
               /\ FormatOf(pub) = j.format
               /\ pub.circuit.source = IF j.format = "QASM3" THEN Declare[s] ELSE s
               /\ pub.circuit.source \in SourcesOf[j.format]
               /\ Layout[pub.circuit.source] = Layout[s]
    <2>1. CASE j.format = "QASM3"
      BY <1>5, <2>1, FormatSources, SourcesAssumption, DeclareAssumption
         DEF Circuit, FormatOf
    <2>2. CASE j.format = "QPY"
      BY <1>5, <2>2, FormatSources DEF Circuit, FormatOf
    <2>3. QED
      BY <2>1, <2>2
  <1>6. ASSUME NEW i \in 1 .. Len(j.programs)
        PROVE  /\ Pubs(j)[i].shots = j.shots
               /\ FormatOf(Pubs(j)[i]) = j.format
               /\ Pubs(j)[i].circuit.source =
                     IF j.format = "QASM3" THEN Declare[j.programs[i]]
                                           ELSE j.programs[i]
               /\ Pubs(j)[i].circuit.source \in SourcesOf[j.format]
               /\ Layout[Pubs(j)[i].circuit.source] = Layout[j.programs[i]]
    <2> DEFINE pub == Pubs(j)[i]
               s == j.programs[i]
    <2>1. s \in SourcesOf[j.format]
          /\ pub = [circuit |-> Circuit(j.format, s), shots |-> j.shots]
      BY <1>4
    <2> HIDE DEF pub, s
    <2>2. /\ pub.shots = j.shots
          /\ FormatOf(pub) = j.format
          /\ pub.circuit.source = IF j.format = "QASM3" THEN Declare[s] ELSE s
          /\ pub.circuit.source \in SourcesOf[j.format]
          /\ Layout[pub.circuit.source] = Layout[s]
      BY <1>5, <2>1
    <2>3. QED
      BY <2>2 DEF pub, s
  <1>7. QED
    BY <1>2, <1>3, <1>4, <1>6

\* Retrieving a submission of OpenQASM or QPY programs gives them back.
LEMMA RetrieveSent ==
  ASSUME NEW j, Consistent(j), j.format \in {"QASM3", "QPY"},
         NEW r, r = RetrieveSampler(Payload(j))
  PROVE  /\ r.ok /\ Consistent(r.job)
         /\ r.job.format = j.format /\ r.job.shots = j.shots
         /\ r.job.registers = j.registers
         /\ Len(r.job.programs) = Len(j.programs)
         /\ \A i \in 1 .. Len(j.programs) : r.job.programs[i] =
               IF j.format = "QASM3" THEN Declare[j.programs[i]] ELSE j.programs[i]
  <1> DEFINE n == Len(j.programs)
             pubs == Pubs(j)
             programs == [i \in DOMAIN pubs |-> pubs[i].circuit.source]
             counted == SetShots(FreshJob, j.shots)
  <1>1. /\ n \in Nat \ {0} /\ j.shots \in Nat /\ j.shots > 0
        /\ Allowed(n, j.shots) /\ j.format \in Formats /\ j.format # "EXECUTOR"
    BY PubsSent DEF Consistent, Formats, Job
  <1>2. Payload(j).plain /\ Payload(j).pubs = pubs
    BY <1>1 DEF Payload
  <1>3. Uniform(pubs) /\ pubs[1].shots = j.shots /\ FormatOf(pubs[1]) = j.format
    <2>1. pubs # << >>
      BY <1>1, PubsSent
    <2>2. QED
      BY <1>1, <2>1, PubsSent DEF Uniform
  <1>4. counted.ok /\ counted.job.shots = j.shots /\ ~counted.job.attempted
        /\ ~(counted.job.format = "EXECUTOR") /\ Consistent(counted.job)
    <2>1. Allowed(1, j.shots)
      BY <1>1, AllowedFewer
    <2>2. Circuits(FreshJob) = 1
      BY DEF Circuits, FreshJob
    <2>3. FreshJob.format # "EXECUTOR" /\ ~FreshJob.attempted
      BY DEF FreshJob
    <2>4. counted.ok /\ counted.job = [FreshJob EXCEPT !.shots = j.shots,
                                                       !.samplerOptionsSet = TRUE]
      BY <1>1, <2>1, <2>2, <2>3 DEF SetShots, Done
    <2>5. counted.job.format = FreshJob.format /\ counted.job.shots = j.shots
          /\ counted.job.attempted = FreshJob.attempted
      <3> DEFINE k == [FreshJob EXCEPT !.shots = j.shots, !.samplerOptionsSet = TRUE]
      <3>1. /\ k.format = FreshJob.format /\ k.shots = j.shots
            /\ k.attempted = FreshJob.attempted
        BY DEF FreshJob
      <3>2. counted.job = k
        BY <2>4
      <3> HIDE DEF k, counted
      <3>3. QED
        BY <3>1, <3>2
    <2>6. Consistent(counted.job)
      <3> HIDE DEF counted
      <3>1. QED
        BY <1>1, FreshConsistent, SetShotsConsistent DEF counted
    <2>7. QED
      BY <2>3, <2>4, <2>5, <2>6
  <1>5. r = SetPrograms(counted.job, j.format, programs)
    BY <1>2, <1>3, <1>4 DEF RetrieveSampler
  <1>6. /\ DOMAIN programs = 1 .. n /\ Len(programs) = n
        /\ programs \in Seq(SourcesOf[j.format])
        /\ \A i \in 1 .. n :
              /\ programs[i] = IF j.format = "QASM3" THEN Declare[j.programs[i]]
                                                     ELSE j.programs[i]
              /\ Layout[programs[i]] = Layout[j.programs[i]]
    <2> DEFINE S == SourcesOf[j.format]
    <2>1. DOMAIN programs = 1 .. n /\ Len(programs) = n
      BY <1>1, PubsSent
    <2>2. \A i \in 1 .. n :
              /\ programs[i] = IF j.format = "QASM3" THEN Declare[j.programs[i]]
                                                     ELSE j.programs[i]
              /\ Layout[programs[i]] = Layout[j.programs[i]]
              /\ programs[i] \in S
      BY <2>1, PubsSent
    <2>3. programs = [i \in 1 .. n |-> programs[i]]
      BY <2>1
    <2>4. programs \in [1 .. n -> S]
      <3> HIDE DEF S, programs
      <3>1. QED
        BY <2>2, <2>3
    <2>5. programs \in Seq(S)
      <3> HIDE DEF S, programs, n
      <3>1. QED
        BY <1>1, <2>4
    <2>6. QED
      BY <2>1, <2>2, <2>5
  <1> HIDE DEF counted, programs, pubs
  <1>7. Configurable(counted.job) /\ counted.job \in Job
    BY <1>4 DEF Configurable, Consistent
  <1>8. CheckProgramSupport(counted.job, j.format, Len(programs))
    BY <1>1, <1>4, <1>6 DEF CheckProgramSupport
  <1>9. Valid(j.format, programs)
    <2>1. DOMAIN j.programs = 1 .. n /\ Valid(j.format, j.programs)
      BY <1>1 DEF Consistent
    <2>2. QED
      BY <1>1, <1>6, <2>1 DEF Valid
  <1>10. /\ r.ok /\ r.job.programs = programs /\ r.job.format = j.format
         /\ r.job.registers = Layouts(j.format, programs)
         /\ r.job.shots = j.shots
    BY <1>1, <1>4, <1>5, <1>7, <1>8, <1>9, SetProgramsSets
  <1>11. Layouts(j.format, programs) = j.registers
    <2>1. DOMAIN j.programs = 1 .. n /\ j.registers = Layouts(j.format, j.programs)
      BY <1>1 DEF Consistent
    <2>2. QED
      BY <1>1, <1>6, <2>1 DEF Layouts
  <1>12. Consistent(r.job)
    BY <1>1, <1>4, <1>5, <1>6, SetProgramsConsistent
  <1>13. QED
    BY <1>6, <1>10, <1>11, <1>12

\* Retrieving an executor submission gives the JSON that was sent.
LEMMA RetrieveSentExecutor ==
  ASSUME NEW j, Consistent(j), j.format = "EXECUTOR",
         NEW r, r = RetrieveExecutor(Payload(j))
  PROVE  /\ r.ok /\ Consistent(r.job)
         /\ r.job.format = j.format /\ r.job.shots = j.shots
         /\ r.job.registers = j.registers
         /\ Len(r.job.programs) = 1 /\ Len(j.programs) = 1
         /\ r.job.programs[1] = Normal[j.programs[1]]
  <1> DEFINE source == Normal[j.programs[1]]
  <1>1. /\ Len(j.programs) = 1 /\ j.programs[1] \in Executor
        /\ j.shots = PayloadShots[j.programs[1]] /\ j.shots > 0
        /\ j.registers = << >> /\ j.format \in Formats
    BY FormatSources DEF Consistent, Layouts, Formats
  <1>2. source \in Executor /\ PayloadShots[source] = j.shots
    BY <1>1, NormalAssumption
  <1>3. r = SetPrograms(FreshJob, "EXECUTOR", <<source>>)
    BY DEF RetrieveExecutor, Payload
  <1> HIDE DEF source
  <1>4. /\ <<source>> \in Seq(SourcesOf["EXECUTOR"]) /\ Len(<<source>>) = 1
        /\ <<source>>[1] = source /\ DOMAIN <<source>> = {1}
    BY <1>2, FormatSources
  <1>5. Configurable(FreshJob) /\ FreshJob \in Job
    BY FreshConsistent DEF Configurable, Consistent
  <1>6. CheckProgramSupport(FreshJob, "EXECUTOR", Len(<<source>>))
    BY <1>4 DEF CheckProgramSupport, FreshJob
  <1>7. Valid("EXECUTOR", <<source>>)
    BY <1>1, <1>2, <1>4 DEF Valid
  <1>8. /\ r.ok /\ r.job.programs = <<source>> /\ r.job.format = "EXECUTOR"
        /\ r.job.registers = Layouts("EXECUTOR", <<source>>)
        /\ r.job.shots = PayloadShots[source]
    <2>1. "EXECUTOR" \in Formats
      BY DEF Formats
    <2> DEFINE programs == <<source>>
               f == "EXECUTOR"
    <2>2. /\ r = SetPrograms(FreshJob, f, programs) /\ f \in Formats
          /\ Configurable(FreshJob) /\ FreshJob \in Job
          /\ CheckProgramSupport(FreshJob, f, Len(programs))
          /\ Valid(f, programs)
      BY <1>3, <1>5, <1>6, <1>7, <2>1
    <2> HIDE DEF programs, f
    <2>3. /\ r.job.shots = IF f = "EXECUTOR" THEN PayloadShots[programs[1]]
                                             ELSE FreshJob.shots
          /\ r.ok /\ r.job.programs = programs /\ r.job.format = f
          /\ r.job.registers = Layouts(f, programs)
      BY <2>2, SetProgramsSets
    <2>4. QED
      BY <1>4, <2>3 DEF programs, f
  <1>9. Consistent(r.job)
    BY <1>1, <1>3, <1>4, FreshConsistent, SetProgramsConsistent
  <1>10. QED
    BY <1>1, <1>2, <1>4, <1>8, <1>9 DEF source, Layouts

\* What was read is the job j, as it travels.
ReadAs(r, j) ==
    /\ r.ok /\ r.job.attempted
    /\ r.job.format = j.format /\ r.job.shots = j.shots
    /\ r.job.registers = j.registers
    /\ Len(r.job.programs) = Len(j.programs)
    /\ \A i \in DOMAIN j.programs : r.job.programs[i] =
          CASE j.format = "QASM3" -> Declare[j.programs[i]]
            [] j.format = "QPY" -> j.programs[i]
            [] j.format = "EXECUTOR" -> Normal[j.programs[i]]

\* What a consistent job submits can be retrieved as the job shows it.
LEMMA SentIsRetrieved ==
  ASSUME NEW j, Consistent(j), j.programs # << >>,
         NEW r, r = Retrieve(Payload(j))
  PROVE  ReadAs(r, j)
  <1> DEFINE read == IF Payload(j).program = "executor"
                     THEN RetrieveExecutor(Payload(j))
                     ELSE RetrieveSampler(Payload(j))
  <1>1. /\ r.ok <=> read.ok
        /\ read.ok => r.job = [read.job EXCEPT !.attempted = TRUE]
    <2>1. /\ Retrieve(Payload(j)).ok <=> read.ok
          /\ read.ok => Retrieve(Payload(j)).job
                          = [read.job EXCEPT !.attempted = TRUE]
      BY RetrieveMarks
    <2>2. QED
      BY <2>1
  <1>2. j.format \in Formats /\ DOMAIN j.programs = 1 .. Len(j.programs)
    BY DEF Consistent, Job
  <1>3. /\ read.ok /\ Consistent(read.job)
        /\ read.job.format = j.format /\ read.job.shots = j.shots
        /\ read.job.registers = j.registers
        /\ Len(read.job.programs) = Len(j.programs)
        /\ \A i \in DOMAIN j.programs : read.job.programs[i] =
              CASE j.format = "QASM3" -> Declare[j.programs[i]]
                [] j.format = "QPY" -> j.programs[i]
                [] j.format = "EXECUTOR" -> Normal[j.programs[i]]
    <2>1. CASE j.format = "EXECUTOR"
      <3>1. read = RetrieveExecutor(Payload(j))
        BY <2>1 DEF Payload
      <3> HIDE DEF read
      <3>2. QED
        BY <1>2, <2>1, <3>1, RetrieveSentExecutor
    <2>2. CASE j.format \in {"QASM3", "QPY"}
      <3>1. read = RetrieveSampler(Payload(j))
        BY <2>2 DEF Payload
      <3> HIDE DEF read
      <3>2. QED
        BY <1>2, <2>2, <3>1, RetrieveSent
    <2>3. QED
      BY <1>2, <2>1, <2>2 DEF Formats
  <1> HIDE DEF read
  <1>4. read.job \in Job
    BY <1>3 DEF Consistent
  <1>5. /\ r.job.attempted /\ r.job.format = read.job.format
        /\ r.job.shots = read.job.shots /\ r.job.registers = read.job.registers
        /\ r.job.programs = read.job.programs
    BY <1>1, <1>3, <1>4 DEF Job
  <1>6. QED
    BY <1>1, <1>3, <1>5 DEF ReadAs

-----------------------------------------------------------------------------
(* Every call keeps the invariant *)

\* A call of the client leaves a consistent job as it was asked for, and a
\* refused one the same job.
LEMMA CallKeeps ==
  ASSUME Inv, NEW outcome, NEW request, Call(outcome, request),
         Configurable(job) => /\ Consistent(outcome.job)
                              /\ outcome.job.attempted = job.attempted
                              /\ outcome.ok => Reflects(outcome.job, request)
                              /\ outcome.ok \/ outcome.job = job
  PROVE  Inv' /\ (answer' = "error" => UNCHANGED <<job, sent>>)
  <1>1. CASE Configurable(job)
    <2>1. /\ job' = outcome.job /\ sent' = sent
          /\ answer' = IF outcome.ok THEN "OK" ELSE "error"
          /\ asked' = IF outcome.ok THEN request ELSE asked
      BY <1>1 DEF Call, Returns
    <2>2. sent = NoPayload /\ Reflects(job, asked)
      BY <1>1 DEF Inv, Submitted, Configurable, Granted
    <2>3. Consistent(job') /\ sent' = NoPayload
      BY <1>1, <2>1, <2>2
    <2>4. Reflects(job', asked')
      BY <1>1, <2>1, <2>2
    <2>5. Inv'
      BY <2>3, <2>4 DEF Inv, Submitted, Consistent, Granted, Reflects
    <2>6. answer' = "error" => job' = job
      BY <1>1, <2>1
    <2>7. QED
      BY <2>1, <2>5, <2>6
  <1>2. CASE ~Configurable(job)
    <2>1. job' = job /\ sent' = sent /\ asked' = asked
      BY <1>2 DEF Call, Returns, Thrown
    <2>2. QED
      BY <2>1 DEF Inv, Submitted, Consistent, Granted, Reflects
  <1>3. QED
    BY <1>1, <1>2

\* What is granted before anything was sent reflects the job.
LEMMA GrantedBefore == Inv /\ Configurable(job) => Reflects(job, asked)
  BY DEF Inv, Granted, Configurable

\* Setting programs, whichever list of whichever format.
LEMMA CallSetProgramsKeeps ==
  Inv /\ CallSetPrograms => Inv' /\ (answer' = "error" => UNCHANGED <<job, sent>>)
  <1> SUFFICES ASSUME Inv, CallSetPrograms
               PROVE  Inv' /\ (answer' = "error" => UNCHANGED <<job, sent>>)
    OBVIOUS
  <1>1. PICK f \in Formats, programs \in Lists(Sources) :
          /\ \A i \in DOMAIN programs : programs[i] \in SourcesOf[f]
          /\ Call(SetPrograms(job, f, programs),
                  [asked EXCEPT !.format = f, !.programs = programs])
    BY DEF CallSetPrograms
  <1>2. programs \in Seq(SourcesOf[f])
    <2>1. PICK n \in 0 .. MaxPrograms : programs \in [1 .. n -> Sources]
      BY <1>1 DEF Lists
    <2> DEFINE S == SourcesOf[f]
    <2>2. programs \in [1 .. n -> S] /\ n \in Nat
      BY <1>1, <2>1, NumbersAssumption
    <2> HIDE DEF S
    <2>3. programs \in Seq(S)
      BY <2>2
    <2>4. QED
      BY <2>3 DEF S
  <1> DEFINE outcome == SetPrograms(job, f, programs)
             request == [asked EXCEPT !.format = f, !.programs = programs]
  <1>3. Consistent(job)
    BY DEF Inv
  <1>4. /\ Consistent(outcome.job)
        /\ outcome.job.attempted = job.attempted
        /\ outcome.ok \/ outcome.job = job
    <2> HIDE DEF outcome
    <2>1. QED
      BY <1>2, <1>3, SetProgramsConsistent DEF outcome
  <1>5. Configurable(job) /\ outcome.ok => Reflects(outcome.job, request)
    <2> HIDE DEF outcome
    <2>1. QED
      BY <1>2, <1>3, GrantedBefore, SetProgramsReflects DEF outcome
  <1>6. Call(outcome, request)
    BY <1>1
  <1> HIDE DEF outcome, request
  <1>7. QED
    BY <1>4, <1>5, <1>6, CallKeeps

\* A probe answers and changes nothing.
LEMMA CallProbeKeeps ==
  Inv /\ CallProbe => Inv' /\ (answer' = "error" => UNCHANGED <<job, sent>>)
  <1> SUFFICES ASSUME Inv, CallProbe
               PROVE  Inv' /\ (answer' = "error" => UNCHANGED <<job, sent>>)
    OBVIOUS
  <1>1. PICK f \in Formats, count \in 0 .. MaxPrograms :
          Call(IF CheckProgramSupport(job, f, count) THEN Done(job) ELSE Thrown(job),
               asked)
    BY DEF CallProbe
  <1> DEFINE outcome == IF CheckProgramSupport(job, f, count) THEN Done(job)
                                                              ELSE Thrown(job)
  <1>2. Call(outcome, asked) /\ outcome.job = job /\ Consistent(job)
    BY <1>1 DEF Done, Thrown, Inv
  <1> HIDE DEF outcome
  <1>3. QED
    BY <1>2, GrantedBefore, CallKeeps

\* So does the probe of a parameter.
LEMMA CallProbeParameterKeeps ==
  Inv /\ CallProbeParameter
    => Inv' /\ (answer' = "error" => UNCHANGED <<job, sent>>)
  <1> SUFFICES ASSUME Inv, CallProbeParameter
               PROVE  Inv' /\ (answer' = "error" => UNCHANGED <<job, sent>>)
    OBVIOUS
  <1>1. PICK outcome \in {Done(job), Thrown(job)} : Call(outcome, asked)
    BY DEF CallProbeParameter
  <1>2. outcome.job = job /\ Consistent(job)
    BY <1>1 DEF Done, Thrown, Inv
  <1>3. QED
    BY <1>1, <1>2, GrantedBefore, CallKeeps

\* Setting shots.
LEMMA CallSetShotsKeeps ==
  Inv /\ CallSetShots => Inv' /\ (answer' = "error" => UNCHANGED <<job, sent>>)
  <1> SUFFICES ASSUME Inv, NEW n \in ShotValues,
                      Call(SetShots(job, n), [asked EXCEPT !.shots = {n}])
               PROVE  Inv' /\ (answer' = "error" => UNCHANGED <<job, sent>>)
    BY DEF CallSetShots
  <1> DEFINE outcome == SetShots(job, n)
             request == [asked EXCEPT !.shots = {n}]
  <1>1. Call(outcome, request) /\ Consistent(job) /\ n \in Nat
    BY NumbersAssumption DEF Inv
  <1> HIDE DEF outcome, request
  <1>2. /\ Consistent(outcome.job)
        /\ outcome.job.attempted = job.attempted
        /\ outcome.ok \/ outcome.job = job
    BY <1>1, SetShotsConsistent DEF outcome
  <1>3. Configurable(job) /\ outcome.ok => Reflects(outcome.job, request)
    BY <1>1, GrantedBefore, SetShotsReflects DEF outcome, request
  <1>4. QED
    BY <1>1, <1>2, <1>3, CallKeeps

\* Setting the dynamical decoupling.
LEMMA CallSetDynamicalDecouplingKeeps ==
  Inv /\ CallSetDynamicalDecoupling
    => Inv' /\ (answer' = "error" => UNCHANGED <<job, sent>>)
  <1> SUFFICES ASSUME Inv, NEW options \in DD \cup {BadDD},
                      Call(SetDynamicalDecoupling(job, options),
                           [asked EXCEPT !.options = {options}])
               PROVE  Inv' /\ (answer' = "error" => UNCHANGED <<job, sent>>)
    BY DEF CallSetDynamicalDecoupling
  <1> DEFINE outcome == SetDynamicalDecoupling(job, options)
             request == [asked EXCEPT !.options = {options}]
  <1>1. Call(outcome, request) /\ Consistent(job)
    BY DEF Inv
  <1> HIDE DEF outcome, request
  <1>2. /\ Consistent(outcome.job)
        /\ outcome.job.attempted = job.attempted
        /\ outcome.ok \/ outcome.job = job
    BY <1>1, SetDynamicalDecouplingConsistent DEF outcome
  <1>3. Configurable(job) /\ outcome.ok => Reflects(outcome.job, request)
    BY <1>1, GrantedBefore, SetDynamicalDecouplingReflects DEF outcome, request
  <1>4. QED
    BY <1>1, <1>2, <1>3, CallKeeps

\* Setting the execution time.
LEMMA CallSetTimeKeeps ==
  Inv /\ CallSetTime => Inv' /\ (answer' = "error" => UNCHANGED <<job, sent>>)
  <1> SUFFICES ASSUME Inv, NEW time \in Times \cup {0},
                      Call(IF time \in Times
                           THEN Done([job EXCEPT !.maxExecutionTime = time])
                           ELSE Thrown(job),
                           [asked EXCEPT !.time = time])
               PROVE  Inv' /\ (answer' = "error" => UNCHANGED <<job, sent>>)
    BY DEF CallSetTime
  <1> DEFINE outcome == IF time \in Times
                        THEN Done([job EXCEPT !.maxExecutionTime = time])
                        ELSE Thrown(job)
             request == [asked EXCEPT !.time = time]
  <1>1. Call(outcome, request) /\ Consistent(job) /\ job \in Job
    BY DEF Inv, Consistent
  <1>2. /\ Consistent(outcome.job)
        /\ outcome.job.attempted = job.attempted
        /\ Configurable(job) /\ outcome.ok => Reflects(outcome.job, request)
        /\ outcome.ok \/ outcome.job = job
    <2>1. CASE time \in Times
      <3> DEFINE k == [job EXCEPT !.maxExecutionTime = time]
      <3>1. Consistent(k) /\ k.attempted = job.attempted
        BY <1>1, <2>1, OthersConsistent DEF Job
      <3>2. Configurable(job) => Reflects(k, request)
        BY <1>1, <2>1, GrantedBefore, SetTimeReflects
      <3>3. outcome.ok /\ outcome.job = k
        BY <2>1 DEF Done
      <3> HIDE DEF k, outcome, request
      <3>4. QED
        BY <3>1, <3>2, <3>3
    <2>2. CASE time \notin Times
      BY <1>1, <2>2 DEF Thrown
    <2>3. QED
      BY <2>1, <2>2
  <1> HIDE DEF outcome, request
  <1>3. QED
    BY <1>1, <1>2, CallKeeps

\* Submission sends the configuration and freezes it.
LEMMA CallSubmitKeeps ==
  Inv /\ CallSubmit => Inv' /\ (answer' = "error" => UNCHANGED <<job, sent>>)
  <1> SUFFICES ASSUME Inv, CallSubmit
               PROVE  Inv' /\ (answer' = "error" => UNCHANGED <<job, sent>>)
    OBVIOUS
  <1>1. CASE Configurable(job) /\ job.programs # << >>
    <2> DEFINE k == [job EXCEPT !.attempted = TRUE]
    <2>1. job' = k /\ sent' = Payload(job) /\ answer' = "OK" /\ asked' = asked
      BY <1>1 DEF CallSubmit
    <2>2. job \in Job
      BY DEF Inv, Consistent
    <2>3. /\ k.attempted /\ k.programs = job.programs /\ k.shots = job.shots
          /\ k.format = job.format /\ k.samplerOptionsSet = job.samplerOptionsSet
          /\ k.dynamicalDecoupling = job.dynamicalDecoupling
          /\ k.maxExecutionTime = job.maxExecutionTime
      BY <2>2 DEF Job
    <2>4. Consistent(k)
      BY OthersConsistent DEF Inv
    <2> HIDE DEF k
    <2>5. Payload(k) = Payload(job)
      BY <2>3 DEF Payload, Pubs
    <2>6. Consistent(job')
      BY <2>1, <2>4
    <2>7. job'.attempted /\ job'.programs # << >> /\ sent' = Payload(job')
      BY <1>1, <2>1, <2>3, <2>5
    <2>8. Reflects(job', asked')
      <3>1. Reflects(job, asked)
        BY <1>1, GrantedBefore
      <3>2. Reflects(k, asked)
        BY <2>3, <3>1 DEF Reflects
      <3>3. QED
        BY <2>1, <3>2
    <2>9. Inv'
      BY <2>6, <2>7, <2>8
         DEF Inv, Submitted, Consistent, Payload, Pubs, Circuit, Granted, Reflects
    <2>10. QED
      BY <2>1, <2>9
  <1>2. CASE ~(Configurable(job) /\ job.programs # << >>)
    <2>1. job' = job /\ sent' = sent /\ asked' = asked
      BY <1>2 DEF CallSubmit, Returns, Thrown
    <2>2. QED
      BY <2>1 DEF Inv, Submitted, Consistent, Granted, Reflects
  <1>3. QED
    BY <1>1, <1>2

\* Retrieval takes the place of a handle nobody has configured.
LEMMA CallRetrieveKeeps ==
  Inv /\ CallRetrieve => Inv' /\ (answer' = "error" => UNCHANGED <<job, sent>>)
  <1> SUFFICES ASSUME Inv, NEW p \in Foreign, job = FreshJob,
                      Returns(IF Retrieve(p).ok THEN Retrieve(p) ELSE Thrown(job),
                              asked)
               PROVE  Inv' /\ (answer' = "error" => UNCHANGED <<job, sent>>)
    BY DEF CallRetrieve
  <1>1. sent = NoPayload /\ sent' = sent /\ asked' = asked
    BY FreshConsistent DEF Inv, Submitted, Returns
  <1>2. CASE Retrieve(p).ok
    <2>1. job' = Retrieve(p).job /\ answer' = "OK"
      BY <1>2 DEF Returns
    <2>2. Consistent(job')
      BY <1>2, <2>1, RetrieveConsistent
    <2>3. job'.attempted
      BY <1>2, <2>1, RetrievedFrozen
    <2>4. Inv'
      BY <1>1, <2>2, <2>3 DEF Inv, Submitted, Consistent, Granted
    <2>5. QED
      BY <2>1, <2>4
  <1>3. CASE ~Retrieve(p).ok
    <2>1. job' = job
      BY <1>3 DEF Returns, Thrown
    <2>2. QED
      BY <1>1, <2>1 DEF Inv, Submitted, Consistent, Granted, Reflects
  <1>4. QED
    BY <1>2, <1>3

\* No step breaks the invariant, and no refused call changes anything.
LEMMA NextKeeps ==
  Inv /\ [Next]_vars
    => Inv' /\ [answer' = "error" => UNCHANGED <<job, sent>>]_vars
  <1>1. Inv /\ UNCHANGED vars => Inv'
    BY DEF Inv, Submitted, Consistent, Granted, Reflects, vars
  <1>2. QED
    BY <1>1, CallSetProgramsKeeps, CallProbeKeeps, CallSetShotsKeeps,
       CallSetDynamicalDecouplingKeeps, CallSetTimeKeeps,
       CallProbeParameterKeeps, CallSubmitKeeps, CallRetrieveKeeps
       DEF Next

\* The invariant holds in every reachable state.
LEMMA InvAlways == Spec => []Inv
  <1>1. Init => Inv
    BY FreshConsistent, FreshReflects DEF Init, Inv, Submitted, Granted
  <1>2. QED
    BY <1>1, NextKeeps, PTL DEF Spec

-----------------------------------------------------------------------------
(* The theorems *)

(***************************************************************************)
(* The number of programs times the shots never exceeds the limit, and the *)
(* shots are positive (Job::setPrograms, Job::setShots, Job::retrieve).    *)
(***************************************************************************)
THEOREM LimitHolds == Spec => []WithinLimit
  <1>1. Inv => WithinLimit
    <2> SUFFICES ASSUME Inv, job.format \in {"QASM3", "QPY"}
                 PROVE  Len(job.programs) * job.shots <= Limit
      BY DEF Inv, Consistent, WithinLimit
    <2>1. /\ Len(job.programs) \in Nat /\ job.shots \in Nat /\ job.shots > 0
          /\ Allowed(Len(job.programs), job.shots)
      BY DEF Inv, Consistent, Job
    <2>2. QED
      BY <2>1, AllowedMeans
  <1>2. QED
    BY <1>1, InvAlways, PTL

(***************************************************************************)
(* A job that has the executor format has no shots or Sampler options of   *)
(* its own: Job::setPrograms refuses that format once they are set, and    *)
(* the setters refuse them once it is.                                     *)
(***************************************************************************)
THEOREM NothingIsDropped == Spec => []ExecutorDropsNothing
  <1>1. Inv => ExecutorDropsNothing
    BY DEF Inv, Consistent, ExecutorDropsNothing
  <1>2. QED
    BY <1>1, InvAlways, PTL

(***************************************************************************)
(* What was submitted is what the handle shows, and retrieving it gives    *)
(* the format, shots, registers and programs of the submission, whatever   *)
(* the sources are (Job::submit, Job::retrieve).                           *)
(***************************************************************************)
THEOREM SubmissionsAreRetrieved == Spec => []RoundTrip
  <1>1. Inv => RoundTrip
    <2> SUFFICES ASSUME Inv, sent # NoPayload
                 PROVE  RoundTrip
      BY DEF RoundTrip
    <2>1. /\ Consistent(job) /\ job.programs # << >> /\ sent = Payload(job)
      BY DEF Inv, Submitted
    <2>2. LayoutsMatchPrograms
      <3> SUFFICES ASSUME job.format \in {"QASM3", "QPY"}
                   PROVE  /\ Len(job.registers) = Len(job.programs)
                          /\ \A i \in DOMAIN job.programs :
                                /\ job.registers[i] = Layout[job.programs[i]]
                                /\ job.registers[i] # NoLayout
        BY DEF LayoutsMatchPrograms
      <3>1. /\ job.format \in Formats
            /\ job.programs \in Seq(SourcesOf[job.format])
            /\ job.registers = Layouts(job.format, job.programs)
            /\ Valid(job.format, job.programs)
        BY <2>1 DEF Consistent, Formats
      <3>2. QED
        BY <3>1, LayoutsType DEF Valid
    <2>3. ReadAs(Retrieve(sent), job)
      BY <2>1, SentIsRetrieved
    <2>4. QED
      BY <2>1, <2>2, <2>3 DEF RoundTrip, ReadAs
  <1>2. QED
    BY <1>1, InvAlways, PTL

(***************************************************************************)
(* The service gets what the client was granted last, whatever came        *)
(* between (Job::setShots and Job::setDynamicalDecoupling, which mark what *)
(* Job::checkProgramSupport looks at, and Job::submit).                    *)
(***************************************************************************)
THEOREM GrantedIsSent == Spec => []AskedIsSent
  <1>1. Inv => AskedIsSent
    <2> SUFFICES ASSUME Inv, sent # NoPayload
                 PROVE  AskedIsSent
      BY DEF AskedIsSent
    <2>1. /\ Consistent(job) /\ job.programs # << >> /\ sent = Payload(job)
          /\ Reflects(job, asked)
      BY DEF Inv, Submitted, Granted
    <2>2. job.programs \in Seq(Sources) /\ job.format \in Formats
      BY <2>1 DEF Consistent, Job
    <2>3. CASE job.format = "EXECUTOR"
      <3>1. /\ sent.program = "executor" /\ sent.params = Normal[job.programs[1]]
            /\ sent.cost = job.maxExecutionTime
        BY <2>1, <2>3 DEF Payload
      <3>2. ~job.samplerOptionsSet
        BY <2>1, <2>3 DEF Consistent
      <3>3. QED
        BY <2>1, <2>3, <3>1, <3>2 DEF AskedIsSent, Reflects
    <2>4. CASE job.format # "EXECUTOR"
      <3>1. /\ sent.program = "sampler" /\ sent.pubs = Pubs(job)
            /\ sent.options = job.dynamicalDecoupling
            /\ sent.cost = job.maxExecutionTime
        BY <2>1, <2>4 DEF Payload
      <3>2. /\ Len(sent.pubs) = Len(job.programs)
            /\ \A i \in DOMAIN sent.pubs :
                  /\ sent.pubs[i].circuit = Circuit(job.format, job.programs[i])
                  /\ sent.pubs[i].shots = job.shots
        BY <2>2, <3>1 DEF Pubs
      <3>3. QED
        BY <2>1, <2>4, <3>1, <3>2 DEF AskedIsSent, Reflects
    <2>5. QED
      BY <2>3, <2>4
  <1>2. QED
    BY <1>1, InvAlways, PTL

(***************************************************************************)
(* A refused call changes neither the job nor what was sent: the setters   *)
(* check everything before the first assignment.                           *)
(***************************************************************************)
THEOREM RefusalsKeepAll == Spec => RejectionChangesNothing
  BY InvAlways, NextKeeps, PTL DEF Spec, RejectionChangesNothing
=============================================================================
