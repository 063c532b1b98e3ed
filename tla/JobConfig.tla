------------------------------ MODULE JobConfig ------------------------------
(***************************************************************************)
(* The configuration of one device job, from creation or retrieval to its  *)
(* submission (src/Job.cpp:115-375 and the setters of src/Device.cpp).     *)
(*                                                                         *)
(* DeviceJob has the concurrent life of a job and takes its configuration  *)
(* as one value.  Here the calls are sequential (the mutex of the handle   *)
(* sees to that) and the configuration is what matters: program format,    *)
(* programs, shots, Sampler options, and what of it reaches the service    *)
(* and comes back when the job is retrieved.                               *)
(***************************************************************************)
EXTENDS Integers, Sequences

CONSTANTS
    Qasm, Qpy, Executor,  \* program sources, by the format they are passed as
    Layout,        \* their classical registers, NoLayout if they are refused
    NoLayout,
    PayloadShots,  \* quantum_program.shots of an executor source, 0 if refused
    Declare,       \* declareNativeGates on OpenQASM sources
    Normal,        \* JSON parsed and written again, on executor sources
    Limit,         \* Sampler executions per job (ten million in the code)
    DefaultShots,  \* 1024 in the code
    DD, DefaultDD, BadDD,  \* dynamical-decoupling options: valid, default, refused
    Times, DefaultTime,    \* maximum execution times: valid (not 0), default
    ShotValues,    \* bound: shot counts a client asks for
    MaxPrograms,   \* bound: length of program lists
    Foreign,       \* jobs on the service that others submitted
    NoPayload

Sources == Qasm \cup Qpy \cup Executor

ASSUME SourcesAssumption ==
    /\ Layout \in [Qasm \cup Qpy -> Int]
    /\ NoLayout \in Int
    /\ PayloadShots \in [Executor -> Nat]
    /\ Declare \in [Qasm -> Qasm]
    /\ Qasm \cap Qpy = {}
\* Program.cpp:115-151 only adds gate definitions, and only missing ones.
ASSUME DeclareAssumption == \A s \in Qasm :
    /\ Layout[Declare[s]] = Layout[s]
    /\ Declare[Declare[s]] = Declare[s]
ASSUME NormalAssumption ==
    /\ Normal \in [Executor -> Executor]
    /\ \A s \in Executor : /\ PayloadShots[Normal[s]] = PayloadShots[s]
                           /\ Normal[Normal[s]] = Normal[s]
ASSUME NumbersAssumption ==
    /\ Limit \in Nat \ {0}
    /\ DefaultShots \in 1 .. Limit
    /\ ShotValues \subseteq Nat
    /\ MaxPrograms \in Nat
ASSUME OptionsAssumption ==
    /\ DefaultDD \in DD
    /\ BadDD \notin DD
    /\ DefaultTime \in Times
    /\ 0 \notin Times
\* What others submitted is arbitrary, but its sources have a form.
ASSUME ForeignAssumption == \A p \in Foreign :
    \/ p.program = "executor" /\ p.params \in Executor
    \/ /\ p.program = "sampler"
       /\ p.plain \in BOOLEAN
       /\ p.pubs \in Seq([circuit : [form : {"text"}, source : Qasm]
                                        \cup [form : {"object"}, source : Qpy],
                          shots : Nat])

Formats == {"QASM3", "QPY", "EXECUTOR"}
SourcesOf == [QASM3 |-> Qasm, QPY |-> Qpy, EXECUTOR |-> Executor]

\* The program lists of a client.
Lists(S) == UNION {[1 .. n -> S] : n \in 0 .. MaxPrograms}

VARIABLES
    job,     \* the fields of the ibm::Job
    sent,    \* the payload this job submitted
    answer,  \* what the last call answered
    asked    \* history: what the client was last granted, call by call

vars == <<job, sent, answer, asked>>

-----------------------------------------------------------------------------
(* ibm::Job *)

FreshJob == [format |-> "none", programs |-> << >>, registers |-> << >>,
             shots |-> DefaultShots, samplerOptionsSet |-> FALSE,
             dynamicalDecoupling |-> DefaultDD, maxExecutionTime |-> DefaultTime,
             attempted |-> FALSE]

\* A member function either returns or throws, and leaves the job as j.
Done(j) == [ok |-> TRUE, job |-> j]
Thrown(j) == [ok |-> FALSE, job |-> j]

Configurable(j) == ~j.attempted

\* checkSamplerExecutions; a division by zero may let anything pass.
Allowed(count, shots) == shots # 0 => count <= Limit \div shots

CheckProgramSupport(j, format, count) ==
    /\ count # 0
    /\ format = "EXECUTOR" => count = 1 /\ ~j.samplerOptionsSet
    /\ format # "EXECUTOR" => Allowed(count, j.shots)

\* setPrograms validates each source: its envelope or its registers.
Valid(format, sources) == \A i \in DOMAIN sources :
    IF format = "EXECUTOR" THEN PayloadShots[sources[i]] > 0
                           ELSE Layout[sources[i]] # NoLayout

Layouts(format, sources) ==
    IF format = "EXECUTOR" THEN << >>
    ELSE [i \in DOMAIN sources |-> Layout[sources[i]]]

Commit(j, format, sources) ==
    [j EXCEPT !.programs = sources, !.format = format,
              !.registers = Layouts(format, sources),
              !.shots = IF format = "EXECUTOR" THEN PayloadShots[sources[1]] ELSE @]

\* Fault: the format is set before the sources are read.
MutSetPrograms(j, format, sources) ==
    IF ~(Configurable(j) /\ CheckProgramSupport(j, format, Len(sources)))
    THEN Thrown(j)
    ELSE IF Valid(format, sources) THEN Done(Commit(j, format, sources))
    ELSE Thrown([j EXCEPT !.format = format])
SetPrograms(j, format, sources) ==
    IF /\ Configurable(j)
       /\ CheckProgramSupport(j, format, Len(sources))
       /\ Valid(format, sources)
    THEN Done(Commit(j, format, sources))
    ELSE Thrown(j)

\* Fault: the executions are those of one program.
MutCircuits(j) == 1
Circuits(j) == IF Len(j.programs) > 1 THEN Len(j.programs) ELSE 1

\* Fault: a shot count is no Sampler option, so an executor payload replaces it.
MutSetShots(j, n) ==
    IF j.format # "EXECUTOR" /\ n # 0 /\ Allowed(Circuits(j), n)
    THEN Done([j EXCEPT !.shots = n])
    ELSE Thrown(j)
SetShots(j, n) ==
    IF j.format # "EXECUTOR" /\ n # 0 /\ Allowed(Circuits(j), n)
    THEN Done([j EXCEPT !.shots = n, !.samplerOptionsSet = TRUE])
    ELSE Thrown(j)

ValidOptions(options) == options \in DD

\* Fault: options are accepted for executor programs, which do not send them.
MutSetDynamicalDecoupling(j, options) ==
    IF Configurable(j) /\ ValidOptions(options)
    THEN Done([j EXCEPT !.dynamicalDecoupling = options, !.samplerOptionsSet = TRUE])
    ELSE Thrown(j)
SetDynamicalDecoupling(j, options) ==
    IF Configurable(j) /\ j.format # "EXECUTOR" /\ ValidOptions(options)
    THEN Done([j EXCEPT !.dynamicalDecoupling = options, !.samplerOptionsSet = TRUE])
    ELSE Thrown(j)

-----------------------------------------------------------------------------
(* What is sent, and how it is read back *)

\* A QPY source travels as an encoded object, OpenQASM as text with the
\* native gates declared, an executor source as the JSON it denotes.
Circuit(format, source) ==
    IF format = "QPY" THEN [form |-> "object", source |-> source]
                      ELSE [form |-> "text", source |-> Declare[source]]

Pubs(j) == [i \in DOMAIN j.programs |->
              [circuit |-> Circuit(j.format, j.programs[i]), shots |-> j.shots]]

Payload(j) ==
    IF j.format = "EXECUTOR"
    THEN [program |-> "executor", params |-> Normal[j.programs[1]],
          cost |-> j.maxExecutionTime]
    ELSE [program |-> "sampler", plain |-> TRUE, pubs |-> Pubs(j),
          options |-> j.dynamicalDecoupling, cost |-> j.maxExecutionTime]

FormatOf(pub) == IF pub.circuit.form = "text" THEN "QASM3" ELSE "QPY"

\* The payloads retrieve() reads: plain JSON, one format, one shot count.
Uniform(pubs) ==
    /\ pubs # << >>
    /\ pubs[1].shots > 0
    /\ Allowed(Len(pubs), pubs[1].shots)
    /\ \A i \in DOMAIN pubs : /\ FormatOf(pubs[i]) = FormatOf(pubs[1])
                              /\ pubs[i].shots = pubs[1].shots

\* Fault: programs before shots, so that they meet the limit with the default.
MutRetrieveSampler(p) ==
    LET programs == [i \in DOMAIN p.pubs |-> p.pubs[i].circuit.source]
        listed == SetPrograms(FreshJob, FormatOf(p.pubs[1]), programs)
        counted == SetShots(listed.job, p.pubs[1].shots)
    IN  IF ~p.plain \/ ~Uniform(p.pubs) \/ ~listed.ok THEN Thrown(FreshJob)
        ELSE counted
RetrieveSampler(p) ==
    LET programs == [i \in DOMAIN p.pubs |-> p.pubs[i].circuit.source]
        counted == SetShots(FreshJob, p.pubs[1].shots)
    IN  IF ~p.plain \/ ~Uniform(p.pubs) \/ ~counted.ok THEN Thrown(FreshJob)
        ELSE SetPrograms(counted.job, FormatOf(p.pubs[1]), programs)

RetrieveExecutor(p) == SetPrograms(FreshJob, "EXECUTOR", <<p.params>>)

Retrieve(p) ==
    LET read == IF p.program = "executor" THEN RetrieveExecutor(p)
                                          ELSE RetrieveSampler(p)
    IN  IF read.ok THEN Done([read.job EXCEPT !.attempted = TRUE])
                   ELSE Thrown(read.job)

-----------------------------------------------------------------------------
(* The calls of the client *)

\* Shots and options of which there is none have not been asked for.
NothingAsked == [format |-> "none", programs |-> << >>, shots |-> {}, options |-> {},
                 time |-> DefaultTime]

Init == job = FreshJob /\ sent = NoPayload /\ answer = "none" /\ asked = NothingAsked

\* A call that succeeds grants the request.
Returns(outcome, request) ==
    /\ job' = outcome.job
    /\ answer' = IF outcome.ok THEN "OK" ELSE "error"
    /\ asked' = IF outcome.ok THEN request ELSE asked
    /\ UNCHANGED sent

\* An entry point of a configured handle refuses, or calls the job.
Call(outcome, request) ==
    Returns(IF Configurable(job) THEN outcome ELSE Thrown(job), request)

\* IBM_QDMI_device_job_set_programs, with programs or as a probe.
CallSetPrograms == \E f \in Formats, programs \in Lists(Sources) :
    /\ \A i \in DOMAIN programs : programs[i] \in SourcesOf[f]
    /\ Call(SetPrograms(job, f, programs),
            [asked EXCEPT !.format = f, !.programs = programs])

CallProbe == \E f \in Formats, count \in 0 .. MaxPrograms :
    Call(IF CheckProgramSupport(job, f, count) THEN Done(job) ELSE Thrown(job), asked)

\* IBM_QDMI_device_job_set_parameter; a null value only probes support.
CallSetShots == \E n \in ShotValues :
    Call(SetShots(job, n), [asked EXCEPT !.shots = {n}])

CallSetDynamicalDecoupling == \E options \in DD \cup {BadDD} :
    Call(SetDynamicalDecoupling(job, options), [asked EXCEPT !.options = {options}])

CallSetTime == \E time \in Times \cup {0} :
    Call(IF time \in Times THEN Done([job EXCEPT !.maxExecutionTime = time])
                           ELSE Thrown(job),
         [asked EXCEPT !.time = time])

CallProbeParameter == \E samplerOnly \in BOOLEAN :
    Call(IF samplerOnly /\ job.format = "EXECUTOR" THEN Thrown(job) ELSE Done(job), asked)

\* Job::submit, up to the request that leaves.
CallSubmit ==
    \/ /\ Configurable(job) /\ job.programs # << >>
       /\ sent' = Payload(job)
       /\ job' = [job EXCEPT !.attempted = TRUE]
       /\ answer' = "OK"
       /\ UNCHANGED asked
    \/ /\ ~(Configurable(job) /\ job.programs # << >>)
       /\ Returns(Thrown(job), asked)

\* A handle may come from the service instead; a job that cannot be read
\* is never published.
CallRetrieve == \E p \in Foreign :
    /\ job = FreshJob
    /\ Returns(IF Retrieve(p).ok THEN Retrieve(p) ELSE Thrown(job), asked)

Next ==
    \/ CallSetPrograms \/ CallProbe \/ CallSetShots \/ CallSetDynamicalDecoupling
    \/ CallSetTime \/ CallProbeParameter \/ CallSubmit \/ CallRetrieve

Spec == Init /\ [][Next]_vars

-----------------------------------------------------------------------------
(* Properties *)

(***************************************************************************)
(* "OpenQASM and QPY shots ... must be positive.  The number of programs   *)
(* times the shot count must not exceed IBM's 10-million-execution limit"  *)
(* (docs/api.md): so it is, in whichever order programs and shots are set, *)
(* after switches of the format, and for retrieved jobs.                   *)
(***************************************************************************)
WithinLimit ==
    /\ job.shots > 0
    /\ job.format \in {"QASM3", "QPY"} => Len(job.programs) * job.shots <= Limit

(***************************************************************************)
(* An executor submission carries neither shots nor Sampler options of the *)
(* handle.  So none may be set on a handle that has the executor format,   *)
(* in whichever order they came: nothing a client configured is dropped.   *)
(***************************************************************************)
ExecutorDropsNothing == job.format = "EXECUTOR" =>
    /\ ~job.samplerOptionsSet
    /\ job.dynamicalDecoupling = DefaultDD
    /\ Len(job.programs) = 1
    /\ job.shots = PayloadShots[job.programs[1]]

(***************************************************************************)
(* What runs is what the handle shows: after submission the handle keeps   *)
(* the configuration that was sent, with the register layout of each of    *)
(* its programs, by which decodeResults reads the answer.                  *)
(* Every submission can be retrieved by its id, and the new handle has the *)
(* format, shots, register layouts and programs of the submission, the     *)
(* latter with "any declarations added for transport" (docs/api.md), and   *)
(* executor programs as the JSON that was sent.                            *)
(***************************************************************************)
LayoutsMatchPrograms == job.format \in {"QASM3", "QPY"} =>
    /\ Len(job.registers) = Len(job.programs)
    /\ \A i \in DOMAIN job.programs :
          job.registers[i] = Layout[job.programs[i]] /\ job.registers[i] # NoLayout
RoundTrip == sent # NoPayload =>
    LET r == Retrieve(sent)
    IN  /\ sent = Payload(job)
        /\ LayoutsMatchPrograms
        /\ r.ok
        /\ r.job.attempted
        /\ r.job.format = job.format
        /\ r.job.shots = job.shots
        /\ r.job.registers = job.registers
        /\ Len(r.job.programs) = Len(job.programs)
        /\ \A i \in DOMAIN job.programs : r.job.programs[i] =
              CASE job.format = "QASM3" -> Declare[job.programs[i]]
                [] job.format = "QPY" -> job.programs[i]
                [] job.format = "EXECUTOR" -> Normal[job.programs[i]]

(***************************************************************************)
(* "Setting the separate SHOTSNUM parameter or the Sampler                 *)
(* dynamical-decoupling parameter is unsupported for this format.          *)
(* Selecting Executor after setting those parameters is also unsupported.  *)
(* The maximum-execution-time parameter applies to both formats"           *)
(* (docs/api.md:361-364).  So the service gets what the client was granted *)
(* last, in whichever order the calls came, whatever was refused or probed *)
(* in between and however often the format changed: its programs, its time *)
(* and, from the first time they were set, its shots and its options,      *)
(* which no payload of an executor replaces or drops.                      *)
(***************************************************************************)
AskedIsSent == sent # NoPayload =>
    /\ sent.cost = asked.time
    /\ asked.format = "EXECUTOR" =>
          /\ sent.program = "executor"
          /\ asked.programs # << >> /\ sent.params = Normal[asked.programs[1]]
          /\ asked.shots = {} /\ asked.options = {}
    /\ asked.format # "EXECUTOR" =>
          /\ sent.program = "sampler"
          /\ {sent.options} = IF asked.options = {} THEN {DefaultDD} ELSE asked.options
          /\ Len(sent.pubs) = Len(asked.programs)
          /\ \A i \in DOMAIN sent.pubs :
                /\ sent.pubs[i].circuit = Circuit(asked.format, asked.programs[i])
                /\ asked.shots \subseteq {sent.pubs[i].shots}

(***************************************************************************)
(* "rejection preserves the previous programs and format" (docs/api.md),   *)
(* and every other option.                                                 *)
(***************************************************************************)
RejectionChangesNothing == [][answer' = "error" => UNCHANGED <<job, sent>>]_vars

(***************************************************************************)
(* "OpenQASM and QPY shots default to 1,024" (docs/api.md:195): a handle   *)
(* whose client set no shot count has the default.  It does not hold: the  *)
(* shots of an executor payload stay behind when the format changes.       *)
(***************************************************************************)
ShotsDefault == job.format \in {"QASM3", "QPY"} /\ ~job.samplerOptionsSet
    => job.shots = DefaultShots
=============================================================================
