------------------------------- MODULE Session -------------------------------
(***************************************************************************)
(* A device session from its first parameter to its queries                *)
(* (src/Device.cpp:260-434, 681-771): the client sets parameters, and      *)
(* initialization resolves them with the environment and the key files,    *)
(* gets a token, the configuration and the properties of the backend, and  *)
(* either commits everything or nothing.  After that the configuration is  *)
(* frozen, and queries answer from the snapshot of the metadata.           *)
(*                                                                         *)
(* What is outside the process is one "world": environment, key files, and *)
(* the outcome of each request (retries and refreshes, see Auth, included).*)
(* It may change between any two calls.                                    *)
(***************************************************************************)
EXTENDS SessionConfig, Metadata

CONSTANTS
    Garbled,       \* a body that does not parse
    Worlds,        \* bound: worlds to begin with, and how many parameters
                   \* (field "parameters") the client sets in them
    LaterWorlds,   \* bound: worlds to come
    Values         \* Values[p]: what the client may set parameter p to

ASSUME ValuesAssumption ==
    /\ Parameters \subseteq DOMAIN Values
    /\ \A p \in DOMAIN Values : None \notin Values[p]
    /\ Unset \notin Values["AUTHFILE"]
\* What stands for a key file that cannot be read is no key.
NoKeys == {"missing", "malformed"}
AllWorlds == Worlds \cup LaterWorlds
ASSUME KeysAssumption ==
    /\ Values["TOKEN"] \cap NoKeys = {}
    /\ \A w \in AllWorlds : w.environment.apiKey \notin NoKeys

\* The reply that decided a call: what was requested, and what came of it.
Requests == {"iam", "configuration", "properties", "status"}
Blame(request, w) ==
    [request |-> request, error |-> w[request].error, status |-> w[request].status]

\* The strings that a configuration may be made of.
Urls == {DefaultBaseUrl(Region[crn]) : crn \in DOMAIN Region}
Chosen == UNION {Values[p] : p \in Parameters \ {"REQUEST_TIMEOUT"}}
Surroundings(w) == {w.environment.apiKey, w.environment.backend, w.environment.crn}
    \cup {w.files[path] : path \in Values["AUTHFILE"] \ {""}}
Text == {"", DefaultAuthUrl} \cup Urls \cup Chosen
    \cup UNION {Surroundings(w) : w \in AllWorlds}
Configuration == [apiKey : Text, apiKeyConfigured : BOOLEAN,
    authFile : Text \cup {Unset}, backend : Text, backendConfigured : BOOLEAN,
    crn : Text, crnConfigured : BOOLEAN, baseUrl : Text, authUrl : Text,
    requestTimeout : Values["REQUEST_TIMEOUT"] \cup {DefaultTimeout}]
\* The absent value is none of those the variables take.
ASSUME NoneAssumption ==
    /\ None \notin Configuration
    /\ None \notin {Blame(request, w) : w \in AllWorlds, request \in Requests}

VARIABLES
    world,
    configuration,  \* of the session
    auth,           \* the configuration its requests use, None before initialization
    metadata,       \* the snapshot, None before initialization
    last,           \* status of the last call, and what last_diagnostic tells
    given,          \* history: the parameters the client has set
    about,          \* history: what the last call failed for, or None
    served          \* history: the bodies of the last attempt that got them, or None

vars == <<world, configuration, auth, metadata, last, given, about, served>>
session == <<configuration, auth, metadata, given, served>>

Init ==
    /\ world \in Worlds
    /\ configuration = FreshConfiguration
    /\ auth = None
    /\ metadata = None
    /\ last = Success
    /\ given = [p \in Parameters |-> None]
    /\ about = None
    /\ served = None

-----------------------------------------------------------------------------
(* Parameters *)

\* The call returns an outcome that no reply is to blame for.
Return(outcome) == last' = Boundary(outcome, last) /\ about' = None

\* A null value asks for support and changes nothing.
SetParameter(parameter, value) ==
    /\ UNCHANGED <<world, auth, metadata, served>>
    /\ \/ /\ auth # None
          /\ Return(Refusal("BADSTATE"))
          /\ UNCHANGED <<configuration, given>>
       \/ /\ auth = None /\ parameter \notin Parameters
          /\ Return(Refusal("NOTSUPPORTED"))
          /\ UNCHANGED <<configuration, given>>
       \/ /\ auth = None /\ parameter \in Parameters /\ value = None
          /\ Return(Success)
          /\ UNCHANGED <<configuration, given>>
       \/ /\ auth = None /\ parameter \in Parameters /\ value # None
          /\ ~ValidParameter(parameter, value)
          /\ Return(Refusal("INVALIDARGUMENT"))
          /\ UNCHANGED <<configuration, given>>
       \/ /\ auth = None /\ parameter \in Parameters /\ value # None
          /\ ValidParameter(parameter, value)
          /\ Return(Success)
          /\ configuration' = WithParameter(configuration, parameter, value)
          /\ given' = [given EXCEPT ![parameter] = value]

\* The bound on how many parameters are set in a world.
MaySet(parameter) == parameter \in Parameters /\ auth = None =>
    Cardinality({p \in Parameters \ {parameter} : given[p] # None}) < world.parameters

-----------------------------------------------------------------------------
(* Initialization *)

\* Auth::get, and what nlohmann::json::parse makes of the body.
Get(reply) ==
    LET failure == CheckResponse(Send(reply))
    IN  IF failure = Success /\ reply.body = Garbled THEN Refusal("FATAL") ELSE failure

\* IAM rejects an API key with 400, too.
Refresh(reply) ==
    IF reply.error = "OK" /\ reply.status = 400 THEN Refusal("PERMISSIONDENIED")
    ELSE Get(reply)

\* Only the properties may be missing.
GetProperties(reply) ==
    IF Get(reply).status = "NOTFOUND" THEN Success ELSE Get(reply)
Properties(reply) ==
    IF Get(reply).status = "NOTFOUND" THEN NoProperties ELSE reply.body

\* What the service sends are documents, whatever they say.
ASSUME DocumentsAssumption == \A w \in AllWorlds :
    Get(w.configuration) = Success /\ GetProperties(w.properties) = Success
        => Documents(w.configuration.body, Properties(w.properties))

\* The three exchanges of an initialization; the first that fails ends it.
Exchanges == <<
    [request |-> "iam", outcome |-> Refresh(world.iam)],
    [request |-> "configuration", outcome |-> Get(world.configuration)],
    [request |-> "properties", outcome |-> GetProperties(world.properties)]>>
Failing == {i \in 1 .. 3 : /\ Exchanges[i].outcome # Success
                           /\ \A j \in 1 .. i - 1 : Exchanges[j].outcome = Success}

\* What a successful initialization makes of the session, all at once.
Commit(resolved, parsed) ==
    /\ configuration' = resolved
    /\ auth' = resolved
    /\ metadata' = parsed

SessionInit ==
    LET resolution == Resolve(configuration, world.environment, world.files)
        resolved == resolution.configuration
        bodies == [conf |-> world.configuration.body,
                   props |-> Properties(world.properties), backend |-> resolved.backend]
        parsed == ParseMetadata(bodies.conf, bodies.props)
        usable == parsed # Malformed /\ parsed.name = resolved.backend
    IN  /\ UNCHANGED <<world, given>>
        /\ \/ /\ auth # None
              /\ Return(Refusal("BADSTATE"))
              /\ UNCHANGED <<configuration, auth, metadata, served>>
           \/ /\ auth = None /\ resolution.failure # Success
              /\ Return(resolution.failure)
              /\ UNCHANGED <<configuration, auth, metadata, served>>
           \/ /\ auth = None /\ resolution.failure = Success
              /\ \E i \in Failing : /\ last' = Boundary(Exchanges[i].outcome, last)
                                    /\ about' = Blame(Exchanges[i].request, world)
              /\ UNCHANGED <<configuration, auth, metadata, served>>
           \/ /\ auth = None /\ resolution.failure = Success /\ Failing = {}
              /\ served' = bodies
              /\ \/ ~usable /\ Return(Refusal("FATAL"))
                            /\ UNCHANGED <<configuration, auth, metadata>>
                 \/ usable /\ Return(Success) /\ Commit(resolved, parsed)

-----------------------------------------------------------------------------
(* Queries *)

NotSupported == [status |-> "NOTSUPPORTED", value |-> None]
Answer(value) == IF value = None THEN NotSupported
                 ELSE [status |-> "SUCCESS", value |-> value]

\* Without sites there is no calibration to select.
OperationAnswer(name, sites, property) ==
    LET operation == metadata.operations[name]
    IN  IF sites # None /\ sites \notin operation.sites THEN NotSupported
        ELSE CASE property = "QUBITSNUM" -> Answer(operation.arity)
               [] property = "SITES" ->
                     IF operation.sites = {} THEN NotSupported
                     ELSE Answer(operation.sites)
               [] property \in {"DURATION", "FIDELITY"} ->
                     IF sites \notin DOMAIN operation.calibrations THEN NotSupported
                     ELSE LET c == operation.calibrations[sites]
                          IN  Answer(IF property = "DURATION" THEN c.duration
                                                              ELSE c.fidelity)

\* if_else is offered as an operation and as the capability CUSTOM3.
DeviceAnswer(property) ==
    CASE property = "QUBITSNUM" -> Answer(metadata.count)
      [] property = "OPERATIONS" -> Answer(DOMAIN metadata.operations)
      [] property = "COUPLINGMAP" -> Answer(metadata.coupling)
      [] property = "CUSTOM3" -> IF "if_else" \in DOMAIN metadata.operations
                                 THEN Answer("forward-branching") ELSE NotSupported

Answered(answer) == Return(Refusal(answer.status))

Query ==
    /\ UNCHANGED <<world, session>>
    /\ \/ auth = None /\ Return(Refusal("BADSTATE"))
       \/ /\ auth # None
          /\ \/ \E p \in {"QUBITSNUM", "OPERATIONS", "COUPLINGMAP", "CUSTOM3"} :
                   Answered(DeviceAnswer(p))
             \/ \E name \in DOMAIN metadata.operations,
                   sites \in {None, <<0>>, <<0, 1>>, <<1, 0>>},
                   p \in {"QUBITSNUM", "SITES", "DURATION", "FIDELITY"} :
                      Answered(OperationAnswer(name, sites, p))

\* parseStatus, and the status that the queue and the state amount to.
StatusAnswer(body) ==
    IF body.state = None THEN NotSupported
    ELSE Answer(IF ~body.state THEN "OFFLINE" ELSE IF body.queue = 0 THEN "IDLE" ELSE "BUSY")

\* The request is made without the lock of the session.
QueryStatus(property) ==
    /\ UNCHANGED <<world, session>>
    /\ \/ auth = None /\ Return(Refusal("BADSTATE"))
       \/ /\ auth # None /\ Get(world.status) # Success
          /\ last' = Boundary(Get(world.status), last)
          /\ about' = Blame("status", world)
       \/ /\ auth # None /\ Get(world.status) = Success
          /\ Answered(IF property = "QUEUELENGTH" THEN Answer(world.status.body.queue)
                      ELSE StatusAnswer(world.status.body))

-----------------------------------------------------------------------------
\* The environment, the files or the service change.
ChangeWorld == \E later \in LaterWorlds :
    /\ world # later
    /\ world' = later
    /\ UNCHANGED <<session, last, about>>

Next ==
    \/ \E parameter \in DOMAIN Values : \E value \in Values[parameter] \cup {None} :
          MaySet(parameter) /\ SetParameter(parameter, value)
    \/ SessionInit
    \/ Query
    \/ \E property \in {"STATUS", "QUEUELENGTH"} : QueryStatus(property)
    \/ ChangeWorld

Spec == Init /\ [][Next]_vars

-----------------------------------------------------------------------------
(* Properties *)

(***************************************************************************)
(* "Explicit parameters take precedence over environment values, including *)
(* an explicit empty value, which fails validation" and "A selected        *)
(* invalid or unreadable file never falls back to environment credentials" *)
(* (docs/api.md:44-51), in whatever order the client sets them and however *)
(* often an initialization fails: a session starts only with the key, the  *)
(* backend and the instance of their first source, over https or to the    *)
(* own host; a failed attempt changes no parameter, and a session that     *)
(* has started keeps what it started with.                                 *)
(***************************************************************************)
Explicitly(parameter, otherwise) ==
    IF given[parameter] # None THEN given[parameter] ELSE otherwise
FirstKey == Explicitly("TOKEN",
    IF given["AUTHFILE"] = None THEN world.environment.apiKey
    ELSE IF given["AUTHFILE"] = "" THEN "malformed" ELSE world.files[given["AUTHFILE"]])
StartsWithFirstSource ==
    /\ auth'.apiKey = FirstKey /\ FirstKey \notin {"", "missing", "malformed"}
    /\ auth'.backend = Explicitly("BACKEND", world.environment.backend)
    /\ auth'.crn = Explicitly("INSTANCE_CRN", world.environment.crn)
    /\ auth'.requestTimeout = Explicitly("REQUEST_TIMEOUT", DefaultTimeout)
    /\ auth'.authUrl = Explicitly("AUTHURL", DefaultAuthUrl)
    /\ \A url \in {auth'.baseUrl, auth'.authUrl} :
          Endpoint[url].scheme = "https" \/ Endpoint[url].host \in Loopback
KeepsParameters ==
    /\ auth = None /\ auth' = None /\ given' = given => configuration' = configuration
    /\ auth # None => auth' = auth /\ configuration' = configuration
                      /\ metadata' = metadata /\ given' = given
FirstSourceWins == [][
    /\ auth = None /\ auth' # None => StartsWithFirstSource
    /\ KeepsParameters]_vars

(***************************************************************************)
(* "Calibration flags that mark a qubit or gate as non-operational exclude *)
(* its operation tuples and calibrations", "Absent operational flags do    *)
(* not exclude tuples" (docs/api.md:96-99): an operation is offered on     *)
(* exactly the tuples IBM states for it whose qubits all work and that it  *)
(* is not itself said to fail on, in that direction.                       *)
(***************************************************************************)
EntriesOf(name, at) == {served.props.gates[i] : i \in {j \in DOMAIN served.props.gates :
    served.props.gates[j].gate = name /\ served.props.gates[j].qubits = at}}
StatedSites(name) ==
    IF ConfiguredSites(served.conf, name) # {} THEN ConfiguredSites(served.conf, name)
    ELSE {gate.qubits : gate \in {g \in Elements(served.props.gates) : g.gate = name}}
Works(q) == q + 1 \in DOMAIN served.props.qubits => served.props.qubits[q + 1].operational
OperationsWork == metadata # None => \A name \in DOMAIN metadata.operations :
    metadata.operations[name].sites = {at \in StatedSites(name) :
        /\ \A q \in Elements(at) : Works(q)
        /\ \A gate \in EntriesOf(name, at) : gate.operational}

(***************************************************************************)
(* "Configuration tuples take precedence over calibration tuples;          *)
(* contradictions fail initialization" (docs/api.md:94-95): a session      *)
(* starts with the metadata if they are of its backend and agree with each *)
(* other, and only then.                                                   *)
(***************************************************************************)
Known(gate) == gate.gate \in DOMAIN Configured(served.conf)
Contradict(gate) ==
    \/ ~Tuple(gate.qubits, served.conf.count)
    \/ gate.qubits \notin StatedSites(gate.gate)
Agree(gate, other) == gate.gate = other.gate =>
    gate.qubits # other.qubits /\ Len(gate.qubits) = Len(other.qubits)
ContradictionsFail == served # None => (auth # None <=>
    LET gates == served.props.gates
        known == {i \in DOMAIN gates : Known(gates[i])}
    IN  /\ served.conf.name = served.backend
        /\ ValidConfiguration(served.conf)
        /\ Len(served.props.qubits) <= served.conf.count
        /\ \A i \in known : ~Contradict(gates[i])
        /\ \A i, j \in known : i # j => Agree(gates[i], gates[j]))

(***************************************************************************)
(* "Measurement calibration uses readout_length and 1 - readout_error from *)
(* qubit properties" and missing values are "never fabricated"             *)
(* (docs/api.md:92-103): duration and fidelity are answered for the tuples *)
(* offered, with what IBM reports for this operation on this very tuple,   *)
(* where the readout of the qubit comes before the gate of that name.      *)
(***************************************************************************)
Quantity(property) == IF property = "DURATION" THEN "duration" ELSE "fidelity"
Reports(name, at, field) ==
    LET readout == IF name = "measure" /\ Len(at) = 1
                      /\ at[1] + 1 \in DOMAIN served.props.qubits
                   THEN {served.props.qubits[at[1] + 1][field]} \ {None} ELSE {}
        gates == {gate[field] : gate \in EntriesOf(name, at)} \ {None}
    IN  IF readout # {} THEN readout ELSE gates
CalibrationsReported == metadata # None =>
    \A name \in DOMAIN metadata.operations, at \in {<<0>>, <<1>>, <<0, 1>>, <<1, 0>>},
       property \in {"DURATION", "FIDELITY"} :
        LET reported == IF at \in metadata.operations[name].sites
                        THEN Reports(name, at, Quantity(property)) ELSE {}
        IN  OperationAnswer(name, at, property) =
                IF reported = {} THEN NotSupported ELSE Answer(CHOOSE v \in reported : TRUE)

(***************************************************************************)
(* "It describes the last QDMI call on the current thread; successful      *)
(* calls reset it to NONE.  Categories distinguish transport, rate limits, *)
(* service errors, ... and internal errors" (docs/api.md:130-135): after   *)
(* any sequence of calls the category is that of the reply that decided    *)
(* the last one, and never blames the network for the client's mistakes.   *)
(* No call fails because there are no calibrations: "A missing calibration *)
(* endpoint (HTTP 404) permits initialization" (docs/api.md:102), so a     *)
(* NOT_FOUND is always that of another request.                            *)
(***************************************************************************)
Blamed == CASE about.error = "OPERATION_TIMEDOUT" -> "TIMEOUT"
            [] about.error \notin {"OK", "OPERATION_TIMEDOUT"} -> "TRANSPORT"
            [] about.error = "OK" ->
                  CASE about.status = 200 -> "INTERNAL"
                    [] about.status \in {401, 403} -> "AUTHENTICATION"
                    [] about.status = 404 -> "NOT_FOUND"
                    [] about.status = 429 -> "RATE_LIMIT"
                    [] about.status \notin {200, 401, 403, 404, 429} ->
                          IF about.request = "iam" /\ about.status = 400
                          THEN "AUTHENTICATION" ELSE "SERVICE"
DiagnosticTells ==
    /\ last.status = "SUCCESS" <=> last.diagnostic = "NONE"
    /\ about # None => /\ last.diagnostic = Blamed
                       /\ last.diagnostic = "NOT_FOUND" => about.request # "properties"
    /\ about = None => last.diagnostic \notin {"TIMEOUT", "TRANSPORT", "RATE_LIMIT", "SERVICE"}
=============================================================================
