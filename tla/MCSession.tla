------------------------------ MODULE MCSession ------------------------------
(***************************************************************************)
(* Small instances of Session: two qubits, the operations ecr, measure and *)
(* if_else; every pair of sources for each parameter; each way a request   *)
(* can end.                                                                *)
(***************************************************************************)
EXTENDS Session, TLC

MCRegion == "crn-us" :> "us-east" @@ "crn-mars" :> "mars"
Url(scheme, host) == [parsed |-> TRUE, user |-> FALSE, scheme |-> scheme, host |-> host,
                      query |-> FALSE, fragment |-> FALSE]
MCEndpoint ==
    "" :> [Url("", "") EXCEPT !.parsed = FALSE]
    @@ "http://localhost" :> Url("http", "localhost")
    @@ "http://example.org" :> Url("http", "example.org")
    @@ "https://example.org?q" :> [Url("https", "example.org") EXCEPT !.query = TRUE]
    @@ "https://iam.cloud.ibm.com" :> Url("https", "iam.cloud.ibm.com")
    @@ "https://quantum.cloud.ibm.com/api" :> Url("https", "quantum.cloud.ibm.com")
    @@ "https://eu-de.quantum.cloud.ibm.com/api" :>
          Url("https", "eu-de.quantum.cloud.ibm.com")

MCValues ==
    "TOKEN" :> {"", "token"} @@ "AUTHFILE" :> {"", "file"}
    @@ "BASEURL" :> {"", "http://localhost", "http://example.org"}
    @@ "AUTHURL" :> {"", "https://example.org?q"}
    @@ "BACKEND" :> {"", "other", "b/d"} @@ "INSTANCE_CRN" :> {"", "crn-mars", "crn"}
    @@ "REQUEST_TIMEOUT" :> {0, 5} @@ "USERNAME" :> {"name"}

-----------------------------------------------------------------------------
(* Replies *)

Ok(body) == [error |-> "OK", status |-> 200, body |-> body]
Status(status) == [error |-> "OK", status |-> status, body |-> None]
Error(error) == [error |-> error, status |-> 0, body |-> None]
Failures == {Status(s) : s \in {401, 404, 429, 500}}
    \cup {Error(e) : e \in {"OPERATION_TIMEDOUT", "COULDNT_CONNECT", "SSL_CACERT_ERROR"}}
    \cup {Ok(Garbled)}

BackendOf(name, ecr, instructions) ==
    [name |-> name, count |-> 2, coupling |-> {<<0, 1>>}, basis |-> <<"ecr">>,
     gates |-> ecr, instructions |-> instructions]
Ecr(map) == <<[name |-> "ecr", map |-> map]>>
Typical == BackendOf("backend", Ecr({<<0, 1>>}), <<"measure", "if_else", "delay">>)

Qubit(duration, fidelity, operational) ==
    [duration |-> duration, fidelity |-> fidelity, operational |-> operational]
Entry(gate, qubits, value) == [gate |-> gate, qubits |-> qubits] @@ value

Environment == [apiKey |-> "environment", backend |-> "backend", crn |-> "crn-us"]
World == [
    environment |-> Environment,
    files |-> [file \in {"file"} |-> "from file"],
    iam |-> Ok("token"),
    configuration |-> Ok(Typical),
    properties |-> Status(404),
    status |-> Ok([queue |-> 1, state |-> TRUE]),
    parameters |-> 0]

\* Where the parameters come from.
Sources == {[World EXCEPT !.parameters = 3, !.environment = e, !.files["file"] = f] :
    e \in [apiKey : {"", "environment"}, backend : {"", "backend"}, crn : {"", "crn-us"}],
    f \in {"missing", "malformed", "from file"}}

\* What becomes of the requests.
Outcomes ==
    {[World EXCEPT !.iam = r] : r \in Failures \cup {Status(400)}}
    \cup {[World EXCEPT !.configuration = r] : r \in Failures}
    \cup {[World EXCEPT !.properties = r] : r \in Failures}
    \cup {[World EXCEPT !.status = r] : r \in Failures
            \cup {Ok([queue |-> q, state |-> s]) : q \in 0 .. 1, s \in BOOLEAN}
            \cup {Ok([queue |-> 0, state |-> None])}}

\* What the backend is like.
Configurations == {BackendOf("backend", ecr, instructions) :
        ecr \in {<< >>, Ecr({}), Ecr({<<0, 1>>}), Ecr({<<0, 1>>, <<1, 0>>})},
        instructions \in {<< >>, <<"measure", "if_else">>}}
Calibrations ==
    {Entry("ecr", at, v) : at \in {<<0, 1>>, <<1, 0>>},
                           v \in {Qubit(3, None, TRUE), Qubit(3, 4, FALSE)}}
    \cup {Entry("measure", at, Qubit(3, 4, o)) : at \in {<<0>>, <<1>>}, o \in BOOLEAN}
    \cup {Entry(gate[1], gate[2], Qubit(3, 4, TRUE)) :
            gate \in {<<"ecr", <<1>>>>, <<"ecr", <<0, 2>>>>, <<"cz", <<0, 1>>>>}}
QubitProperties == {Qubit(1, None, TRUE), Qubit(1, 2, TRUE), Qubit(None, None, FALSE)}
QubitLists == {<< >>} \cup [1 .. 1 -> QubitProperties]
    \cup {<<Qubit(None, None, TRUE), q>> : q \in QubitProperties}
GateLists == {<< >>} \cup [1 .. 1 -> Calibrations] \cup [1 .. 2 -> Calibrations]
Backend(c, q, g) == [World EXCEPT !.configuration = Ok(c),
                                  !.properties = Ok([qubits |-> q, gates |-> g])]
Odd == {
    BackendOf("other", Ecr({}), << >>),
    BackendOf("backend", Ecr({<<0, 1>>, <<0>>}), << >>),
    BackendOf("backend", Ecr({<<0, 0>>}), << >>),
    BackendOf("backend", Ecr({}) \o Ecr({}), << >>),
    [Typical EXCEPT !.basis = <<"ecr", "ecr">>],
    [Typical EXCEPT !.basis = <<"ecr", "measure">>],
    [Typical EXCEPT !.coupling = {<<0, 2>>}]}
\* Both qubits are measured together, with a calibration of its own.
Joint == [Typical EXCEPT !.basis = <<"ecr", "measure">>,
                         !.gates = Append(@, [name |-> "measure", map |-> {<<0, 1>>}])]
BackendWorlds ==
    {Backend(c, q, g) : c \in Configurations, q \in QubitLists, g \in GateLists}
    \cup {Backend(c, << >>, g) : c \in Odd, g \in [1 .. 1 -> Calibrations]}
    \cup {Backend(Typical, <<q, q, q>>, << >>) : q \in QubitProperties}
    \cup {Backend(Joint, <<q>>, <<Entry("measure", <<0, 1>>, Qubit(3, None, TRUE))>>) :
            q \in QubitProperties}

MCWorlds == Sources \cup Outcomes \cup BackendWorlds
MCLaterWorlds == {
    World,
    [World EXCEPT !.environment.apiKey = "later", !.status = Error("RECV_ERROR")]}
=============================================================================
