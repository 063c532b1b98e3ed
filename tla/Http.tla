--------------------------------- MODULE Http ---------------------------------
(***************************************************************************)
(* How an answer of the network becomes the status and the diagnostic of a *)
(* call: src/Http.cpp:146-168 and 209-245, src/Device.cpp:89-131.          *)
(***************************************************************************)
EXTENDS Integers

\* A Failure on its way to the boundary; NONE leaves the diagnostic to it.
Failure(status, diagnostic) == [status |-> status, diagnostic |-> diagnostic]
Success == Failure("SUCCESS", "NONE")
Refusal(status) == Failure(status, "NONE")

-----------------------------------------------------------------------------
(* Responses: the error of the transfer and the HTTP status *)

Transient == {"COULDNT_CONNECT", "COULDNT_RESOLVE_HOST", "SEND_ERROR", "RECV_ERROR",
              "GOT_NOTHING", "PARTIAL_FILE"}

Send(answer) == [status |-> answer.status,
                 timedOut |-> answer.error = "OPERATION_TIMEDOUT",
                 failed |-> answer.error # "OK",
                 transient |-> answer.error \in Transient]

CheckResponse(response) ==
    CASE response.timedOut -> Failure("TIMEOUT", "TIMEOUT")
      [] ~response.timedOut /\ response.failed -> Failure("FATAL", "TRANSPORT")
      [] ~response.failed /\ response.status \in {401, 403} ->
            Failure("PERMISSIONDENIED", "AUTHENTICATION")
      [] ~response.failed /\ response.status = 404 -> Failure("NOTFOUND", "NOT_FOUND")
      [] ~response.failed /\ response.status = 429 -> Failure("FATAL", "RATE_LIMIT")
      [] ~response.failed /\ response.status \notin {200, 401, 403, 404, 429} ->
            Failure("FATAL", "SERVICE")
      [] ~response.failed /\ response.status = 200 -> Success

DefaultDiagnostic(status) ==
    CASE status = "SUCCESS" -> "NONE"
      [] status \in {"INVALIDARGUMENT", "OUTOFRANGE"} -> "INVALID_ARGUMENT"
      [] status = "BADSTATE" -> "BAD_STATE"
      [] status = "NOTSUPPORTED" -> "NOT_SUPPORTED"
      [] status = "PERMISSIONDENIED" -> "AUTHENTICATION"
      [] status = "NOTFOUND" -> "NOT_FOUND"
      [] status = "TIMEOUT" -> "TIMEOUT"
      [] status \in {"FATAL", "OUTOFMEM"} -> "INTERNAL"

\* Fault: a call that returns leaves the diagnostic of the call before it.
MutBoundary(outcome, last) ==
    [status |-> outcome.status, diagnostic |->
        IF outcome.status = "SUCCESS" THEN last.diagnostic
        ELSE IF outcome.diagnostic = "NONE" THEN DefaultDiagnostic(outcome.status)
        ELSE outcome.diagnostic]
\* What the call returns and last_diagnostic tells after it.
Boundary(outcome, last) ==
    [status |-> outcome.status, diagnostic |->
        IF outcome.diagnostic = "NONE" THEN DefaultDiagnostic(outcome.status)
                                       ELSE outcome.diagnostic]

-----------------------------------------------------------------------------
(* Endpoints, as libcurl takes them apart *)

Loopback == {"127.0.0.1", "[::1]", "localhost"}

ValidEndpoint(url) ==
    /\ url.parsed /\ ~url.user
    /\ url.host # "" /\ ~url.query /\ ~url.fragment
    /\ \/ url.scheme = "https"
       \/ url.scheme = "http" /\ url.host \in Loopback
=============================================================================
