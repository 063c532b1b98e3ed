---------------------------- MODULE SessionConfig ----------------------------
(***************************************************************************)
(* The parameters of a session and how they become the configuration of    *)
(* its requests (src/Auth.cpp:56-170, src/Device.cpp:260-311).  Credentials *)
(* come from a token, a key file or the environment, backend and instance  *)
(* from a parameter or the environment, endpoints from a parameter or the  *)
(* region of the instance.  Strings are values; "" is the empty one.       *)
(***************************************************************************)
EXTENDS Http

CONSTANTS
    Unset,      \* no key file
    Backends,   \* well-formed names of backends
    Region,     \* region of the well-formed instance CRNs
    Endpoint,   \* parts of a URL
    DefaultAuthUrl,
    Timeouts    \* request timeouts that parse

\* In milliseconds.
DefaultTimeout == 30000

FreshConfiguration ==
    [apiKey |-> "", apiKeyConfigured |-> FALSE, authFile |-> Unset,
     backend |-> "", backendConfigured |-> FALSE, crn |-> "", crnConfigured |-> FALSE,
     baseUrl |-> "", authUrl |-> DefaultAuthUrl, requestTimeout |-> DefaultTimeout]

Parameters == {"TOKEN", "AUTHFILE", "BASEURL", "AUTHURL", "BACKEND", "INSTANCE_CRN",
               "REQUEST_TIMEOUT"}

\* IBM_QDMI_device_session_set_parameter on a session that has no Auth.
WithParameter(c, parameter, value) ==
    CASE parameter = "TOKEN" -> [c EXCEPT !.apiKey = value, !.apiKeyConfigured = TRUE]
      [] parameter = "AUTHFILE" -> [c EXCEPT !.authFile = value]
      [] parameter = "BASEURL" -> [c EXCEPT !.baseUrl = value]
      [] parameter = "AUTHURL" -> [c EXCEPT !.authUrl = value]
      [] parameter = "BACKEND" ->
            [c EXCEPT !.backend = value, !.backendConfigured = TRUE]
      [] parameter = "INSTANCE_CRN" -> [c EXCEPT !.crn = value, !.crnConfigured = TRUE]
      [] parameter = "REQUEST_TIMEOUT" -> [c EXCEPT !.requestTimeout = value]

ValidParameter(parameter, value) ==
    parameter = "REQUEST_TIMEOUT" => value \in Timeouts

-----------------------------------------------------------------------------
(* resolve *)

\* A value, or the failure to get one.
Got(value) == [failure |-> Success, value |-> value]
NotGot(status) == [failure |-> Refusal(status), value |-> ""]

\* A file is missing, malformed, or the one key it contains.
ReadApiKey(path, files) ==
    IF path = "" THEN NotGot("INVALIDARGUMENT")
    ELSE CASE files[path] = "missing" -> NotGot("PERMISSIONDENIED")
           [] files[path] = "malformed" -> NotGot("INVALIDARGUMENT")
           [] files[path] \notin {"missing", "malformed"} -> Got(files[path])

FromEnvironment(configured, value, default) ==
    IF ~configured /\ value = "" THEN default ELSE value

\* Fault: a file that cannot be used is passed over.
MutApiKey(c, environment, files) ==
    IF c.apiKeyConfigured \/ c.apiKey # "" THEN Got(c.apiKey)
    ELSE IF c.authFile # Unset /\ ReadApiKey(c.authFile, files).failure = Success
         THEN ReadApiKey(c.authFile, files)
    ELSE Got(environment.apiKey)
ApiKey(c, environment, files) ==
    IF c.apiKeyConfigured \/ c.apiKey # "" THEN Got(c.apiKey)
    ELSE IF c.authFile # Unset THEN ReadApiKey(c.authFile, files)
    ELSE Got(environment.apiKey)

DefaultBaseUrl(region) ==
    CASE region = "us-east" -> "https://quantum.cloud.ibm.com/api"
      [] region = "eu-de" -> "https://eu-de.quantum.cloud.ibm.com/api"
      [] region \notin {"us-east", "eu-de"} -> ""

\* The first check that fails decides.
Refused(key, r) ==
    IF key.failure # Success THEN key.failure
    ELSE IF key.value = "" THEN Refusal("PERMISSIONDENIED")
    ELSE IF r.backend \notin Backends \/ r.crn \notin DOMAIN Region
         THEN Refusal("INVALIDARGUMENT")
    ELSE IF r.baseUrl = "" THEN Refusal("NOTSUPPORTED")
    ELSE IF ~ValidEndpoint(Endpoint[r.baseUrl]) \/ ~ValidEndpoint(Endpoint[r.authUrl])
         THEN Refusal("INVALIDARGUMENT")
    ELSE Success

Resolve(c, environment, files) ==
    LET key == ApiKey(c, environment, files)
        crn == FromEnvironment(c.crnConfigured, c.crn, environment.crn)
        resolved == [c EXCEPT
            !.apiKey = key.value,
            !.backend = FromEnvironment(c.backendConfigured, @, environment.backend),
            !.crn = crn,
            !.baseUrl = IF @ = "" /\ crn \in DOMAIN Region
                        THEN DefaultBaseUrl(Region[crn]) ELSE @]
    IN  [failure |-> Refused(key, resolved), configuration |-> resolved]
=============================================================================
