# TLA+ models of the IBM QDMI device

This directory holds a verification project for the C++ library in `src/src`
(a QDMI device for IBM Quantum: sessions, jobs, authenticated HTTP requests) and
the Python helpers around it. It consists of TLA+ specifications of its
components, TLC configurations that check them on small instances, and proofs
checked by TLAPS. `PROJECT.json` lists the runs, the theorems, the source lines
each definition stands for, the hazards of the code and the findings.

    tlc -workers 2 -config DeviceJob.cfg MCDeviceJob      # one run
    tlapm DeviceJob_proofs.tla                            # one proof module

Line numbers below refer to `src/src` unless a path is given.

## 1. The system

A client (C, C++ or Python, possibly with several threads) calls the entry
points of `Device.cpp`. They translate exceptions to QDMI codes (`boundary`),
find the object behind a handle in the registry, take its mutex, and call
`ibm::Job` or `ibm::Auth`, which make HTTP requests to IAM and to the Qiskit
Runtime REST service.

    client threads --> Device.cpp: registry, sessions, job handles, mutexes
                          |                 |
                          v                 v
                       Job.cpp  --------> Auth.cpp: token, retries, deadline
                          |                 |
             Program.cpp, Qpy.cpp        Http.cpp --> IAM, Runtime service
             (programs), Metadata.cpp                 (or mock.py, offline)

| Component | State it keeps | Operations | What makes it hard | What makes it correct |
|---|---|---|---|---|
| Registry and lifecycle (`Device.cpp`) | `State`: initialized, maps of sessions and jobs; per session: parameters, `Auth`, metadata, timed mutex | initialize, finalize, alloc, free, set_parameter, session_init, create and retrieve job, job_free | handles freed by one thread while another is inside a call; raw pointers to `Auth`; `session_init` spans two requests | no destroyed object is used; an `Auth` is never replaced; configuration committed whole or not at all; finalization excludes handles |
| Device jobs (`Job.cpp`, entry points of `Device.cpp`) | status, attempted, id, programs, cached results; timed mutex | set_programs, set_parameter, submit, check, wait, cancel, get_results, retrieve | answers lost or late, threads sharing a handle, several handles for one remote job, deadlines that include lock waits | at most one submission; what is shown is what runs; never ahead of the service; terminal is final; calls return |
| Job configuration (`Job.cpp`) | format, programs, register layouts, shots, options, samplerOptionsSet | the setters, the support probe, payload building, reading a payload back | long sequences of setters; three formats with different rules; a limit on a product | limits hold in every order; rejected calls change nothing; submit and retrieve are inverse |
| Authenticated requests (`Auth.cpp`) | cached token with expiry and validity, timed mutex | `request`, `acquireToken`, `refresh`, `get` | late 401s, concurrent refreshes, one deadline for everything, retries of two kinds | newer tokens survive older 401s; refresh shared; attempts bounded; deadline kept |
| Session parameters (`Auth.cpp` 56-170, `Device.cpp` 260-311) | the `Configuration` of a session, with what the client set explicitly | `set_parameter`, `resolve`, `readApiKey`, `parseRequestTimeout` | precedence of explicit values, key file and environment, in any order of calls and after failed attempts | the first source the client set wins; a failure changes nothing; credentials go over https only |
| HTTP transport (`Http.cpp`) and diagnostics (`Device.cpp` 89-131) | per thread the last diagnostic | `send`, `checkResponse`, `parseRetryAfter`, `validEndpoint` | classification of failures; saturation of delays | transient, permanent and timed-out answers told apart; the diagnostic is that of the last call |
| Metadata (`Metadata.cpp`) | the snapshot a session keeps | `parseMetadata`, `parseStatus`, property queries | two documents that may contradict each other; entries that change what later entries are compared with; faulty qubits and directed gates | operations are offered exactly where stated and working; contradictions fail; calibrations are those reported |
| Programs (`Program.cpp`, `Qpy.cpp`) | none | `declareNativeGates`, `outputRegisters`, `qpyRegisters`, base64 | scanning without a parser; widths; padding | declarations added exactly when needed, once; registers as declared; encode/decode inverse, foreign texts exact |
| Results (`Job.cpp` 96-160) | none | `bitstring`, `decodeResults`, histogram queries | widths and counts against the layout; leading zeros; order of registers and bits | every shot as measured; every malformed answer refused |
| Offline mock (`src/python/ibm/qdmi/mock.py`) | job table, thread pool, futures | an HTTP handler per request, one simulation per job | futures read without a lock while a worker changes them | behaves as the service the client expects |
| Python integrations | one job each | run, result, cancel through the device interface | adaptation only | - |

The hazards, each at the line where it bites and with the properties that would
catch it, are listed in `PROJECT.json`.

## 2. Modules

| Module | Models | Checked by |
|---|---|---|
| `DeviceJob` | job handles, client threads, handle mutexes, requests in flight, the service | runs DeviceJob, DeviceJobShared, DeviceJobLive |
| `JobContract` | the abstract promise of a handle, without threads, requests or answers | refined by `DeviceJob` (property ImplementsContract) |
| `JobConfig` | the fields of one `ibm::Job` the setters change, payload and retrieval | runs JobConfig, JobConfigDefault |
| `Program` | tokens of OpenQASM: native gates, output registers | through `Sampler` |
| `Qpy` | registers of QPY files, base64 | through `Sampler` |
| `Results` | decoding of samples to bit strings and histograms | through `Sampler` |
| `Sampler` | one program from the client to its results; composes the three | run Sampler |
| `Registry` | device, sessions, handles, object lifetimes, `session_init` | runs Registry, RegistryFinalize |
| `Http` | answers, their classification, diagnostics, endpoints | through `Session` |
| `SessionConfig` | parameters of a session, `resolve`; extends `Http` | through `Session` |
| `Metadata` | `parseMetadata` | through `Session` |
| `Session` | one session from its parameters to its queries; composes the three | run Session |
| `Auth` | the token cache and requests of one session, with time | runs Auth, AuthLive |
| `MockRuntime` | the offline service: connection, request handler, worker | run MockRuntime |
| `DeviceJob_proofs` | theorems about `DeviceJob`, and that it implements `JobContract` | TLAPS |
| `JobConfig_proofs`, `Registry_proofs`, `Auth_proofs`, `MockRuntime_proofs` | theorems about the module of that name | TLAPS |
| `Session_proofs` | what `parseMetadata` makes of documents of any length, and theorems about `Session` | TLAPS |
| `Sampler_proofs` | theorems about `Sampler` and the operators it is built from | TLAPS |
| `Sequences_proofs` | lemmas on numbers, recursion, sums and sequences for the last two | TLAPS |
| `MC*` | symmetry sets and finite data for TLC | |

The modules meet at narrow interfaces. `DeviceJob` treats one authenticated
exchange as a request and one final answer or failure; `Auth` models what
happens inside such an exchange. `DeviceJob` treats a configuration as one value
of `Programs`; `JobConfig` models its content, for one thread, which is enough
because the handle's mutex serializes the setters (theorem `SerializedAlways`
of `DeviceJob_proofs`). `JobConfig` treats a program as a value with a layout and
`Declare` as a function on values; `Sampler` models where layouts come from, what
declaration adds, and what the layouts are for. `Registry` treats a call on a job
as a user of two objects; `DeviceJob` models what the call does. `Registry` models
the lifetimes around `session_init` with one credential and opaque metadata;
`Session` models what is resolved, parsed, committed and answered, for one thread,
which is enough because the mutex of the session serializes these calls
(`MutexHeldByInit`), and treats an exchange as one reply; `Auth` models the
retries behind it.

Fault operators (`Mut...`, defined before the operator they stand for and marked
"Fault") are not part of any specification. They record, for each property, a
plausible mistake in the code under which the property fails.

### DeviceJob

`job[h]` has the fields of `ibm::Job` that control behaviour; `mutex[h]` is the
timed mutex; `call[t].pc` says where the entry point of thread `t` is: waiting
for the mutex (`lock`), in one of five exchanges (`submit`, `cancel`, `poll`,
`fetch`, `retrieve`), asleep between two polls (`sleep`) or back (`idle`).

* `Submit` is `Job::submit` up to the POST: it sets `attempted` and FAILED
  before the request leaves (303-306). `ReceiveSubmitted` is what follows: the
  id is stored, then the backend compared, and only then is the status
  SUBMITTED (311-313). `Fail` is every exception on the way; it leaves the
  request in flight, where the service may still accept it.
* `StartPoll`/`ReceivePoll` are `Job::check`, shared by job_check, job_wait and
  get_results; `Verdict` is what each of them makes of the status. A 409 of a
  cancellation goes on to a poll without releasing the mutex (397-402).
* `Configure` is a successful `setPrograms`, which drops the cached results.
* `Wake`, `TimeOut`, `Expire` are the loop of job_wait (`Device.cpp` 631-645): a
  deadline counts asleep, in the queue of the mutex, and in front of a poll.
* `BeginRetrieve`/`ReceiveRetrieved`: the handle is published when complete.
* `Accept`, `DecideCancel`, `Lose`, `AnswerGet`, `Advance` are the service and
  the network, external to this repository: jobs move from SUBMITTED over QUEUED
  and RUNNING to a terminal status, cancellation works before that, requests and
  answers may be lost, an answer may name an unknown status, another backend, or
  say that results are not ready.

A submission is a POST and never repeated by `Auth`, so a request in flight is
one message. Freeing handles is in `Registry`: an object stays alive during a
call, so it makes no difference here.

### JobConfig

One handle, one thread. The actions are the calls of the client; each computes
an outcome (`Done` or `Thrown`) with the job it leaves behind, so that a member
function that throws after it has changed something is visible as such.
OpenQASM and QPY sources are values with a register layout (or none, when the
code rejects them); executor sources have a shot count. `Declare` is what
`declareNativeGates` makes of a source and `Normal` is the JSON round trip of an
executor payload; the assumptions about them are named in the module. `Foreign`
are jobs submitted by other programs, with mixed formats, mixed or zero shots and
excessive counts. The history `asked` keeps what the client was granted last: it is
written by accepted calls only, and the probes (`CallProbe`,
`CallProbeParameter`) leave it alone. `AskedIsSent` compares it with the payload: no
probe, refusal, change of format or payload of an executor in between may replace or
drop a shot count, an option, a time or a program. Shots and options that were never
set are not part of it; what they default to is finding 1.

### Sampler (with Program, Qpy and Results)

`Program` works on the tokens of a program, `Qpy` on the fields of a file and on
numbers of six and eight bits, `Results` on digits and bits. They are written as
operators on whole sequences, not as loops: `Calls` says that some token is a
native gate followed by what starts its operands; `SkipGate` that a gate ends
where its braces balance; `Decode64` which bits of the text make which byte. The
one scan that has a state, `outputRegisters`, is a fold of `Round`, one turn of its loop. Names and
numbers are tokens of the constants `Words` and `Numeral`; `MaxSize` is the largest
`std::size_t`, so that sums of widths at that boundary occur. A refusal has no
error code here.

`Sampler` composes them. A client writes a program statement by statement
(`Write`). Each statement carries its tokens, which is all the device sees, and
what it means: the registers it declares, the gates it defines or calls, the scope
it opens or closes, whether the documentation admits it. So the properties compare
what a scanner finds in the text with what the text says, over all programs of
up to `MaxStatements` statements: declarations inside branches, casts and comments
that look like declarations, calls inside gate bodies included. What a statement of each
kind means is said once, by `IsStatement`. `SetPrograms`, `Submit`, `Retrieve` and
`Fetch` are the parts of the functions of `Job` that deal with one program; `Measure` is the
service, which answers the numbers of each register with or without leading zeros
and bit counts, `Garble` the service answering something else. `RetrieveForeign`
reads every base64 text of a small alphabet. Statements of `Statements` are chosen
around the tokens the scanner reacts to; those it passes over are one case.

### Registry

Every address holds an object or `Gone`. `Settle` implements shared ownership: an
object disappears with the last registry entry, call or job that refers to it.
Sections under the registry mutex are single steps, since that mutex is taken
last and never kept across an exchange. The session mutex is explicit, because
`session_init` keeps it across two exchanges. `asked` is a history variable: what
the client configured since allocation.

### Session (with Http, SessionConfig and Metadata)

What is outside the process is one value `world`: environment, key files, and the
reply to each request. `ChangeWorld` replaces it between any two calls, so a
session may fail in one world and start in another. `SetParameter` has the early
returns of the code as disjuncts; `SessionInit` resolves, then makes the exchanges
with IAM, for the configuration and for the properties (`Exchanges`), the first
failure of which ends it, then parses and commits. `Boundary` is the function of
that name: every action sets `last`, the status of the call and the diagnostic of
the thread. `given`, `about` and `served` are histories: what the client set,
which reply decided the last call, and which documents the last complete attempt
was based on; the code never reads them, and the properties are stated on
them.

In `Metadata`, a tuple is a sequence of qubits, an operation a record of arity,
tuples and calibrations by tuple. `ParseMetadata` folds `Calibrate` over the gate
entries because the code lets every entry see what the earlier ones changed:
`Accepted` compares with the tuples of the configuration where it has some, and
otherwise only with the arity so far. `Working` removes what does not work at the
end. Numbers are taken as parsed. `Documents` are those with the types that the
parser asks for (a list is a list, a qubit an integer); all others are `Garbled`,
since the parser throws the same failure for both.

### MockRuntime

One fake backend. `connection()` takes `_LOCK`, looks for a service and starts one
(or fails to, `FailServer`). An `HTTPServer` handles one request at a time
(`ServerFree`); `client[t].pc` is where the handler of the request of `t` is. The
handler asks the future of a job for `cancelled()`, `done()` and `running()`, one
after the other (`Read`); between these, and between queueing a submission and
listing it (`Enqueue`, `Store`), the worker may `Take` or finish (`Simulate`) a
job. The semantics of the executor and its futures are external, those of
`concurrent.futures`. The client side of the same protocol is `DeviceJob`, whose
service admits what the mock does, refusal (409) of cancelling a running job
included, except that a status may fall back from Running to Queued when the job
ends between two reads (`FallsBackOnlyAtTheEnd`); the next read is then terminal.

### Auth

One session. A request is at `lock` (acquireToken), `iam` (refresh, mutex held),
`send` (token acquired, deadline about to be looked at), `exchange` or
`backoff`. `Tick` may happen between any two steps. The expiry of a token is
computed from the start of the IAM exchange with the margin of `Auth.cpp`
216-220; `good` is when IAM itself stops accepting it. Answers are chosen
freely: success, permanent failure and timeout (`Receive`), 401, or a transient
failure with any `Retry-After` header of the set, which is absent, a number of
seconds or a date (`ParseRetryAfter`).

Times have the width of their types: `MaxTime` is `Deadline::max()`, `MaxDelay`
the largest delay. A request may be the poll of a job_wait that began at any time
before (`WaitDeadline`, from `Device.cpp` 622-629), whose deadline `Auth::request`
meets with its own. `rejected`, `refused`, `begun`, `allowed` and `wanted` are
histories used by the properties only; the last two are computed without any
width, as the documentation describes them.

## 3. Runs

| Run | Instance | Distinct states | Shows |
|---|---|---|---|
| DeviceJob | 2 threads, 1 handle, 2 ids, 2 program lists, 6 calls | 148 000 | one submission, what is shown is what runs, `TerminalIsFinal`, refinement of `JobContract` |
| DeviceJobShared | 2 threads, 2 handles, 1 id, 1 program list, 5 calls | 653 000 | handles and answers stay true, also when two handles share a remote job |
| DeviceJobLive | 2 threads, 1 handle, 4 calls, fair | 61 000 | a job_wait with timeout returns whatever the service does; every call returns if the service finishes its jobs |
| JobConfig | limit 6, shots 0 to 7, lists of up to 3 programs | 3 900 | limits, atomic rejection, what was granted is what is sent, submit/retrieve round trip |
| JobConfigDefault | same | | finding 1 |
| Sampler | 22 statements, programs of up to 3, measured up to 2; 2 shots; 2 900 QPY files, 3 contents, all texts of 4 out of 5 characters | 101 000 | registers, native gates, bytes and shots come through; malformed answers do not |
| Registry | 2 threads, 2 sessions, 2 jobs, 2 credentials | 129 000 | lifetimes, commit of session_init, its mutex, one Auth per session |
| RegistryFinalize | as Registry | | finding 2 |
| Auth | 2 threads, 3 tokens, 3 requests, timeout 2, job_wait timeout 5, clock to 5 | 1 573 000 | token cache, retries, deadline, no time wraps around |
| AuthLive | 2 threads, 2 tokens, 2 requests, clock to 3, fair | 105 000 | every request returns |
| MockRuntime | 2 threads, 2 jobs, 6 calls, fair | 166 000 | answers follow the jobs, one service for all sessions, everything ends |
| Session | 7 592 worlds: 24 of sources (3 parameters set in each), 37 of outcomes, the others of backends with 2 qubits, which may be measured together | 168 000 | precedence of sources, what is offered where, contradictions, calibrations, diagnostics |

Every property of a passing run has a fault operator, a change of one definition as
a plausible mistake in the code would make it, under which the same run finds it
violated. That shows that the property depends on this definition, not that it would
notice every mistake of its kind.

Bounds, and why they suffice for the cases that matter:

* `MaxCalls` (DeviceJob): a scenario that a property excludes takes at most two
  or three calls of each thread (configure, submit, retry, cancel, poll, fetch);
  six calls together allow for a complete life of a job with a second thread
  interfering, two ids allow for a duplicate submission, two program lists for a
  change of configuration. Sharing a job needs create, configure, submit,
  retrieve and one call more: five. The liveness runs need a job, a waiter and
  an interfering call: four. When the calls are used up and returned, the model
  stutters (`Finished`); any other stop is reported as a deadlock.
* JobConfig: a limit of six with shot counts on both sides of its divisors shows
  the same roundings as ten million; three programs are the least at which the
  second and third differ. The model has no bound on the number of calls.
* MockRuntime: a fall-back takes a connection, a submission and two status
  queries; losing a job takes two connections, a submission and a query. Six calls
  allow for a cancellation besides. `MaxServers` is never reached unless the lock
  is removed.
* Registry: addresses can be reused, so two of each show confusion of an old and
  a new object. No bound on calls.
* Sampler: what a scanner can confuse takes a declaration and its context: a scope
  before and after it, a duplicate name, a definition and a call of a gate; three
  statements hold each of these. Measurement needs two registers whose order and
  widths differ: two statements. Shots are those with no, one or every bit set,
  which tell any two bits apart; widths 1, 2 and 5 are below, within and beyond one
  hexadecimal digit, and 9 is no number because `MaxSize` is 7. Contents of 1, 2 and 3
  bytes leave each remainder of base64.
* Session: the arity of two qubits is the least with a direction. Two gate entries
  are the least that can contradict or repeat each other. The client sets up to
  three parameters where sources matter (a key, its file, and a third), and none
  where outcomes or metadata do; `LaterWorlds` has a changed key and a lost reply.
* Auth: `MaxTokens`, `MaxRequests` and `MaxClock` bound the run. Three tokens
  allow for a 401 of the first that arrives after the third was cached; three
  requests of two threads for a waiter that finds the token renewed. The lifetime
  of 4 with margin 2 and timeout 2 keeps the proportion of the code's assumption
  (margin at least the timeout: 60 s against 30 s). `BaseDelay` is zero there
  because 100 ms are negligible against the time unit of seconds; delays come
  from `RetryAfter` (none, one that fits, one as large as `MaxDelay`, one beyond it,
  and a date). A job_wait of 5 is beyond `MaxTime` from any start but 0. `Begin`
  requires that the timeout lies within `MaxClock`.

Symmetry (threads, handles, ids, program lists, addresses, credentials) is used
in safety runs only.

### Fairness

* DeviceJob: weak fairness of each thread's next step and of the expiry of a
  deadline. It is justified since runnable threads are scheduled and every
  exchange ends by the transport's timeout (`Fail` is always possible during
  one). `std::timed_mutex` promises no order, and no strong fairness is assumed:
  a thread waiting for a mutex that others keep taking may starve in the model,
  and the number of calls is what ends that. `CallsReturn` in addition assumes
  weak fairness of the progress of remote jobs: job_wait without a timeout
  waits for the service by design. Its part `TimedWaitReturns` does not assume it:
  the run's specification is `ThreadFairSpec`, and the property is
  `TimedWaitReturns /\ (ServiceFairness => ...)`.
* Registry, JobConfig, Sampler, Session: no liveness. That a session's mutex is
  released is a safety property of the handlers here (`MutexHeldByInit`: it is held
  by a thread inside `session_init` and nobody else, and each of those steps can
  only go on or release it). Sampler checks no deadlock because a program's life
  ends.
* MockRuntime: weak fairness of requests, of the handler and of the worker; a
  simulation waits for nothing and so ends.
* Auth: weak fairness of the clock and of each thread's next step.

## 4. Findings

1. **Shots of an executor payload survive the format** (`Job.cpp:225`).
   `setPrograms` stores the payload's `shots` in the field of the Sampler shots.
   A later OpenQASM or QPY list then runs with them, although the client set
   none and `src/docs/api.md:195` says that "OpenQASM and QPY shots default to
   1,024". Run JobConfigDefault: two calls.
2. **A handle may be registered after finalization** (`Device.cpp:447`, `467`).
   create_device_job and retrieve_device_job_by_id look the session up and insert
   the job later, without asking again whether the session or the device is still
   there. Freeing the session and finalizing in between succeeds, although
   `src/docs/api.md:262` wants every job freed before, and `finalize`
   (`Device.cpp:231`) refuses otherwise. Run RegistryFinalize. No destroyed
   object is used as a consequence (`UsesLiveObjects` holds): the job keeps its
   session alive.

## 5. Proofs

The theorems hold for all values of the constants that satisfy the assumptions
named in the modules, which TLC evaluates on every run: absent values are not
members, numbers are naturals, and what is said below of single modules. Every
safety property of the passing runs is proved. An invariant is seldom inductive as it stands; for each module the invariant that is, and why
it has to say more, is the following.

`DeviceJob_proofs` — any number of threads, handles, ids, programs and calls.

* `TypeCorrect`, `SerializedAlways`. The inductive invariant is
  `Inv == TypeOK /\ Serialized`. Types alone are not inductive: that a poll
  asks about an id, and that an answer is applied to the handle it was asked
  for, depend on who holds the mutex. `Serialized` says that a call in an
  exchange holds the mutex of its handle, so two threads are never in an exchange
  with one handle (lemma `Alone`), and that exchanges about a remote job start
  from a handle with an id, which nobody removes.
* `NoDuplicateSubmission`: `Spec => []SubmittedOnce`. `SubmittedOnce` alone does
  not follow from itself: one must know that a handle with a submission
  somewhere is marked. `OnceInv == Once /\ Remembered` adds that every
  submission in flight or accepted belongs to a handle that was attempted, a
  mark that nothing clears and that `Submit` asks for.

That the handles agree with the service, for the same instances.

* `ShownIsRun`, `NeverAhead`, `CacheIsOfThisJob`, `AnswersAreTruthful` and
  `TerminalStaysFinal` hold together or not at all, and follow from one invariant,
  `Agreement`: what every handle, remote job, request in flight, call, answer and
  result carries. Its heart is `Behind`: a status, wherever it is (in a handle, in
  an answer under way), is one that the remote job had once, and a polled one is
  no older than the handle's, because the mutex is held from the request on
  (`Serialized`). Programs agree because an attempted handle is frozen before its
  request leaves. The proof has one lemma per action and one step per kind of
  thing the action can disturb; the lemmas `Same...Agrees` carry what it leaves
  alone.
* `Implements`: `Spec => ImplementsContract`, the refinement of `JobContract`. The
  mapping shows the handle's status and programs and what the service ran for it
  (`View`, `Ran`). Each action maps to the step of the contract of the same
  purpose or to a stutter; that it does not map to something else is what
  `Agreement` and `SubmittedOnce` are needed for: the job that `Ran` chooses is the
  only one.

`JobConfig_proofs` — any sources, layouts, limit, shot values, options and foreign
jobs.

* `LimitHolds`, `NothingIsDropped`, `GrantedIsSent`, `RefusalsKeepAll` and
  `SubmissionsAreRetrieved` follow from `Consistent(job) /\ Submitted /\ Granted`. The limit
  alone is not inductive: that the shots which a job keeps are positive and within
  the limit for its programs depends on what executor sources left behind, and that
  options are the default ones if none was set on what each setter marks.
  `Submitted` says that what was sent is what the frozen job still shows, `Granted`
  that the request the client remembers is what an unsubmitted job holds (`Reflects`:
  its format, programs and time, and its shots and options if they were set) and
  afterwards what was sent. That a switch from executor to Sampler may not lose shots
  needs the conjunct of `Consistent` that no job of an executor has Sampler options set.
* `ForeignAssumption` says which payloads other programs may have submitted;
  `DeclareAssumption` and `NormalAssumption` that declaring gates and the JSON
  round trip are idempotent and keep layouts and shots (`Program.cpp` 115-151).

`Registry_proofs` — any number of threads, addresses and credentials.

* `LiveObjectsUsed`, `MutexIsHeldByInit`, `ConfigurationIsKept` and
  `AuthIsNeverReplaced` need each other. An `Auth` is not replaced because only
  `session_init` sets it, alone under the mutex; that holds because nobody frees and
  reallocates the session meanwhile; and that because the call keeps a reference.
  `Inv` adds to the properties: what a call refers to in each of its steps
  (`Shape`), that everything referred to exists and has the same `Auth` as its
  session (`Live`), and that a session under initialization stays as it was found
  (`Reserved`). Lemma `SettleLive` is shared ownership: what has lost its last
  owner is referred to by nothing that remains.

`Auth_proofs` — any number of threads, tokens and requests, any timeout, margins,
lifetimes, and widths of the types of times.

* `TypeCorrect`, `ExclusiveRefresh` from
  `Inv == TypeOK /\ LockedOnlyForRefresh /\ HoldsToken` (a request past
  `acquireToken` has a token that was granted). Types need two lemmas about time:
  a deadline (`DeadlineType`) and a parsed header (`RetryAfterType`) are naturals,
  because sums are taken only where they fit.
* `RefusedTokensAreDead`, in two parts: `OnlyRefusedTokensInvalid`, and
  `RepeatedWithAnotherToken` with `RefusedRejected` (the refused token is among the
  rejected ones, and none of these is acquired again).
* `RefreshesAreShared`, from `ExclusiveRefresh` and `RefreshedOnlyWhenNeeded`: the
  cached token can only get worse while a thread is at IAM, because that thread has
  the mutex.
* `RequestsBounded`, from `AttemptsBounded` and `DeadlineShared`. The first needs
  `SendsCounted`, which relates the number of sends to retries, repetition and
  position of a request.
* `NoTimeWrapsAround`: the deadline is what its caller allows, since the one sum
  that could exceed `MaxTime` is not taken then; a sleep lasts until the service
  wants the request again, since a delay that was cut to `MaxDelay` is beyond every
  deadline (`Timeout <= MaxDelay`) and so never slept.
* `TokensOutliveRequests`, assuming `MarginCovers` (the margin is no smaller than
  the request timeout): `NeverSendsExpired`. The strengthening `Outlives` says
  that the token of a request is good until the request's deadline.
  With a request timeout above the margin (configurable up to any value, with a
  margin of at most 60 s) the assumption does not hold and neither does the
  theorem: a repetition after a long backoff may carry an expired token, which
  the service then answers with 401.

`MockRuntime_proofs` — any threads, jobs, and bounds.

* `AnswersAlwaysAgree`, `NoJobIsLost` and `FallsBackAtTheEnd` from an invariant of
  nine parts. No answer is right by itself: a server handles one request at a time
  (`OneRequest`), so only the worker acts between two reads and before the answer
  leaves; the worker takes each job once (`Waiting`, `Working`), so futures never
  go back; and jobs are found because the lock makes one server (`Locked`,
  `OneService`, `Listed`). `Told` and `Requested` say what an answer, given or not
  yet given, says about a future from then on.

`Session_proofs`, metadata — documents of any length.

* `MetadataDescribe`: `ParseMetadata` refuses documents exactly if they contradict
  each other (`Sound`), and otherwise makes of each operation what configuration,
  readouts and entries say (`Describes`), less what does not work. `Parsed(i, p)`
  says what the parse has come to after `i` entries; it holds at the start
  (`StartParsed`) and one more entry preserves it (`StepParsed`), by the four cases
  of the code: the parse has failed before, the gate is unknown, the entry does not
  fit, the entry is merged. That the code accepts exactly the entries that fit
  (`AcceptedIsFitting`) takes all of `Parsed`, since it compares with the operation
  as earlier entries have left it.
* The induction itself is proved in `Sequences_proofs`, because the induction
  theorems of the library take an operator as their parameter: a set of numbers has
  a least one (`LeastNumber`, from the well-foundedness of `<`), hence a set that has
  0 and all successors of its members has all numbers (`SetInduction`). `FoldLeft` is
  the last of a sequence of parses (`ParseSteps`).

`Session_proofs`, sessions — any parameters a client may set, in any order, and any worlds.

* `StartsAsTold` (`FirstSourceWins`) from `Inv`: the configuration of a session that
  has not started is what its parameters say and nothing else (`Says`). A failed
  attempt that left something of what it had resolved would break it, and an
  environment value would win in the next attempt.
* `DiagnosticIsTrue` (`DiagnosticTells`): each call ends with an outcome of its own
  (`OwnFault`) or with the category of the reply it blames (`ReplyBlamed`); that
  absent properties are never blamed needs that no other outcome of that exchange is
  told as `NOT_FOUND` (`NotFoundIsStatus`).
* `ContradictionsAlwaysFail`, `OperationsAlwaysWork` and
  `CalibrationsAlwaysReported` from `SnapshotAlways` (a session has started if and
  only if what it was served last is usable, and its metadata are those parsed from
  it) and `MetadataDescribe`.
* The constants are assumed to be what they stand for: `ValuesAssumption` (a value a
  client sets is not the absent one), `KeysAssumption` (no key is one of the marks of
  an unreadable file), `NoneAssumption`, `DocumentsAssumption` (what the parser gets
  are `Documents`).

`Sampler_proofs` — any statements, files, contents and texts.

* `QpyTravelsAlways` (`QpyTravels`). Bytes and base64 digits are compared by their
  bits: what is regrouped has the bits it is made of (`Regrouped6`, `Regrouped8`), and
  numbers with the same bits are the same (`SameBits6`, `SameBits8`). Hence what is
  encoded is read again (`RoundTrip`), and what is read is the encoding of what it is
  read as (`Canonical`); the latter needs that bits behind the last byte are refused.
  `QpyInv` says which of the two the handle has. `QpyAssumption` says that contents
  are bytes, at most 255 of them since the model of zlib counts them with one number
  (a bound of the abstraction, not of the code), and that texts are characters of
  base64.
* `RegistersAreAsDeclared` (`RegistersAsDeclared`), for OpenQASM programs of any length.
  `outputRegisters` never sees statements, only tokens, so the argument goes from one
  to the other. (1) A scan is a sequence of rounds (`ScanIsIterate`), and each kind of
  statement in `StatementsAssumption` (an expression, an opened or closed scope, an
  inclusion, a declaration, a gate) is passed by some rounds of its own, which change
  the depth and the registers by what the statement means, or ends in a refusal if it
  may not stand there (`StatementScanned`; one lemma for each kind, such as
  `ExpressionsPassed`, where casts are the hard part, and `SkipsGate`). (2) `Fine(s, n)`
  says that the first `n` statements are admitted. By induction over the statements the
  scan arrives behind the `n`-th with depth and registers of the first `n` if they are
  `Fine`, and has refused if not (`ReadOn`, `ReadAll`); the tokens of a program are those
  of its statements one behind the other (`TokensLaidout`). (3) Hence `ReadsDocumented`:
  the programs that are accepted are exactly the `Documented` ones. (4) What
  `declareNativeGates` sends is a program again: its declarations are statements
  (`DefinitionIs`), they go behind the head (`InsertsBehindHead`), and one more
  definition there changes neither depth nor registers (`FineBehind`, `SentIs`). For QPY
  files `QpyMeaning` shows that the counting of `qpyRegisters` accepts exactly the
  partitions. The inductive invariant `RegistersInv` adds what the payload is to the
  property, which says nothing about it and would not survive `Retrieve` otherwise.
* `NativeGatesAreDeclared` (`NativeGatesDeclared`) from `RegistersInv`, and from what is
  called and defined: a token is the name of a gate that a statement calls or defines
  exactly if it is inside that statement and not at its end (`CallsIs`, `DefinesIs`,
  `NotLast`). So `Missing` supplies what no statement defines (`NeededIs`), once
  (`SuppliedOnce`); and what was sent lacks nothing, since a supplied definition counts
  as a statement that defines, and a call in its body is of no native gate
  (`SentComplete`).
* `ResultsAreAsMeasured` (`ResultsAsMeasured`). `ResultsInv` says where the results come
  from: the answer is `Answers` of a measurement, or malformed. The digits of a number
  have its bits, whether or not zeros are in front (`NumberRead`); the registers one
  behind the other, backwards, are the shot backwards (`FlattenBackwards`, `ShotRead`);
  the counts of a histogram add up to the shots (`CountsAdd`); each malformed answer
  fails one of the conditions of `decodeResults` (`MalformedRefused`). All of it for the
  layout of the program, which `RegistersInv` says the handle has.
* `Sequences_proofs` has what the library lacks for it: a sum over a set of indices
  does not depend on the order they are taken in (`SumAdd`), `FlattenSeq` puts
  sequences in their places (`FlattenIs`), and a sequence is one of others joined, or a
  part, if it is so element by element (`FlattenJoin`, `PartSame`).
* Assumptions. `StatementsAssumption` says that the statements of clients mean what they
  say: each has the tokens of one of the kinds above and the meaning OpenQASM gives to
  them, `supported` only if the documentation admits it. It says nothing about the order
  they come in, nor that the program is valid. Without it nothing relates the text to
  what was meant. Its part `Names` knows calls and definitions of gates by the tokens
  around the name, which is exact but for subroutines named like a native gate
  (section 7). `ProgramAssumption` separates comments, words and punctuation
  (the token classes of `tokenize` and `name`) and says that numerals are numbers;
  `FilesAssumption` says that indices of QPY files are integers and that no register is
  named by the mark for absent values.

What the proofs changed in the models. `CalibrationsReported` was false where two
qubits are measured together: it expected the readout of the first for the pair,
while the code, rightly, has readouts of single qubits only. The instance had no such
backend; it has one now (`Joint`). The answers of `MockRuntime` and the diagnostics of
`Session` were given by CASE expressions whose arms overlapped and TLC took the first;
their arms exclude each other now.

In `Sampler` a malformed answer marked what was measured as absent, and the property
compared a tuple of shots with that mark; such an answer has no shots now. `Tokenize` and
`Classical` select by `FlattenSeq`, whose elements have places, instead of `SelectSeq`,
whose recursion no prover here can unfold. What the statements of clients are, which
only the instance for TLC said before, is an assumption of `Sampler` that TLC evaluates.

Only model-checked: liveness under fairness, which is out of the prover's reach, that is
`CallsReturn` of `DeviceJob`, `RequestsReturn` of `Auth`, and `EverythingEnds` of
`MockRuntime` (its requests and simulations end).

## 6. Plan

Done: job handles, their configuration, the registry, authenticated requests with
the widths of their times, sessions with their parameters, metadata, queries and
diagnostics, programs with their registers, encodings and results, and the
offline service; proofs of all their safety properties.

What is left would widen the models rather than the proofs: the conversions of
durations and errors in `parseMetadata`, the buffers of the property queries, and which
QDMI code the refusal of a program has (section 7). For liveness, a proof needs a prover
with ENABLED.

## 7. Not modelled

* Wording: error messages, JSON layout, HTTP headers, versions. Which QDMI code the
  refusal of a program has.
* How characters make tokens. A consequence of scanning tokens is visible here and
  not modelled as a property: a subroutine `def rzz(...)` counts as a call of the
  gate, so an unneeded declaration may be added; the documentation does not promise
  anything for such programs.
* Numbers of the metadata: the conversion of durations to picoseconds and of errors
  to fidelities, T1 and T2 of sites, the number of parameters of operations.
* Buffers and size queries of the property functions, and properties that are
  constants or copies of a name.
* Trailing slashes of the base URL; what libcurl makes of a URL; CA bundles,
  connection pools, redirects.
* A 404 of IAM while it refreshes a token in the middle of `session_init`, which the
  code takes for missing properties; `Session` treats an exchange as one reply.
* The rounding of `Auth`'s remaining time up to whole milliseconds (`Auth.cpp` 184),
  and the time that passes between reading the clock for the check of a delay and
  reading it again for the sleep (280, 283), which `Auth` takes as one reading: the
  deadline `Auth` keeps is that of the code up to one millisecond and the time
  between these two lines.
* The contents of QPY files behind their registers, zlib, and executor payloads
  beyond their shots and options.
* Several threads in `Session`, `Sampler` and `JobConfig`: the mutexes that exclude
  each other's interference are in `Registry` and `DeviceJob`.
* The Python integrations, which adapt other frameworks to the device interface
  and keep no shared state; build files and packaging.
* Memory allocation failures. An entry point that throws `bad_alloc` is not
  distinguished from one that fails otherwise.
