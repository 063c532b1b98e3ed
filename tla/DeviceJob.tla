------------------------------ MODULE DeviceJob ------------------------------
(***************************************************************************)
(* Device jobs (src/Job.cpp, and the job entry points of src/Device.cpp)   *)
(* used by several client threads against the IBM runtime service.         *)
(*                                                                         *)
(* Every entry point takes the timed mutex of its job handle and keeps it  *)
(* across the HTTP exchanges it makes.  A call is therefore a few steps:   *)
(* it waits for the mutex ("lock"), is inside one exchange ("submit",      *)
(* "cancel", "poll", "fetch", "retrieve"), sleeps between two polls of     *)
(* job_wait ("sleep"), or has returned ("idle").  The client side of an    *)
(* exchange is one step that sends and one that applies the answer; in     *)
(* between the service acts on the request, the answer is lost, or the     *)
(* transport gives up and leaves the request in flight.                    *)
(*                                                                         *)
(* The retries of a GET and the acquisition of the bearer token            *)
(* (src/Auth.cpp) are inside one exchange: only the last answer counts,    *)
(* and a failure before anything was sent is a lost request.               *)
(***************************************************************************)
EXTENDS Naturals, FiniteSets

CONSTANTS
    Threads,     \* the client's threads
    Handles,     \* the job handles a client may hold
    Ids,         \* identifiers the service may give to jobs
    Programs,    \* program lists, with their options, a job may be given
    NoThread, NoHandle, NoId, NoProgram,   \* absence of each
    MaxCalls     \* bound: calls the threads make together

ASSUME ConstantsAssumption ==
    /\ NoThread \notin Threads
    /\ NoHandle \notin Handles
    /\ NoId \notin Ids
    /\ NoProgram \notin Programs
    /\ MaxCalls \in Nat

VARIABLES
    registered,  \* handles published to the client
    job,         \* job[h]: the fields of the ibm::Job behind h
    mutex,       \* mutex[h]: the thread that holds the mutex of h
    call,        \* call[t]: the entry point t is in, and its last result
    expired,     \* expired[t]: the deadline of t's job_wait has passed
    left,        \* calls the threads may still make
    reply,       \* reply[t]: the answer on its way to t
    submits,     \* submissions in flight
    cancels,     \* cancellations in flight
    remote       \* remote[i]: the service's job i

vars == <<registered, job, mutex, call, expired, left,
          reply, submits, cancels, remote>>
client == <<registered, job, mutex, call, expired, left>>
service == <<submits, cancels, remote>>

-----------------------------------------------------------------------------
(* Job state *)

Terminal == {"DONE", "CANCELED", "FAILED"}
Active == {"SUBMITTED", "QUEUED", "RUNNING"}
Statuses == {"CREATED"} \cup Active \cup Terminal

FreshJob == [status |-> "CREATED", attempted |-> FALSE, id |-> NoId,
             programs |-> NoProgram, cached |-> NoProgram]

\* Fault: a submission that left no id may be repeated after new programs.
MutConfigurable(j) == j.status = "CREATED" \/ j.id = NoId
Configurable(j) == ~j.attempted /\ j.status = "CREATED"

Submittable(j) == Configurable(j) /\ j.programs # NoProgram

\* Fault: any handle with an id polls, terminal or not.
MutNeedsPoll(j) == j.id # NoId
\* The condition under which check() polls the service.
NeedsPoll(j) == j.id # NoId /\ j.status \notin Terminal

\* Fault: an unknown state falls through.
MutRecognized(s) == TRUE
\* parseJobStatus throws on a state it does not know.
Recognized(s) == s \in Statuses

-----------------------------------------------------------------------------
(* Calls *)

Waits == {"wait", "timedWait"}      \* job_wait without and with a timeout
Polling == Waits \cup {"check", "results"}
HandleOps == Polling \cup {"configure", "submit", "cancel"}
Ops == HandleOps \cup {"retrieve"}

Exchanges == {"submit", "cancel", "poll", "fetch", "retrieve"}
Steps == {"idle", "lock", "sleep"} \cup Exchanges
Results == {"none", "OK", "BADSTATE", "INVALIDARGUMENT", "OUTOFRANGE",
            "TIMEOUT", "ERROR"} \cup Statuses

\* Fault: CREATED is waited for, 409 counts as canceled, a canceled job has results.
MutVerdict(o, j) ==
    CASE o = "check"   -> j.status
      [] o \in Waits   -> IF j.status \in Terminal THEN "OK" ELSE "again"
      [] o = "cancel"  -> "OK"
      [] o = "results" -> IF j.status \in {"CREATED", "FAILED"} THEN "BADSTATE"
                          ELSE IF j.cached = NoProgram THEN "fetch" ELSE "OK"

(***************************************************************************)
(* What operation o answers once check() has left the job as j: its        *)
(* result, or "again" (job_wait keeps waiting), or "fetch" (the results    *)
(* must still be read).                                                    *)
(***************************************************************************)
Verdict(o, j) ==
    CASE o = "check"   -> j.status
      [] o \in Waits   -> IF j.status = "CREATED" THEN "BADSTATE"
                          ELSE IF j.status \in Terminal THEN "OK" ELSE "again"
      [] o = "cancel"  -> IF j.status = "DONE" THEN "INVALIDARGUMENT"
                          ELSE IF j.status = "CANCELED" THEN "OK"
                          ELSE "BADSTATE"
      [] o = "results" -> IF j.status # "DONE" THEN "BADSTATE"
                          ELSE IF j.cached = NoProgram THEN "fetch" ELSE "OK"

\* r is what operation o answers on j without any exchange.
LocalAnswer(o, j, r) ==
    \/ o = "configure" /\ ~Configurable(j) /\ r = "BADSTATE"
    \/ o = "submit" /\ ~Submittable(j) /\ r = "BADSTATE"
    \/ o = "cancel" /\ j.id = NoId /\ r = "BADSTATE"
    \/ o = "results" /\ j.programs = NoProgram /\ r = "OUTOFRANGE"
    \/ /\ o \in Polling \cup {"cancel"}
       /\ ~NeedsPoll(j)
       /\ o = "cancel" => j.id # NoId
       /\ o = "results" => j.programs # NoProgram
       /\ r = Verdict(o, j)
       /\ r # "fetch"

\* Fault: the entry point does not lock.
MutAtLock(t, h) == call[t].pc = "lock" /\ call[t].on = h
\* t waits for the mutex of h, which is free.
AtLock(t, h) ==
    /\ call[t].pc = "lock"
    /\ call[t].on = h
    /\ mutex[h] = NoThread

Enter(t, h, exchange) ==
    /\ call' = [call EXCEPT ![t].pc = exchange]
    /\ mutex' = [mutex EXCEPT ![h] = t]

Return(t, r) == call' = [call EXCEPT ![t].pc = "idle", ![t].result = r]
\* Fault: the mutex is not released on return.
MutRelease(h) == UNCHANGED mutex
Release(h) == mutex' = [mutex EXCEPT ![h] = NoThread]

Silence == [code |-> "none", id |-> NoId, status |-> "CREATED",
            programs |-> NoProgram]
Answered(t, code) == reply[t].code = code
Consume(t) == reply' = [reply EXCEPT ![t] = Silence]

-----------------------------------------------------------------------------
Init ==
    /\ registered = {}
    /\ job = [h \in Handles |-> FreshJob]
    /\ mutex = [h \in Handles |-> NoThread]
    /\ call = [t \in Threads |-> [op |-> "check", on |-> NoHandle,
                                  pc |-> "idle", result |-> "none"]]
    /\ expired = [t \in Threads |-> FALSE]
    /\ left = MaxCalls
    /\ reply = [t \in Threads |-> Silence]
    /\ submits = {}
    /\ cancels = {}
    /\ remote = [i \in Ids |-> [status |-> "ABSENT", programs |-> NoProgram,
                                source |-> NoHandle]]

-----------------------------------------------------------------------------
(* Client threads: starting a call *)

\* IBM_QDMI_device_session_create_device_job publishes a fresh job.
Create(h) ==
    /\ h \notin registered
    /\ mutex[h] = NoThread
    /\ registered' = registered \cup {h}
    /\ UNCHANGED <<job, mutex, call, expired, left, reply, service>>

StartCall(t, o, h, pc) ==
    /\ call[t].pc = "idle"
    /\ left > 0
    /\ call' = [call EXCEPT ![t] = [op |-> o, on |-> h, pc |-> pc,
                                    result |-> "none"]]
    /\ left' = left - 1
    /\ expired' = [expired EXCEPT ![t] = FALSE]

\* An entry point finds its handle (jobFor) and goes for the mutex.
Begin(t) == \E o \in HandleOps, h \in registered :
    /\ StartCall(t, o, h, "lock")
    /\ UNCHANGED <<registered, job, mutex, reply, service>>

(***************************************************************************)
(* retrieve_device_job_by_id works on an object nobody else has a handle   *)
(* to.  Holding its mutex stands for that privacy: the code takes no lock. *)
(***************************************************************************)
BeginRetrieve(t) == \E h \in Handles \ registered :
    /\ mutex[h] = NoThread
    /\ StartCall(t, "retrieve", h, "retrieve")
    /\ mutex' = [mutex EXCEPT ![h] = t]
    /\ UNCHANGED <<registered, job, reply, service>>

-----------------------------------------------------------------------------
(* Client threads: steps under the mutex *)

\* setPrograms commits the list and drops the cached results.
Configure(t) == \E h \in Handles, p \in Programs :
    /\ AtLock(t, h)
    /\ call[t].op = "configure"
    /\ Configurable(job[h])
    /\ job' = [job EXCEPT ![h].programs = p, ![h].cached = NoProgram]
    /\ Return(t, "OK")
    /\ UNCHANGED <<registered, mutex, expired, left, reply, service>>

\* Faults: the attempt is recorded only with the answer; or success is assumed.
MutAttempt(j) == j
MutAttemptEarly(j) == [j EXCEPT !.attempted = TRUE, !.status = "SUBMITTED"]
\* The handle is frozen before the POST leaves: attempted, and FAILED.
Attempt(j) == [j EXCEPT !.attempted = TRUE, !.status = "FAILED"]
Submit(t) == \E h \in Handles :
    /\ AtLock(t, h)
    /\ call[t].op = "submit"
    /\ Submittable(job[h])
    /\ job' = [job EXCEPT ![h] = Attempt(@)]
    /\ submits' = submits \cup {[from |-> t, on |-> h,
                                 programs |-> job[h].programs]}
    /\ Enter(t, h, "submit")
    /\ UNCHANGED <<registered, expired, left, reply, cancels, remote>>

StartCancel(t) == \E h \in Handles :
    /\ AtLock(t, h)
    /\ call[t].op = "cancel"
    /\ NeedsPoll(job[h])
    /\ cancels' = cancels \cup {[from |-> t, id |-> job[h].id]}
    /\ Enter(t, h, "cancel")
    /\ UNCHANGED <<registered, job, expired, left, reply, submits, remote>>

StartPoll(t) == \E h \in Handles :
    /\ AtLock(t, h)
    /\ call[t].op \in Polling
    /\ call[t].op = "results" => job[h].programs # NoProgram
    /\ NeedsPoll(job[h])
    /\ ~expired[t]
    /\ Enter(t, h, "poll")
    /\ UNCHANGED <<registered, job, expired, left, reply, service>>

StartFetch(t) == \E h \in Handles :
    /\ AtLock(t, h)
    /\ call[t].op = "results"
    /\ job[h].programs # NoProgram
    /\ ~NeedsPoll(job[h])
    /\ Verdict("results", job[h]) = "fetch"
    /\ Enter(t, h, "fetch")
    /\ UNCHANGED <<registered, job, expired, left, reply, service>>

\* The call is answered from the handle alone.
AnswerLocally(t) == \E h \in Handles, r \in Results :
    /\ AtLock(t, h)
    /\ LocalAnswer(call[t].op, job[h], r)
    /\ Return(t, r)
    /\ UNCHANGED <<registered, job, mutex, expired, left, reply, service>>

-----------------------------------------------------------------------------
(* Client threads: the end of an exchange *)

\* Only a response that names this backend makes the handle usable.
ReceiveSubmitted(t) == LET h == call[t].on IN
    /\ call[t].pc = "submit"
    /\ \/ /\ Answered(t, "created")
          /\ job' = [job EXCEPT ![h].id = reply[t].id,
                                ![h].status = "SUBMITTED"]
          /\ Return(t, "OK")
       \/ /\ Answered(t, "foreign")
          /\ job' = [job EXCEPT ![h].id = reply[t].id]
          /\ Return(t, "ERROR")
    /\ Release(h)
    /\ Consume(t)
    /\ UNCHANGED <<registered, expired, left, service>>

\* 204: canceled.  409: look at the job before answering, mutex still held.
ReceiveCancel(t) == LET h == call[t].on IN
    /\ call[t].pc = "cancel"
    /\ \/ /\ Answered(t, "canceled")
          /\ job' = [job EXCEPT ![h].status = "CANCELED"]
          /\ Return(t, "OK")
          /\ Release(h)
       \/ /\ Answered(t, "conflict")
          /\ call' = [call EXCEPT ![t].pc = "poll"]
          /\ UNCHANGED <<job, mutex>>
    /\ Consume(t)
    /\ UNCHANGED <<registered, expired, left, service>>

\* The polled status is stored, whatever the operation then answers.
ReceivePoll(t) ==
    LET h == call[t].on
        j == [job[h] EXCEPT !.status = reply[t].status]
        v == Verdict(call[t].op, j)
    IN  /\ call[t].pc = "poll"
        /\ Answered(t, "snapshot")
        /\ Recognized(reply[t].status)
        /\ job' = [job EXCEPT ![h] = j]
        /\ \/ /\ v = "fetch"
              /\ call' = [call EXCEPT ![t].pc = "fetch"]
              /\ UNCHANGED mutex
           \/ /\ v = "again"
              /\ call' = [call EXCEPT ![t].pc = "sleep"]
              /\ Release(h)
           \/ /\ v \notin {"again", "fetch"}
              /\ Return(t, v)
              /\ Release(h)
        /\ Consume(t)
        /\ UNCHANGED <<registered, expired, left, service>>

ReceiveResults(t) == LET h == call[t].on IN
    /\ call[t].pc = "fetch"
    /\ \/ /\ Answered(t, "results")
          /\ job' = [job EXCEPT ![h].cached = reply[t].programs]
          /\ Return(t, "OK")
       \/ /\ Answered(t, "notReady")
          /\ Return(t, "BADSTATE")
          /\ UNCHANGED job
    /\ Release(h)
    /\ Consume(t)
    /\ UNCHANGED <<registered, expired, left, service>>

\* Fault: a retrieved handle stays configurable.
MutAdopt(r) == [FreshJob EXCEPT !.id = r.id, !.programs = r.programs]
\* The handle is complete before it is published.
Adopt(r) == [FreshJob EXCEPT !.id = r.id, !.attempted = TRUE,
                             !.status = r.status, !.programs = r.programs]
ReceiveRetrieved(t) == LET h == call[t].on IN
    /\ call[t].pc = "retrieve"
    /\ Answered(t, "snapshot")
    /\ Recognized(reply[t].status)
    /\ job' = [job EXCEPT ![h] = Adopt(reply[t])]
    /\ registered' = registered \cup {h}
    /\ Return(t, "OK")
    /\ Release(h)
    /\ Consume(t)
    /\ UNCHANGED <<expired, left, service>>

(***************************************************************************)
(* No usable answer: transport failure, error status, malformed body, no   *)
(* token, or the deadline.  A request still in flight stays there without  *)
(* anybody waiting for it.                                                 *)
(***************************************************************************)
Abandon(requests, t) ==
    {IF m.from = t THEN [m EXCEPT !.from = NoThread] ELSE m : m \in requests}
Fail(t) == \E r \in {"TIMEOUT", "ERROR"} :
    /\ call[t].pc \in Exchanges
    /\ Return(t, r)
    /\ Release(call[t].on)
    /\ Consume(t)
    /\ submits' = Abandon(submits, t)
    /\ cancels' = Abandon(cancels, t)
    /\ UNCHANGED <<registered, job, expired, left, remote>>

-----------------------------------------------------------------------------
(* job_wait between two polls *)

Wake(t) ==
    /\ call[t].pc = "sleep"
    /\ ~expired[t]
    /\ call' = [call EXCEPT ![t].pc = "lock"]
    /\ UNCHANGED <<registered, job, mutex, expired, left, reply, service>>

\* The deadline counts while asleep, while queued for the mutex and, once
\* the mutex is free, as long as the service would still have to be asked.
TimeOut(t) ==
    /\ expired[t]
    /\ \/ call[t].pc = "sleep"
       \/ /\ call[t].pc = "lock"
          /\ \/ mutex[call[t].on] # NoThread
             \/ NeedsPoll(job[call[t].on])
    /\ Return(t, "TIMEOUT")
    /\ UNCHANGED <<registered, job, mutex, expired, left, reply, service>>

Expire(t) ==
    /\ call[t].op = "timedWait"
    /\ call[t].pc # "idle"
    /\ ~expired[t]
    /\ expired' = [expired EXCEPT ![t] = TRUE]
    /\ UNCHANGED <<registered, job, mutex, call, left, reply, service>>

-----------------------------------------------------------------------------
(* The service (external: modelled from how src/Job.cpp talks to it) *)

Answer(t, r) == reply' = IF t \in Threads THEN [reply EXCEPT ![t] = r]
                                          ELSE reply

Accept == \E m \in submits, i \in Ids, code \in {"created", "foreign"} :
    /\ remote[i].status = "ABSENT"
    /\ remote' = [remote EXCEPT ![i] = [status |-> "SUBMITTED",
                                        programs |-> m.programs,
                                        source |-> m.on]]
    /\ submits' = submits \ {m}
    /\ Answer(m.from, [Silence EXCEPT !.code = code, !.id = i])
    /\ UNCHANGED <<client, cancels>>

\* A cancellation may be refused of an active job, too (mock.py:248-249).
DecideCancel == \E m \in cancels :
    /\ \/ /\ remote[m.id].status \in Active
          /\ remote' = [remote EXCEPT ![m.id].status = "CANCELED"]
          /\ Answer(m.from, [Silence EXCEPT !.code = "canceled"])
       \/ /\ Answer(m.from, [Silence EXCEPT !.code = "conflict"])
          /\ UNCHANGED remote
    /\ cancels' = cancels \ {m}
    /\ UNCHANGED <<client, submits>>

Lose ==
    /\ \/ /\ \E m \in submits : submits' = submits \ {m}
          /\ UNCHANGED cancels
       \/ /\ \E m \in cancels : cancels' = cancels \ {m}
          /\ UNCHANGED submits
    /\ UNCHANGED <<client, reply, remote>>

\* A GET of job i, which may name a state the client does not know.
Snapshot(i) == {[code |-> "snapshot", id |-> i, status |-> s,
                 programs |-> remote[i].programs] :
                    s \in {remote[i].status, "UNKNOWN"}}

AnswerGet(t) ==
    /\ Answered(t, "none")
    /\ \/ /\ call[t].pc = "poll"
          /\ \E r \in Snapshot(job[call[t].on].id) : Answer(t, r)
       \/ /\ call[t].pc = "retrieve"
          /\ \E i \in {k \in Ids : remote[k].status # "ABSENT"} :
                \E r \in Snapshot(i) : Answer(t, r)
       \/ /\ call[t].pc = "fetch"
          /\ \E code \in {"results", "notReady"} :
                Answer(t, [Silence EXCEPT !.code = code,
                           !.programs = remote[job[call[t].on].id].programs])
    /\ UNCHANGED <<client, service>>

Advance(i) ==
    /\ \E s \in Statuses :
          /\ <<remote[i].status, s>> \in
                {<<"SUBMITTED", "QUEUED">>, <<"QUEUED", "RUNNING">>,
                 <<"RUNNING", "DONE">>, <<"RUNNING", "FAILED">>}
          /\ remote' = [remote EXCEPT ![i].status = s]
    /\ UNCHANGED <<client, reply, submits, cancels>>

-----------------------------------------------------------------------------
ThreadStep(t) ==
    \/ Configure(t) \/ Submit(t) \/ StartCancel(t) \/ StartPoll(t)
    \/ StartFetch(t) \/ AnswerLocally(t) \/ ReceiveSubmitted(t)
    \/ ReceiveCancel(t) \/ ReceivePoll(t) \/ ReceiveResults(t)
    \/ ReceiveRetrieved(t) \/ Fail(t) \/ Wake(t) \/ TimeOut(t)

ServiceStep ==
    \/ Accept \/ DecideCancel \/ Lose
    \/ \E t \in Threads : AnswerGet(t)
    \/ \E i \in Ids : Advance(i)

\* The clients have made all their calls.
Finished ==
    /\ \A t \in Threads : call[t].pc = "idle"
    /\ left = 0
    /\ UNCHANGED vars

Next ==
    \/ \E h \in Handles : Create(h)
    \/ \E t \in Threads : \/ Begin(t) \/ BeginRetrieve(t)
                          \/ ThreadStep(t) \/ Expire(t)
    \/ ServiceStep
    \/ Finished

Spec == Init /\ [][Next]_vars

(***************************************************************************)
(* Fairness.  A thread whose next step stays possible takes it (scheduling *)
(* of runnable threads; an exchange ends by the transport's timeout), and  *)
(* a deadline passes.  Nothing is assumed of answers, nor of the mutex     *)
(* beyond weak fairness: std::timed_mutex promises no order.               *)
(***************************************************************************)
ThreadFairness == \A t \in Threads : WF_vars(ThreadStep(t)) /\ WF_vars(Expire(t))

\* The service does not leave a job unfinished for ever.
ServiceFairness == \A i \in Ids : WF_vars(Advance(i))

ThreadFairSpec == Spec /\ ThreadFairness

-----------------------------------------------------------------------------
(* Properties *)

Job == [status : Statuses, attempted : BOOLEAN, id : Ids \cup {NoId},
        programs : Programs \cup {NoProgram},
        cached : Programs \cup {NoProgram}]
Call == [op : Ops, on : Handles \cup {NoHandle}, pc : Steps, result : Results]
Reply == [code : {"none", "created", "foreign", "canceled", "conflict",
                  "snapshot", "results", "notReady"},
          id : Ids \cup {NoId},
          status : {"ABSENT", "UNKNOWN"} \cup Statuses,
          programs : Programs \cup {NoProgram}]
Submission == [from : Threads \cup {NoThread}, on : Handles, programs : Programs]
Cancellation == [from : Threads \cup {NoThread}, id : Ids]
RemoteJob == [status : {"ABSENT"} \cup Statuses,
              programs : Programs \cup {NoProgram},
              source : Handles \cup {NoHandle}]

(***************************************************************************)
(* Types of all variables.  The part that could fail is job[h].status:     *)
(* parseJobStatus must refuse states the enumeration does not have.        *)
(***************************************************************************)
TypeOK ==
    /\ registered \in SUBSET Handles
    /\ job \in [Handles -> Job]
    /\ mutex \in [Handles -> Threads \cup {NoThread}]
    /\ call \in [Threads -> Call]
    /\ expired \in [Threads -> BOOLEAN]
    /\ left \in Nat
    /\ reply \in [Threads -> Reply]
    /\ submits \in SUBSET Submission
    /\ cancels \in SUBSET Cancellation
    /\ remote \in [Ids -> RemoteJob]

(***************************************************************************)
(* Job::submit, "even a lost response must never permit a duplicate":      *)
(* whatever answers are lost or late and however many threads submit, a    *)
(* handle has at most one submission, in flight or accepted.               *)
(***************************************************************************)
SubmittedOnce == \A h \in Handles :
    LET accepted == {i \in Ids : remote[i].source = h}
        inFlight == {m \in submits : m.on = h}
    IN  /\ \A i, k \in accepted : i = k
        /\ \A m, n \in inFlight : m = n
        /\ accepted = {} \/ inFlight = {}

(***************************************************************************)
(* What get_program and the property queries report is what the service    *)
(* runs, for submitted and for retrieved handles: no set_programs slips in *)
(* between the request and its answer.                                     *)
(***************************************************************************)
ShowsWhatRuns == \A h \in Handles :
    LET j == job[h]
    IN  /\ j.id # NoId => remote[j.id].programs = j.programs
        /\ \A i \in Ids : remote[i].source = h => remote[i].programs = j.programs

Rank(s) == CASE s = "ABSENT" -> 0 [] s = "SUBMITTED" -> 1 [] s = "QUEUED" -> 2
             [] s = "RUNNING" -> 3 [] OTHER -> 4

(***************************************************************************)
(* A handle never claims more than the service: its status is no further   *)
(* than the remote one, and DONE and CANCELED are reported only of jobs    *)
(* that are.  Cancellations that were given up and succeed later, and      *)
(* other handles of the same job, included.                                *)
(***************************************************************************)
NeverAheadOfService == \A h \in Handles :
    LET j == job[h]
    IN  /\ j.status \in Active \cup {"DONE", "CANCELED"} =>
              /\ j.id # NoId
              /\ Rank(j.status) <= Rank(remote[j.id].status)
        /\ j.status \in {"DONE", "CANCELED"} => remote[j.id].status = j.status

(***************************************************************************)
(* job_get_results answers only for completed jobs, from the results of    *)
(* this job: nothing is cached for another program list or another status. *)
(***************************************************************************)
CachedResultsAreOfThisJob == \A h \in Handles :
    LET j == job[h]
    IN  j.cached # NoProgram =>
          /\ j.status = "DONE"
          /\ j.cached = j.programs
          /\ remote[j.id].status = "DONE"

(***************************************************************************)
(* The answers clients act on.  job_cancel reports success only of a       *)
(* canceled job and INVALIDARGUMENT only of a completed one (cancellation  *)
(* racing with completion), job_wait returns success only of a terminal    *)
(* handle, job_get_results only of a completed one.                        *)
(***************************************************************************)
TruthfulAnswers == \A t \in Threads :
    LET c == call[t]
        j == job[c.on]
    IN  c.pc = "idle" /\ c.on # NoHandle =>
          /\ c.op = "cancel" /\ c.result = "OK" =>
                remote[j.id].status = "CANCELED"
          /\ c.op = "cancel" /\ c.result = "INVALIDARGUMENT" =>
                remote[j.id].status = "DONE"
          /\ c.op \in Waits /\ c.result = "OK" => j.status \in Terminal
          /\ c.op = "results" /\ c.result = "OK" => j.status = "DONE"

(***************************************************************************)
(* A terminal status is final, except for the provisional FAILED of a      *)
(* submission under way.  In particular a frozen handle (submission not    *)
(* confirmed) never comes back to life, not even when the service did      *)
(* accept the job and its id is known.                                     *)
(***************************************************************************)
Submitting(h) == \E t \in Threads : call[t].pc = "submit" /\ call[t].on = h
TerminalIsFinal == [][ \A h \in Handles :
    job[h].status \in Terminal /\ ~Submitting(h)
        => job'[h].status = job[h].status ]_vars

(***************************************************************************)
(* The calls of one handle are serialized: an exchange is made by the      *)
(* thread that holds the mutex (std::scoped_lock across the HTTP request), *)
(* so what was checked before a request still holds of its answer: the     *)
(* service is only ever asked about jobs it has named, and a status beyond *)
(* FAILED is only stored in a handle that has an id.                       *)
(***************************************************************************)
OnHandle == \A t \in Threads : call[t].pc # "idle" => call[t].on \in Handles
HolderIsInExchange == \A t \in Threads :
    call[t].pc \in Exchanges => mutex[call[t].on] = t
AsksAboutNamedJobs == \A t \in Threads :
    call[t].pc \in {"cancel", "poll", "fetch"} =>
        /\ job[call[t].on].id \in Ids
        /\ call[t].op \in Polling \cup {"cancel"}
AnswersNameJobs == \A t \in Threads :
    reply[t].code \in {"created", "foreign", "snapshot"} => reply[t].id \in Ids
StatusNeedsId == \A h \in Handles :
    job[h].status \notin {"CREATED", "FAILED"} => job[h].id \in Ids
Serialized ==
    /\ OnHandle
    /\ HolderIsInExchange
    /\ AsksAboutNamedJobs
    /\ AnswersNameJobs
    /\ StatusNeedsId

(***************************************************************************)
(* "Job-wait deadlines include lock and authentication waits" (docs/       *)
(* api.md): a job_wait with a timeout returns even when the job never ends *)
(* and another thread waits for it without a deadline on the same handle.  *)
(* When the service finishes its jobs every call returns, job_wait without *)
(* a deadline included: no lost answer, given-up request or other waiter   *)
(* on the same handle leaves a thread behind.                              *)
(***************************************************************************)
TimedWaitReturns == \A t \in Threads :
    call[t].pc # "idle" /\ call[t].op = "timedWait" ~> call[t].pc = "idle"
CallsReturn ==
    /\ TimedWaitReturns
    /\ ServiceFairness => \A t \in Threads : call[t].pc # "idle" ~> call[t].pc = "idle"

(***************************************************************************)
(* Refinement of the contract.  The provisional FAILED of a submission     *)
(* under way is the contract's SUBMITTING.                                 *)
(***************************************************************************)
RanBy(h) == {i \in Ids : remote[i].source = h}
Contract == INSTANCE JobContract WITH
    config <- [h \in Handles |-> job[h].programs],
    view <- [h \in Handles |->
                IF Submitting(h) THEN "SUBMITTING" ELSE job[h].status],
    ran <- [h \in Handles |->
                IF RanBy(h) = {} THEN NoProgram
                ELSE remote[CHOOSE i \in RanBy(h) : TRUE].programs]

(***************************************************************************)
(* The handles keep the contract of JobContract: configuration frozen by   *)
(* submission, one run with the configuration shown, status forward only.  *)
(***************************************************************************)
ImplementsContract == Contract!Spec
=============================================================================
