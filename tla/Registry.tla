------------------------------- MODULE Registry -------------------------------
(***************************************************************************)
(* Lifecycle of the device, its sessions and its job handles               *)
(* (src/Device.cpp).                                                       *)
(*                                                                         *)
(* A handle is the address of an object owned by shared_ptrs: one in the   *)
(* registry while the handle is valid, one in each call that has looked    *)
(* the handle up, and, for a session, one in each of its jobs.  The object *)
(* is destroyed with the last of them, and its address may then be used    *)
(* again.  Jobs and status queries besides keep a raw pointer to the       *)
(* session's Auth.                                                         *)
(*                                                                         *)
(* The registry mutex is taken last and never across an exchange, so the   *)
(* sections it guards are single steps.  The mutex of a session is held by *)
(* session_init across two HTTP exchanges.  Calls that are refused change  *)
(* nothing and are left out, unless they hold a reference meanwhile.  So   *)
(* do the queries of metadata, which only read under the session's mutex.  *)
(***************************************************************************)
EXTENDS FiniteSets

CONSTANTS
    Threads,           \* the client's threads
    Sessions, Jobs,    \* addresses of session and job objects
    Keys,              \* credentials, the part of a configuration kept here
    NoThread, NoSession, NoJob, Unset, NoAuth, Gone

ASSUME ConstantsAssumption ==
    /\ NoThread \notin Threads
    /\ NoSession \notin Sessions
    /\ NoJob \notin Jobs
    /\ Unset \notin Keys
    /\ NoAuth \notin [key : Keys, by : Threads]
    /\ Gone \notin [owner : Sessions, auth : [key : Keys, by : Threads]]
    /\ Gone \notin [config : Keys \cup {Unset},
                    auth : [key : Keys, by : Threads] \cup {NoAuth}]

VARIABLES
    initialized, \* State::initialized
    sessions,    \* State::sessions, the handles a client may use
    jobs,        \* State::jobs
    session,     \* session[s]: the object at address s, or Gone
    job,         \* job[j]: the object at address j, or Gone
    mutex,       \* mutex[s]: the thread that holds the mutex of session s
    call,        \* call[t]: the entry point t is in, with its references
    env,         \* the credential in the environment
    asked        \* history: asked[s] is what the client configured for s

vars == <<initialized, sessions, jobs, session, job, mutex, call, env, asked>>

-----------------------------------------------------------------------------
SessionOps == {"set", "init", "status", "create", "retrieve"}

NoCall == [op |-> "status", pc |-> "idle", session |-> NoSession,
           job |-> NoJob, key |-> Unset, auth |-> NoAuth]
NewSession == [config |-> Unset, auth |-> NoAuth]

Init ==
    /\ initialized = FALSE
    /\ sessions = {}
    /\ jobs = {}
    /\ session = [s \in Sessions |-> Gone]
    /\ job = [j \in Jobs |-> Gone]
    /\ mutex = [s \in Sessions |-> NoThread]
    /\ call = [t \in Threads |-> NoCall]
    /\ env \in Keys
    /\ asked = [s \in Sessions |-> Unset]

\* Fault: a job has its session's address only.
MutOwnedByJob(s, jb) == FALSE
OwnedByJob(s, jb) == \E j \in Jobs : jb[j] # Gone /\ jb[j].owner = s

(***************************************************************************)
(* The registry and the calls become S, J and c, the objects jb and ss,    *)
(* but for those that have lost their last owner.                          *)
(***************************************************************************)
Settle(S, J, c, jb, ss) ==
    LET kept == [j \in Jobs |->
                    IF j \in J \/ \E t \in Threads : c[t].job = j
                    THEN jb[j] ELSE Gone]
    IN  /\ sessions' = S
        /\ jobs' = J
        /\ call' = c
        /\ job' = kept
        /\ session' = [s \in Sessions |->
                          IF \/ s \in S
                             \/ \E t \in Threads : c[t].session = s
                             \/ OwnedByJob(s, kept)
                          THEN ss[s] ELSE Gone]

With(t, c) == [call EXCEPT ![t] = c]
Returned(t) == With(t, NoCall)

-----------------------------------------------------------------------------
(* Calls that only take the registry mutex *)

Initialize ==
    /\ ~initialized
    /\ initialized' = TRUE
    /\ UNCHANGED <<sessions, jobs, session, job, mutex, call, env, asked>>

NothingRegistered == sessions = {} /\ jobs = {}
Finalize ==
    /\ initialized
    /\ NothingRegistered
    /\ initialized' = FALSE
    /\ UNCHANGED <<sessions, jobs, session, job, mutex, call, env, asked>>

SessionAlloc(s) ==
    /\ initialized
    /\ session[s] = Gone
    /\ sessions' = sessions \cup {s}
    /\ session' = [session EXCEPT ![s] = NewSession]
    /\ asked' = [asked EXCEPT ![s] = Unset]
    /\ UNCHANGED <<initialized, jobs, job, mutex, call, env>>

SessionFree(s) ==
    /\ s \in sessions
    /\ Settle(sessions \ {s}, jobs, call, job, session)
    /\ UNCHANGED <<initialized, mutex, env, asked>>

JobFree(j) ==
    /\ j \in jobs
    /\ Settle(sessions, jobs \ {j}, call, job, session)
    /\ UNCHANGED <<initialized, mutex, env, asked>>

-----------------------------------------------------------------------------
(* Calls on a session *)

\* sessionFor
FindSession(t) == \E o \in SessionOps, s \in sessions :
    /\ call[t].pc = "idle"
    /\ call' = With(t, [NoCall EXCEPT !.op = o, !.pc = "found", !.session = s])
    /\ UNCHANGED <<initialized, sessions, jobs, session, job, mutex, env, asked>>

\* t has found its session s, whose mutex it may take, for operation o.
AtSession(t, o, s) ==
    /\ call[t].pc = "found"
    /\ call[t].op = o
    /\ call[t].session = s
    /\ mutex[s] = NoThread

\* Fault: a session may be initialized again.
MutUninitialized(s) == TRUE
Uninitialized(s) == session[s].auth = NoAuth

SetParameter(t) == \E s \in Sessions, k \in Keys :
    /\ AtSession(t, "set", s)
    /\ Uninitialized(s)
    /\ Settle(sessions, jobs, Returned(t), job,
              [session EXCEPT ![s].config = k])
    /\ asked' = [asked EXCEPT ![s] = k]
    /\ UNCHANGED <<initialized, mutex, env>>

\* An operation in the wrong state of the session.
Refused(t) == \E s \in Sessions :
    /\ \/ (AtSession(t, "set", s) \/ AtSession(t, "init", s)) /\ ~Uninitialized(s)
       \/ /\ \E o \in SessionOps \ {"set", "init"} : AtSession(t, o, s)
          /\ session[s].auth = NoAuth
    /\ Settle(sessions, jobs, Returned(t), job, session)
    /\ UNCHANGED <<initialized, mutex, env, asked>>

\* resolve(): what the client did not set comes from the environment.
Resolve(config) == IF config = Unset THEN env ELSE config

\* Fault: the configuration is resolved in place.
MutPrepared(s) == [session EXCEPT ![s].config = Resolve(@)]
Prepared(s) == session

\* session_init takes the mutex, and keeps it until the end of the call.
StartInit(t) == \E s \in Sessions :
    /\ AtSession(t, "init", s)
    /\ Uninitialized(s)
    /\ mutex' = [mutex EXCEPT ![s] = t]
    /\ call' = [call EXCEPT ![t].pc = "configuration",
                            ![t].key = Resolve(session[s].config)]
    /\ session' = Prepared(s)
    /\ UNCHANGED <<initialized, sessions, jobs, job, env, asked>>

ReceiveConfiguration(t) ==
    /\ call[t].pc = "configuration"
    /\ call' = [call EXCEPT ![t].pc = "properties"]
    /\ UNCHANGED <<initialized, sessions, jobs, session, job, mutex, env, asked>>

Unlock(t) == mutex' = [mutex EXCEPT ![call[t].session] = NoThread]

\* The properties, or 404: the session becomes usable in one step.
FinishInit(t) ==
    /\ call[t].pc = "properties"
    /\ Settle(sessions, jobs, Returned(t), job,
              [session EXCEPT ![call[t].session] =
                  [config |-> call[t].key, auth |-> [key |-> call[t].key, by |-> t]]])
    /\ Unlock(t)
    /\ UNCHANGED <<initialized, env, asked>>

\* Fault: the mutex is not released when an exchange fails.
MutFailUnlock(t) == UNCHANGED mutex
FailUnlock(t) == Unlock(t)
FailInit(t) ==
    /\ call[t].pc \in {"configuration", "properties"}
    /\ Settle(sessions, jobs, Returned(t), job, session)
    /\ FailUnlock(t)
    /\ UNCHANGED <<initialized, env, asked>>

\* A status query keeps the Auth and goes on without the mutex.
StartStatus(t) == \E s \in Sessions :
    /\ AtSession(t, "status", s)
    /\ ~Uninitialized(s)
    /\ call' = [call EXCEPT ![t].pc = "exchange", ![t].auth = session[s].auth]
    /\ UNCHANGED <<initialized, sessions, jobs, session, job, mutex, env, asked>>

NewJob(s) == [owner |-> s, auth |-> session[s].auth]

CreateJob(t) == \E s \in Sessions, j \in Jobs :
    /\ AtSession(t, "create", s)
    /\ ~Uninitialized(s)
    /\ job[j] = Gone
    /\ Settle(sessions, jobs \cup {j}, Returned(t),
              [job EXCEPT ![j] = NewJob(s)], session)
    /\ UNCHANGED <<initialized, mutex, env, asked>>

\* Retrieval makes the object, and asks the service without the mutex.
StartRetrieve(t) == \E s \in Sessions, j \in Jobs :
    /\ AtSession(t, "retrieve", s)
    /\ ~Uninitialized(s)
    /\ job[j] = Gone
    /\ call' = [call EXCEPT ![t].pc = "exchange", ![t].job = j,
                            ![t].auth = session[s].auth]
    /\ job' = [job EXCEPT ![j] = NewJob(s)]
    /\ UNCHANGED <<initialized, sessions, jobs, session, mutex, env, asked>>

FinishRetrieve(t) ==
    /\ call[t].pc = "exchange"
    /\ call[t].op = "retrieve"
    /\ Settle(sessions, jobs \cup {call[t].job}, Returned(t), job, session)
    /\ UNCHANGED <<initialized, mutex, env, asked>>

-----------------------------------------------------------------------------
(* Calls on a job: jobFor, then an exchange with the Auth of its session.  *)
(* DeviceJob has what they do; here they are users of the two objects.     *)

FindJob(t) == \E j \in jobs :
    /\ call[t].pc = "idle"
    /\ call' = With(t, [NoCall EXCEPT !.op = "job", !.pc = "exchange",
                                      !.job = j, !.auth = job[j].auth])
    /\ UNCHANGED <<initialized, sessions, jobs, session, job, mutex, env, asked>>

\* The end of a status query or of a call on a job, and of a failed retrieval.
EndExchange(t) ==
    /\ call[t].pc = "exchange"
    /\ Settle(sessions, jobs, Returned(t), job, session)
    /\ UNCHANGED <<initialized, mutex, env, asked>>

\* The environment belongs to the process, not to this library.
ChangeEnvironment == \E k \in Keys :
    /\ env' = k
    /\ UNCHANGED <<initialized, sessions, jobs, session, job, mutex, call, asked>>

-----------------------------------------------------------------------------
\* What a call that has started does next.
ThreadStep(t) ==
    \/ SetParameter(t) \/ Refused(t) \/ StartInit(t) \/ ReceiveConfiguration(t)
    \/ FinishInit(t) \/ FailInit(t) \/ StartStatus(t) \/ CreateJob(t)
    \/ StartRetrieve(t) \/ FinishRetrieve(t) \/ EndExchange(t)

Next ==
    \/ Initialize \/ Finalize \/ ChangeEnvironment
    \/ \E s \in Sessions : SessionAlloc(s) \/ SessionFree(s)
    \/ \E j \in Jobs : JobFree(j)
    \/ \E t \in Threads : FindSession(t) \/ FindJob(t) \/ ThreadStep(t)

Spec == Init /\ [][Next]_vars

-----------------------------------------------------------------------------
(* Properties *)

\* The session whose Auth t uses in an exchange.
UsedBy(t) == IF call[t].session # NoSession THEN call[t].session
                                           ELSE job[call[t].job].owner

(***************************************************************************)
(* "A job retains its session resources" (docs/api.md): whatever handles   *)
(* are freed meanwhile, a job that exists has a session with the Auth the  *)
(* job points to, and so has a call inside an exchange; and no object is   *)
(* destroyed that somebody waits for, holds the mutex of, or is listed.    *)
(***************************************************************************)
UsesLiveObjects ==
    /\ \A s \in sessions : session[s] # Gone
    /\ \A j \in jobs : job[j] # Gone
    /\ \A j \in Jobs : job[j] # Gone =>
          session[job[j].owner] # Gone /\ session[job[j].owner].auth = job[j].auth
    /\ \A t \in Threads :
          /\ call[t].session # NoSession => session[call[t].session] # Gone
          /\ call[t].job # NoJob => job[call[t].job] # Gone
          /\ call[t].pc = "exchange" =>
                /\ session[UsedBy(t)] # Gone
                /\ session[UsedBy(t)].auth = call[t].auth
    /\ \A s \in Sessions : mutex[s] # NoThread => session[s] # Gone

(***************************************************************************)
(* What the client configured stays in force: an initialized session works *)
(* with it, set_parameter never slips in between the requests of           *)
(* session_init, and a failed session_init leaves the configuration as it  *)
(* was, so that a retry reads the environment again.                       *)
(***************************************************************************)
ConfigurationKept == \A s \in Sessions : session[s] # Gone =>
    IF session[s].auth = NoAuth
    THEN session[s].config = asked[s]
    ELSE /\ session[s].config = session[s].auth.key
         /\ asked[s] # Unset => session[s].config = asked[s]

(***************************************************************************)
(* Job and status queries keep raw pointers to the Auth of a session: it   *)
(* is never replaced while the session exists, not even by two threads     *)
(* that initialize it at the same time.                                    *)
(***************************************************************************)
AuthNeverReplaced == [][ \A s \in Sessions :
    session[s] # Gone /\ session'[s] # Gone /\ session[s].auth # NoAuth
        => session'[s].auth = session[s].auth ]_vars

(***************************************************************************)
(* Nobody keeps the mutex of a session: it is held exactly by a thread     *)
(* between the requests of session_init, which goes on whatever the others *)
(* do, also when an exchange fails or the session is freed meanwhile, and  *)
(* no two threads initialize one session at the same time.                 *)
(***************************************************************************)
MutexHeldByInit == \A s \in Sessions, t \in Threads :
    mutex[s] = t <=> call[t].session = s /\ call[t].pc \in {"configuration", "properties"}

(***************************************************************************)
(* "Free every job and session before device finalization" (docs/api.md,   *)
(* enforced by finalize): a finalized device has no handles.  It does not  *)
(* hold: a job whose creation or retrieval had begun may be registered     *)
(* after its session was freed and the device finalized.                   *)
(***************************************************************************)
NoHandlesAfterFinalize == ~initialized => sessions = {} /\ jobs = {}
=============================================================================
