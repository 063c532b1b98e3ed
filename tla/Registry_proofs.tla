---------------------------- MODULE Registry_proofs ----------------------------
(***************************************************************************)
(* Proofs about the lifecycle of sessions and jobs, for any number of      *)
(* threads, addresses and credentials: calls use live objects, session_init *)
(* is alone on its session, what the client configured stays in force, and *)
(* the Auth that jobs point to is never replaced.                          *)
(*                                                                         *)
(* None of this is inductive alone.  An Auth is not replaced because only  *)
(* session_init sets it, alone under the mutex; that is so because nobody  *)
(* destroys and reallocates the session meanwhile; and that, because the   *)
(* call keeps a reference.  The invariant has all of it.                   *)
(***************************************************************************)
EXTENDS Registry, TLAPS

-----------------------------------------------------------------------------
(* The inductive invariant *)

Auths == [key : Keys, by : Threads]
Session == [config : Keys \cup {Unset}, auth : Auths \cup {NoAuth}]
Job == [owner : Sessions, auth : Auths]
Call == [op : SessionOps \cup {"job"},
         pc : {"idle", "found", "configuration", "properties", "exchange"},
         session : Sessions \cup {NoSession}, job : Jobs \cup {NoJob},
         key : Keys \cup {Unset}, auth : Auths \cup {NoAuth}]

TypeOK ==
    /\ initialized \in BOOLEAN
    /\ sessions \in SUBSET Sessions
    /\ jobs \in SUBSET Jobs
    /\ session \in [Sessions -> Session \cup {Gone}]
    /\ job \in [Jobs -> Job \cup {Gone}]
    /\ mutex \in [Sessions -> Threads \cup {NoThread}]
    /\ call \in [Threads -> Call]
    /\ env \in Keys
    /\ asked \in [Sessions -> Keys \cup {Unset}]

\* The references a call keeps in each of its steps.
Shape(c) ==
    /\ c.pc = "idle" => c.session = NoSession /\ c.job = NoJob
    /\ c.pc \in {"found", "configuration", "properties"} =>
          c.session # NoSession /\ c.job = NoJob
    /\ c.pc = "exchange" => /\ c.auth \in Auths
                            /\ c.session # NoSession \/ c.job # NoJob
                            /\ c.op = "retrieve" => c.job # NoJob

\* Everything that is listed, or that something refers to, exists; and the
\* Auth that a job or an exchange points to is the one of its session.
Live(S, J, c, jb, ss) ==
    /\ \A s \in S : ss[s] # Gone
    /\ \A j \in J : jb[j] # Gone
    /\ \A j \in Jobs : jb[j] # Gone =>
          ss[jb[j].owner] # Gone /\ ss[jb[j].owner].auth = jb[j].auth
    /\ \A t \in Threads :
          /\ c[t].session # NoSession =>
                /\ ss[c[t].session] # Gone
                /\ c[t].pc = "exchange" => ss[c[t].session].auth = c[t].auth
          /\ c[t].job # NoJob =>
                jb[c[t].job] # Gone /\ jb[c[t].job].auth = c[t].auth

\* Between the requests of session_init the session stays as it was found.
Initializing(t) == call[t].pc \in {"configuration", "properties"}
Reserved == \A t \in Threads : Initializing(t) =>
    LET s == call[t].session
    IN  /\ session[s].auth = NoAuth
        /\ call[t].key \in Keys
        /\ asked[s] # Unset => call[t].key = asked[s]

Inv ==
    /\ TypeOK
    /\ \A t \in Threads : Shape(call[t])
    /\ Live(sessions, jobs, call, job, session)
    /\ MutexHeldByInit
    /\ Reserved
    /\ ConfigurationKept

-----------------------------------------------------------------------------
(* Steps in general *)

\* No session, no job, no call.
LEMMA NoCallType == NoCall \in Call /\ Shape(NoCall)
  BY DEF NoCall, Call, SessionOps, Shape

\* Initially nothing exists and nothing is referred to.
LEMMA InitInv == Init => Inv
  <1> SUFFICES ASSUME Init PROVE Inv
    OBVIOUS
  <1>1. TypeOK /\ \A t \in Threads : Shape(call[t])
    BY NoCallType DEF Init, TypeOK
  <1>2. Live(sessions, jobs, call, job, session)
    BY DEF Init, Live, NoCall
  <1>3. MutexHeldByInit /\ Reserved /\ ConfigurationKept
    BY ConstantsAssumption
       DEF Init, MutexHeldByInit, Reserved, Initializing, ConfigurationKept, NoCall
  <1>4. QED
    BY <1>1, <1>2, <1>3 DEF Inv

\* What has lost its last owner is referred to by nothing that remains.
LEMMA SettleLive ==
  ASSUME NEW S \in SUBSET Sessions, NEW J \in SUBSET Jobs,
         NEW c \in [Threads -> Call],
         NEW jb \in [Jobs -> Job \cup {Gone}],
         NEW ss \in [Sessions -> Session \cup {Gone}],
         Live(S, J, c, jb, ss), Settle(S, J, c, jb, ss)
  PROVE  /\ sessions' = S /\ jobs' = J /\ call' = c
         /\ session' \in [Sessions -> Session \cup {Gone}]
         /\ job' \in [Jobs -> Job \cup {Gone}]
         /\ \A s \in Sessions : session'[s] \in {ss[s], Gone}
         /\ Live(S, J, c, job', session')
  <1>1. /\ sessions' = S /\ jobs' = J /\ call' = c
        /\ session' \in [Sessions -> Session \cup {Gone}]
        /\ job' \in [Jobs -> Job \cup {Gone}]
        /\ \A s \in Sessions : session'[s] \in {ss[s], Gone}
        /\ \A j \in Jobs : job'[j] \in {jb[j], Gone}
    BY DEF Settle
  <1>2. /\ \A j \in J : job'[j] = jb[j]
        /\ \A t \in Threads : c[t].job # NoJob => job'[c[t].job] = jb[c[t].job]
    BY DEF Settle, Call
  <1>3. /\ \A s \in S : session'[s] = ss[s]
        /\ \A t \in Threads : c[t].session # NoSession =>
              session'[c[t].session] = ss[c[t].session]
    BY DEF Settle, Call
  <1>4. ASSUME NEW j \in Jobs, job'[j] # Gone
        PROVE  session'[jb[j].owner] = ss[jb[j].owner]
    <2>1. job'[j] = jb[j] /\ jb[j].owner \in Sessions
      BY <1>1, <1>4 DEF Job
    <2>2. OwnedByJob(jb[j].owner, job')
      BY <1>4, <2>1 DEF OwnedByJob
    <2>3. QED
      BY <2>1, <2>2 DEF Settle
  <1>5. QED
    BY <1>1, <1>2, <1>3, <1>4 DEF Live

\* A step that leaves the sessions that remain, and session_init, alone.
LEMMA StepInv ==
  ASSUME Inv, TypeOK', \A t \in Threads : Shape(call'[t]),
         Live(sessions', jobs', call', job', session'),
         \A s \in Sessions : session'[s] \in {session[s], Gone},
         \A t \in Threads : Initializing(t) \/ Initializing(t)' =>
                               call'[t] = call[t],
         UNCHANGED <<mutex, asked>>
  PROVE  Inv'
  <1>1. MutexHeldByInit'
    <2> SUFFICES ASSUME NEW s \in Sessions, NEW t \in Threads
                 PROVE  (mutex[s] = t <=> call[t].session = s /\ Initializing(t))'
      BY DEF MutexHeldByInit, Initializing
    <2>1. mutex[s] = t <=> call[t].session = s /\ Initializing(t)
      BY DEF Inv, MutexHeldByInit, Initializing
    <2>2. QED
      BY <2>1 DEF Initializing
  <1>2. Reserved'
    <2> SUFFICES ASSUME NEW t \in Threads, Initializing(t)'
                 PROVE  /\ session'[call'[t].session].auth = NoAuth
                        /\ call'[t].key \in Keys
                        /\ asked'[call'[t].session] # Unset =>
                              call'[t].key = asked'[call'[t].session]
      BY DEF Reserved
    <2>1. call'[t] = call[t] /\ Initializing(t)
      BY DEF Initializing
    <2>2. call[t].session \in Sessions
      BY <2>1 DEF Inv, TypeOK, Call, Shape, Initializing
    <2>3. session'[call[t].session] # Gone
      BY <2>1, <2>2 DEF Live, Shape, Initializing
    <2>4. QED
      BY <2>1, <2>2, <2>3 DEF Inv, Reserved
  <1>3. ConfigurationKept'
    BY DEF Inv, ConfigurationKept
  <1>4. Live(sessions, jobs, call, job, session)'
    OBVIOUS
  <1>5. QED
    BY <1>1, <1>2, <1>3, <1>4 DEF Inv

\* The same of a step that drops what has lost its last owner.
LEMMA SettleInv ==
  ASSUME Inv, NEW S \in SUBSET Sessions, NEW J \in SUBSET Jobs,
         NEW c \in [Threads -> Call],
         NEW jb \in [Jobs -> Job \cup {Gone}],
         Live(S, J, c, jb, session), Settle(S, J, c, jb, session),
         \A t \in Threads : /\ Shape(c[t])
                            /\ \/ Initializing(t)
                               \/ c[t].pc \in {"configuration", "properties"}
                               => c[t] = call[t],
         UNCHANGED <<initialized, mutex, env, asked>>
  PROVE  Inv'
  <1>1. session \in [Sessions -> Session \cup {Gone}]
    BY DEF Inv, TypeOK
  <1>2. /\ sessions' = S /\ jobs' = J /\ call' = c
        /\ session' \in [Sessions -> Session \cup {Gone}]
        /\ job' \in [Jobs -> Job \cup {Gone}]
        /\ \A s \in Sessions : session'[s] \in {session[s], Gone}
        /\ Live(S, J, c, job', session')
    BY <1>1, SettleLive
  <1>3. TypeOK'
    BY <1>2 DEF Inv, TypeOK
  <1>4. \A t \in Threads : Initializing(t) \/ Initializing(t)' =>
                              call'[t] = call[t]
    BY <1>2 DEF Initializing
  <1>5. QED
    BY <1>2, <1>3, <1>4, StepInv

\* A call that is not session_init returns and leaves the objects alone.
LEMMA ReturnedEffect ==
  ASSUME Inv, NEW t \in Threads
  PROVE  /\ Returned(t) \in [Threads -> Call]
         /\ \A u \in Threads : Shape(Returned(t)[u])
         /\ \A u \in Threads : Returned(t)[u] = IF u = t THEN NoCall ELSE call[u]
         /\ Live(sessions, jobs, Returned(t), job, session)
  <1>1. /\ Returned(t) \in [Threads -> Call]
        /\ \A u \in Threads : Returned(t)[u] = IF u = t THEN NoCall ELSE call[u]
    BY NoCallType DEF Returned, With, Inv, TypeOK
  <1>2. NoCall.session = NoSession /\ NoCall.job = NoJob
    BY DEF NoCall
  <1>3. QED
    BY <1>1, <1>2, NoCallType DEF Inv, Live

\* The references of the others do not depend on what t does.
LEMMA CallLive ==
  ASSUME NEW S, NEW J, NEW c, NEW d, NEW jb, NEW ss, Live(S, J, c, jb, ss),
         NEW t \in Threads, \A u \in Threads : u # t => d[u] = c[u],
         d[t].session # NoSession =>
            /\ ss[d[t].session] # Gone
            /\ d[t].pc = "exchange" => ss[d[t].session].auth = d[t].auth,
         d[t].job # NoJob => jb[d[t].job] # Gone /\ jb[d[t].job].auth = d[t].auth
  PROVE  Live(S, J, d, jb, ss)
  BY DEF Live

-----------------------------------------------------------------------------
(* Every action *)

\* Neither the device nor the environment concerns what exists.
LEMMA DeviceInv ==
  ASSUME Inv, Initialize \/ Finalize \/ ChangeEnvironment \/ UNCHANGED vars
  PROVE  Inv'
  <1>1. UNCHANGED <<sessions, jobs, session, job, mutex, call, asked>>
    BY DEF Initialize, Finalize, ChangeEnvironment, vars
  <1>2. TypeOK'
    BY <1>1 DEF Inv, TypeOK, Initialize, Finalize, ChangeEnvironment, vars
  <1>3. QED
    BY <1>1, <1>2 DEF Inv, Live, MutexHeldByInit, Reserved, Initializing,
                      ConfigurationKept

\* A new session takes an address that nothing refers to.
LEMMA SessionAllocInv ==
  ASSUME Inv, NEW s \in Sessions, SessionAlloc(s) PROVE Inv'
  <1>1. /\ session[s] = Gone
        /\ sessions' = sessions \cup {s}
        /\ session' = [session EXCEPT ![s] = NewSession]
        /\ asked' = [asked EXCEPT ![s] = Unset]
        /\ UNCHANGED <<initialized, jobs, job, mutex, call, env>>
    BY DEF SessionAlloc
  <1>2. NewSession \in Session /\ NewSession # Gone
    BY ConstantsAssumption DEF NewSession, Session, Auths
  <1>3. /\ session'[s] = NewSession
        /\ \A r \in Sessions : r # s => session'[r] = session[r]
    BY <1>1 DEF Inv, TypeOK
  <1>4. TypeOK'
    BY <1>1, <1>2 DEF Inv, TypeOK
  <1>5. Live(sessions', jobs', call', job', session')
    <2>1. \A r \in Sessions : session[r] # Gone => session'[r] = session[r]
      BY <1>1, <1>3
    <2>2. \A t \in Threads : call[t].session # NoSession =>
             /\ call[t].session \in Sessions
             /\ session[call[t].session] # Gone
      BY DEF Inv, TypeOK, Call, Live
    <2>3. \A j \in Jobs : job[j] # Gone =>
             job[j].owner \in Sessions /\ session[job[j].owner] # Gone
      BY DEF Inv, TypeOK, Job, Live
    <2>4. \A r \in sessions' : session'[r] # Gone
      BY <1>1, <1>2, <1>3, <2>1 DEF Inv, TypeOK, Live
    <2>5. QED
      BY <1>1, <2>1, <2>2, <2>3, <2>4 DEF Inv, Live
  <1>6. \A t \in Threads : call[t].session # s
    BY <1>1, ConstantsAssumption DEF Inv, Live
  <1>7. MutexHeldByInit'
    BY <1>1 DEF Inv, MutexHeldByInit
  <1>8. Reserved'
    <2> SUFFICES ASSUME NEW t \in Threads, Initializing(t)
                 PROVE  /\ session'[call[t].session].auth = NoAuth
                        /\ call[t].key \in Keys
                        /\ asked'[call[t].session] # Unset =>
                              call[t].key = asked'[call[t].session]
      BY <1>1 DEF Reserved, Initializing
    <2>1. call[t].session \in Sessions /\ call[t].session # s
      BY <1>6 DEF Inv, TypeOK, Call, Shape, Initializing
    <2>2. QED
      BY <1>1, <1>3, <2>1 DEF Inv, TypeOK, Reserved
  <1>9. ConfigurationKept'
    BY <1>1, <1>3 DEF Inv, TypeOK, ConfigurationKept, NewSession
  <1>10. QED
    BY <1>1, <1>4, <1>5, <1>7, <1>8, <1>9 DEF Inv

\* Freeing a handle drops the object unless something refers to it.
LEMMA FreeInv ==
  ASSUME Inv, \/ \E s \in Sessions : SessionFree(s)
              \/ \E j \in Jobs : JobFree(j)
  PROVE  Inv'
  <1>1. /\ call \in [Threads -> Call] /\ job \in [Jobs -> Job \cup {Gone}]
        /\ sessions \in SUBSET Sessions /\ jobs \in SUBSET Jobs
        /\ Live(sessions, jobs, call, job, session)
        /\ \A t \in Threads : Shape(call[t])
    BY DEF Inv, TypeOK
  <1>2. ASSUME NEW s \in Sessions, SessionFree(s) PROVE Inv'
    <2>1. Live(sessions \ {s}, jobs, call, job, session)
      BY <1>1 DEF Live
    <2>2. QED
      BY <1>1, <1>2, <2>1, SettleInv DEF SessionFree
  <1>3. ASSUME NEW j \in Jobs, JobFree(j) PROVE Inv'
    <2>1. Live(sessions, jobs \ {j}, call, job, session)
      BY <1>1 DEF Live
    <2>2. QED
      BY <1>1, <1>3, <2>1, SettleInv DEF JobFree
  <1>4. QED
    BY <1>2, <1>3

\* A call takes references to what is listed, and so exists.
LEMMA FindInv ==
  ASSUME Inv, NEW t \in Threads, FindSession(t) \/ FindJob(t) PROVE Inv'
  <1>1. /\ call[t].pc = "idle"
        /\ UNCHANGED <<initialized, sessions, jobs, session, job, mutex, env, asked>>
    BY DEF FindSession, FindJob
  <1>2. PICK c \in Call :
           /\ call' = [call EXCEPT ![t] = c]
           /\ Shape(c) /\ c.pc \in {"found", "exchange"}
           /\ c.session # NoSession =>
                 /\ session[c.session] # Gone
                 /\ c.pc = "exchange" => session[c.session].auth = c.auth
           /\ c.job # NoJob => job[c.job] # Gone /\ job[c.job].auth = c.auth
    <2>1. CASE FindSession(t)
      <3>1. PICK o \in SessionOps, s \in sessions : FindSession(t)!(o, s)
        BY <2>1 DEF FindSession
      <3>2. s \in Sessions /\ session[s] # Gone
        BY DEF Inv, TypeOK, Live
      <3> DEFINE c == [NoCall EXCEPT !.op = o, !.pc = "found", !.session = s]
      <3>3. call' = [call EXCEPT ![t] = c]
        BY <3>1 DEF With
      <3>4. c \in Call /\ c.pc = "found" /\ c.session = s /\ c.job = NoJob
        BY <3>2 DEF NoCall, Call
      <3>5. Shape(c)
        BY <3>2, <3>4, ConstantsAssumption DEF Shape
      <3> HIDE DEF c
      <3>6. QED
        BY <3>2, <3>3, <3>4, <3>5
    <2>2. CASE FindJob(t)
      <3>1. PICK j \in jobs : FindJob(t)!(j)
        BY <2>2 DEF FindJob
      <3>2. j \in Jobs /\ job[j] # Gone /\ job[j] \in Job
        BY DEF Inv, TypeOK, Live
      <3> DEFINE c == [NoCall EXCEPT !.op = "job", !.pc = "exchange",
                                     !.job = j, !.auth = job[j].auth]
      <3>3. call' = [call EXCEPT ![t] = c]
        BY <3>1 DEF With
      <3>4. /\ c \in Call /\ c.pc = "exchange" /\ c.session = NoSession
            /\ c.job = j /\ c.auth = job[j].auth /\ c.op = "job"
        BY <3>2 DEF NoCall, Call, Job
      <3>5. Shape(c)
        BY <3>2, <3>4, ConstantsAssumption DEF Shape, Job
      <3> HIDE DEF c
      <3>6. QED
        BY <3>2, <3>3, <3>4, <3>5
    <2>3. QED
      BY <2>1, <2>2
  <1>3. /\ call' \in [Threads -> Call] /\ call'[t] = c
        /\ \A u \in Threads : u # t => call'[u] = call[u]
    BY <1>2 DEF Inv, TypeOK
  <1>4. TypeOK' /\ \A u \in Threads : Shape(call'[u])
    BY <1>1, <1>2, <1>3 DEF Inv, TypeOK
  <1>5. Live(sessions, jobs, call', job, session)
    BY <1>2, <1>3, CallLive DEF Inv
  <1>6. Live(sessions', jobs', call', job', session')
    BY <1>1, <1>5
  <1>7. \A u \in Threads : Initializing(u) \/ Initializing(u)' => call'[u] = call[u]
    BY <1>1, <1>2, <1>3 DEF Initializing
  <1>8. QED
    BY <1>1, <1>4, <1>6, <1>7, StepInv

\* A call that is not in session_init returns, having changed no session.
LEMMA ReturnInv ==
  ASSUME Inv, NEW t \in Threads, ~Initializing(t),
         NEW J \in SUBSET Jobs, NEW jb \in [Jobs -> Job \cup {Gone}],
         \A j \in J : j \in jobs \/ jb[j] # Gone,
         \A j \in Jobs : job[j] # Gone => jb[j] = job[j],
         \A j \in Jobs : jb[j] # job[j] =>
            /\ session[jb[j].owner] # Gone
            /\ session[jb[j].owner].auth = jb[j].auth,
         Settle(sessions, J, Returned(t), jb, session),
         UNCHANGED <<initialized, mutex, env, asked>>
  PROVE  Inv'
  <1>1. \A u \in Threads : /\ Shape(Returned(t)[u])
                           /\ \/ Initializing(u)
                              \/ Returned(t)[u].pc \in {"configuration", "properties"}
                              => Returned(t)[u] = call[u]
    BY ReturnedEffect DEF Initializing, NoCall
  <1>2. Live(sessions, J, Returned(t), jb, session)
    <2>1. \A j \in jobs : j \in Jobs /\ job[j] # Gone
      BY DEF Inv, TypeOK, Live
    <2>2. \A u \in Threads : Returned(t)[u].job # NoJob =>
             Returned(t)[u].job \in Jobs /\ job[Returned(t)[u].job] # Gone
      BY ReturnedEffect DEF Live, Call
    <2>3. QED
      BY <2>1, <2>2, ReturnedEffect DEF Live
  <1>3. QED
    BY <1>1, <1>2, ReturnedEffect, SettleInv DEF Inv, TypeOK

\* A call that has found its session keeps it alive.
LEMMA FoundEffect ==
  ASSUME Inv, NEW t \in Threads, NEW o, NEW s, AtSession(t, o, s)
  PROVE  /\ s \in Sessions /\ session[s] \in Session /\ session[s] # Gone
         /\ call[t].session = s /\ call[t].job = NoJob
         /\ ~Initializing(t) /\ mutex[s] = NoThread
  <1>1. /\ call[t] \in Call /\ Shape(call[t])
        /\ call[t].pc = "found" /\ call[t].session = s
    BY DEF AtSession, Inv, TypeOK
  <1>2. s \in Sessions /\ session[s] # Gone /\ call[t].job = NoJob
    BY <1>1 DEF Call, Shape, Inv, Live
  <1>3. QED
    BY <1>1, <1>2 DEF Inv, TypeOK, AtSession, Initializing

\* A job made of an initialized session has its Auth.
LEMMA NewJobType ==
  ASSUME Inv, NEW s \in Sessions, session[s] # Gone, ~Uninitialized(s)
  PROVE  /\ NewJob(s) \in Job /\ NewJob(s) # Gone
         /\ NewJob(s).owner = s /\ NewJob(s).auth = session[s].auth
         /\ session[s].auth \in Auths
  <1>1. session[s].auth \in Auths
    BY DEF Inv, TypeOK, Session, Uninitialized
  <1>2. QED
    BY <1>1, ConstantsAssumption DEF NewJob, Job, Auths

\* Calls that are refused, exchanges that end, and jobs that are registered.
LEMMA ReturnsInv ==
  ASSUME Inv, NEW t \in Threads,
         Refused(t) \/ EndExchange(t) \/ FinishRetrieve(t) \/ CreateJob(t)
  PROVE  Inv'
  <1>1. job \in [Jobs -> Job \cup {Gone}] /\ jobs \in SUBSET Jobs
    BY DEF Inv, TypeOK
  <1>2. CASE Refused(t) \/ EndExchange(t)
    <2>1. ~Initializing(t)
      BY <1>2, FoundEffect DEF Refused, EndExchange, Initializing
    <2>2. QED
      BY <1>1, <1>2, <2>1, ReturnInv DEF Refused, EndExchange
  <1>3. CASE FinishRetrieve(t)
    <2>1. /\ ~Initializing(t)
          /\ call[t].job \in Jobs /\ job[call[t].job] # Gone
      BY <1>3 DEF FinishRetrieve, Initializing, Inv, TypeOK, Call, Shape, Live
    <2>2. QED
      BY <1>1, <1>3, <2>1, ReturnInv DEF FinishRetrieve
  <1>4. CASE CreateJob(t)
    <2>1. PICK s \in Sessions, j \in Jobs : CreateJob(t)!(s, j)
      BY <1>4 DEF CreateJob
    <2>2. /\ ~Initializing(t) /\ session[s] # Gone
          /\ NewJob(s) \in Job /\ NewJob(s) # Gone
          /\ NewJob(s).owner = s /\ NewJob(s).auth = session[s].auth
      BY <2>1, FoundEffect, NewJobType
    <2> DEFINE jb == [job EXCEPT ![j] = NewJob(s)]
    <2>3. /\ jb \in [Jobs -> Job \cup {Gone}]
          /\ jb[j] = NewJob(s)
          /\ \A i \in Jobs : i # j => jb[i] = job[i]
          /\ jobs \cup {j} \in SUBSET Jobs
      BY <1>1, <2>2
    <2>4. /\ Settle(sessions, jobs \cup {j}, Returned(t), jb, session)
          /\ job[j] = Gone
          /\ UNCHANGED <<initialized, mutex, env, asked>>
      BY <2>1
    <2> HIDE DEF jb
    <2>5. QED
      BY <2>2, <2>3, <2>4, ReturnInv
  <1>5. QED
    BY <1>2, <1>3, <1>4

\* A query takes the Auth of its session, a retrieval gives it to a new job.
LEMMA StartExchangeInv ==
  ASSUME Inv, NEW t \in Threads, StartStatus(t) \/ StartRetrieve(t) PROVE Inv'
  <1>1. PICK s \in Sessions : /\ \E o \in SessionOps : AtSession(t, o, s)
                              /\ ~Uninitialized(s)
    BY DEF StartStatus, StartRetrieve, SessionOps
  <1>2. /\ ~Initializing(t) /\ session[s] # Gone
        /\ call[t].session = s /\ call[t].job = NoJob
        /\ NewJob(s) \in Job /\ NewJob(s) # Gone
        /\ NewJob(s).owner = s /\ NewJob(s).auth = session[s].auth
        /\ session[s].auth \in Auths
    BY <1>1, FoundEffect, NewJobType
  <1>3. /\ call[t] \in Call /\ call \in [Threads -> Call]
        /\ job \in [Jobs -> Job \cup {Gone}]
        /\ call[t].op = "retrieve" => StartRetrieve(t)
    BY <1>1 DEF Inv, TypeOK, StartStatus, StartRetrieve, AtSession
  <1>4. UNCHANGED <<initialized, sessions, jobs, session, mutex, env, asked>>
    BY DEF StartStatus, StartRetrieve
  <1>5. PICK j \in Jobs \cup {NoJob} :
           /\ call' = [call EXCEPT ![t].pc = "exchange", ![t].job = j,
                                   ![t].auth = session[s].auth]
           /\ StartRetrieve(t) => j \in Jobs
           /\ j \in Jobs => job[j] = Gone /\ job' = [job EXCEPT ![j] = NewJob(s)]
           /\ j = NoJob => UNCHANGED job
    <2>1. CASE StartStatus(t)
      <3>1. /\ call' = [call EXCEPT ![t].pc = "exchange",
                                    ![t].auth = session[s].auth]
            /\ UNCHANGED job
            /\ ~StartRetrieve(t)
        BY <1>2, <2>1 DEF StartStatus, StartRetrieve, AtSession
      <3>2. call' = [call EXCEPT ![t].pc = "exchange", ![t].job = NoJob,
                                 ![t].auth = session[s].auth]
        BY <1>2, <1>3, <3>1 DEF Call
      <3>3. QED
        BY <3>1, <3>2, ConstantsAssumption
    <2>2. CASE StartRetrieve(t)
      <3>1. PICK r \in Sessions, j \in Jobs : StartRetrieve(t)!(r, j)
        BY <2>2 DEF StartRetrieve
      <3>2. r = s
        BY <1>2, <3>1 DEF AtSession
      <3>3. /\ call' = [call EXCEPT ![t].pc = "exchange", ![t].job = j,
                                    ![t].auth = session[s].auth]
            /\ job[j] = Gone /\ job' = [job EXCEPT ![j] = NewJob(s)]
        BY <3>1, <3>2
      <3>4. QED
        BY <3>3, ConstantsAssumption
    <2>3. QED
      BY <2>1, <2>2
  <1>6. /\ call' \in [Threads -> Call]
        /\ call'[t].pc = "exchange" /\ call'[t].session = s /\ call'[t].job = j
        /\ call'[t].auth = session[s].auth /\ call'[t].op = call[t].op
        /\ \A u \in Threads : u # t => call'[u] = call[u]
    BY <1>2, <1>3, <1>5 DEF Call
  <1>7. /\ job' \in [Jobs -> Job \cup {Gone}]
        /\ \A i \in Jobs : i # j => job'[i] = job[i]
        /\ j \in Jobs => job'[j] = NewJob(s) /\ job[j] = Gone
    BY <1>2, <1>3, <1>5
  <1>8. TypeOK'
    BY <1>4, <1>6, <1>7 DEF Inv, TypeOK
  <1>9. \A u \in Threads : Shape(call'[u])
    BY <1>2, <1>3, <1>5, <1>6, ConstantsAssumption DEF Inv, Shape
  <1>10. Live(sessions, jobs, call, job', session)
    <2>1. \A i \in jobs : i \in Jobs /\ job[i] # Gone
      BY DEF Inv, TypeOK, Live
    <2>2. \A u \in Threads : call[u].job # NoJob =>
             call[u].job \in Jobs /\ job[call[u].job] # Gone
      BY DEF Inv, TypeOK, Call, Live
    <2>3. QED
      BY <1>2, <1>7, <2>1, <2>2 DEF Inv, Live
  <1>11. Live(sessions, jobs, call', job', session)
    BY <1>2, <1>6, <1>7, <1>10, CallLive
  <1>12. Live(sessions', jobs', call', job', session')
    BY <1>4, <1>11
  <1>13. \A u \in Threads : Initializing(u) \/ Initializing(u)' => call'[u] = call[u]
    BY <1>2, <1>6 DEF Initializing
  <1>14. QED
    BY <1>4, <1>8, <1>9, <1>12, <1>13, StepInv

\* Changing a session that is not initialized, alone under its mutex: no job
\* and no exchange has its Auth yet.
LEMMA OwnSessionInv ==
  ASSUME Inv, NEW t \in Threads, NEW s \in Sessions,
         call[t].session = s, session[s] # Gone, session[s].auth = NoAuth,
         mutex[s] \in {t, NoThread},
         NEW v \in Session, NEW a \in Keys \cup {Unset},
         IF v.auth = NoAuth
         THEN v.config = a
         ELSE v.config = v.auth.key /\ (a # Unset => v.config = a),
         Settle(sessions, jobs, Returned(t), job, [session EXCEPT ![s] = v]),
         mutex' = [mutex EXCEPT ![s] = NoThread],
         asked' = [asked EXCEPT ![s] = a],
         UNCHANGED <<initialized, env>>
  PROVE  Inv'
  <1> DEFINE ss == [session EXCEPT ![s] = v]
             c == Returned(t)
  <1>1. /\ ss \in [Sessions -> Session \cup {Gone}]
        /\ ss[s] = v /\ v # Gone
        /\ \A r \in Sessions : r # s => ss[r] = session[r]
    BY ConstantsAssumption DEF Inv, TypeOK, Session, Auths
  <1>2. /\ c \in [Threads -> Call]
        /\ \A u \in Threads : Shape(c[u])
        /\ \A u \in Threads : c[u] = IF u = t THEN NoCall ELSE call[u]
        /\ Live(sessions, jobs, c, job, session)
        /\ NoCall.session = NoSession /\ NoCall.pc = "idle"
    BY ReturnedEffect DEF NoCall
  <1>3. Settle(sessions, jobs, c, job, ss)
    OBVIOUS
  <1> HIDE DEF ss, c
  <1>4. NoAuth \notin Auths
    BY ConstantsAssumption DEF Auths
  <1>5. \A j \in Jobs : job[j] # Gone =>
           job[j].owner \in Sessions /\ job[j].owner # s
    BY <1>4 DEF Inv, TypeOK, Job, Live
  <1>6. ASSUME NEW u \in Threads, c[u].session # NoSession, c[u].pc = "exchange"
        PROVE  c[u].session \in Sessions /\ c[u].session # s
    BY <1>2, <1>4, <1>6 DEF Live, Shape, Call
  <1>7. Live(sessions, jobs, c, job, ss)
    <2>1. \A r \in Sessions : session[r] # Gone => ss[r] # Gone
      BY <1>1
    <2>2. \A u \in Threads : c[u].session # NoSession => c[u].session \in Sessions
      BY <1>2 DEF Call
    <2>3. \A r \in sessions : ss[r] # Gone
      BY <1>2, <2>1 DEF Live, Inv, TypeOK
    <2>4. \A j \in Jobs : job[j] # Gone =>
             ss[job[j].owner] # Gone /\ ss[job[j].owner].auth = job[j].auth
      BY <1>1, <1>2, <1>5 DEF Live
    <2>5. ASSUME NEW u \in Threads, c[u].session # NoSession
          PROVE  /\ ss[c[u].session] # Gone
                 /\ c[u].pc = "exchange" => ss[c[u].session].auth = c[u].auth
      BY <1>1, <1>2, <1>6, <2>1, <2>2, <2>5 DEF Live
    <2>6. QED
      BY <1>2, <2>3, <2>4, <2>5 DEF Live
  <1>8. sessions \in SUBSET Sessions /\ jobs \in SUBSET Jobs
        /\ job \in [Jobs -> Job \cup {Gone}]
    BY DEF Inv, TypeOK
  <1>9. /\ sessions' = sessions /\ jobs' = jobs /\ call' = c
        /\ session' \in [Sessions -> Session \cup {Gone}]
        /\ job' \in [Jobs -> Job \cup {Gone}]
        /\ \A r \in Sessions : session'[r] \in {ss[r], Gone}
        /\ Live(sessions', jobs', call', job', session')
    BY <1>1, <1>2, <1>3, <1>7, <1>8, SettleLive
  <1>10. /\ mutex' \in [Sessions -> Threads \cup {NoThread}]
         /\ mutex'[s] = NoThread
         /\ \A r \in Sessions : r # s => mutex'[r] = mutex[r]
         /\ asked' \in [Sessions -> Keys \cup {Unset}]
         /\ asked'[s] = a
         /\ \A r \in Sessions : r # s => asked'[r] = asked[r]
    BY DEF Inv, TypeOK
  <1>11. TypeOK' /\ \A u \in Threads : Shape(call'[u])
    BY <1>2, <1>9, <1>10 DEF Inv, TypeOK
  <1>12. \A u \in Threads : u # t /\ Initializing(u) =>
            call[u].session \in Sessions /\ call[u].session # s
    <2> SUFFICES ASSUME NEW u \in Threads, u # t, Initializing(u)
                 PROVE  call[u].session \in Sessions /\ call[u].session # s
      OBVIOUS
    <2>1. call[u].session \in Sessions
      BY DEF Inv, TypeOK, Call, Shape, Initializing
    <2>2. mutex[call[u].session] = u
      BY <2>1 DEF Inv, MutexHeldByInit, Initializing
    <2>3. QED
      BY <2>1, <2>2, ConstantsAssumption
  <1>13. /\ ~Initializing(t)'
         /\ \A u \in Threads : u # t => call'[u] = call[u]
    BY <1>2, <1>9 DEF Initializing
  <1>14. MutexHeldByInit'
    <2> SUFFICES ASSUME NEW r \in Sessions, NEW u \in Threads
                 PROVE  mutex'[r] = u <=> call'[u].session = r /\ Initializing(u)'
      BY DEF MutexHeldByInit, Initializing
    <2>1. mutex[r] = u <=> call[u].session = r /\ Initializing(u)
      BY DEF Inv, MutexHeldByInit, Initializing
    <2>2. Initializing(u)' <=> u # t /\ Initializing(u)
      BY <1>13 DEF Initializing
    <2>3. CASE r = s
      BY <1>10, <1>12, <1>13, <2>2, <2>3, ConstantsAssumption
    <2>4. CASE r # s
      BY <1>10, <1>13, <2>1, <2>2, <2>4
    <2>5. QED
      BY <2>3, <2>4
  <1>15. Reserved'
    <2> SUFFICES ASSUME NEW u \in Threads, Initializing(u)'
                 PROVE  /\ session'[call'[u].session].auth = NoAuth
                        /\ call'[u].key \in Keys
                        /\ asked'[call'[u].session] # Unset =>
                              call'[u].key = asked'[call'[u].session]
      BY DEF Reserved
    <2>1. u # t /\ call'[u] = call[u] /\ Initializing(u)
      BY <1>13 DEF Initializing
    <2>2. call[u].session \in Sessions /\ call[u].session # s
      BY <1>12, <2>1
    <2>3. session'[call[u].session] # Gone
      BY <1>9, <1>11, <2>1, <2>2 DEF Live, Shape, Initializing
    <2>4. session'[call[u].session] = session[call[u].session]
      BY <1>1, <1>9, <2>2, <2>3
    <2>5. QED
      BY <1>10, <2>1, <2>2, <2>4 DEF Inv, Reserved
  <1>16. ConfigurationKept'
    BY <1>1, <1>9, <1>10 DEF Inv, ConfigurationKept
  <1>17. QED
    BY <1>9, <1>11, <1>14, <1>15, <1>16 DEF Inv

\* What is known between the requests of session_init.
LEMMA InitializingEffect ==
  ASSUME Inv, NEW t \in Threads, Initializing(t), NEW s, s = call[t].session
  PROVE  /\ s \in Sessions /\ session[s] \in Session /\ session[s] # Gone
         /\ session[s].auth = NoAuth /\ session[s].config = asked[s]
         /\ mutex[s] = t /\ asked[s] \in Keys \cup {Unset}
         /\ call[t].key \in Keys
         /\ asked[s] # Unset => call[t].key = asked[s]
  <1>1. s \in Sessions /\ session[s] # Gone
    BY DEF Inv, TypeOK, Call, Shape, Initializing, Live
  <1>2. /\ session[s].auth = NoAuth /\ call[t].key \in Keys
        /\ asked[s] # Unset => call[t].key = asked[s]
    BY DEF Inv, Reserved
  <1>3. mutex[s] = t
    BY <1>1 DEF Inv, MutexHeldByInit, Initializing
  <1>4. QED
    BY <1>1, <1>2, <1>3 DEF Inv, TypeOK, ConfigurationKept

\* Parameters are set before a session is initialized.
LEMMA SetParameterInv ==
  ASSUME Inv, NEW t \in Threads, SetParameter(t) PROVE Inv'
  <1>1. PICK s \in Sessions, k \in Keys : SetParameter(t)!(s, k)
    BY DEF SetParameter
  <1>2. /\ session[s] \in Session /\ session[s] # Gone
        /\ call[t].session = s /\ mutex[s] = NoThread
        /\ session[s].auth = NoAuth
    BY <1>1, FoundEffect DEF Uninitialized
  <1> DEFINE v == [session[s] EXCEPT !.config = k]
  <1>3. v \in Session /\ v.auth = NoAuth /\ v.config = k
    BY <1>2 DEF Session
  <1>4. [session EXCEPT ![s].config = k] = [session EXCEPT ![s] = v]
    OBVIOUS
  <1>5. /\ Settle(sessions, jobs, Returned(t), job, [session EXCEPT ![s] = v])
        /\ asked' = [asked EXCEPT ![s] = k]
        /\ UNCHANGED <<initialized, mutex, env>>
    BY <1>1, <1>4
  <1>6. mutex' = [mutex EXCEPT ![s] = NoThread]
    BY <1>2, <1>5 DEF Inv, TypeOK
  <1> HIDE DEF v
  <1>7. k \in Keys \cup {Unset} /\ mutex[s] \in {t, NoThread}
    BY <1>2
  <1>8. QED
    BY <1>2, <1>3, <1>5, <1>6, <1>7, OwnSessionInv

\* A failed session_init leaves the session as it was found.
LEMMA FailInitInv ==
  ASSUME Inv, NEW t \in Threads, FailInit(t) PROVE Inv'
  <1>1. PICK s : s = call[t].session
    OBVIOUS
  <1>2. Initializing(t)
    BY DEF FailInit, Initializing
  <1>3. /\ s \in Sessions /\ session[s] \in Session /\ session[s] # Gone
        /\ session[s].auth = NoAuth /\ session[s].config = asked[s]
        /\ mutex[s] = t /\ asked[s] \in Keys \cup {Unset}
    BY <1>1, <1>2, InitializingEffect
  <1>4. /\ [session EXCEPT ![s] = session[s]] = session
        /\ [asked EXCEPT ![s] = asked[s]] = asked
    BY <1>3 DEF Inv, TypeOK
  <1>5. /\ Settle(sessions, jobs, Returned(t), job, [session EXCEPT ![s] = session[s]])
        /\ mutex' = [mutex EXCEPT ![s] = NoThread]
        /\ asked' = [asked EXCEPT ![s] = asked[s]]
        /\ UNCHANGED <<initialized, env>>
    BY <1>1, <1>4 DEF FailInit, FailUnlock, Unlock
  <1>6. QED
    BY <1>1, <1>3, <1>5, OwnSessionInv

\* Configuration and Auth are committed together.
LEMMA FinishInitInv ==
  ASSUME Inv, NEW t \in Threads, FinishInit(t) PROVE Inv'
  <1>1. PICK s : s = call[t].session
    OBVIOUS
  <1>2. Initializing(t)
    BY DEF FinishInit, Initializing
  <1>3. /\ s \in Sessions /\ session[s] # Gone /\ session[s].auth = NoAuth
        /\ mutex[s] = t /\ asked[s] \in Keys \cup {Unset}
        /\ call[t].key \in Keys
        /\ asked[s] # Unset => call[t].key = asked[s]
    BY <1>1, <1>2, InitializingEffect
  <1> DEFINE a == [key |-> call[t].key, by |-> t]
             v == [config |-> call[t].key, auth |-> a]
  <1>4. /\ v \in Session /\ v.auth # NoAuth
        /\ v.config = v.auth.key
        /\ asked[s] # Unset => v.config = asked[s]
    BY <1>3, ConstantsAssumption DEF Session, Auths
  <1>5. [asked EXCEPT ![s] = asked[s]] = asked
    BY <1>3 DEF Inv, TypeOK
  <1>6. /\ Settle(sessions, jobs, Returned(t), job, [session EXCEPT ![s] = v])
        /\ mutex' = [mutex EXCEPT ![s] = NoThread]
        /\ asked' = [asked EXCEPT ![s] = asked[s]]
        /\ UNCHANGED <<initialized, env>>
    BY <1>1, <1>5 DEF FinishInit, Unlock
  <1> HIDE DEF v
  <1>7. QED
    BY <1>1, <1>3, <1>4, <1>6, OwnSessionInv

\* session_init is alone on the session, and resolves what is not set.
LEMMA StartInitInv ==
  ASSUME Inv, NEW t \in Threads, StartInit(t) PROVE Inv'
  <1>1. PICK s \in Sessions : StartInit(t)!(s)
    BY DEF StartInit
  <1>2. /\ session[s] \in Session /\ session[s] # Gone
        /\ call[t].session = s /\ call[t].job = NoJob /\ mutex[s] = NoThread
        /\ ~Initializing(t)
        /\ session[s].auth = NoAuth
    BY <1>1, FoundEffect DEF Uninitialized
  <1>3. /\ mutex' = [mutex EXCEPT ![s] = t]
        /\ call' = [call EXCEPT ![t].pc = "configuration",
                                ![t].key = Resolve(session[s].config)]
        /\ UNCHANGED <<initialized, sessions, jobs, session, job, env, asked>>
    BY <1>1 DEF Prepared
  <1>4. /\ Resolve(session[s].config) \in Keys
        /\ asked[s] # Unset => Resolve(session[s].config) = asked[s]
    BY <1>2 DEF Inv, TypeOK, Session, ConfigurationKept, Resolve
  <1>5. /\ call' \in [Threads -> Call]
        /\ call'[t].pc = "configuration" /\ call'[t].session = s
        /\ call'[t].job = NoJob
        /\ call'[t].key = Resolve(session[s].config)
        /\ \A u \in Threads : u # t => call'[u] = call[u]
    <2>1. call \in [Threads -> Call] /\ call[t] \in Call
      BY DEF Inv, TypeOK
    <2>2. \A k \in Keys : [call EXCEPT ![t].pc = "configuration", ![t].key = k]
                            \in [Threads -> Call]
      BY <2>1 DEF Call
    <2>3. call' \in [Threads -> Call]
      BY <1>3, <1>4, <2>2
    <2>4. /\ call'[t] = [call[t] EXCEPT !.pc = "configuration",
                                        !.key = Resolve(session[s].config)]
          /\ \A u \in Threads : u # t => call'[u] = call[u]
      BY <1>3, <2>1
    <2>5. QED
      BY <1>2, <2>1, <2>3, <2>4 DEF Call
  <1>6. TypeOK'
    BY <1>3, <1>5 DEF Inv, TypeOK
  <1>7. \A u \in Threads : Shape(call'[u])
    BY <1>5, ConstantsAssumption DEF Inv, Shape
  <1>8. Live(sessions, jobs, call', job, session)
    BY <1>2, <1>5, CallLive DEF Inv
  <1>9. \A u \in Threads : ~(Initializing(u) /\ call[u].session = s)
    BY <1>2, ConstantsAssumption DEF Inv, MutexHeldByInit, Initializing
  <1>10. MutexHeldByInit'
    <2> SUFFICES ASSUME NEW r \in Sessions, NEW u \in Threads
                 PROVE  mutex'[r] = u <=> call'[u].session = r /\ Initializing(u)'
      BY DEF MutexHeldByInit, Initializing
    <2>1. mutex[r] = u <=> call[u].session = r /\ Initializing(u)
      BY DEF Inv, MutexHeldByInit, Initializing
    <2>2. Initializing(u)' <=> u = t \/ Initializing(u)
      BY <1>5 DEF Initializing
    <2>3. mutex'[r] = IF r = s THEN t ELSE mutex[r]
      BY <1>3 DEF Inv, TypeOK
    <2>4. CASE r = s
      BY <1>5, <1>9, <2>2, <2>3, <2>4
    <2>5. CASE r # s
      BY <1>2, <1>5, <2>1, <2>2, <2>3, <2>5
    <2>6. QED
      BY <2>4, <2>5
  <1>11. Reserved'
    BY <1>2, <1>3, <1>4, <1>5 DEF Inv, Reserved, Initializing
  <1>12. ConfigurationKept'
    BY <1>3 DEF Inv, ConfigurationKept
  <1>13. QED
    BY <1>3, <1>6, <1>7, <1>8, <1>10, <1>11, <1>12 DEF Inv

\* The mutex is kept from one request to the next.
LEMMA ReceiveConfigurationInv ==
  ASSUME Inv, NEW t \in Threads, ReceiveConfiguration(t) PROVE Inv'
  <1>1. /\ call[t].pc = "configuration"
        /\ call' = [call EXCEPT ![t].pc = "properties"]
        /\ UNCHANGED <<initialized, sessions, jobs, session, job, mutex, env, asked>>
    BY DEF ReceiveConfiguration
  <1>2. /\ call' \in [Threads -> Call]
        /\ call'[t] = [call[t] EXCEPT !.pc = "properties"] /\ call[t] \in Call
        /\ \A u \in Threads : u # t => call'[u] = call[u]
    BY <1>1 DEF Inv, TypeOK, Call
  <1>3. /\ call'[t].pc = "properties" /\ call'[t].session = call[t].session
        /\ call'[t].job = call[t].job /\ call'[t].key = call[t].key
        /\ call'[t].auth = call[t].auth
    BY <1>2 DEF Call
  <1>4. \A u \in Threads : /\ call'[u].session = call[u].session
                           /\ call'[u].key = call[u].key
                           /\ Initializing(u)' <=> Initializing(u)
    BY <1>1, <1>2, <1>3 DEF Initializing
  <1>5. TypeOK' /\ \A u \in Threads : Shape(call'[u])
    BY <1>1, <1>2, <1>3 DEF Inv, TypeOK, Shape
  <1>6. Live(sessions, jobs, call', job, session)
    <2>1. /\ call[t].session # NoSession => session[call[t].session] # Gone
          /\ call[t].job # NoJob =>
                job[call[t].job] # Gone /\ job[call[t].job].auth = call[t].auth
      BY DEF Inv, Live
    <2>2. /\ call'[t].session # NoSession =>
                /\ session[call'[t].session] # Gone
                /\ call'[t].pc = "exchange" =>
                      session[call'[t].session].auth = call'[t].auth
          /\ call'[t].job # NoJob =>
                /\ job[call'[t].job] # Gone
                /\ job[call'[t].job].auth = call'[t].auth
      BY <1>3, <2>1
    <2>3. /\ Live(sessions, jobs, call, job, session)
          /\ \A u \in Threads : u # t => call'[u] = call[u]
      BY <1>2 DEF Inv
    <2>4. QED
      BY <2>2, <2>3, CallLive
  <1>7. MutexHeldByInit'
    BY <1>1, <1>4 DEF Inv, MutexHeldByInit, Initializing
  <1>8. Reserved' /\ ConfigurationKept'
    BY <1>1, <1>4 DEF Inv, Reserved, ConfigurationKept
  <1>9. QED
    BY <1>1, <1>5, <1>6, <1>7, <1>8 DEF Inv

-----------------------------------------------------------------------------
(* Every step *)

\* The invariant is inductive.
LEMMA NextInv == Inv /\ [Next]_vars => Inv'
  <1> SUFFICES ASSUME Inv, [Next]_vars PROVE Inv'
    OBVIOUS
  <1>1. CASE Initialize \/ Finalize \/ ChangeEnvironment \/ UNCHANGED vars
    BY <1>1, DeviceInv
  <1>2. CASE \E s \in Sessions : SessionAlloc(s)
    BY <1>2, SessionAllocInv
  <1>3. CASE (\E s \in Sessions : SessionFree(s)) \/ (\E j \in Jobs : JobFree(j))
    BY <1>3, FreeInv
  <1>4. ASSUME NEW t \in Threads, FindSession(t) \/ FindJob(t) \/ ThreadStep(t)
        PROVE  Inv'
    BY <1>4, FindInv, SetParameterInv, ReturnsInv, StartInitInv,
       ReceiveConfigurationInv, FinishInitInv, FailInitInv, StartExchangeInv
       DEF ThreadStep
  <1>5. QED
    BY <1>1, <1>2, <1>3, <1>4 DEF Next

\* So it holds throughout.
LEMMA InvAlways == Spec => []Inv
  BY InitInv, NextInv, PTL DEF Spec

-----------------------------------------------------------------------------
(* What follows *)

\* What the invariant says of objects, calls and mutexes together.
LEMMA LiveMeans == ASSUME Inv PROVE UsesLiveObjects
  <1>1. ASSUME NEW t \in Threads, call[t].pc = "exchange"
        PROVE  /\ session[UsedBy(t)] # Gone
               /\ session[UsedBy(t)].auth = call[t].auth
    <2>1. call[t] \in Call /\ Shape(call[t])
      BY DEF Inv, TypeOK
    <2>2. CASE call[t].session # NoSession
      BY <1>1, <2>2 DEF UsedBy, Inv, Live
    <2>3. CASE call[t].session = NoSession
      <3>1. /\ call[t].job \in Jobs /\ job[call[t].job] # Gone
            /\ job[call[t].job].auth = call[t].auth
        BY <1>1, <2>1, <2>3 DEF Shape, Call, Inv, Live
      <3>2. QED
        BY <2>3, <3>1 DEF UsedBy, Inv, Live
    <2>4. QED
      BY <2>2, <2>3
  <1>2. ASSUME NEW s \in Sessions, mutex[s] # NoThread PROVE session[s] # Gone
    <2>1. mutex[s] \in Threads
      BY <1>2 DEF Inv, TypeOK
    <2>2. call[mutex[s]].session = s
      BY <2>1 DEF Inv, MutexHeldByInit
    <2>3. QED
      BY <2>1, <2>2, ConstantsAssumption DEF Inv, Live
  <1>3. QED
    BY <1>1, <1>2 DEF UsesLiveObjects, Inv, Live

(***************************************************************************)
(* "A job retains its session resources": whatever handles are freed       *)
(* meanwhile, what a job, a call, a mutex or the registry refers to        *)
(* exists, and the Auth used in an exchange is the one of a live session.  *)
(***************************************************************************)
THEOREM LiveObjectsUsed == Spec => []UsesLiveObjects
  BY LiveMeans, InvAlways, PTL

(***************************************************************************)
(* The mutex of a session is held exactly by the thread between the        *)
(* requests of session_init: never left behind by a failed exchange, and   *)
(* never by two threads that initialize one session.                       *)
(***************************************************************************)
THEOREM MutexIsHeldByInit == Spec => []MutexHeldByInit
  <1>1. Inv => MutexHeldByInit
    BY DEF Inv
  <1>2. QED
    BY <1>1, InvAlways, PTL

(***************************************************************************)
(* An initialized session works with what the client configured, and a     *)
(* failed session_init leaves the configuration as it was.                 *)
(***************************************************************************)
THEOREM ConfigurationIsKept == Spec => []ConfigurationKept
  <1>1. Inv => ConfigurationKept
    BY DEF Inv
  <1>2. QED
    BY <1>1, InvAlways, PTL

\* Only session_init sets the Auth of a session, and only if it has none.
LEMMA AuthStep ==
  ASSUME Inv, [Next]_vars, NEW s \in Sessions, session[s] # Gone,
         session'[s] # Gone, session[s].auth # NoAuth
  PROVE  session'[s].auth = session[s].auth
  <1>1. ASSUME NEW S, NEW J, NEW c, NEW jb, Settle(S, J, c, jb, session)
        PROVE  session'[s] = session[s]
    BY <1>1 DEF Settle
  <1>2. CASE \/ Initialize \/ Finalize \/ ChangeEnvironment \/ UNCHANGED vars
             \/ \E t \in Threads : \/ FindSession(t) \/ FindJob(t) \/ StartInit(t)
                                   \/ ReceiveConfiguration(t) \/ StartStatus(t)
                                   \/ StartRetrieve(t)
    <2>1. UNCHANGED session
      BY <1>2 DEF Initialize, Finalize, ChangeEnvironment, vars, FindSession,
         FindJob, StartInit, Prepared, ReceiveConfiguration, StartStatus,
         StartRetrieve
    <2>2. QED
      BY <2>1
  <1>3. CASE \E r \in Sessions : SessionAlloc(r)
    BY <1>3 DEF SessionAlloc, Inv, TypeOK
  <1>4. CASE \/ \E r \in Sessions : SessionFree(r)
             \/ \E j \in Jobs : JobFree(j)
             \/ \E t \in Threads : \/ Refused(t) \/ FailInit(t) \/ CreateJob(t)
                                   \/ FinishRetrieve(t) \/ EndExchange(t)
    BY <1>1, <1>4 DEF SessionFree, JobFree, Refused, FailInit, CreateJob,
                      FinishRetrieve, EndExchange
  <1>5. ASSUME NEW t \in Threads, SetParameter(t) PROVE session'[s] = session[s]
    <2>1. PICK r \in Sessions, k \in Keys : SetParameter(t)!(r, k)
      BY <1>5 DEF SetParameter
    <2>2. r # s
      BY <2>1 DEF Uninitialized
    <2>3. session'[s] \in {[session EXCEPT ![r].config = k][s], Gone}
      BY <2>1 DEF Settle
    <2>4. QED
      BY <2>2, <2>3 DEF Inv, TypeOK
  <1>6. ASSUME NEW t \in Threads, FinishInit(t) PROVE session'[s] = session[s]
    <2> DEFINE r == call[t].session
               v == [config |-> call[t].key, auth |-> [key |-> call[t].key, by |-> t]]
    <2>1. r # s
      BY <1>6, InitializingEffect DEF FinishInit, Initializing
    <2>2. Settle(sessions, jobs, Returned(t), job, [session EXCEPT ![r] = v])
      BY <1>6 DEF FinishInit
    <2>3. session'[s] \in {[session EXCEPT ![r] = v][s], Gone}
      BY <2>2 DEF Settle
    <2>4. QED
      BY <2>1, <2>3 DEF Inv, TypeOK
  <1>7. QED
    BY <1>2, <1>3, <1>4, <1>5, <1>6 DEF Next, ThreadStep

(***************************************************************************)
(* Jobs and status queries keep raw pointers to the Auth of a session: it  *)
(* is not replaced while the session exists.                               *)
(***************************************************************************)
THEOREM AuthIsNeverReplaced == Spec => AuthNeverReplaced
  <1>1. Inv /\ [Next]_vars =>
           [\A s \in Sessions :
               session[s] # Gone /\ session'[s] # Gone /\ session[s].auth # NoAuth
                  => session'[s].auth = session[s].auth]_vars
    BY AuthStep
  <1>2. QED
    BY <1>1, InvAlways, PTL DEF Spec, AuthNeverReplaced
=============================================================================
