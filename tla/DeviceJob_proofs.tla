-------------------------- MODULE DeviceJob_proofs --------------------------
(***************************************************************************)
(* Proofs about DeviceJob, for any number of threads, handles, identifiers *)
(* and program lists.                                                      *)
(*                                                                         *)
(* Exchanges are serialized and no program is submitted twice: this needs  *)
(* only where each call is (Serialized, Locking).  That the handles agree  *)
(* with the service is more: what they show is what runs, what they report *)
(* is true, what they cache is theirs, and what they call terminal is      *)
(* final hold together or not at all.  A status is true because the answer *)
(* it came from was, the answer because the mutex was held from the        *)
(* request on, and so forth.  The inductive invariant Agreement says what  *)
(* every request, answer, call, handle and remote job carries.  From it    *)
(* follows that DeviceJob implements JobContract.                          *)
(***************************************************************************)
EXTENDS DeviceJob, TLAPS

Inv == TypeOK /\ Serialized
Locking == OnHandle /\ HolderIsInExchange

-----------------------------------------------------------------------------
(* Types of the values the actions build *)

\* A fresh job is a job.
LEMMA FreshJobType == FreshJob \in Job
  BY DEF FreshJob, Job, Statuses

\* No answer is a reply.
LEMMA SilenceType == Silence \in Reply
  BY DEF Silence, Reply, Statuses

\* Giving submissions up leaves submissions.
LEMMA AbandonSubmission ==
  ASSUME NEW S \in SUBSET Submission, NEW t \in Threads
  PROVE  Abandon(S, t) \in SUBSET Submission
  BY DEF Abandon, Submission

\* Giving cancellations up leaves cancellations.
LEMMA AbandonCancellation ==
  ASSUME NEW S \in SUBSET Cancellation, NEW t \in Threads
  PROVE  Abandon(S, t) \in SUBSET Cancellation
  BY DEF Abandon, Cancellation

\* An answer that is not "again" or "fetch" is a result a call may return.
LEMMA VerdictType ==
  ASSUME NEW o \in Polling \cup {"cancel"}, NEW j \in Job,
         Verdict(o, j) \notin {"again", "fetch"}
  PROVE  Verdict(o, j) \in Results
  <1>1. j.status \in Statuses
    BY DEF Job
  <1>2. CASE o = "check"
    BY <1>1, <1>2 DEF Verdict, Results
  <1>3. CASE o \in Waits
    BY <1>3 DEF Verdict, Results, Waits
  <1>4. CASE o = "cancel"
    BY <1>4 DEF Verdict, Results, Waits
  <1>5. CASE o = "results"
    BY <1>5 DEF Verdict, Results, Waits
  <1>6. QED
    BY <1>2, <1>3, <1>4, <1>5 DEF Polling

\* Returning ends the call of one thread and leaves the others alone.
LEMMA ReturnEffect ==
  ASSUME TypeOK, NEW t \in Threads, NEW r \in Results, Return(t, r)
  PROVE  /\ call' \in [Threads -> Call]
         /\ call'[t].pc = "idle"
         /\ \A u \in Threads : u # t => call'[u] = call[u]
  BY DEF TypeOK, Return, Call, Steps

\* Moving to another step does the same to the step only.
LEMMA MoveEffect ==
  ASSUME TypeOK, NEW t \in Threads, NEW pc \in Steps,
         call' = [call EXCEPT ![t].pc = pc]
  PROVE  /\ call' \in [Threads -> Call]
         /\ call'[t].pc = pc
         /\ call'[t].on = call[t].on
         /\ call'[t].op = call[t].op
         /\ \A u \in Threads : u # t => call'[u] = call[u]
  BY DEF TypeOK, Call

\* Consuming and giving an answer.
LEMMA ConsumeEffect ==
  ASSUME TypeOK, NEW t \in Threads, Consume(t)
  PROVE  /\ reply' \in [Threads -> Reply]
         /\ reply'[t] = Silence
         /\ \A u \in Threads : u # t => reply'[u] = reply[u]
  BY SilenceType DEF TypeOK, Consume

-----------------------------------------------------------------------------
\* The initial states have the invariant.
LEMMA InitInv == Init => Inv
  <1> SUFFICES ASSUME Init PROVE Inv
    OBVIOUS
  <1>1. TypeOK
    <2>1. call \in [Threads -> Call]
      BY DEF Init, Call, Ops, HandleOps, Polling, Steps, Results
    <2>2. remote \in [Ids -> RemoteJob]
      BY DEF Init, RemoteJob
    <2>3. QED
      BY <2>1, <2>2, ConstantsAssumption, FreshJobType, SilenceType
         DEF Init, TypeOK
  <1>2. Serialized
    BY DEF Init, Serialized, OnHandle, HolderIsInExchange, AsksAboutNamedJobs,
           AnswersNameJobs, StatusNeedsId, Exchanges, FreshJob, Silence
  <1>3. QED
    BY <1>1, <1>2 DEF Inv

-----------------------------------------------------------------------------
(* Steps of the client that take no answer *)

\* Publishing a fresh job.
LEMMA CreateInv == ASSUME Inv, NEW h \in Handles, Create(h) PROVE Inv'
  BY DEF Inv, TypeOK, Serialized, OnHandle, HolderIsInExchange,
         AsksAboutNamedJobs, AnswersNameJobs, StatusNeedsId, Create, service

\* Starting a call: no exchange is entered except on an unpublished handle.
LEMMA StartInv ==
  ASSUME Inv, NEW t \in Threads, Begin(t) \/ BeginRetrieve(t)
  PROVE  Inv'
  <1>1. CASE Begin(t)
    <2>1. PICK o \in HandleOps, h \in registered : Begin(t)!(o, h)
      BY <1>1 DEF Begin
    <2>2. [op |-> o, on |-> h, pc |-> "lock", result |-> "none"] \in Call
      BY <2>1 DEF Inv, TypeOK, Call, Ops, Steps, Results
    <2>3. TypeOK'
      BY <2>1, <2>2 DEF Inv, TypeOK, StartCall, service
    <2>4. Serialized'
      BY <2>1, <2>2 DEF Inv, TypeOK, Serialized, OnHandle, HolderIsInExchange,
         AsksAboutNamedJobs, AnswersNameJobs, StatusNeedsId, Exchanges,
         StartCall, service
    <2>5. QED
      BY <2>3, <2>4 DEF Inv
  <1>2. CASE BeginRetrieve(t)
    <2>1. PICK h \in Handles \ registered : BeginRetrieve(t)!(h)
      BY <1>2 DEF BeginRetrieve
    <2>2. [op |-> "retrieve", on |-> h, pc |-> "retrieve", result |-> "none"]
             \in Call
      BY DEF Call, Ops, Steps, Results, Exchanges
    <2>3. TypeOK'
      BY <2>1, <2>2 DEF Inv, TypeOK, StartCall, service
    <2>4. Serialized'
      BY <2>1, <2>2, ConstantsAssumption
         DEF Inv, TypeOK, Serialized, OnHandle, HolderIsInExchange,
         AsksAboutNamedJobs, AnswersNameJobs, StatusNeedsId, Exchanges,
         StartCall, service
    <2>5. QED
      BY <2>3, <2>4 DEF Inv
  <1>3. QED
    BY <1>1, <1>2

\* A configuration changes no status and no id, and needs a free mutex.
LEMMA ConfigureInv == ASSUME Inv, NEW t \in Threads, Configure(t) PROVE Inv'
  <1>1. PICK h \in Handles, p \in Programs : Configure(t)!(h, p)
    BY DEF Configure
  <1>2. /\ job' \in [Handles -> Job]
        /\ \A g \in Handles : /\ job'[g].id = job[g].id
                              /\ job'[g].status = job[g].status
    BY <1>1 DEF Inv, TypeOK, Job
  <1>3. "OK" \in Results
    BY DEF Results
  <1>4. /\ call' \in [Threads -> Call]
        /\ call'[t].pc = "idle"
        /\ \A u \in Threads : u # t => call'[u] = call[u]
    BY <1>1, <1>3, ReturnEffect DEF Inv
  <1>5. TypeOK'
    BY <1>1, <1>2, <1>4 DEF Inv, TypeOK, service
  <1>6. Serialized'
    BY <1>1, <1>2, <1>4 DEF Inv, TypeOK, Serialized, OnHandle, Exchanges,
       HolderIsInExchange, AsksAboutNamedJobs, AnswersNameJobs, StatusNeedsId,
       service
  <1>7. QED
    BY <1>5, <1>6 DEF Inv


-----------------------------------------------------------------------------
(* Steps of the client into an exchange *)

\* Entering an exchange: the mutex was free and is the thread's afterwards.
LEMMA EnterEffect ==
  ASSUME Inv, NEW t \in Threads, NEW h \in Handles, NEW x \in Exchanges,
         AtLock(t, h), Enter(t, h, x)
  PROVE  /\ call' \in [Threads -> Call]
         /\ call'[t].pc = x
         /\ call'[t].on = h
         /\ call'[t].op = call[t].op
         /\ \A u \in Threads : u # t => call'[u] = call[u]
         /\ mutex' \in [Handles -> Threads \cup {NoThread}]
         /\ mutex'[h] = t
         /\ \A g \in Handles : g # h => mutex'[g] = mutex[g]
         /\ \A u \in Threads : u # t /\ call[u].pc \in Exchanges =>
                                  call[u].on # h
  <1>1. x \in Steps
    BY DEF Steps
  <1>2. \A u \in Threads : u # t /\ call[u].pc \in Exchanges => call[u].on # h
    BY ConstantsAssumption DEF Inv, Serialized, HolderIsInExchange, AtLock
  <1>3. QED
    BY <1>1, <1>2, MoveEffect DEF Inv, TypeOK, AtLock, Enter

\* An exchange is entered by the new holder of the mutex.
LEMMA EnterKeepsLocking ==
  ASSUME Inv, NEW t \in Threads, NEW h \in Handles, NEW x \in Exchanges,
         AtLock(t, h), Enter(t, h, x)
  PROVE  Locking'
  <1>1. OnHandle'
    BY EnterEffect DEF Inv, Serialized, OnHandle
  <1>2. HolderIsInExchange'
    <2> SUFFICES ASSUME NEW u \in Threads, call'[u].pc \in Exchanges
                 PROVE  mutex'[call'[u].on] = u
      BY DEF HolderIsInExchange
    <2>1. CASE u = t
      BY <2>1, EnterEffect
    <2>2. CASE u # t
      <3>1. /\ call'[u] = call[u]
            /\ call[u].on # h
        BY <2>2, EnterEffect
      <3>2. /\ call[u].on \in Handles
            /\ mutex[call[u].on] = u
        BY <3>1 DEF Inv, Serialized, OnHandle, HolderIsInExchange, Exchanges
      <3>3. QED
        BY <3>1, <3>2, EnterEffect
    <2>3. QED
      BY <2>1, <2>2
  <1>3. QED
    BY <1>1, <1>2 DEF Locking

\* Sending the submission.
LEMMA SubmitInv == ASSUME Inv, NEW t \in Threads, Submit(t) PROVE Inv'
  <1>1. PICK h \in Handles : Submit(t)!(h)
    BY DEF Submit
  <1>2. /\ job' \in [Handles -> Job]
        /\ \A g \in Handles : job'[g].id = job[g].id
        /\ \A g \in Handles : g # h => job'[g] = job[g]
        /\ job'[h].status = "FAILED"
    BY <1>1 DEF Inv, TypeOK, Job, Attempt, Statuses, Terminal
  <1>3. [from |-> t, on |-> h, programs |-> job[h].programs] \in Submission
    BY <1>1 DEF Inv, TypeOK, Job, Submission, Submittable
  <1>4. "submit" \in Exchanges
    BY DEF Exchanges
  <1>5. TypeOK'
    BY <1>1, <1>2, <1>3, <1>4, EnterEffect DEF Inv, TypeOK
  <1>6. Locking'
    BY <1>1, <1>4, EnterKeepsLocking
  <1>7. AsksAboutNamedJobs'
    BY <1>1, <1>2, <1>4, EnterEffect DEF Inv, Serialized, OnHandle, Exchanges,
       AsksAboutNamedJobs
  <1>8. AnswersNameJobs' /\ StatusNeedsId'
    BY <1>1, <1>2 DEF Inv, Serialized, AnswersNameJobs, StatusNeedsId
  <1>9. QED
    BY <1>5, <1>6, <1>7, <1>8 DEF Inv, Serialized, Locking

\* Asking the service about the job of a handle that has an id.
LEMMA AskInv ==
  ASSUME Inv, NEW t \in Threads, StartCancel(t) \/ StartPoll(t) \/ StartFetch(t)
  PROVE  Inv'
  <1>1. PICK h \in Handles, x \in Exchanges :
           /\ AtLock(t, h)
           /\ job[h].id \in Ids
           /\ call[t].op \in Polling \cup {"cancel"}
           /\ Enter(t, h, x)
           /\ UNCHANGED <<registered, job, expired, left, reply, submits, remote>>
           /\ cancels' \in SUBSET Cancellation
    <2>1. CASE StartCancel(t)
      <3>1. PICK h \in Handles : StartCancel(t)!(h)
        BY <2>1 DEF StartCancel
      <3>2. job[h].id \in Ids
        BY <3>1 DEF Inv, TypeOK, Job, NeedsPoll
      <3>3. cancels' \in SUBSET Cancellation
        BY <3>1, <3>2 DEF Inv, TypeOK, Cancellation
      <3>4. "cancel" \in Exchanges
        BY DEF Exchanges
      <3>5. QED
        BY <3>1, <3>2, <3>3, <3>4
    <2>2. CASE StartPoll(t)
      <3>1. PICK h \in Handles : StartPoll(t)!(h)
        BY <2>2 DEF StartPoll
      <3>2. job[h].id \in Ids
        BY <3>1 DEF Inv, TypeOK, Job, NeedsPoll
      <3>3. "poll" \in Exchanges
        BY DEF Exchanges
      <3>4. QED
        BY <3>1, <3>2, <3>3 DEF Inv, TypeOK, service
    <2>3. CASE StartFetch(t)
      <3>1. PICK h \in Handles : StartFetch(t)!(h)
        BY <2>3 DEF StartFetch
      <3>2. job[h].status = "DONE"
        BY <3>1 DEF Verdict, Waits
      <3>3. job[h].id \in Ids
        BY <3>2 DEF Inv, Serialized, StatusNeedsId
      <3>4. "fetch" \in Exchanges
        BY DEF Exchanges
      <3>5. QED
        BY <3>1, <3>3, <3>4 DEF Inv, TypeOK, service, Polling
    <2>4. QED
      BY <2>1, <2>2, <2>3
  <1>2. TypeOK'
    BY <1>1, EnterEffect DEF Inv, TypeOK
  <1>3. Locking'
    BY <1>1, EnterKeepsLocking
  <1>4. AsksAboutNamedJobs'
    BY <1>1, EnterEffect DEF Inv, Serialized, OnHandle, AsksAboutNamedJobs
  <1>5. AnswersNameJobs' /\ StatusNeedsId'
    BY <1>1 DEF Inv, Serialized, AnswersNameJobs, StatusNeedsId
  <1>6. QED
    BY <1>2, <1>3, <1>4, <1>5 DEF Inv, Serialized, Locking

\* Answering without an exchange, and the steps of job_wait between polls.
LEMMA QuietInv ==
  ASSUME Inv, NEW t \in Threads,
         AnswerLocally(t) \/ Wake(t) \/ TimeOut(t) \/ Expire(t)
  PROVE  Inv'
  <1>1. /\ UNCHANGED <<registered, job, mutex, left, reply, submits, cancels, remote>>
        /\ expired' \in [Threads -> BOOLEAN]
        /\ call' \in [Threads -> Call]
        /\ \A u \in Threads : u # t => call'[u] = call[u]
        /\ call'[t] = call[t] \/ call'[t].pc = "idle"
             \/ (call[t].pc = "sleep" /\ call'[t].pc = "lock"
                                     /\ call'[t].on = call[t].on)
    <2>1. CASE AnswerLocally(t)
      <3>1. PICK h \in Handles, r \in Results : AnswerLocally(t)!(h, r)
        BY <2>1 DEF AnswerLocally
      <3>2. QED
        BY <3>1, ReturnEffect DEF Inv, TypeOK, service
    <2>2. CASE Wake(t)
      <3>1. "lock" \in Steps
        BY DEF Steps
      <3>2. QED
        BY <2>2, <3>1, MoveEffect DEF Inv, TypeOK, Wake, service
    <2>3. CASE TimeOut(t)
      <3>1. "TIMEOUT" \in Results
        BY DEF Results
      <3>2. QED
        BY <2>3, <3>1, ReturnEffect DEF Inv, TypeOK, TimeOut, service
    <2>4. CASE Expire(t)
      BY <2>4 DEF Inv, TypeOK, Expire, service
    <2>5. QED
      BY <2>1, <2>2, <2>3, <2>4
  <1>2. TypeOK'
    BY <1>1 DEF Inv, TypeOK
  <1>3. Serialized'
    BY <1>1 DEF Inv, TypeOK, Serialized, OnHandle, Exchanges,
       HolderIsInExchange, AsksAboutNamedJobs, AnswersNameJobs, StatusNeedsId
  <1>4. QED
    BY <1>2, <1>3 DEF Inv


-----------------------------------------------------------------------------
(* Steps that end an exchange *)

\* A thread inside an exchange is the only one on its handle.
LEMMA Alone ==
  ASSUME Inv, NEW t \in Threads, call[t].pc \in Exchanges
  PROVE  /\ call[t].on \in Handles
         /\ mutex[call[t].on] = t
         /\ \A u \in Threads : u # t /\ call[u].pc \in Exchanges =>
                                  call[u].on # call[t].on
  BY DEF Inv, Serialized, OnHandle, HolderIsInExchange, Exchanges

\* Leaving the exchange and the mutex of the handle together.
LEMMA LeaveEffect ==
  ASSUME Inv, NEW t \in Threads, call[t].pc \in Exchanges,
         Release(call[t].on),
         call' \in [Threads -> Call],
         call'[t].pc \in {"idle", "sleep"},
         call'[t].on = call[t].on,
         \A u \in Threads : u # t => call'[u] = call[u]
  PROVE  /\ mutex' \in [Handles -> Threads \cup {NoThread}]
         /\ Locking'
  <1>1. mutex' \in [Handles -> Threads \cup {NoThread}]
    BY DEF Inv, TypeOK, Release
  <1>2. OnHandle'
    BY Alone DEF Inv, Serialized, OnHandle
  <1>3. HolderIsInExchange'
    <2> SUFFICES ASSUME NEW u \in Threads, call'[u].pc \in Exchanges
                 PROVE  mutex'[call'[u].on] = u
      BY DEF HolderIsInExchange
    <2>1. u # t /\ call'[u] = call[u]
      BY DEF Exchanges
    <2>2. /\ call[u].on \in Handles
          /\ call[u].on # call[t].on
          /\ mutex[call[u].on] = u
      BY <2>1, Alone
    <2>3. QED
      BY <2>1, <2>2 DEF Inv, TypeOK, Release
  <1>4. QED
    BY <1>1, <1>2, <1>3 DEF Locking

\* A step that leaves the exchange and changes at most its own handle's job.
LEMMA LeaveInv ==
  ASSUME Inv, NEW t \in Threads, call[t].pc \in Exchanges,
         Release(call[t].on), Consume(t),
         call' \in [Threads -> Call],
         call'[t].pc \in {"idle", "sleep"},
         call'[t].on = call[t].on,
         \A u \in Threads : u # t => call'[u] = call[u],
         job' \in [Handles -> Job],
         \A g \in Handles : g # call[t].on => job'[g] = job[g],
         job'[call[t].on].status \notin {"CREATED", "FAILED"} =>
            job'[call[t].on].id \in Ids,
         registered' \in SUBSET Handles,
         submits' \in SUBSET Submission, cancels' \in SUBSET Cancellation,
         UNCHANGED <<expired, left, remote>>
  PROVE  Inv'
  <1>1. TypeOK'
    BY LeaveEffect, ConsumeEffect DEF Inv, TypeOK
  <1>2. Locking'
    BY LeaveEffect
  <1>3. AsksAboutNamedJobs'
    <2> SUFFICES ASSUME NEW u \in Threads, call'[u].pc \in {"cancel", "poll", "fetch"}
                 PROVE  /\ job'[call'[u].on].id \in Ids
                        /\ call'[u].op \in Polling \cup {"cancel"}
      BY DEF AsksAboutNamedJobs
    <2>1. u # t /\ call'[u] = call[u]
      OBVIOUS
    <2>2. call[u].on \in Handles /\ call[u].on # call[t].on
      BY <2>1, Alone DEF Exchanges
    <2>3. QED
      BY <2>1, <2>2 DEF Inv, Serialized, AsksAboutNamedJobs
  <1>4. AnswersNameJobs'
    BY ConsumeEffect DEF Inv, Serialized, AnswersNameJobs, Silence
  <1>5. StatusNeedsId'
    BY DEF Inv, Serialized, StatusNeedsId
  <1>6. QED
    BY <1>1, <1>2, <1>3, <1>4, <1>5 DEF Inv, Serialized, Locking

\* Returning leaves the handle of the call in place.
LEMMA ReturnKeepsHandle ==
  ASSUME TypeOK, NEW t \in Threads, NEW r \in Results, Return(t, r)
  PROVE  call'[t].on = call[t].on
  BY DEF TypeOK, Return, Call

\* The answers to a submission.
LEMMA ReceiveSubmittedInv ==
  ASSUME Inv, NEW t \in Threads, ReceiveSubmitted(t) PROVE Inv'
  <1> DEFINE h == call[t].on
  <1>1. /\ call[t].pc \in Exchanges
        /\ h \in Handles
        /\ Release(h) /\ Consume(t)
        /\ UNCHANGED <<registered, expired, left, submits, cancels, remote>>
    BY Alone DEF ReceiveSubmitted, Exchanges, service
  <1>2. reply[t].id \in Ids
    BY DEF ReceiveSubmitted, Answered, Inv, Serialized, AnswersNameJobs
  <1>3. PICK r \in Results : Return(t, r)
    BY DEF ReceiveSubmitted, Results
  <1>4. PICK j \in Job : j.id \in Ids /\ job' = [job EXCEPT ![h] = j]
    <2>1. job[h] \in Job
      BY <1>1 DEF Inv, TypeOK
    <2>2. CASE Answered(t, "created")
      <3>1. [job[h] EXCEPT !.id = reply[t].id, !.status = "SUBMITTED"] \in Job
        BY <1>2, <2>1 DEF Job, Statuses, Active
      <3>2. QED
        BY <1>1, <1>2, <2>1, <2>2, <3>1
           DEF ReceiveSubmitted, Answered, Inv, TypeOK, Job
    <2>3. CASE Answered(t, "foreign")
      <3>1. [job[h] EXCEPT !.id = reply[t].id] \in Job
        BY <1>2, <2>1 DEF Job
      <3>2. QED
        BY <1>1, <1>2, <2>1, <2>3, <3>1
           DEF ReceiveSubmitted, Answered, Inv, TypeOK, Job
    <2>4. QED
      BY <2>2, <2>3 DEF ReceiveSubmitted
  <1>5. /\ job' \in [Handles -> Job]
        /\ \A g \in Handles : g # h => job'[g] = job[g]
        /\ job'[h].id \in Ids
    BY <1>1, <1>4 DEF Inv, TypeOK
  <1>6. QED
    BY <1>1, <1>3, <1>5, ReturnEffect, ReturnKeepsHandle, LeaveInv DEF Inv, TypeOK

\* The results, or the answer that there are none yet.
LEMMA ReceiveResultsInv ==
  ASSUME Inv, NEW t \in Threads, ReceiveResults(t) PROVE Inv'
  <1> DEFINE h == call[t].on
  <1>1. /\ call[t].pc \in Exchanges
        /\ h \in Handles
        /\ Release(h) /\ Consume(t)
        /\ UNCHANGED <<registered, expired, left, submits, cancels, remote>>
    BY Alone DEF ReceiveResults, Exchanges, service
  <1>2. PICK r \in Results : Return(t, r)
    BY DEF ReceiveResults, Results
  <1>3. /\ job[h] \in Job
        /\ job[h].id \in Ids
        /\ reply[t].programs \in Programs \cup {NoProgram}
    BY <1>1 DEF Inv, TypeOK, Serialized, AsksAboutNamedJobs, ReceiveResults, Reply
  <1>4. \/ job' = [job EXCEPT ![h] = [job[h] EXCEPT !.cached = reply[t].programs]]
        \/ UNCHANGED job
    BY <1>1 DEF ReceiveResults, Inv, TypeOK, Job
  <1>5. /\ job' \in [Handles -> Job]
        /\ \A g \in Handles : g # h => job'[g] = job[g]
        /\ job'[h].id \in Ids
    BY <1>1, <1>3, <1>4 DEF Inv, TypeOK, Job
  <1>6. QED
    BY <1>1, <1>2, <1>5, ReturnEffect, ReturnKeepsHandle, LeaveInv DEF Inv, TypeOK

\* A step from one exchange to the next, with the mutex still held.
LEMMA StayInv ==
  ASSUME Inv, NEW t \in Threads, call[t].pc \in Exchanges, Consume(t),
         call[t].op \in Polling \cup {"cancel"},
         NEW x \in {"poll", "fetch"}, call' = [call EXCEPT ![t].pc = x],
         job' \in [Handles -> Job],
         \A g \in Handles : g # call[t].on => job'[g] = job[g],
         job'[call[t].on].id \in Ids,
         UNCHANGED <<registered, mutex, expired, left, submits, cancels, remote>>
  PROVE  Inv'
  <1>1. x \in Steps /\ x \in Exchanges
    BY DEF Steps, Exchanges
  <1>2. TypeOK'
    BY <1>1, MoveEffect, ConsumeEffect DEF Inv, TypeOK
  <1>3. Locking'
    BY <1>1, MoveEffect, Alone
       DEF Inv, Serialized, Locking, OnHandle, HolderIsInExchange
  <1>4. AsksAboutNamedJobs'
    <2> SUFFICES ASSUME NEW u \in Threads, call'[u].pc \in {"cancel", "poll", "fetch"}
                 PROVE  /\ job'[call'[u].on].id \in Ids
                        /\ call'[u].op \in Polling \cup {"cancel"}
      BY DEF AsksAboutNamedJobs
    <2>1. CASE u = t
      BY <1>1, <2>1, MoveEffect DEF Inv
    <2>2. CASE u # t
      <3>1. call'[u] = call[u]
        BY <1>1, <2>2, MoveEffect DEF Inv
      <3>2. call[u].on \in Handles /\ call[u].on # call[t].on
        BY <2>2, <3>1, Alone DEF Exchanges
      <3>3. QED
        BY <3>1, <3>2 DEF Inv, Serialized, AsksAboutNamedJobs
    <2>3. QED
      BY <2>1, <2>2
  <1>5. AnswersNameJobs' /\ StatusNeedsId'
    BY ConsumeEffect DEF Inv, Serialized, AnswersNameJobs, StatusNeedsId, Silence
  <1>6. QED
    BY <1>2, <1>3, <1>4, <1>5 DEF Inv, Serialized, Locking

\* The answers to a cancellation.
LEMMA ReceiveCancelInv ==
  ASSUME Inv, NEW t \in Threads, ReceiveCancel(t) PROVE Inv'
  <1> DEFINE h == call[t].on
  <1>1. /\ call[t].pc \in Exchanges
        /\ h \in Handles
        /\ Consume(t)
        /\ UNCHANGED <<registered, expired, left, submits, cancels, remote>>
    BY Alone DEF ReceiveCancel, Exchanges, service
  <1>2. /\ job[h] \in Job
        /\ job[h].id \in Ids
        /\ call[t].op \in Polling \cup {"cancel"}
    BY <1>1 DEF Inv, TypeOK, Serialized, AsksAboutNamedJobs, ReceiveCancel
  <1>3. CASE Answered(t, "canceled")
    <2>1. [job[h] EXCEPT !.status = "CANCELED"] \in Job
      BY <1>2 DEF Job, Statuses, Terminal
    <2>2. /\ job' = [job EXCEPT ![h] = [job[h] EXCEPT !.status = "CANCELED"]]
          /\ Return(t, "OK") /\ Release(h)
      BY <1>1, <1>2, <1>3 DEF ReceiveCancel, Answered, Inv, TypeOK, Job
    <2>3. /\ job' \in [Handles -> Job]
          /\ \A g \in Handles : g # h => job'[g] = job[g]
          /\ job'[h].id \in Ids
      BY <1>1, <1>2, <2>1, <2>2 DEF Inv, TypeOK, Job
    <2>4. "OK" \in Results
      BY DEF Results
    <2>5. QED
      BY <1>1, <2>2, <2>3, <2>4, ReturnEffect, ReturnKeepsHandle, LeaveInv
         DEF Inv, TypeOK
  <1>4. CASE Answered(t, "conflict")
    <2>1. call' = [call EXCEPT ![t].pc = "poll"] /\ UNCHANGED <<job, mutex>>
      BY <1>4 DEF ReceiveCancel, Answered
    <2>2. QED
      BY <1>1, <1>2, <2>1, StayInv DEF Inv, TypeOK
  <1>5. QED
    BY <1>3, <1>4 DEF ReceiveCancel

\* The answer to a poll.
LEMMA ReceivePollInv ==
  ASSUME Inv, NEW t \in Threads, ReceivePoll(t) PROVE Inv'
  <1> DEFINE h == call[t].on
             j == [job[h] EXCEPT !.status = reply[t].status]
             v == Verdict(call[t].op, j)
  <1>1. /\ call[t].pc \in Exchanges
        /\ h \in Handles
        /\ Consume(t)
        /\ UNCHANGED <<registered, expired, left, submits, cancels, remote>>
        /\ job' = [job EXCEPT ![h] = j]
    BY Alone DEF ReceivePoll, Exchanges, service
  <1>2. /\ job[h] \in Job
        /\ job[h].id \in Ids
        /\ call[t].op \in Polling \cup {"cancel"}
    BY <1>1 DEF Inv, TypeOK, Serialized, AsksAboutNamedJobs, ReceivePoll
  <1>3. reply[t].status \in Statuses
    BY DEF ReceivePoll, Recognized
  <1>4. j \in Job /\ j.id \in Ids
    BY <1>2, <1>3 DEF Job
  <1>5. /\ job' \in [Handles -> Job]
        /\ \A g \in Handles : g # h => job'[g] = job[g]
        /\ job'[h].id \in Ids
    BY <1>1, <1>4 DEF Inv, TypeOK
  <1>6. CASE v = "fetch"
    <2>1. call' = [call EXCEPT ![t].pc = "fetch"] /\ UNCHANGED mutex
      BY <1>6 DEF ReceivePoll
    <2>2. QED
      BY <1>1, <1>2, <1>5, <2>1, StayInv
  <1>7. CASE v = "again"
    <2>1. call' = [call EXCEPT ![t].pc = "sleep"] /\ Release(h)
      BY <1>7 DEF ReceivePoll
    <2>2. "sleep" \in Steps
      BY DEF Steps
    <2>3. /\ call' \in [Threads -> Call]
          /\ call'[t].pc = "sleep"
          /\ call'[t].on = call[t].on
          /\ \A u \in Threads : u # t => call'[u] = call[u]
      BY <2>1, <2>2, MoveEffect DEF Inv
    <2>4. QED
      BY <1>1, <1>5, <2>1, <2>3, LeaveInv DEF Inv, TypeOK
  <1>8. CASE v \notin {"again", "fetch"}
    <2>1. Return(t, v) /\ Release(h)
      BY <1>8 DEF ReceivePoll
    <2>2. v \in Results
      BY <1>2, <1>4, <1>8, VerdictType
    <2>3. QED
      BY <1>1, <1>5, <2>1, <2>2, ReturnEffect, ReturnKeepsHandle, LeaveInv
         DEF Inv, TypeOK
  <1>9. QED
    BY <1>6, <1>7, <1>8

\* The answer to the retrieval of a job publishes a handle that is complete.
LEMMA ReceiveRetrievedInv ==
  ASSUME Inv, NEW t \in Threads, ReceiveRetrieved(t) PROVE Inv'
  <1> DEFINE h == call[t].on
  <1>1. /\ call[t].pc \in Exchanges
        /\ h \in Handles
        /\ Release(h) /\ Consume(t)
        /\ registered' = registered \cup {h}
        /\ UNCHANGED <<expired, left, submits, cancels, remote>>
        /\ job' = [job EXCEPT ![h] = Adopt(reply[t])]
        /\ Return(t, "OK")
    BY Alone DEF ReceiveRetrieved, Exchanges, service
  <1>2. /\ reply[t].status \in Statuses
        /\ reply[t].id \in Ids
        /\ reply[t].programs \in Programs \cup {NoProgram}
    BY DEF ReceiveRetrieved, Recognized, Answered, Inv, TypeOK, Reply,
           Serialized, AnswersNameJobs
  <1>3. Adopt(reply[t]) \in Job /\ Adopt(reply[t]).id \in Ids
    BY <1>2 DEF Adopt, FreshJob, Job
  <1>4. /\ job' \in [Handles -> Job]
        /\ \A g \in Handles : g # h => job'[g] = job[g]
        /\ job'[h].id \in Ids
    BY <1>1, <1>3 DEF Inv, TypeOK
  <1>5. registered' \in SUBSET Handles
    BY <1>1 DEF Inv, TypeOK
  <1>6. "OK" \in Results
    BY DEF Results
  <1>7. QED
    BY <1>1, <1>4, <1>5, <1>6, ReturnEffect, ReturnKeepsHandle, LeaveInv
       DEF Inv, TypeOK

\* A failed exchange leaves the job as it is.
LEMMA FailInv == ASSUME Inv, NEW t \in Threads, Fail(t) PROVE Inv'
  <1>1. PICK r \in {"TIMEOUT", "ERROR"} : Fail(t)!(r)
    BY DEF Fail
  <1>2. r \in Results
    BY <1>1 DEF Results
  <1>3. submits' \in SUBSET Submission /\ cancels' \in SUBSET Cancellation
    BY <1>1, AbandonSubmission, AbandonCancellation DEF Inv, TypeOK
  <1>4. UNCHANGED <<registered, job, expired, left, remote>> /\ Consume(t)
        /\ Release(call[t].on) /\ call[t].pc \in Exchanges /\ Return(t, r)
    BY <1>1
  <1>5. job'[call[t].on].status \notin {"CREATED", "FAILED"} =>
           job'[call[t].on].id \in Ids
    BY <1>4, Alone DEF Inv, Serialized, StatusNeedsId
  <1>6. QED
    BY <1>2, <1>3, <1>4, <1>5, ReturnEffect, ReturnKeepsHandle, LeaveInv
       DEF Inv, TypeOK

-----------------------------------------------------------------------------
(* The service *)

\* A step of the service that gives answers naming jobs, and keeps its types.
LEMMA ServiceEffect ==
  ASSUME Inv, NEW t, NEW r \in Reply, Answer(t, r),
         r.code \in {"created", "foreign", "snapshot"} => r.id \in Ids
  PROVE  reply' \in [Threads -> Reply] /\ AnswersNameJobs'
  BY DEF Inv, TypeOK, Serialized, AnswersNameJobs, Answer

\* The rest of the invariant does not depend on the service.
LEMMA ServiceInv ==
  ASSUME Inv, UNCHANGED client,
         reply' \in [Threads -> Reply], AnswersNameJobs',
         submits' \in SUBSET Submission, cancels' \in SUBSET Cancellation,
         remote' \in [Ids -> RemoteJob]
  PROVE  Inv'
  <1>1. TypeOK'
    BY DEF Inv, TypeOK, client
  <1>2. Serialized'
    BY DEF Inv, Serialized, OnHandle, HolderIsInExchange, AsksAboutNamedJobs,
           StatusNeedsId, client
  <1>3. QED
    BY <1>1, <1>2 DEF Inv

\* A submission is accepted.
LEMMA AcceptInv == ASSUME Inv, Accept PROVE Inv'
  <1>1. PICK m \in submits, i \in Ids, code \in {"created", "foreign"} :
           Accept!(m, i, code)
    BY DEF Accept
  <1>2. m \in Submission
    BY DEF Inv, TypeOK
  <1>3. [status |-> "SUBMITTED", programs |-> m.programs, source |-> m.on]
           \in RemoteJob
    BY <1>2 DEF Submission, RemoteJob, Statuses, Active
  <1>4. remote' \in [Ids -> RemoteJob]
    BY <1>1, <1>3 DEF Inv, TypeOK
  <1>5. [Silence EXCEPT !.code = code, !.id = i] \in Reply
    BY DEF Silence, Reply, Statuses
  <1>6. [Silence EXCEPT !.code = code, !.id = i].id \in Ids
    BY DEF Silence
  <1>7. reply' \in [Threads -> Reply] /\ AnswersNameJobs'
    BY <1>1, <1>5, <1>6, ServiceEffect
  <1>8. QED
    BY <1>1, <1>4, <1>7, ServiceInv DEF Inv, TypeOK

\* A cancellation takes effect, or comes too late.
LEMMA DecideCancelInv == ASSUME Inv, DecideCancel PROVE Inv'
  <1>1. PICK m \in cancels : DecideCancel!(m)
    BY DEF DecideCancel
  <1>2. m.id \in Ids
    BY DEF Inv, TypeOK, Cancellation
  <1>3. PICK code \in {"canceled", "conflict"} :
           Answer(m.from, [Silence EXCEPT !.code = code])
    BY <1>1
  <1>4. remote' \in [Ids -> RemoteJob]
    <2>1. CASE UNCHANGED remote
      BY <2>1 DEF Inv, TypeOK
    <2>2. CASE remote' = [remote EXCEPT ![m.id].status = "CANCELED"]
      BY <1>2, <2>2 DEF Inv, TypeOK, RemoteJob, Statuses, Terminal
    <2>3. QED
      BY <1>1, <2>1, <2>2
  <1>5. [Silence EXCEPT !.code = code] \in Reply
    BY DEF Silence, Reply, Statuses
  <1>6. [Silence EXCEPT !.code = code].code \notin {"created", "foreign", "snapshot"}
    BY DEF Silence
  <1>7. reply' \in [Threads -> Reply] /\ AnswersNameJobs'
    BY <1>3, <1>5, <1>6, ServiceEffect
  <1>8. QED
    BY <1>1, <1>4, <1>7, ServiceInv DEF Inv, TypeOK

\* A request is lost.
LEMMA LoseInv == ASSUME Inv, Lose PROVE Inv'
  <1>1. /\ submits' \in SUBSET Submission
        /\ cancels' \in SUBSET Cancellation
        /\ UNCHANGED client /\ UNCHANGED <<reply, remote>>
    BY DEF Lose, Inv, TypeOK
  <1>2. reply' \in [Threads -> Reply] /\ AnswersNameJobs'
    BY <1>1 DEF Inv, TypeOK, Serialized, AnswersNameJobs
  <1>3. QED
    BY <1>1, <1>2, ServiceInv DEF Inv, TypeOK

\* What a GET says of a job is a reply that names it.
LEMMA SnapshotType ==
  ASSUME TypeOK, NEW i \in Ids, NEW r \in Snapshot(i)
  PROVE  r \in Reply /\ r.id \in Ids
  BY DEF TypeOK, RemoteJob, Snapshot, Reply

\* A GET is answered.
LEMMA AnswerGetInv == ASSUME Inv, NEW t \in Threads, AnswerGet(t) PROVE Inv'
  <1>1. UNCHANGED client /\ UNCHANGED service
    BY DEF AnswerGet
  <1>2. reply' \in [Threads -> Reply] /\ AnswersNameJobs'
    <2>1. CASE call[t].pc = "poll"
      <3>1. PICK r \in Snapshot(job[call[t].on].id) : Answer(t, r)
        BY <2>1 DEF AnswerGet
      <3>2. job[call[t].on].id \in Ids
        BY <2>1 DEF Inv, Serialized, AsksAboutNamedJobs
      <3>3. QED
        BY <3>1, <3>2, SnapshotType, ServiceEffect DEF Inv
    <2>2. CASE call[t].pc = "retrieve"
      <3>1. PICK i \in Ids : \E r \in Snapshot(i) : Answer(t, r)
        BY <2>2 DEF AnswerGet
      <3>2. QED
        BY <3>1, SnapshotType, ServiceEffect DEF Inv
    <2>3. CASE call[t].pc = "fetch"
      <3> DEFINE p == remote[job[call[t].on].id].programs
      <3>1. PICK code \in {"results", "notReady"} :
               Answer(t, [Silence EXCEPT !.code = code, !.programs = p])
        BY <2>3 DEF AnswerGet
      <3>2. p \in Programs \cup {NoProgram}
        BY <2>3 DEF Inv, TypeOK, Serialized, AsksAboutNamedJobs, RemoteJob
      <3> HIDE DEF p
      <3>3. [Silence EXCEPT !.code = code, !.programs = p] \in Reply
        BY <3>2 DEF Silence, Reply, Statuses
      <3>4. [Silence EXCEPT !.code = code, !.programs = p].code
               \notin {"created", "foreign", "snapshot"}
        BY DEF Silence
      <3>5. QED
        BY <3>1, <3>3, <3>4, ServiceEffect
    <2>4. QED
      BY <2>1, <2>2, <2>3 DEF AnswerGet
  <1>3. QED
    BY <1>1, <1>2, ServiceInv DEF Inv, TypeOK, service

\* A job moves on.
LEMMA AdvanceInv == ASSUME Inv, NEW i \in Ids, Advance(i) PROVE Inv'
  <1>1. PICK s \in Statuses : remote' = [remote EXCEPT ![i].status = s]
    BY DEF Advance
  <1>2. remote' \in [Ids -> RemoteJob]
    BY <1>1 DEF Inv, TypeOK, RemoteJob
  <1>3. reply' \in [Threads -> Reply] /\ AnswersNameJobs'
    BY DEF Advance, Inv, TypeOK, Serialized, AnswersNameJobs
  <1>4. QED
    BY <1>2, <1>3, ServiceInv DEF Advance, Inv, TypeOK

-----------------------------------------------------------------------------
(* Every step *)

\* The client's steps under and around the mutex.
LEMMA ThreadStepInv ==
  ASSUME Inv, NEW t \in Threads, ThreadStep(t) PROVE Inv'
  BY ConfigureInv, SubmitInv, AskInv, QuietInv, ReceiveSubmittedInv,
     ReceiveCancelInv, ReceivePollInv, ReceiveResultsInv, ReceiveRetrievedInv,
     FailInv DEF ThreadStep

\* The invariant does not mention anything but the variables.
LEMMA StutterInv == ASSUME Inv, UNCHANGED vars PROVE Inv'
  BY DEF Inv, TypeOK, Serialized, OnHandle, HolderIsInExchange,
         AsksAboutNamedJobs, AnswersNameJobs, StatusNeedsId, vars

\* Every step keeps the invariant.
LEMMA NextInv == Inv /\ [Next]_vars => Inv'
  <1> SUFFICES ASSUME Inv, [Next]_vars PROVE Inv'
    OBVIOUS
  <1>1. CASE \E h \in Handles : Create(h)
    BY <1>1, CreateInv
  <1>2. CASE \E t \in Threads : \/ Begin(t) \/ BeginRetrieve(t)
                                \/ ThreadStep(t) \/ Expire(t)
    BY <1>2, StartInv, ThreadStepInv, QuietInv
  <1>3. CASE ServiceStep
    BY <1>3, AcceptInv, DecideCancelInv, LoseInv, AnswerGetInv, AdvanceInv
       DEF ServiceStep
  <1>4. CASE Finished \/ UNCHANGED vars
    BY <1>4, StutterInv DEF Finished
  <1>5. QED
    BY <1>1, <1>2, <1>3, <1>4 DEF Next

\* The invariant holds always.
LEMMA InvAlways == Spec => []Inv
  BY InitInv, NextInv, PTL DEF Spec

(***************************************************************************)
(* Type correctness: in particular no handle ever carries a status the     *)
(* enumeration does not have, whatever the service answers.                *)
(***************************************************************************)
THEOREM TypeCorrect == Spec => []TypeOK
  <1>1. Inv => TypeOK
    BY DEF Inv
  <1>2. QED
    BY <1>1, InvAlways, PTL

(***************************************************************************)
(* The calls of one handle are serialized across their HTTP exchanges, for *)
(* any number of threads and handles.                                      *)
(***************************************************************************)
THEOREM SerializedAlways == Spec => []Serialized
  <1>1. Inv => Serialized
    BY DEF Inv
  <1>2. QED
    BY <1>1, InvAlways, PTL

-----------------------------------------------------------------------------
(* One submission per handle.  SubmittedOnce alone is not inductive: Submit *)
(* sends a request for a handle that may already have one, unless the      *)
(* handle remembers every attempt.                                         *)

Remembered == \A h \in Handles : ~job[h].attempted =>
    /\ \A i \in Ids : remote[i].source # h
    /\ \A m \in submits : m.on # h
\* SubmittedOnce, element by element.
Once == \A h \in Handles :
    /\ \A i, k \in Ids : remote[i].source = h /\ remote[k].source = h => i = k
    /\ \A m, n \in submits : m.on = h /\ n.on = h => m = n
    /\ \A i \in Ids, m \in submits : ~(remote[i].source = h /\ m.on = h)
OnceInv == Once /\ Remembered

\* Submissions in flight and accepted together are at most one.
LEMMA OnceMeans == Once => SubmittedOnce
  BY DEF Once, SubmittedOnce

\* Nothing is submitted to begin with.
LEMMA InitOnce == Init => OnceInv
  BY ConstantsAssumption DEF Init, OnceInv, Once, Remembered

\* An attempt is never forgotten.
AttemptsStay == \A h \in Handles : job[h].attempted => job'[h].attempted
SourcesStay == \A i \in Ids : remote'[i].source = remote[i].source

\* Steps that add no submission and forget no attempt.
LEMMA NothingSent ==
  ASSUME OnceInv, AttemptsStay, SourcesStay, submits' \subseteq submits
  PROVE  OnceInv'
  BY DEF OnceInv, Once, Remembered, AttemptsStay, SourcesStay

\* Giving up on a request leaves the request where it is.
LEMMA FailOnce ==
  ASSUME TypeOK, OnceInv, NEW t \in Threads, Fail(t) PROVE OnceInv'
  <1>1. submits' = Abandon(submits, t) /\ UNCHANGED <<job, remote>>
    BY DEF Fail
  <1>2. \A m \in submits' : \E n \in submits :
           /\ m.on = n.on
           /\ m = IF n.from = t THEN [n EXCEPT !.from = NoThread] ELSE n
    BY <1>1 DEF Abandon, TypeOK, Submission
  <1>3. QED
    BY <1>1, <1>2 DEF OnceInv, Once, Remembered

\* Sending: nothing was sent for this handle before.
LEMMA SubmitOnce ==
  ASSUME TypeOK, OnceInv, NEW t \in Threads, Submit(t) PROVE OnceInv'
  <1>1. PICK h \in Handles : Submit(t)!(h)
    BY DEF Submit
  <1>2. /\ ~job[h].attempted
        /\ job'[h].attempted
        /\ \A g \in Handles : g # h => job'[g] = job[g]
    BY <1>1 DEF Submittable, Configurable, TypeOK, Job, Attempt
  <1>3. \A m \in submits' : m \in submits \/
           m = [from |-> t, on |-> h, programs |-> job[h].programs]
    BY <1>1
  <1>4. UNCHANGED remote
    BY <1>1
  <1>5. QED
    BY <1>2, <1>3, <1>4 DEF OnceInv, Once, Remembered

\* Accepting: the submission in flight becomes the accepted one.
LEMMA AcceptOnce ==
  ASSUME TypeOK, OnceInv, Accept PROVE OnceInv'
  <1>1. PICK m \in submits, i \in Ids, code \in {"created", "foreign"} :
           Accept!(m, i, code)
    BY DEF Accept
  <1>2. /\ remote'[i].source = m.on
        /\ \A k \in Ids : k # i => remote'[k] = remote[k]
    BY <1>1 DEF TypeOK
  <1>3. submits' = submits \ {m} /\ UNCHANGED job
    BY <1>1 DEF client
  <1>4. QED
    BY <1>2, <1>3 DEF OnceInv, Once, Remembered

\* The other steps of a thread send no submission and forget no attempt.
LEMMA ThreadStepOnce ==
  ASSUME TypeOK, OnceInv, NEW t \in Threads, ThreadStep(t) PROVE OnceInv'
  <1>1. CASE Submit(t)
    BY <1>1, SubmitOnce
  <1>2. CASE Fail(t)
    BY <1>2, FailOnce
  <1>3. CASE StartCancel(t) \/ StartPoll(t) \/ StartFetch(t) \/ AnswerLocally(t)
               \/ Wake(t) \/ TimeOut(t)
    <2>1. UNCHANGED <<job, submits, remote>>
      BY <1>3 DEF StartCancel, StartPoll, StartFetch, AnswerLocally, Wake,
                  TimeOut, service
    <2>2. QED
      BY <2>1, NothingSent DEF AttemptsStay, SourcesStay
  <1>4. CASE Configure(t)
    <2>1. AttemptsStay
      BY <1>4 DEF Configure, AttemptsStay, TypeOK, Job
    <2>2. QED
      BY <1>4, <2>1, NothingSent DEF Configure, service, SourcesStay
  <1>5. CASE ReceiveSubmitted(t)
    <2>1. AttemptsStay
      BY <1>5 DEF ReceiveSubmitted, AttemptsStay, TypeOK, Job
    <2>2. QED
      BY <1>5, <2>1, NothingSent DEF ReceiveSubmitted, service, SourcesStay
  <1>6. CASE ReceiveCancel(t)
    <2>1. AttemptsStay
      BY <1>6 DEF ReceiveCancel, AttemptsStay, TypeOK, Job
    <2>2. QED
      BY <1>6, <2>1, NothingSent DEF ReceiveCancel, service, SourcesStay
  <1>7. CASE ReceivePoll(t)
    <2>1. AttemptsStay
      BY <1>7 DEF ReceivePoll, AttemptsStay, TypeOK, Job
    <2>2. QED
      BY <1>7, <2>1, NothingSent DEF ReceivePoll, service, SourcesStay
  <1>8. CASE ReceiveResults(t)
    <2>1. AttemptsStay
      BY <1>8 DEF ReceiveResults, AttemptsStay, TypeOK, Job
    <2>2. QED
      BY <1>8, <2>1, NothingSent DEF ReceiveResults, service, SourcesStay
  <1>9. CASE ReceiveRetrieved(t)
    <2>1. AttemptsStay
      BY <1>9 DEF ReceiveRetrieved, Adopt, FreshJob, AttemptsStay, TypeOK, Job
    <2>2. QED
      BY <1>9, <2>1, NothingSent DEF ReceiveRetrieved, service, SourcesStay
  <1>10. QED
    BY <1>1, <1>2, <1>3, <1>4, <1>5, <1>6, <1>7, <1>8, <1>9 DEF ThreadStep

\* The service changes what it ran only by accepting a submission.
LEMMA ServiceOnce ==
  ASSUME Inv, OnceInv, ServiceStep PROVE OnceInv'
  <1> TypeOK
    BY DEF Inv
  <1>1. CASE Accept
    BY <1>1, AcceptOnce
  <1>2. CASE Lose \/ \E t \in Threads : AnswerGet(t)
    <2>1. UNCHANGED <<job, remote>> /\ submits' \subseteq submits
      BY <1>2 DEF Lose, AnswerGet, client, service
    <2>2. QED
      BY <2>1, NothingSent DEF AttemptsStay, SourcesStay
  <1>3. CASE DecideCancel \/ \E i \in Ids : Advance(i)
    <2>1. UNCHANGED <<job, submits>>
      BY <1>3 DEF DecideCancel, Advance, client
    <2>2. SourcesStay
      <3>1. CASE DecideCancel
        <4>1. PICK m \in cancels : DecideCancel!(m)
          BY <3>1 DEF DecideCancel
        <4>2. \/ UNCHANGED remote
              \/ remote' = [remote EXCEPT ![m.id].status = "CANCELED"]
          BY <4>1
        <4>3. QED
          BY <4>2 DEF SourcesStay, TypeOK, RemoteJob
      <3>2. CASE \E i \in Ids : Advance(i)
        BY <3>2 DEF Advance, SourcesStay, TypeOK, RemoteJob
      <3>3. QED
        BY <1>3, <3>1, <3>2
    <2>3. QED
      BY <2>1, <2>2, NothingSent DEF AttemptsStay
  <1>4. QED
    BY <1>1, <1>2, <1>3 DEF ServiceStep

\* Every step keeps submissions single and remembered.
LEMMA NextOnce == Inv /\ OnceInv /\ [Next]_vars => OnceInv'
  <1> SUFFICES ASSUME Inv, OnceInv, [Next]_vars PROVE OnceInv'
    OBVIOUS
  <1> TypeOK
    BY DEF Inv
  <1>1. CASE \E t \in Threads : ThreadStep(t)
    BY <1>1, ThreadStepOnce
  <1>2. CASE ServiceStep
    BY <1>2, ServiceOnce
  <1>3. CASE \/ \E h \in Handles : Create(h)
             \/ \E t \in Threads : Begin(t) \/ BeginRetrieve(t) \/ Expire(t)
             \/ Finished \/ UNCHANGED vars
    <2>1. UNCHANGED <<job, submits, remote>>
      BY <1>3 DEF Create, Begin, BeginRetrieve, Expire, Finished, vars, service
    <2>2. QED
      BY <2>1, NothingSent DEF AttemptsStay, SourcesStay
  <1>4. QED
    BY <1>1, <1>2, <1>3 DEF Next

(***************************************************************************)
(* Job::submit, "even a lost response must never permit a duplicate": for  *)
(* any number of threads, handles and jobs, a handle has at most one       *)
(* submission, in flight or accepted.                                      *)
(***************************************************************************)
THEOREM NoDuplicateSubmission == Spec => []SubmittedOnce
  <1>1. OnceInv => SubmittedOnce
    BY OnceMeans DEF OnceInv
  <1>2. QED
    BY InitOnce, NextOnce, InvAlways, <1>1, PTL DEF Spec

-----------------------------------------------------------------------------
(* The inductive invariant *)

\* s is a status the service's job had, once, when it is r now.
Behind(s, r) ==
    \/ s = r
    \/ s = "SUBMITTED" /\ r \in {"QUEUED", "RUNNING"} \cup Terminal
    \/ s = "QUEUED" /\ r \in {"RUNNING"} \cup Terminal
    \/ s = "RUNNING" /\ r \in Terminal

\* A handle is fresh, or configured, or frozen with what the service has.
JobAgrees(h) == LET j == job[h] IN
    /\ h \notin registered => j = FreshJob
    /\ IF j.attempted
       THEN j.status # "CREATED" /\ j.programs # NoProgram
       ELSE j.status = "CREATED" /\ j.id = NoId /\ j.cached = NoProgram
    /\ j.id # NoId =>
          /\ remote[j.id].status # "ABSENT"
          /\ remote[j.id].programs = j.programs
          /\ j.status # "FAILED" => Behind(j.status, remote[j.id].status)
    /\ j.cached # NoProgram => j.status = "DONE" /\ j.cached = j.programs

\* A job of the service runs what its handle, frozen for good, shows.
RemoteAgrees(i) == LET r == remote[i] IN
    /\ r.status # "CREATED"
    /\ IF r.status = "ABSENT"
       THEN r.source = NoHandle
       ELSE /\ r.programs # NoProgram
            /\ r.source \in Handles
            /\ job[r.source].attempted
            /\ job[r.source].programs = r.programs

\* A submission in flight carries the programs of a frozen handle.
SubmissionAgrees(m) ==
    /\ job[m.on].attempted
    /\ job[m.on].id = NoId
    /\ job[m.on].programs = m.programs
    /\ m.from # NoThread => /\ call[m.from].pc = "submit"
                            /\ call[m.from].on = m.on
                            /\ Answered(m.from, "none")

\* A cancellation somebody waits for is of the job of his handle.
CancellationAgrees(m) ==
    m.from # NoThread => /\ call[m.from].pc = "cancel"
                         /\ job[call[m.from].on].id = m.id
                         /\ Answered(m.from, "none")

\* What was checked before an exchange still holds in it.
CallAgrees(t) == LET c == call[t]
                     j == job[c.on]
                 IN
    /\ c.pc \notin {"idle", "retrieve"} => c.on \in registered
    /\ c.pc = "retrieve" => c.on \notin registered
    /\ c.pc = "submit" => j.attempted /\ j.id = NoId
    /\ c.pc \in {"cancel", "poll"} => j.status \notin Terminal
    /\ c.pc \in {"submit", "cancel", "retrieve"} => c.op = c.pc
    /\ c.pc = "fetch" => c.op = "results" /\ j.status = "DONE"

\* An answer on its way was true when it was given.
ReplyAgrees(t) == LET r == reply[t]
                      c == call[t]
                      j == job[c.on]
                  IN
    /\ r.code \in {"created", "foreign"} =>
          c.pc = "submit" /\ remote[r.id].source = c.on
    /\ r.code = "canceled" =>
          c.pc = "cancel" /\ remote[j.id].status = "CANCELED"
    /\ r.code = "conflict" => c.pc = "cancel"
    /\ r.code = "snapshot" =>
          /\ c.pc \in {"poll", "retrieve"}
          /\ remote[r.id].status # "ABSENT"
          /\ remote[r.id].programs = r.programs
          /\ c.pc = "poll" => r.id = j.id
          /\ r.status # "UNKNOWN" =>
                /\ Behind(r.status, remote[r.id].status)
                /\ c.pc = "poll" => Behind(j.status, r.status)
    /\ r.code \in {"results", "notReady"} =>
          c.pc = "fetch" /\ remote[j.id].programs = r.programs

\* The handle has a terminal status that is not provisional.
Settled(h) == job[h].status \in Terminal /\ ~Submitting(h)

\* What a call that has returned said is still true.
ResultAgrees(t) == LET c == call[t]
                       j == job[c.on]
                   IN
    c.pc = "idle" /\ c.on # NoHandle =>
        /\ c.op = "cancel" /\ c.result = "OK" =>
              j.id # NoId /\ remote[j.id].status = "CANCELED"
        /\ c.op = "cancel" /\ c.result = "INVALIDARGUMENT" =>
              j.id # NoId /\ remote[j.id].status = "DONE"
        /\ c.op \in Waits /\ c.result = "OK" => Settled(c.on)
        /\ c.op = "results" /\ c.result = "OK" =>
              Settled(c.on) /\ j.status = "DONE"

Agreement ==
    /\ \A h \in Handles : JobAgrees(h)
    /\ \A i \in Ids : RemoteAgrees(i)
    /\ \A m \in submits : SubmissionAgrees(m)
    /\ \A m \in cancels : CancellationAgrees(m)
    /\ \A t \in Threads : CallAgrees(t) /\ ReplyAgrees(t) /\ ResultAgrees(t)

-----------------------------------------------------------------------------
(* What no step undoes *)

\* A handle keeps its id, what it was frozen with, and a terminal status.
Kept(h) ==
    /\ job[h].id # NoId => job'[h].id = job[h].id
    /\ job[h].attempted => /\ job'[h].attempted
                           /\ job'[h].programs = job[h].programs
    /\ Settled(h) => Settled(h)' /\ job'[h].status = job[h].status

\* A job of the service keeps its programs and its handle, and moves forward.
RemoteKept(i) == remote[i].status # "ABSENT" =>
    /\ remote'[i].status # "ABSENT"
    /\ remote'[i].programs = remote[i].programs
    /\ remote'[i].source = remote[i].source
    /\ Behind(remote[i].status, remote'[i].status)

\* Statuses that follow each other follow each other at a distance.
LEMMA BehindTransitive ==
  ASSUME NEW a, NEW b, NEW c, Behind(a, b), Behind(b, c) PROVE Behind(a, c)
  BY DEF Behind, Terminal

\* A job that does not change still agrees with a service that moves forward.
LEMMA SameJobAgrees ==
  ASSUME TypeOK, NEW h \in Handles, JobAgrees(h), job'[h] = job[h],
         registered \subseteq registered', \A i \in Ids : RemoteKept(i)
  PROVE  JobAgrees(h)'
  <1>1. job[h].id # NoId => job[h].id \in Ids
    BY DEF TypeOK, Job
  <1>2. job[h].id # NoId /\ job[h].status # "FAILED" =>
           Behind(job[h].status, remote'[job[h].id].status)
    BY <1>1, BehindTransitive DEF JobAgrees, RemoteKept
  <1>3. QED
    BY <1>1, <1>2 DEF JobAgrees, RemoteKept

\* A job of the service that does not change still agrees with its handle.
LEMMA SameRemoteAgrees ==
  ASSUME NEW i \in Ids, RemoteAgrees(i), remote'[i] = remote[i],
         \A h \in Handles : Kept(h)
  PROVE  RemoteAgrees(i)'
  BY DEF RemoteAgrees, Kept

\* Neither side takes back what a call has returned.
LEMMA SameResultAgrees ==
  ASSUME TypeOK, NEW t \in Threads, ResultAgrees(t), call'[t] = call[t],
         \A h \in Handles : Kept(h), \A i \in Ids : RemoteKept(i)
  PROVE  ResultAgrees(t)'
  <1> SUFFICES ASSUME call[t].pc = "idle", call[t].on # NoHandle
               PROVE  ResultAgrees(t)'
    BY DEF ResultAgrees
  <1> DEFINE h == call[t].on
  <1>1. h \in Handles
    BY DEF TypeOK, Call
  <1>2. job[h].id # NoId => job[h].id \in Ids /\ job'[h].id = job[h].id
    BY <1>1 DEF TypeOK, Job, Kept
  <1>3. /\ Settled(h) => Settled(h)'
        /\ Settled(h) /\ job[h].status = "DONE" => job'[h].status = "DONE"
    BY <1>1 DEF Kept
  <1>4. \A i \in Ids : \A s \in {"DONE", "CANCELED"} :
           remote[i].status = s => remote'[i].status = s
    BY DEF RemoteKept, Behind
  <1>5. QED
    BY <1>1, <1>2, <1>3, <1>4 DEF ResultAgrees

\* A call that holds the mutex of its handle is not disturbed by others.
LEMMA SameCallAgrees ==
  ASSUME NEW t \in Threads, CallAgrees(t), call'[t] = call[t],
         call[t].pc \in Exchanges => job'[call[t].on] = job[call[t].on],
         registered \subseteq registered',
         call[t].pc = "retrieve" => call[t].on \notin registered'
  PROVE  CallAgrees(t)'
  BY DEF CallAgrees, Exchanges

\* Nor is the answer on its way to it.
LEMMA SameReplyAgrees ==
  ASSUME Inv, Agreement, NEW t \in Threads,
         call'[t] = call[t], reply'[t] = reply[t],
         call[t].pc \in Exchanges => job'[call[t].on] = job[call[t].on],
         \A i \in Ids : RemoteKept(i)
  PROVE  ReplyAgrees(t)'
  <1> DEFINE r == reply[t]
             h == call[t].on
  <1>0. ReplyAgrees(t)
    BY DEF Agreement
  <1>1. r.code \in {"created", "foreign", "snapshot"} => r.id \in Ids
    BY DEF Inv, Serialized, AnswersNameJobs
  <1>2. call[t].pc \in {"cancel", "poll", "fetch"} => job[h].id \in Ids
    BY DEF Inv, Serialized, AsksAboutNamedJobs
  <1>3. call[t].pc = "submit" => h # NoHandle
    BY ConstantsAssumption DEF Inv, Serialized, OnHandle
  <1>4. \A i \in Ids : remote[i].source # NoHandle => remote[i].status # "ABSENT"
    BY DEF Agreement, RemoteAgrees
  <1>5. ASSUME r.code = "snapshot", r.status # "UNKNOWN"
        PROVE  Behind(r.status, remote'[r.id].status)
    BY <1>1, <1>0, <1>5, BehindTransitive DEF ReplyAgrees, RemoteKept
  <1>6. ASSUME r.code \in {"created", "foreign"}
        PROVE  call[t].pc = "submit" /\ remote'[r.id].source = h
    BY <1>1, <1>3, <1>0, <1>4, <1>6 DEF ReplyAgrees, RemoteKept
  <1>7. ASSUME r.code = "canceled"
        PROVE  call[t].pc = "cancel" /\ remote'[job[h].id].status = "CANCELED"
    BY <1>2, <1>0, <1>7 DEF ReplyAgrees, RemoteKept, Behind
  <1>8. ASSUME r.code \in {"results", "notReady"}
        PROVE  call[t].pc = "fetch" /\ remote'[job[h].id].programs = r.programs
    <2>1. call[t].pc = "fetch" /\ h \in Handles /\ job[h].id # NoId
      BY <1>2, <1>0, <1>8, ConstantsAssumption
         DEF ReplyAgrees, Inv, Serialized, OnHandle
    <2>2. remote[job[h].id].status # "ABSENT"
      BY <2>1 DEF Agreement, JobAgrees
    <2>3. QED
      BY <1>2, <1>0, <1>8, <2>1, <2>2 DEF ReplyAgrees, RemoteKept
  <1>9. CASE call[t].pc \in Exchanges
    <2>1. job'[h] = job[h]
      BY <1>9
    <2>2. r.code = "snapshot" =>
             /\ remote'[r.id].status # "ABSENT"
             /\ remote'[r.id].programs = r.programs
      BY <1>1, <1>0 DEF ReplyAgrees, RemoteKept
    <2>3. QED
      BY <1>0, <1>5, <1>6, <1>7, <1>8, <2>1, <2>2 DEF ReplyAgrees
  <1>10. CASE call[t].pc \notin Exchanges
    BY <1>0, <1>10 DEF ReplyAgrees, Exchanges
  <1>11. QED
    BY <1>9, <1>10

\* A submission that t did not send, for a handle that keeps its id.
LEMMA SameSubmissionAgrees ==
  ASSUME TypeOK, NEW m \in submits, SubmissionAgrees(m),
         NEW t \in Threads, m.from # t,
         \A u \in Threads : u # t => call'[u] = call[u] /\ reply'[u] = reply[u],
         Kept(m.on), job'[m.on].id = job[m.on].id
  PROVE  SubmissionAgrees(m)'
  BY DEF TypeOK, Submission, SubmissionAgrees, Kept, Answered

\* A cancellation that t did not send.
LEMMA SameCancellationAgrees ==
  ASSUME Inv, NEW m \in cancels, CancellationAgrees(m),
         NEW t \in Threads, m.from # t,
         \A u \in Threads : u # t => call'[u] = call[u] /\ reply'[u] = reply[u],
         \A h \in Handles : Kept(h)
  PROVE  CancellationAgrees(m)'
  <1> SUFFICES ASSUME m.from # NoThread PROVE CancellationAgrees(m)'
    BY DEF CancellationAgrees
  <1>1. m.from \in Threads /\ m.id \in Ids
    BY DEF Inv, TypeOK, Cancellation
  <1>2. call[m.from].on \in Handles /\ job[call[m.from].on].id # NoId
    BY <1>1, ConstantsAssumption
       DEF CancellationAgrees, Inv, Serialized, OnHandle
  <1>3. QED
    BY <1>1, <1>2 DEF CancellationAgrees, Kept, Answered

\* No answer is on its way to a thread outside an exchange.
LEMMA SilentOutside ==
  ASSUME TypeOK, NEW t \in Threads, ReplyAgrees(t), call[t].pc \notin Exchanges
  PROVE  Answered(t, "none")
  BY DEF TypeOK, Reply, ReplyAgrees, Exchanges, Answered

\* An answered exchange has no request left in flight.
LEMMA NoRequestLeft ==
  ASSUME Agreement, NEW t \in Threads, ~Answered(t, "none"), NoThread # t
  PROVE  /\ \A m \in submits : m.from # t
         /\ \A m \in cancels : m.from # t
  BY DEF Agreement, SubmissionAgrees, CancellationAgrees

-----------------------------------------------------------------------------
(* What is left to show of a step of one thread *)

\* The other threads and the service are not concerned.
LEMMA ThreadAgrees ==
  ASSUME Inv, Agreement, NEW t \in Threads, UNCHANGED remote,
         registered \subseteq registered',
         \A u \in Threads : u # t =>
            /\ call'[u] = call[u]
            /\ reply'[u] = reply[u]
            /\ call[u].pc \in Exchanges => job'[call[u].on] = job[call[u].on]
            /\ call[u].pc = "retrieve" => call[u].on \notin registered',
         \A h \in Handles : Kept(h) /\ JobAgrees(h)',
         CallAgrees(t)', ReplyAgrees(t)', ResultAgrees(t)',
         \A m \in submits' : SubmissionAgrees(m)',
         \A m \in cancels' : CancellationAgrees(m)'
  PROVE  Agreement'
  <1>1. \A i \in Ids : RemoteKept(i)
    BY DEF RemoteKept, Behind
  <1>2. \A i \in Ids : RemoteAgrees(i)'
    BY SameRemoteAgrees DEF Agreement
  <1>3. ASSUME NEW u \in Threads, u # t
        PROVE  CallAgrees(u)' /\ ReplyAgrees(u)' /\ ResultAgrees(u)'
    <2>1. CallAgrees(u)'
      BY <1>3, SameCallAgrees DEF Agreement
    <2>2. ReplyAgrees(u)'
      BY <1>1, <1>3, SameReplyAgrees
    <2>3. ResultAgrees(u)'
      BY <1>1, <1>3, SameResultAgrees DEF Agreement, Inv
    <2>4. QED
      BY <2>1, <2>2, <2>3
  <1>4. QED
    BY <1>2, <1>3 DEF Agreement

\* A step that changes only where a thread is, outside the exchanges.
LEMMA QuietAgrees ==
  ASSUME Inv, Agreement, NEW t \in Threads, call[t].pc \notin Exchanges,
         UNCHANGED <<registered, job, reply, submits, cancels, remote>>,
         \A u \in Threads : u # t => call'[u] = call[u],
         call'[t].pc # "submit", CallAgrees(t)', ResultAgrees(t)'
  PROVE  Agreement'
  <1>1. \A h \in Handles : Kept(h)
    BY DEF Kept, Settled, Submitting
  <1>2. \A h \in Handles : JobAgrees(h)'
    BY DEF Agreement, JobAgrees
  <1>3. ReplyAgrees(t)'
    BY SilentOutside DEF Agreement, Inv, Answered, ReplyAgrees
  <1>4. \A m \in submits : m.from # t
    BY ConstantsAssumption DEF Agreement, SubmissionAgrees, Exchanges
  <1>5. \A m \in cancels : m.from # t
    BY ConstantsAssumption DEF Agreement, CancellationAgrees, Exchanges
  <1>6. \A m \in submits' : SubmissionAgrees(m)'
    BY <1>1, <1>4, SameSubmissionAgrees DEF Agreement, Inv, TypeOK, Submission
  <1>7. \A m \in cancels' : CancellationAgrees(m)'
    BY <1>1, <1>5, SameCancellationAgrees DEF Agreement
  <1>8. \A u \in Threads : u # t =>
            /\ call'[u] = call[u]
            /\ reply'[u] = reply[u]
            /\ call[u].pc \in Exchanges => job'[call[u].on] = job[call[u].on]
            /\ call[u].pc = "retrieve" => call[u].on \notin registered'
    BY DEF Agreement, CallAgrees
  <1>9. QED
    BY <1>1, <1>2, <1>3, <1>6, <1>7, <1>8, ThreadAgrees

\* A step under the mutex of h.
LEMMA HandleStepAgrees ==
  ASSUME Inv, Agreement, NEW t \in Threads, NEW h \in Handles,
         UNCHANGED remote,
         registered \subseteq registered', registered' \subseteq registered \cup {h},
         \A u \in Threads : u # t =>
            /\ call'[u] = call[u]
            /\ reply'[u] = reply[u]
            /\ call[u].pc \in Exchanges => call[u].on # h,
         call'[t].pc = "submit" => call'[t].on = h,
         \A g \in Handles : g # h => job'[g] = job[g],
         Kept(h), JobAgrees(h)',
         CallAgrees(t)', ReplyAgrees(t)', ResultAgrees(t)',
         \A m \in submits : m.on = h => job'[h].id = job[h].id,
         \A m \in submits' : (m \in submits /\ m.from # t) \/ SubmissionAgrees(m)',
         \A m \in cancels' : (m \in cancels /\ m.from # t) \/ CancellationAgrees(m)'
  PROVE  Agreement'
  <1>1. \A g \in Handles : Kept(g)
    BY DEF Kept, Settled, Submitting
  <1>2. \A g \in Handles : JobAgrees(g)'
    <2> SUFFICES ASSUME NEW g \in Handles, g # h PROVE JobAgrees(g)'
      OBVIOUS
    <2>1. \A i \in Ids : RemoteKept(i)
      BY DEF RemoteKept, Behind
    <2>2. QED
      BY <2>1, SameJobAgrees DEF Agreement, Inv
  <1>3. \A u \in Threads : u # t =>
            /\ call'[u] = call[u]
            /\ reply'[u] = reply[u]
            /\ call[u].pc \in Exchanges => job'[call[u].on] = job[call[u].on]
            /\ call[u].pc = "retrieve" => call[u].on \notin registered'
    <2> SUFFICES ASSUME NEW u \in Threads, u # t, call[u].pc \in Exchanges
                 PROVE  /\ job'[call[u].on] = job[call[u].on]
                        /\ call[u].pc = "retrieve" => call[u].on \notin registered'
      BY DEF Exchanges
    <2>1. call[u].on \in Handles /\ call[u].on # h
      BY Alone
    <2>2. QED
      BY <2>1 DEF Agreement, CallAgrees
  <1>4. \A m \in submits' : SubmissionAgrees(m)'
    <2> SUFFICES ASSUME NEW m \in submits, m.from # t PROVE SubmissionAgrees(m)'
      OBVIOUS
    <2>1. m.on \in Handles
      BY DEF Inv, TypeOK, Submission
    <2>2. QED
      BY <1>1, <2>1, SameSubmissionAgrees DEF Agreement, Inv
  <1>5. \A m \in cancels' : CancellationAgrees(m)'
    <2> SUFFICES ASSUME NEW m \in cancels, m.from # t PROVE CancellationAgrees(m)'
      OBVIOUS
    <2>1. QED
      BY <1>1, SameCancellationAgrees DEF Agreement
  <1>6. QED
    BY <1>1, <1>2, <1>3, <1>4, <1>5, ThreadAgrees

-----------------------------------------------------------------------------
(* Steps of the client outside the exchanges *)

\* A fresh handle is published: nobody was working on it.
LEMMA CreateAgrees ==
  ASSUME Inv, Agreement, NEW h \in Handles, Create(h) PROVE Agreement'
  <1>1. /\ mutex[h] = NoThread
        /\ registered' = registered \cup {h}
        /\ UNCHANGED <<job, call, reply, submits, cancels, remote>>
    BY DEF Create, service
  <1>2. \A g \in Handles : JobAgrees(g)'
    BY <1>1 DEF Agreement, JobAgrees
  <1>3. \A t \in Threads : CallAgrees(t)'
    <2> SUFFICES ASSUME NEW t \in Threads PROVE CallAgrees(t)'
      OBVIOUS
    <2>1. call[t].pc = "retrieve" => call[t].on # h
      BY <1>1, ConstantsAssumption DEF Inv, Serialized, HolderIsInExchange, Exchanges
    <2>2. QED
      BY <1>1, <2>1 DEF Agreement, CallAgrees
  <1>4. \A t \in Threads : ReplyAgrees(t)' /\ ResultAgrees(t)'
    BY <1>1 DEF Agreement, ReplyAgrees, ResultAgrees, Settled, Submitting, Answered
  <1>5. /\ \A i \in Ids : RemoteAgrees(i)'
        /\ \A m \in submits' : SubmissionAgrees(m)'
        /\ \A m \in cancels' : CancellationAgrees(m)'
    BY <1>1 DEF Agreement, RemoteAgrees, SubmissionAgrees, CancellationAgrees, Answered
  <1>6. QED
    BY <1>2, <1>3, <1>4, <1>5 DEF Agreement

\* A call starts: no result yet, and on a handle nobody has if it retrieves.
LEMMA StartAgrees ==
  ASSUME Inv, Agreement, NEW t \in Threads, Begin(t) \/ BeginRetrieve(t)
  PROVE  Agreement'
  <1>1. /\ call[t].pc \notin Exchanges
        /\ UNCHANGED <<registered, job, reply, submits, cancels, remote>>
    BY DEF Begin, BeginRetrieve, StartCall, service, Exchanges
  <1>2. PICK o \in Ops, pc \in {"lock", "retrieve"}, h \in Handles :
           /\ pc = "lock" => h \in registered
           /\ pc = "retrieve" => o = "retrieve" /\ h \notin registered
           /\ call' = [call EXCEPT ![t] = [op |-> o, on |-> h, pc |-> pc,
                                           result |-> "none"]]
    <2>1. CASE Begin(t)
      BY <2>1 DEF Begin, StartCall, Inv, TypeOK, Ops
    <2>2. CASE BeginRetrieve(t)
      BY <2>2 DEF BeginRetrieve, StartCall, Ops
    <2>3. QED
      BY <2>1, <2>2
  <1>3. /\ \A u \in Threads : u # t => call'[u] = call[u]
        /\ call'[t] = [op |-> o, on |-> h, pc |-> pc, result |-> "none"]
    BY <1>2 DEF Inv, TypeOK
  <1>4. CallAgrees(t)' /\ ResultAgrees(t)'
    BY <1>1, <1>2, <1>3 DEF CallAgrees, ResultAgrees
  <1>5. QED
    BY <1>1, <1>2, <1>3, <1>4, QuietAgrees

\* What a call that needs no exchange answers is true of the handle.
LEMMA AnswerLocallyAgrees ==
  ASSUME Inv, Agreement, NEW t \in Threads, AnswerLocally(t) PROVE Agreement'
  <1>1. PICK h \in Handles, r \in Results : AnswerLocally(t)!(h, r)
    BY DEF AnswerLocally
  <1>2. /\ call[t].pc = "lock" /\ call[t].on = h
        /\ UNCHANGED <<registered, job, reply, submits, cancels, remote>>
    BY <1>1 DEF AtLock, service
  <1>3. /\ \A u \in Threads : u # t => call'[u] = call[u]
        /\ call'[t] = [call[t] EXCEPT !.pc = "idle", !.result = r]
        /\ call[t] \in Call /\ call'[t].pc = "idle"
    BY <1>1 DEF Return, Inv, TypeOK, Call
  <1>4. CallAgrees(t)'
    BY <1>3 DEF CallAgrees, Inv, TypeOK, Call
  <1>5. ~Submitting(h)
    <2>1. \A u \in Threads : call[u].pc = "submit" => call[u].on # h
      BY <1>1, ConstantsAssumption
         DEF AtLock, Inv, Serialized, HolderIsInExchange, Exchanges
    <2>2. QED
      BY <2>1 DEF Submitting
  <1>6. ~Submitting(h)'
    BY <1>2, <1>3, <1>5 DEF Submitting
  <1>7. JobAgrees(h) /\ job[h] \in Job
    BY DEF Agreement, Inv, TypeOK
  <1>8. ResultAgrees(t)'
    <2>1. /\ call'[t].op = call[t].op /\ call'[t].on = h
          /\ call'[t].result = r
      BY <1>2, <1>3 DEF Inv, TypeOK, Call
    <2>2. CASE call[t].op = "cancel"
      <3>1. r \in {"OK", "INVALIDARGUMENT"} => /\ job[h].id # NoId
                                               /\ r = Verdict("cancel", job[h])
        BY <1>1, <2>2 DEF LocalAnswer, Polling, Waits
      <3>2. r = "OK" => job[h].status = "CANCELED"
        BY <3>1 DEF Verdict, Waits
      <3>3. r = "INVALIDARGUMENT" => job[h].status = "DONE"
        BY <3>1 DEF Verdict, Waits
      <3>4. QED
        BY <1>2, <1>7, <2>1, <2>2, <3>1, <3>2, <3>3
           DEF ResultAgrees, JobAgrees, Behind, Waits
    <2>3. CASE call[t].op \in Waits
      <3>1. r = "OK" => job[h].status \in Terminal
        BY <1>1, <2>3 DEF LocalAnswer, Verdict, Polling, Waits
      <3>2. QED
        BY <1>2, <1>6, <2>1, <2>3, <3>1 DEF ResultAgrees, Settled, Waits
    <2>4. CASE call[t].op = "results"
      <3>1. r = "OK" => job[h].status = "DONE"
        BY <1>1, <2>4 DEF LocalAnswer, Verdict, Polling, Waits
      <3>2. QED
        BY <1>2, <1>6, <2>1, <2>4, <3>1 DEF ResultAgrees, Settled, Waits, Terminal
    <2>5. QED
      BY <2>1, <2>2, <2>3, <2>4 DEF ResultAgrees
  <1>9. QED
    BY <1>2, <1>3, <1>4, <1>8, QuietAgrees DEF Exchanges

\* Waking, timing out and the passing of a deadline.
LEMMA WaitAgrees ==
  ASSUME Inv, Agreement, NEW t \in Threads, Wake(t) \/ TimeOut(t) \/ Expire(t)
  PROVE  Agreement'
  <1>1. UNCHANGED <<registered, job, reply, submits, cancels, remote>>
    BY DEF Wake, TimeOut, Expire, service
  <1>2. CASE Wake(t)
    <2>1. /\ \A u \in Threads : u # t => call'[u] = call[u]
          /\ call'[t] = [call[t] EXCEPT !.pc = "lock"]
          /\ call[t].pc = "sleep" /\ call[t] \in Call
      BY <1>2 DEF Wake, Inv, TypeOK
    <2>2. CallAgrees(t)
      BY DEF Agreement
    <2>3. CallAgrees(t)' /\ ResultAgrees(t)'
      BY <1>1, <2>1, <2>2 DEF CallAgrees, ResultAgrees, Call
    <2>4. QED
      BY <1>1, <2>1, <2>3, QuietAgrees DEF Call, Exchanges
  <1>3. CASE TimeOut(t)
    <2>1. /\ \A u \in Threads : u # t => call'[u] = call[u]
          /\ call'[t] = [call[t] EXCEPT !.pc = "idle", !.result = "TIMEOUT"]
          /\ call[t].pc \in {"sleep", "lock"} /\ call[t] \in Call
      BY <1>3 DEF TimeOut, Return, Inv, TypeOK
    <2>2. CallAgrees(t)' /\ ResultAgrees(t)'
      BY <1>1, <2>1 DEF CallAgrees, ResultAgrees, Call
    <2>3. QED
      BY <1>1, <2>1, <2>2, QuietAgrees DEF Call, Exchanges
  <1>4. CASE Expire(t)
    <2>1. UNCHANGED call
      BY <1>4 DEF Expire
    <2>2. QED
      BY <1>1, <2>1 DEF Agreement, JobAgrees, RemoteAgrees, SubmissionAgrees,
         CancellationAgrees, CallAgrees, ReplyAgrees, ResultAgrees, Settled,
         Submitting, Answered
  <1>5. QED
    BY <1>2, <1>3, <1>4

-----------------------------------------------------------------------------
(* Steps of the client from the mutex on *)

\* Behind a free mutex nobody is in an exchange on the handle.
LEMMA FreeHandle ==
  ASSUME Inv, NEW h \in Handles, mutex[h] = NoThread
  PROVE  /\ \A u \in Threads : call[u].pc \in Exchanges => call[u].on # h
         /\ ~Submitting(h)
  BY ConstantsAssumption
     DEF Inv, Serialized, HolderIsInExchange, Submitting, Exchanges

\* At the mutex a thread has neither a request nor an answer on its way, and
\* its handle is published.
LEMMA AtLockEffect ==
  ASSUME Inv, Agreement, NEW t \in Threads, call[t].pc = "lock"
  PROVE  /\ Answered(t, "none")
         /\ \A m \in submits : m.from # t
         /\ \A m \in cancels : m.from # t
         /\ call[t].on \in registered
  <1>1. Answered(t, "none")
    BY SilentOutside DEF Agreement, Inv, Exchanges
  <1>2. QED
    BY <1>1, ConstantsAssumption
       DEF Agreement, SubmissionAgrees, CancellationAgrees, CallAgrees

\* Only a handle that was never submitted is configured.
LEMMA ConfigureAgrees ==
  ASSUME Inv, Agreement, NEW t \in Threads, Configure(t) PROVE Agreement'
  <1>1. PICK h \in Handles, p \in Programs : Configure(t)!(h, p)
    BY DEF Configure
  <1>2. /\ call[t].pc = "lock" /\ call[t].on = h /\ mutex[h] = NoThread
        /\ call[t].op = "configure"
        /\ ~job[h].attempted /\ job[h].status = "CREATED"
        /\ UNCHANGED <<registered, reply, submits, cancels, remote>>
    BY <1>1 DEF AtLock, service, Configurable
  <1>3. /\ \A g \in Handles : g # h => job'[g] = job[g]
        /\ job'[h] = [job[h] EXCEPT !.programs = p, !.cached = NoProgram]
        /\ job[h] \in Job
    BY <1>1 DEF Inv, TypeOK, Job
  <1>4. /\ \A u \in Threads : u # t => call'[u] = call[u]
        /\ call'[t] = [call[t] EXCEPT !.pc = "idle", !.result = "OK"]
        /\ call[t] \in Call
    BY <1>1 DEF Return, Inv, TypeOK
  <1>5. JobAgrees(h) /\ h \in registered
    BY <1>2, AtLockEffect DEF Agreement
  <1>6. Kept(h)
    BY <1>2, <1>3, <1>5 DEF Kept, JobAgrees, Settled, Terminal, Job
  <1>7. JobAgrees(h)'
    BY <1>2, <1>3, <1>5 DEF JobAgrees, Job
  <1>8. CallAgrees(t)' /\ ResultAgrees(t)'
    BY <1>2, <1>4 DEF CallAgrees, ResultAgrees, Call, Waits
  <1>9. ReplyAgrees(t)'
    BY <1>2, AtLockEffect DEF ReplyAgrees, Answered
  <1>10. \A m \in submits : m.on # h
    BY <1>2 DEF Agreement, SubmissionAgrees
  <1>11. call'[t].pc # "submit"
    BY <1>4 DEF Call
  <1>12. \A u \in Threads : u # t =>
            /\ call'[u] = call[u]
            /\ reply'[u] = reply[u]
            /\ call[u].pc \in Exchanges => call[u].on # h
    BY <1>2, <1>4, FreeHandle
  <1>13. /\ \A m \in submits' : m \in submits /\ m.from # t
         /\ \A m \in cancels' : m \in cancels /\ m.from # t
    BY <1>2, AtLockEffect
  <1>14. QED
    BY <1>2, <1>3, <1>6, <1>7, <1>8, <1>9, <1>10, <1>11, <1>12, <1>13,
       HandleStepAgrees

\* The submission carries what the handle shows, and the handle is frozen.
LEMMA SubmitAgrees ==
  ASSUME Inv, Agreement, NEW t \in Threads, Submit(t) PROVE Agreement'
  <1>1. PICK h \in Handles : Submit(t)!(h)
    BY DEF Submit
  <1> DEFINE new == [from |-> t, on |-> h, programs |-> job[h].programs]
  <1>2. /\ call[t].pc = "lock" /\ call[t].on = h /\ mutex[h] = NoThread
        /\ call[t].op = "submit"
        /\ ~job[h].attempted /\ job[h].programs # NoProgram
        /\ job[h].status = "CREATED"
        /\ submits' = submits \cup {new}
        /\ UNCHANGED <<registered, reply, cancels, remote>>
    BY <1>1 DEF AtLock, Submittable, Configurable
  <1>3. /\ \A g \in Handles : g # h => job'[g] = job[g]
        /\ job'[h] = [job[h] EXCEPT !.attempted = TRUE, !.status = "FAILED"]
        /\ job[h] \in Job
    BY <1>1 DEF Inv, TypeOK, Attempt
  <1>4. /\ \A u \in Threads : u # t => call'[u] = call[u]
        /\ call'[t] = [call[t] EXCEPT !.pc = "submit"]
        /\ call[t] \in Call
    BY <1>1 DEF Enter, Inv, TypeOK
  <1>5. JobAgrees(h) /\ h \in registered
    BY <1>2, AtLockEffect DEF Agreement
  <1>6. /\ job'[h].attempted /\ job'[h].id = NoId
        /\ job'[h].programs = job[h].programs
    BY <1>2, <1>3, <1>5 DEF JobAgrees, Job
  <1>7. Kept(h)
    BY <1>2, <1>5, <1>6 DEF Kept, JobAgrees, Settled, Terminal
  <1>8. JobAgrees(h)'
    BY <1>2, <1>3, <1>5, <1>6 DEF JobAgrees, Job
  <1>9. CallAgrees(t)' /\ ResultAgrees(t)'
    BY <1>2, <1>4, <1>5, <1>6 DEF CallAgrees, ResultAgrees, Call
  <1>10. ReplyAgrees(t)' /\ Answered(t, "none")'
    BY <1>2, AtLockEffect DEF ReplyAgrees, Answered
  <1>11. SubmissionAgrees(new)'
    BY <1>2, <1>4, <1>6, <1>10 DEF SubmissionAgrees, Call
  <1>12. \A m \in submits : m.on # h
    BY <1>2 DEF Agreement, SubmissionAgrees
  <1>13. QED
    BY <1>2, <1>3, <1>4, <1>7, <1>8, <1>9, <1>10, <1>11, <1>12, FreeHandle,
       AtLockEffect, HandleStepAgrees DEF Call

\* Asking the service: only of a job whose status allows the question.
LEMMA AskAgrees ==
  ASSUME Inv, Agreement, NEW t \in Threads,
         StartCancel(t) \/ StartPoll(t) \/ StartFetch(t)
  PROVE  Agreement'
  <1>1. PICK h \in Handles, x \in {"cancel", "poll", "fetch"} :
           /\ AtLock(t, h)
           /\ Enter(t, h, x)
           /\ x \in {"cancel", "poll"} => NeedsPoll(job[h])
           /\ x = "cancel" => call[t].op = "cancel"
           /\ x = "fetch" => call[t].op = "results" /\ job[h].status = "DONE"
           /\ cancels' = IF x = "cancel"
                         THEN cancels \cup {[from |-> t, id |-> job[h].id]}
                         ELSE cancels
           /\ UNCHANGED <<registered, job, reply, submits, remote>>
    BY DEF StartCancel, StartPoll, StartFetch, Verdict, Waits, service
  <1>2. call[t].pc = "lock" /\ call[t].on = h /\ mutex[h] = NoThread
    BY <1>1 DEF AtLock
  <1>3. /\ \A u \in Threads : u # t => call'[u] = call[u]
        /\ call'[t] = [call[t] EXCEPT !.pc = x]
        /\ call[t] \in Call
    BY <1>1 DEF Enter, Inv, TypeOK
  <1>4. h \in registered /\ JobAgrees(h)
    BY <1>2, AtLockEffect DEF Agreement
  <1>5. Kept(h)
    BY <1>1, <1>3, FreeHandle, <1>2 DEF Kept, Settled, Submitting, Call
  <1>6. JobAgrees(h)'
    BY <1>1, <1>4 DEF JobAgrees
  <1>7. CallAgrees(t)' /\ ResultAgrees(t)'
    BY <1>1, <1>2, <1>3, <1>4 DEF CallAgrees, ResultAgrees, Call, NeedsPoll
  <1>8. ReplyAgrees(t)' /\ Answered(t, "none")'
    BY <1>1, <1>2, AtLockEffect DEF ReplyAgrees, Answered
  <1>9. x = "cancel" => CancellationAgrees([from |-> t, id |-> job[h].id])'
    BY <1>1, <1>2, <1>3, <1>8 DEF CancellationAgrees, Call
  <1>10. \A m \in cancels' : (m \in cancels /\ m.from # t) \/ CancellationAgrees(m)'
    BY <1>1, <1>2, <1>9, AtLockEffect
  <1>11. \A m \in submits' : m \in submits /\ m.from # t
    BY <1>1, <1>2, AtLockEffect
  <1>12. call'[t].pc # "submit"
    BY <1>3 DEF Call
  <1>13. \A u \in Threads : u # t =>
            /\ call'[u] = call[u]
            /\ reply'[u] = reply[u]
            /\ call[u].pc \in Exchanges => call[u].on # h
    BY <1>1, <1>2, <1>3, FreeHandle
  <1>14. UNCHANGED <<registered, job, remote>>
    BY <1>1
  <1>15. QED
    BY <1>5, <1>6, <1>7, <1>8, <1>10, <1>11, <1>12, <1>13, <1>14,
       HandleStepAgrees

-----------------------------------------------------------------------------
(* Steps of the client that take an answer *)

\* What is left to show of a step that takes the answer of an exchange.
LEMMA AnsweredAgrees ==
  ASSUME Inv, Agreement, NEW t \in Threads, call[t].pc \in Exchanges,
         NEW h \in Handles, call[t].on = h,
         ~Answered(t, "none"), Consume(t),
         UNCHANGED <<submits, cancels, remote>>,
         registered \subseteq registered',
         registered' \subseteq registered \cup {h},
         \A u \in Threads : u # t => call'[u] = call[u],
         call'[t].pc # "submit",
         \A g \in Handles : g # h => job'[g] = job[g],
         Kept(h), JobAgrees(h)',
         CallAgrees(t)', ResultAgrees(t)',
         \A m \in submits : m.on = h => job'[h].id = job[h].id
  PROVE  Agreement'
  <1>1. reply'[t] = Silence /\ \A u \in Threads : u # t => reply'[u] = reply[u]
    BY ConsumeEffect DEF Inv
  <1>2. ReplyAgrees(t)'
    BY <1>1 DEF ReplyAgrees, Silence
  <1>3. /\ \A m \in submits' : m \in submits /\ m.from # t
        /\ \A m \in cancels' : m \in cancels /\ m.from # t
    BY NoRequestLeft, ConstantsAssumption
  <1>4. \A u \in Threads : u # t =>
            /\ call'[u] = call[u]
            /\ reply'[u] = reply[u]
            /\ call[u].pc \in Exchanges => call[u].on # h
    BY <1>1, Alone
  <1>5. QED
    BY <1>2, <1>3, <1>4, HandleStepAgrees

\* What a thread in an exchange, and its handle, are known to be.
LEMMA InExchange ==
  ASSUME Inv, Agreement, NEW t \in Threads, call[t].pc \in Exchanges,
         NEW h, h = call[t].on
  PROVE  /\ h \in Handles
         /\ job[h] \in Job /\ call[t] \in Call /\ reply[t] \in Reply
         /\ JobAgrees(h) /\ CallAgrees(t) /\ ReplyAgrees(t)
         /\ call[t].pc \in {"cancel", "poll", "fetch"} => job[h].id \in Ids
         /\ call[t].pc # "submit" => ~Submitting(h)
         /\ call[t].pc # "retrieve" => h \in registered
  <1>1. h \in Handles
    BY Alone
  <1>2. ASSUME NEW u \in Threads, call[u].pc = "submit", call[u].on = h
        PROVE  u = t
    BY <1>2, Alone DEF Exchanges
  <1>3. /\ JobAgrees(h) /\ CallAgrees(t) /\ ReplyAgrees(t)
        /\ job[h] \in Job /\ call[t] \in Call /\ reply[t] \in Reply
    BY <1>1 DEF Agreement, Inv, TypeOK
  <1>4. call[t].pc \in {"cancel", "poll", "fetch"} => job[h].id \in Ids
    BY DEF Inv, Serialized, AsksAboutNamedJobs
  <1>5. QED
    BY <1>1, <1>2, <1>3, <1>4 DEF Submitting, CallAgrees, Exchanges

\* The answer to a submission names the job that runs the handle's programs.
LEMMA ReceiveSubmittedAgrees ==
  ASSUME Inv, OnceInv, Agreement, NEW t \in Threads, ReceiveSubmitted(t)
  PROVE  Agreement'
  <1>1. PICK h : h = call[t].on
    OBVIOUS
  <1> DEFINE i == reply[t].id
  <1>2. /\ call[t].pc = "submit" /\ call[t].pc \in Exchanges
        /\ reply[t].code \in {"created", "foreign"} /\ ~Answered(t, "none")
        /\ Consume(t)
        /\ UNCHANGED <<registered, submits, cancels, remote>>
    BY DEF ReceiveSubmitted, Answered, Exchanges, service
  <1>3. /\ h \in Handles /\ h \in registered /\ job[h] \in Job /\ call[t] \in Call
        /\ job[h].attempted /\ job[h].id = NoId
        /\ JobAgrees(h)
    BY <1>1, <1>2, InExchange DEF CallAgrees
  <1>4. i \in Ids /\ remote[i].source = h
    BY <1>1, <1>2, InExchange DEF ReplyAgrees, Inv, Serialized, AnswersNameJobs
  <1>5. /\ remote[i].status \notin {"ABSENT", "CREATED"}
        /\ remote[i].status \in Active \cup Terminal
        /\ remote[i].programs = job[h].programs
    <2>1. RemoteAgrees(i) /\ remote[i] \in RemoteJob
      BY <1>4 DEF Agreement, Inv, TypeOK
    <2>2. QED
      BY <1>3, <1>4, <2>1, ConstantsAssumption DEF RemoteAgrees, RemoteJob, Statuses
  <1>6. /\ \A g \in Handles : g # h => job'[g] = job[g]
        /\ \/ job'[h] = [job[h] EXCEPT !.id = i, !.status = "SUBMITTED"]
           \/ job'[h] = [job[h] EXCEPT !.id = i]
    BY <1>1, <1>3 DEF ReceiveSubmitted, Inv, TypeOK
  <1>7. PICK r \in {"OK", "ERROR"} : Return(t, r)
    BY DEF ReceiveSubmitted
  <1>8. /\ \A u \in Threads : u # t => call'[u] = call[u]
        /\ call'[t] = [call[t] EXCEPT !.pc = "idle", !.result = r]
    BY <1>7 DEF Return, Inv, TypeOK
  <1>9. Submitting(h)
    BY <1>1, <1>2 DEF Submitting
  <1>10. Kept(h)
    BY <1>3, <1>6, <1>9 DEF Kept, Settled, Job
  <1>11. job[h].status = "FAILED" /\ job[h].cached = NoProgram
    BY <1>3, ConstantsAssumption DEF Inv, Serialized, StatusNeedsId, JobAgrees
  <1>12. JobAgrees(h)'
    <2>1. /\ job'[h].id = i /\ job'[h].attempted
          /\ job'[h].programs = job[h].programs
          /\ job'[h].cached = NoProgram
          /\ job'[h].status \in {"FAILED", "SUBMITTED"}
      <3>1. CASE job'[h] = [job[h] EXCEPT !.id = i]
        BY <1>3, <1>11, <3>1 DEF Job
      <3>2. CASE job'[h] = [job[h] EXCEPT !.id = i, !.status = "SUBMITTED"]
        BY <1>3, <1>11, <3>2 DEF Job
      <3>3. QED
        BY <1>6, <3>1, <3>2
    <2>2. job'[h].programs # NoProgram /\ h \in registered'
      BY <1>2, <1>3, <2>1 DEF JobAgrees
    <2>3. Behind("SUBMITTED", remote'[i].status)
      BY <1>2, <1>5 DEF Behind, Active
    <2>4. QED
      BY <1>2, <1>5, <2>1, <2>2, <2>3 DEF JobAgrees
  <1>13. CallAgrees(t)' /\ ResultAgrees(t)'
    <2>1. call[t].op = "submit"
      BY <1>2 DEF Agreement, CallAgrees
    <2>2. QED
      BY <1>3, <1>8, <2>1 DEF CallAgrees, ResultAgrees, Call, Waits
  <1>14. \A m \in submits : m.on # h
    BY <1>3, <1>4 DEF OnceInv, Once
  <1>15. QED
    <2>1. call'[t].pc # "submit"
      BY <1>3, <1>8 DEF Call
    <2>2. QED
      BY <1>1, <1>2, <1>3, <1>6, <1>8, <1>10, <1>12, <1>13, <1>14, <2>1,
         AnsweredAgrees

\* 204: the service canceled the job.  409: the handle stays as it is.
LEMMA ReceiveCancelAgrees ==
  ASSUME Inv, Agreement, NEW t \in Threads, ReceiveCancel(t)
  PROVE  Agreement'
  <1>1. PICK h : h = call[t].on
    OBVIOUS
  <1>2. /\ call[t].pc = "cancel" /\ call[t].pc \in Exchanges
        /\ reply[t].code \in {"canceled", "conflict"} /\ ~Answered(t, "none")
        /\ Consume(t)
        /\ UNCHANGED <<registered, submits, cancels, remote>>
    BY DEF ReceiveCancel, Answered, Exchanges, service
  <1>3. /\ h \in Handles /\ h \in registered /\ job[h] \in Job /\ call[t] \in Call
        /\ job[h].id \in Ids /\ job[h].id # NoId
        /\ job[h].status \notin Terminal
        /\ JobAgrees(h) /\ ReplyAgrees(t)
        /\ call[t].op = "cancel"
    BY <1>1, <1>2, InExchange, ConstantsAssumption DEF CallAgrees
  <1>4. CASE Answered(t, "canceled")
    <2>1. /\ \A g \in Handles : g # h => job'[g] = job[g]
          /\ job'[h] = [job[h] EXCEPT !.status = "CANCELED"]
          /\ \A u \in Threads : u # t => call'[u] = call[u]
          /\ call'[t] = [call[t] EXCEPT !.pc = "idle", !.result = "OK"]
      BY <1>1, <1>3, <1>4 DEF ReceiveCancel, Answered, Return, Inv, TypeOK
    <2>2. remote[job[h].id].status = "CANCELED"
      BY <1>1, <1>3, <1>4 DEF ReplyAgrees, Answered
    <2>3. /\ job'[h].status = "CANCELED" /\ job'[h].id = job[h].id
          /\ job'[h].attempted = job[h].attempted
          /\ job'[h].programs = job[h].programs
          /\ job'[h].cached = job[h].cached
      BY <1>3, <2>1 DEF Job
    <2>4. Kept(h)
      BY <1>3, <2>3 DEF Kept, Settled
    <2>5. JobAgrees(h)'
      BY <1>2, <1>3, <2>2, <2>3 DEF JobAgrees, Behind, Terminal
    <2>6. /\ call'[t].pc = "idle" /\ call'[t].on = h /\ call'[t].op = "cancel"
      BY <1>1, <1>3, <2>1 DEF Call
    <2>7. CallAgrees(t)' /\ ResultAgrees(t)'
      BY <1>2, <1>3, <2>1, <2>2, <2>3, <2>6 DEF CallAgrees, ResultAgrees, Call, Waits
    <2>8. QED
      BY <1>1, <1>2, <1>3, <2>1, <2>3, <2>4, <2>5, <2>6, <2>7, AnsweredAgrees
  <1>5. CASE Answered(t, "conflict")
    <2>1. /\ UNCHANGED job
          /\ \A u \in Threads : u # t => call'[u] = call[u]
          /\ call'[t] = [call[t] EXCEPT !.pc = "poll"]
      BY <1>5 DEF ReceiveCancel, Answered, Inv, TypeOK
    <2>2. Kept(h) /\ JobAgrees(h)'
      BY <1>2, <1>3, <2>1 DEF Kept, Settled, JobAgrees
    <2>3. /\ call'[t].pc = "poll" /\ call'[t].on = h
      BY <1>1, <1>3, <2>1 DEF Call
    <2>4. CallAgrees(t)' /\ ResultAgrees(t)'
      BY <1>2, <1>3, <2>1, <2>3 DEF CallAgrees, ResultAgrees
    <2>5. QED
      BY <1>1, <1>2, <1>3, <2>1, <2>2, <2>3, <2>4, AnsweredAgrees
  <1>6. QED
    BY <1>4, <1>5 DEF ReceiveCancel

\* The results are cached in the handle whose job has ended well.
LEMMA ReceiveResultsAgrees ==
  ASSUME Inv, Agreement, NEW t \in Threads, ReceiveResults(t)
  PROVE  Agreement'
  <1>1. PICK h : h = call[t].on
    OBVIOUS
  <1>2. /\ call[t].pc = "fetch" /\ call[t].pc \in Exchanges
        /\ reply[t].code \in {"results", "notReady"} /\ ~Answered(t, "none")
        /\ Consume(t)
        /\ UNCHANGED <<registered, submits, cancels, remote>>
    BY DEF ReceiveResults, Answered, Exchanges, service
  <1>3. /\ h \in Handles /\ h \in registered /\ job[h] \in Job /\ call[t] \in Call
        /\ job[h].id \in Ids /\ job[h].id # NoId
        /\ job[h].status = "DONE" /\ ~Submitting(h)
        /\ JobAgrees(h) /\ ReplyAgrees(t)
        /\ call[t].op = "results"
    BY <1>1, <1>2, InExchange, ConstantsAssumption DEF CallAgrees
  <1>4. reply[t].programs = job[h].programs
    BY <1>1, <1>2, <1>3 DEF ReplyAgrees, JobAgrees
  <1>5. PICK c \in {job[h].cached, job[h].programs} :
           job' = [job EXCEPT ![h] = [job[h] EXCEPT !.cached = c]]
    BY <1>1, <1>3, <1>4 DEF ReceiveResults, Inv, TypeOK, Job
  <1>6. /\ \A g \in Handles : g # h => job'[g] = job[g]
        /\ job'[h].status = job[h].status /\ job'[h].id = job[h].id
        /\ job'[h].attempted = job[h].attempted
        /\ job'[h].programs = job[h].programs
        /\ job'[h].cached = c
    BY <1>3, <1>5 DEF Inv, TypeOK, Job
  <1>7. PICK r \in {"OK", "BADSTATE"} : Return(t, r)
    BY DEF ReceiveResults
  <1>8. /\ \A u \in Threads : u # t => call'[u] = call[u]
        /\ call'[t].pc = "idle" /\ call'[t].on = h /\ call'[t].op = "results"
    BY <1>1, <1>3, <1>7 DEF Return, Inv, TypeOK, Call
  <1>9. ~Submitting(h)'
    BY <1>3, <1>8 DEF Submitting
  <1>10. Kept(h)
    BY <1>6, <1>9 DEF Kept, Settled
  <1>11. JobAgrees(h)'
    BY <1>2, <1>3, <1>6 DEF JobAgrees
  <1>12. CallAgrees(t)' /\ ResultAgrees(t)'
    BY <1>3, <1>6, <1>8, <1>9 DEF CallAgrees, ResultAgrees, Settled, Terminal, Waits
  <1>13. QED
    BY <1>1, <1>2, <1>3, <1>6, <1>8, <1>10, <1>11, <1>12, AnsweredAgrees

\* What the answer of an operation says about the status it was drawn from.
LEMMA VerdictMeans ==
  ASSUME NEW o \in Polling \cup {"cancel"}, NEW j, j.status \in Statuses,
         NEW v, v = Verdict(o, j)
  PROVE  /\ o = "cancel" /\ v = "OK" => j.status = "CANCELED"
         /\ o = "cancel" /\ v = "INVALIDARGUMENT" => j.status = "DONE"
         /\ o \in Waits /\ v = "OK" => j.status \in Terminal
         /\ o = "results" /\ v = "OK" => j.status = "DONE"
         /\ v = "fetch" => o = "results" /\ j.status = "DONE"
  <1>1. CASE o = "check"
    BY <1>1 DEF Verdict, Waits, Statuses, Active, Terminal
  <1>2. CASE o \in Waits
    BY <1>2 DEF Verdict, Waits
  <1>3. CASE o = "cancel"
    BY <1>3 DEF Verdict, Waits
  <1>4. CASE o = "results"
    BY <1>4 DEF Verdict, Waits
  <1>5. QED
    BY <1>1, <1>2, <1>3, <1>4 DEF Polling

\* The polled status is the service's, or one it has left behind.
LEMMA ReceivePollAgrees ==
  ASSUME Inv, Agreement, NEW t \in Threads, ReceivePoll(t)
  PROVE  Agreement'
  <1>1. PICK h, s, j, v : /\ h = call[t].on
                          /\ s = reply[t].status
                          /\ j = [job[h] EXCEPT !.status = s]
                          /\ v = Verdict(call[t].op, j)
    OBVIOUS
  <1>2. /\ call[t].pc = "poll" /\ call[t].pc \in Exchanges
        /\ reply[t].code = "snapshot" /\ ~Answered(t, "none")
        /\ s \in Statuses
        /\ Consume(t)
        /\ UNCHANGED <<registered, submits, cancels, remote>>
    BY <1>1 DEF ReceivePoll, Answered, Exchanges, service, Recognized
  <1>3. /\ h \in Handles /\ h \in registered /\ job[h] \in Job /\ call[t] \in Call
        /\ job[h].id \in Ids /\ job[h].id # NoId
        /\ job[h].status \notin Terminal
        /\ ~Submitting(h)
        /\ JobAgrees(h) /\ ReplyAgrees(t)
    BY <1>1, <1>2, InExchange, ConstantsAssumption DEF CallAgrees
  <1>4. call[t].op \in Polling \cup {"cancel"}
    BY <1>2 DEF Inv, Serialized, AsksAboutNamedJobs
  <1>5. Behind(s, remote[job[h].id].status) /\ s # "CREATED"
    <2>1. s # "UNKNOWN"
      BY <1>2 DEF Statuses, Active, Terminal
    <2>2. Behind(s, remote[job[h].id].status)
      BY <1>1, <1>2, <1>3, <2>1 DEF ReplyAgrees
    <2>3. remote[job[h].id].status # "CREATED"
      BY <1>3 DEF Agreement, RemoteAgrees
    <2>4. QED
      BY <2>2, <2>3 DEF Behind
  <1>6. /\ j.status = s /\ j.id = job[h].id
        /\ j.attempted = job[h].attempted
        /\ j.programs = job[h].programs
        /\ j.cached = job[h].cached
    BY <1>1, <1>3 DEF Job
  <1>7. /\ \A g \in Handles : g # h => job'[g] = job[g]
        /\ job'[h] = j
    BY <1>1, <1>3 DEF ReceivePoll, Inv, TypeOK
  <1>8. Kept(h)
    BY <1>3, <1>6, <1>7 DEF Kept, Settled
  <1>9. JobAgrees(h)'
    BY <1>2, <1>3, <1>5, <1>6, <1>7, ConstantsAssumption DEF JobAgrees, Terminal
  <1>10. \/ v = "fetch" /\ call' = [call EXCEPT ![t].pc = "fetch"]
         \/ v = "again" /\ call' = [call EXCEPT ![t].pc = "sleep"]
         \/ v \notin {"again", "fetch"} /\ Return(t, v)
    BY <1>1 DEF ReceivePoll
  <1>11. /\ \A u \in Threads : u # t => call'[u] = call[u]
         /\ call'[t].on = h /\ call'[t].op = call[t].op
         /\ \/ v = "fetch" /\ call'[t].pc = "fetch"
            \/ v = "again" /\ call'[t].pc = "sleep"
            \/ call'[t].pc = "idle" /\ call'[t].result = v
    BY <1>1, <1>3, <1>10 DEF Return, Inv, TypeOK, Call
  <1>12. ~Submitting(h)'
    BY <1>3, <1>11 DEF Submitting
  <1>13. /\ call[t].op = "cancel" /\ v = "OK" => s = "CANCELED"
         /\ call[t].op = "cancel" /\ v = "INVALIDARGUMENT" => s = "DONE"
         /\ call[t].op \in Waits /\ v = "OK" => s \in Terminal
         /\ call[t].op = "results" /\ v = "OK" => s = "DONE"
         /\ v = "fetch" => call[t].op = "results" /\ s = "DONE"
    BY <1>1, <1>2, <1>4, <1>6, VerdictMeans
  <1>14. CallAgrees(t)'
    BY <1>2, <1>3, <1>6, <1>7, <1>11, <1>13 DEF CallAgrees
  <1>15. ResultAgrees(t)'
    BY <1>2, <1>3, <1>5, <1>6, <1>7, <1>11, <1>12, <1>13
       DEF ResultAgrees, Settled, Behind, Terminal
  <1>16. QED
    BY <1>1, <1>2, <1>3, <1>6, <1>7, <1>8, <1>9, <1>11, <1>14, <1>15,
       AnsweredAgrees

\* A retrieved handle is published with what the service has.
LEMMA ReceiveRetrievedAgrees ==
  ASSUME Inv, Agreement, NEW t \in Threads, ReceiveRetrieved(t)
  PROVE  Agreement'
  <1>1. PICK h, r : h = call[t].on /\ r = reply[t]
    OBVIOUS
  <1>2. /\ call[t].pc = "retrieve" /\ call[t].pc \in Exchanges
        /\ r.code = "snapshot" /\ ~Answered(t, "none")
        /\ r.status \in Statuses
        /\ Consume(t)
        /\ registered' = registered \cup {h}
        /\ UNCHANGED <<submits, cancels, remote>>
    BY <1>1 DEF ReceiveRetrieved, Answered, Exchanges, service, Recognized
  <1>3. /\ h \in Handles /\ h \notin registered /\ call[t] \in Call
        /\ JobAgrees(h) /\ ReplyAgrees(t) /\ r \in Reply
        /\ call[t].op = "retrieve"
    BY <1>1, <1>2, InExchange DEF CallAgrees
  <1>4. r.id \in Ids /\ r.id # NoId
    BY <1>1, <1>2, ConstantsAssumption DEF Inv, Serialized, AnswersNameJobs
  <1>5. /\ Behind(r.status, remote[r.id].status) /\ r.status # "CREATED"
        /\ remote[r.id].status # "ABSENT"
        /\ remote[r.id].programs = r.programs /\ r.programs # NoProgram
    <2>1. r.status # "UNKNOWN"
      BY <1>2 DEF Statuses, Active, Terminal
    <2>2. /\ Behind(r.status, remote[r.id].status)
          /\ remote[r.id].status # "ABSENT"
          /\ remote[r.id].programs = r.programs
      BY <1>1, <1>2, <1>3, <2>1 DEF ReplyAgrees
    <2>3. RemoteAgrees(r.id)
      BY <1>4 DEF Agreement
    <2>4. QED
      BY <2>2, <2>3 DEF Behind, RemoteAgrees
  <1>6. job[h] = FreshJob
    BY <1>3 DEF JobAgrees
  <1>7. /\ \A g \in Handles : g # h => job'[g] = job[g]
        /\ job'[h] = Adopt(r)
    BY <1>1, <1>3 DEF ReceiveRetrieved, Inv, TypeOK
  <1>8. /\ job'[h].attempted /\ job'[h].id = r.id
        /\ job'[h].status = r.status /\ job'[h].programs = r.programs
        /\ job'[h].cached = NoProgram
    BY <1>7 DEF Adopt, FreshJob
  <1>9. Kept(h)
    BY <1>6 DEF Kept, Settled, FreshJob, Terminal
  <1>10. JobAgrees(h)'
    BY <1>2, <1>4, <1>5, <1>8 DEF JobAgrees
  <1>11. /\ \A u \in Threads : u # t => call'[u] = call[u]
         /\ call'[t].pc = "idle" /\ call'[t].on = h /\ call'[t].op = "retrieve"
    BY <1>1, <1>3 DEF ReceiveRetrieved, Return, Inv, TypeOK, Call
  <1>12. CallAgrees(t)' /\ ResultAgrees(t)'
    BY <1>11 DEF CallAgrees, ResultAgrees, Waits
  <1>13. \A m \in submits : m.on # h
    BY <1>6 DEF Agreement, SubmissionAgrees, FreshJob
  <1>14. QED
    BY <1>1, <1>2, <1>3, <1>7, <1>9, <1>10, <1>11, <1>12, <1>13, AnsweredAgrees

\* A given-up request stays in flight and is nobody's.
LEMMA FailAgrees ==
  ASSUME Inv, Agreement, NEW t \in Threads, Fail(t)
  PROVE  Agreement'
  <1>1. PICK r \in {"TIMEOUT", "ERROR"} : Fail(t)!(r)
    BY DEF Fail
  <1>2. PICK h : h = call[t].on
    OBVIOUS
  <1>3. /\ call[t].pc \in Exchanges
        /\ submits' = Abandon(submits, t) /\ cancels' = Abandon(cancels, t)
        /\ UNCHANGED <<registered, job, remote>>
    BY <1>1
  <1>4. h \in Handles /\ call[t] \in Call /\ JobAgrees(h)
    BY <1>2, <1>3, InExchange
  <1>5. /\ \A u \in Threads : u # t => call'[u] = call[u]
        /\ call'[t].pc = "idle" /\ call'[t].result = r
    BY <1>1, <1>4 DEF Return, Inv, TypeOK, Call
  <1>6. CallAgrees(t)' /\ ResultAgrees(t)'
    BY <1>5 DEF CallAgrees, ResultAgrees
  <1>7. /\ reply'[t] = Silence
        /\ \A u \in Threads : u # t => reply'[u] = reply[u]
    BY <1>1, ConsumeEffect DEF Inv
  <1>8. ReplyAgrees(t)'
    BY <1>7 DEF ReplyAgrees, Silence
  <1>9. Kept(h) /\ JobAgrees(h)'
    BY <1>3, <1>4, <1>5 DEF Kept, Settled, Submitting, JobAgrees
  <1>10. \A m \in submits' : (m \in submits /\ m.from # t) \/ SubmissionAgrees(m)'
    <2> SUFFICES ASSUME NEW n \in submits, n.from = t,
                        NEW m, m = [n EXCEPT !.from = NoThread]
                 PROVE  SubmissionAgrees(m)'
      BY <1>3 DEF Abandon
    <2>1. m.on = n.on /\ m.programs = n.programs /\ m.from = NoThread
      BY DEF Inv, TypeOK, Submission
    <2>2. QED
      BY <1>3, <2>1 DEF Agreement, SubmissionAgrees
  <1>11. \A m \in cancels' : (m \in cancels /\ m.from # t) \/ CancellationAgrees(m)'
    <2> SUFFICES ASSUME NEW n \in cancels, n.from = t,
                        NEW m, m = [n EXCEPT !.from = NoThread]
                 PROVE  CancellationAgrees(m)'
      BY <1>3 DEF Abandon
    <2>1. m.from = NoThread
      BY DEF Inv, TypeOK, Cancellation
    <2>2. QED
      BY <2>1 DEF CancellationAgrees
  <1>12. \A u \in Threads : u # t =>
            /\ call'[u] = call[u]
            /\ reply'[u] = reply[u]
            /\ call[u].pc \in Exchanges => call[u].on # h
    BY <1>2, <1>3, <1>5, <1>7, Alone
  <1>13. QED
    BY <1>3, <1>4, <1>5, <1>6, <1>8, <1>9, <1>10, <1>11, <1>12, HandleStepAgrees

-----------------------------------------------------------------------------
(* The service *)

\* What is left to show of a step of the service: it gives answers to the
\* threads that get one, and disturbs nobody else.
LEMMA ServiceAgrees ==
  ASSUME Inv, Agreement, UNCHANGED client,
         \A i \in Ids : RemoteKept(i),
         \A i \in Ids : RemoteAgrees(i)',
         \A t \in Threads : reply'[t] = reply[t] \/ ReplyAgrees(t)',
         submits' \subseteq submits, cancels' \subseteq cancels,
         \A m \in submits' : m.from \in Threads => reply'[m.from] = reply[m.from],
         \A m \in cancels' : m.from \in Threads => reply'[m.from] = reply[m.from]
  PROVE  Agreement'
  <1>1. UNCHANGED <<registered, job, call>>
    BY DEF client
  <1>2. \A h \in Handles : Kept(h) /\ JobAgrees(h)'
    BY <1>1, SameJobAgrees DEF Agreement, Inv, Kept, Settled, Submitting
  <1>3. \A t \in Threads : CallAgrees(t)' /\ ResultAgrees(t)'
    BY <1>1, <1>2, SameResultAgrees DEF Agreement, Inv, CallAgrees
  <1>4. \A t \in Threads : ReplyAgrees(t)'
    BY <1>1, SameReplyAgrees
  <1>5. \A m \in submits' : SubmissionAgrees(m)'
    <2> SUFFICES ASSUME NEW m \in submits' PROVE SubmissionAgrees(m)'
      OBVIOUS
    <2>1. m \in submits /\ m.from \in Threads \cup {NoThread}
      BY DEF Inv, TypeOK, Submission
    <2>2. QED
      BY <1>1, <2>1 DEF Agreement, SubmissionAgrees, Answered
  <1>6. \A m \in cancels' : CancellationAgrees(m)'
    <2> SUFFICES ASSUME NEW m \in cancels' PROVE CancellationAgrees(m)'
      OBVIOUS
    <2>1. m \in cancels /\ m.from \in Threads \cup {NoThread}
      BY DEF Inv, TypeOK, Cancellation
    <2>2. QED
      BY <1>1, <2>1 DEF Agreement, CancellationAgrees, Answered
  <1>7. QED
    BY <1>2, <1>3, <1>4, <1>5, <1>6 DEF Agreement

\* The service accepts what the handle shows, and tells its submitter.
LEMMA AcceptAgrees ==
  ASSUME Inv, OnceInv, Agreement, Accept PROVE Agreement'
  <1>1. PICK m \in submits, i \in Ids, code \in {"created", "foreign"} :
           Accept!(m, i, code)
    BY DEF Accept
  <1>2. /\ m \in Submission /\ SubmissionAgrees(m)
        /\ m.on \in Handles /\ JobAgrees(m.on)
    BY DEF Inv, TypeOK, Submission, Agreement
  <1>3. /\ remote[i].status = "ABSENT"
        /\ remote'[i] = [status |-> "SUBMITTED", programs |-> m.programs,
                         source |-> m.on]
        /\ \A k \in Ids : k # i => remote'[k] = remote[k]
        /\ submits' = submits \ {m}
        /\ UNCHANGED client /\ UNCHANGED cancels
        /\ UNCHANGED <<registered, job, call>>
    BY <1>1 DEF Inv, TypeOK, client
  <1>4. \A k \in Ids : RemoteKept(k)
    BY <1>3 DEF RemoteKept, Behind
  <1>5. \A k \in Ids : RemoteAgrees(k)'
    <2>1. RemoteAgrees(i)'
      BY <1>2, <1>3 DEF RemoteAgrees, SubmissionAgrees, JobAgrees
    <2>2. ASSUME NEW k \in Ids, k # i PROVE RemoteAgrees(k)'
      BY <1>3, <2>2 DEF Agreement, RemoteAgrees
    <2>3. QED
      BY <2>1, <2>2
  <1> DEFINE r == [Silence EXCEPT !.code = code, !.id = i]
  <1>6. \A t \in Threads : reply'[t] = IF t = m.from THEN r ELSE reply[t]
    BY <1>1 DEF Answer, Inv, TypeOK
  <1>7. ASSUME NEW t \in Threads, t = m.from PROVE ReplyAgrees(t)'
    <2>1. call[t].pc = "submit" /\ call[t].on = m.on
      BY <1>2, <1>7, ConstantsAssumption DEF SubmissionAgrees
    <2>2. reply'[t].code \in {"created", "foreign"} /\ reply'[t].id = i
      BY <1>6, <1>7 DEF Silence
    <2>3. QED
      BY <1>3, <2>1, <2>2 DEF ReplyAgrees
  <1>8. ASSUME NEW n \in submits', n.from \in Threads
        PROVE  reply'[n.from] = reply[n.from]
    <2>1. n \in submits /\ n # m /\ SubmissionAgrees(n) /\ n.on \in Handles
      BY <1>3 DEF Agreement, Inv, TypeOK, Submission
    <2>2. n.on # m.on
      BY <1>2, <2>1 DEF OnceInv, Once
    <2>3. n.from # m.from
      BY <1>2, <1>8, <2>1, <2>2, ConstantsAssumption DEF SubmissionAgrees
    <2>4. QED
      BY <1>6, <1>8, <2>3
  <1>9. ASSUME NEW n \in cancels', n.from \in Threads
        PROVE  reply'[n.from] = reply[n.from]
    <2>1. CancellationAgrees(n)
      BY <1>3 DEF Agreement
    <2>2. n.from # m.from
      BY <1>2, <1>9, <2>1, ConstantsAssumption
         DEF SubmissionAgrees, CancellationAgrees
    <2>3. QED
      BY <1>6, <1>9, <2>2
  <1>10. \A t \in Threads : reply'[t] = reply[t] \/ ReplyAgrees(t)'
    BY <1>6, <1>7
  <1>11. QED
    BY <1>3, <1>4, <1>5, <1>8, <1>9, <1>10, ServiceAgrees

\* The service cancels an active job, or refuses.
LEMMA DecideCancelAgrees ==
  ASSUME Inv, Agreement, DecideCancel PROVE Agreement'
  <1>1. PICK m \in cancels : DecideCancel!(m)
    BY DEF DecideCancel
  <1>2. m \in Cancellation /\ m.id \in Ids /\ CancellationAgrees(m)
    BY DEF Inv, TypeOK, Cancellation, Agreement
  <1>3. PICK code \in {"canceled", "conflict"} :
           /\ Answer(m.from, [Silence EXCEPT !.code = code])
           /\ code = "canceled" =>
                 /\ remote[m.id].status \in Active
                 /\ remote' = [remote EXCEPT ![m.id].status = "CANCELED"]
           /\ code = "conflict" => UNCHANGED remote
    BY <1>1
  <1>4. /\ cancels' = cancels \ {m}
        /\ UNCHANGED client /\ UNCHANGED submits
        /\ UNCHANGED <<registered, job, call>>
    BY <1>1 DEF client
  <1>5. /\ \A k \in Ids : /\ remote'[k].programs = remote[k].programs
                          /\ remote'[k].source = remote[k].source
                          /\ k # m.id => remote'[k].status = remote[k].status
        /\ \/ remote'[m.id].status = remote[m.id].status /\ code = "conflict"
           \/ /\ remote[m.id].status \in Active
              /\ remote'[m.id].status = "CANCELED"
    BY <1>2, <1>3 DEF Inv, TypeOK, RemoteJob
  <1>6. \A k \in Ids : RemoteKept(k)
    BY <1>5 DEF RemoteKept, Behind, Active, Terminal
  <1>7. \A k \in Ids : RemoteAgrees(k)'
    BY <1>4, <1>5 DEF Agreement, RemoteAgrees, Active
  <1>8. \A t \in Threads : reply'[t] = IF t = m.from
                                       THEN [Silence EXCEPT !.code = code]
                                       ELSE reply[t]
    BY <1>3 DEF Answer, Inv, TypeOK
  <1>9. ASSUME NEW t \in Threads, t = m.from PROVE ReplyAgrees(t)'
    <2>1. call[t].pc = "cancel" /\ job[call[t].on].id = m.id
      BY <1>2, <1>9, ConstantsAssumption DEF CancellationAgrees
    <2>2. reply'[t].code = code
      BY <1>8, <1>9 DEF Silence
    <2>3. code = "canceled" => remote'[m.id].status = "CANCELED"
      BY <1>5
    <2>4. QED
      BY <1>4, <2>1, <2>2, <2>3 DEF ReplyAgrees
  <1>10. ASSUME NEW n \in cancels', n.from \in Threads
         PROVE  reply'[n.from] = reply[n.from]
    <2>1. n \in cancels /\ n # m /\ n \in Cancellation /\ CancellationAgrees(n)
      BY <1>4 DEF Agreement, Inv, TypeOK
    <2>2. n.from # m.from
      <3> SUFFICES ASSUME n.from = m.from PROVE FALSE
        OBVIOUS
      <3>1. n.id = m.id
        BY <1>2, <1>10, <2>1, ConstantsAssumption DEF CancellationAgrees
      <3>2. QED
        BY <1>2, <2>1, <3>1 DEF Cancellation
    <2>3. QED
      BY <1>8, <1>10, <2>2
  <1>11. ASSUME NEW n \in submits', n.from \in Threads
         PROVE  reply'[n.from] = reply[n.from]
    <2>1. SubmissionAgrees(n)
      BY <1>4 DEF Agreement
    <2>2. n.from # m.from
      BY <1>2, <1>11, <2>1, ConstantsAssumption
         DEF SubmissionAgrees, CancellationAgrees
    <2>3. QED
      BY <1>8, <1>11, <2>2
  <1>12. \A t \in Threads : reply'[t] = reply[t] \/ ReplyAgrees(t)'
    BY <1>8, <1>9
  <1>13. QED
    BY <1>4, <1>6, <1>7, <1>10, <1>11, <1>12, ServiceAgrees

\* A request is lost.
LEMMA LoseAgrees ==
  ASSUME Inv, Agreement, Lose PROVE Agreement'
  <1>1. /\ UNCHANGED client /\ UNCHANGED <<registered, job, call>>
        /\ UNCHANGED <<reply, remote>>
        /\ submits' \subseteq submits /\ cancels' \subseteq cancels
    BY DEF Lose, client
  <1>2. \A i \in Ids : RemoteKept(i) /\ RemoteAgrees(i)'
    BY <1>1 DEF Agreement, RemoteKept, Behind, RemoteAgrees
  <1>3. QED
    BY <1>1, <1>2, ServiceAgrees

\* A job moves on.
LEMMA AdvanceAgrees ==
  ASSUME Inv, Agreement, NEW i \in Ids, Advance(i) PROVE Agreement'
  <1>1. /\ UNCHANGED client /\ UNCHANGED <<registered, job, call>>
        /\ UNCHANGED <<reply, submits, cancels>>
    BY DEF Advance, client
  <1>2. PICK s \in Statuses : Advance(i)!1!(s)
    BY DEF Advance
  <1>3. /\ \A k \in Ids : /\ remote'[k].programs = remote[k].programs
                          /\ remote'[k].source = remote[k].source
                          /\ k # i => remote'[k].status = remote[k].status
        /\ remote'[i].status = s
    BY <1>2 DEF Inv, TypeOK, RemoteJob
  <1>4. Behind(remote[i].status, s) /\ s \notin {"CREATED", "ABSENT"}
        /\ remote[i].status # "ABSENT"
    BY <1>2 DEF Behind, Terminal
  <1>5. \A k \in Ids : RemoteKept(k)
    BY <1>3, <1>4 DEF RemoteKept, Behind
  <1>6. \A k \in Ids : RemoteAgrees(k)'
    BY <1>1, <1>3, <1>4 DEF Agreement, RemoteAgrees
  <1>7. QED
    BY <1>1, <1>5, <1>6, ServiceAgrees

\* A GET is answered with what the service has.
LEMMA AnswerGetAgrees ==
  ASSUME Inv, Agreement, NEW t \in Threads, AnswerGet(t) PROVE Agreement'
  <1>1. PICK h : h = call[t].on
    OBVIOUS
  <1>2. /\ UNCHANGED client /\ UNCHANGED <<registered, job, call>>
        /\ UNCHANGED <<submits, cancels, remote>>
        /\ call[t].pc \in {"poll", "retrieve", "fetch"}
        /\ call[t].pc \in Exchanges
    BY DEF AnswerGet, client, service, Exchanges
  <1>3. /\ h \in Handles /\ JobAgrees(h) /\ CallAgrees(t)
        /\ call[t].pc # "retrieve" => job[h].id \in Ids /\ job[h].id # NoId
    BY <1>1, <1>2, InExchange, ConstantsAssumption
  <1>4. \A i \in Ids : RemoteKept(i) /\ RemoteAgrees(i)'
    BY <1>2 DEF Agreement, RemoteKept, Behind, RemoteAgrees
  <1>5. \A u \in Threads : u # t => reply'[u] = reply[u]
    BY DEF AnswerGet, Answer, Inv, TypeOK
  <1>6. ReplyAgrees(t)'
    <2>1. CASE call[t].pc = "poll"
      <3>1. PICK r \in Snapshot(job[h].id) : Answer(t, r)
        BY <1>1, <2>1 DEF AnswerGet
      <3>2. /\ reply'[t] = r
            /\ r.code = "snapshot" /\ r.id = job[h].id
            /\ r.programs = remote[r.id].programs
            /\ r.status \in {remote[r.id].status, "UNKNOWN"}
        BY <3>1 DEF Answer, Inv, TypeOK, Snapshot
      <3>3. /\ remote[r.id].status # "ABSENT"
            /\ Behind(job[h].status, remote[r.id].status)
        BY <1>1, <1>3, <2>1, <3>2 DEF JobAgrees, CallAgrees, Terminal
      <3>4. QED
        BY <1>1, <1>2, <2>1, <3>2, <3>3 DEF ReplyAgrees, Behind
    <2>2. CASE call[t].pc = "retrieve"
      <3>1. PICK i \in Ids : /\ remote[i].status # "ABSENT"
                             /\ \E r \in Snapshot(i) : Answer(t, r)
        BY <2>2 DEF AnswerGet
      <3>2. PICK r \in Snapshot(i) : Answer(t, r)
        BY <3>1
      <3>3. /\ reply'[t] = r
            /\ r.code = "snapshot" /\ r.id = i
            /\ r.programs = remote[r.id].programs
            /\ r.status \in {remote[r.id].status, "UNKNOWN"}
        BY <3>2 DEF Answer, Inv, TypeOK, Snapshot
      <3>4. QED
        BY <1>2, <2>2, <3>1, <3>3 DEF ReplyAgrees, Behind
    <2>3. CASE call[t].pc = "fetch"
      <3>1. PICK code \in {"results", "notReady"} :
               Answer(t, [Silence EXCEPT !.code = code,
                          !.programs = remote[job[h].id].programs])
        BY <1>1, <2>3 DEF AnswerGet
      <3>2. /\ reply'[t].code = code
            /\ reply'[t].programs = remote[job[h].id].programs
        BY <3>1 DEF Answer, Inv, TypeOK, Silence
      <3>3. QED
        BY <1>1, <1>2, <2>3, <3>2 DEF ReplyAgrees
    <2>4. QED
      BY <1>2, <2>1, <2>2, <2>3
  <1>7. \A m \in submits' : m.from \in Threads => m.from # t
    BY <1>2, ConstantsAssumption DEF Agreement, SubmissionAgrees
  <1>8. \A m \in cancels' : m.from \in Threads => m.from # t
    BY <1>2, ConstantsAssumption DEF Agreement, CancellationAgrees
  <1>9. \A u \in Threads : reply'[u] = reply[u] \/ ReplyAgrees(u)'
    BY <1>5, <1>6
  <1>10. QED
    BY <1>2, <1>4, <1>5, <1>7, <1>8, <1>9, ServiceAgrees

-----------------------------------------------------------------------------
(* Every step *)

\* Nothing is sent, accepted or answered initially.
LEMMA InitAgrees == Init => Agreement
  <1> SUFFICES ASSUME Init PROVE Agreement
    OBVIOUS
  <1>1. \A h \in Handles : JobAgrees(h)
    BY DEF Init, JobAgrees, FreshJob
  <1>2. \A i \in Ids : RemoteAgrees(i)
    BY DEF Init, RemoteAgrees
  <1>3. \A t \in Threads : CallAgrees(t) /\ ReplyAgrees(t) /\ ResultAgrees(t)
    BY DEF Init, CallAgrees, ReplyAgrees, ResultAgrees, Silence
  <1>4. QED
    BY <1>1, <1>2, <1>3 DEF Init, Agreement

\* Every step keeps the agreement of handles and service.
LEMMA NextAgrees ==
  ASSUME Inv, OnceInv, Agreement, [Next]_vars PROVE Agreement'
  <1>1. CASE \E h \in Handles : Create(h)
    BY <1>1, CreateAgrees
  <1>2. CASE \E t \in Threads : Begin(t) \/ BeginRetrieve(t) \/ Expire(t)
    BY <1>2, StartAgrees, WaitAgrees
  <1>3. CASE \E t \in Threads : ThreadStep(t)
    BY <1>3, ConfigureAgrees, SubmitAgrees, AskAgrees, AnswerLocallyAgrees,
       ReceiveSubmittedAgrees, ReceiveCancelAgrees, ReceivePollAgrees,
       ReceiveResultsAgrees, ReceiveRetrievedAgrees, FailAgrees, WaitAgrees
       DEF ThreadStep
  <1>4. CASE ServiceStep
    BY <1>4, AcceptAgrees, DecideCancelAgrees, LoseAgrees, AnswerGetAgrees,
       AdvanceAgrees DEF ServiceStep
  <1>5. CASE Finished \/ UNCHANGED vars
    BY <1>5 DEF Finished, vars, Agreement, JobAgrees, RemoteAgrees,
       SubmissionAgrees, CancellationAgrees, CallAgrees, ReplyAgrees,
       ResultAgrees, Settled, Submitting, Answered
  <1>6. QED
    BY <1>1, <1>2, <1>3, <1>4, <1>5 DEF Next

\* The three invariants together are inductive.
LEMMA AgreementAlways == Spec => [](Inv /\ OnceInv /\ Agreement)
  <1>1. Inv /\ OnceInv /\ Agreement /\ [Next]_vars => Inv' /\ OnceInv' /\ Agreement'
    BY NextInv, NextOnce, NextAgrees
  <1>2. QED
    BY InitInv, InitOnce, InitAgrees, <1>1, PTL DEF Spec

-----------------------------------------------------------------------------
(* What follows *)

(***************************************************************************)
(* What get_program and the property queries report is what the service    *)
(* runs: no set_programs slips in between a submission and its answer, and *)
(* a retrieved handle shows the job it was retrieved from.                 *)
(***************************************************************************)
THEOREM ShownIsRun == Spec => []ShowsWhatRuns
  <1>1. ASSUME Inv, Agreement PROVE ShowsWhatRuns
    <2> SUFFICES ASSUME NEW h \in Handles
                 PROVE  /\ job[h].id # NoId => remote[job[h].id].programs = job[h].programs
                        /\ \A i \in Ids : remote[i].source = h =>
                                            remote[i].programs = job[h].programs
      BY DEF ShowsWhatRuns
    <2>1. job[h].id # NoId => remote[job[h].id].programs = job[h].programs
      BY <1>1 DEF Agreement, JobAgrees
    <2>2. ASSUME NEW i \in Ids, remote[i].source = h
          PROVE  remote[i].programs = job[h].programs
      BY <1>1, <2>2, ConstantsAssumption DEF Agreement, RemoteAgrees
    <2>3. QED
      BY <2>1, <2>2
  <1>2. QED
    BY <1>1, AgreementAlways, PTL

\* Following each other, statuses do not decrease.
LEMMA BehindRank ==
  ASSUME NEW s \in Statuses, NEW r \in Statuses \cup {"ABSENT"}, Behind(s, r),
         s # "CREATED"
  PROVE  Rank(s) \in Nat /\ Rank(r) \in Nat /\ Rank(s) <= Rank(r)
  <1>1. Rank("SUBMITTED") = 1 /\ Rank("QUEUED") = 2 /\ Rank("RUNNING") = 3
        /\ Rank("DONE") = 4 /\ Rank("CANCELED") = 4 /\ Rank("FAILED") = 4
    BY DEF Rank
  <1>2. s \in {"SUBMITTED", "QUEUED", "RUNNING", "DONE", "CANCELED", "FAILED"}
    BY DEF Statuses, Active, Terminal
  <1>3. r \in {"SUBMITTED", "QUEUED", "RUNNING", "DONE", "CANCELED", "FAILED"}
    BY <1>2 DEF Behind, Terminal
  <1>4. QED
    BY <1>1, <1>2, <1>3 DEF Behind, Terminal

(***************************************************************************)
(* A handle never claims more of its job than the service knows, whatever  *)
(* answers are late and whoever else uses the job.                         *)
(***************************************************************************)
THEOREM NeverAhead == Spec => []NeverAheadOfService
  <1>1. ASSUME Inv, Agreement PROVE NeverAheadOfService
    <2> SUFFICES ASSUME NEW h \in Handles,
                        job[h].status \in Active \cup {"DONE", "CANCELED"}
                 PROVE  /\ job[h].id # NoId
                        /\ Rank(job[h].status) <= Rank(remote[job[h].id].status)
                        /\ job[h].status \in {"DONE", "CANCELED"} =>
                              remote[job[h].id].status = job[h].status
      BY DEF NeverAheadOfService
    <2>1. job[h].status \notin {"CREATED", "FAILED"} /\ job[h].status \in Statuses
      BY DEF Active, Statuses, Terminal
    <2>2. job[h].id \in Ids /\ job[h].id # NoId
      BY <1>1, <2>1, ConstantsAssumption DEF Inv, Serialized, StatusNeedsId
    <2>3. Behind(job[h].status, remote[job[h].id].status)
      BY <1>1, <2>1, <2>2 DEF Agreement, JobAgrees
    <2>4. remote[job[h].id].status \in Statuses \cup {"ABSENT"}
      BY <1>1, <2>2 DEF Inv, TypeOK, RemoteJob
    <2>5. QED
      BY <2>1, <2>2, <2>3, <2>4, BehindRank DEF Behind
  <1>2. QED
    BY <1>1, AgreementAlways, PTL

(***************************************************************************)
(* job_get_results has results only of a completed job, and of the program *)
(* list the handle shows.                                                  *)
(***************************************************************************)
THEOREM CacheIsOfThisJob == Spec => []CachedResultsAreOfThisJob
  <1>1. ASSUME Inv, Agreement PROVE CachedResultsAreOfThisJob
    <2> SUFFICES ASSUME NEW h \in Handles, job[h].cached # NoProgram
                 PROVE  /\ job[h].status = "DONE"
                        /\ job[h].cached = job[h].programs
                        /\ remote[job[h].id].status = "DONE"
      BY DEF CachedResultsAreOfThisJob
    <2>1. JobAgrees(h)
      BY <1>1 DEF Agreement
    <2>2. job[h].status = "DONE" /\ job[h].cached = job[h].programs
      BY <2>1 DEF JobAgrees
    <2>3. job[h].id # NoId
      BY <1>1, <2>2, ConstantsAssumption DEF Inv, Serialized, StatusNeedsId
    <2>4. QED
      BY <2>1, <2>2, <2>3 DEF JobAgrees, Behind
  <1>2. QED
    BY <1>1, AgreementAlways, PTL

(***************************************************************************)
(* The answers clients act on are true, and stay true: success of          *)
(* job_cancel, "already completed", success of job_wait and of             *)
(* job_get_results.                                                        *)
(***************************************************************************)
THEOREM AnswersAreTruthful == Spec => []TruthfulAnswers
  <1>1. Agreement => TruthfulAnswers
    BY DEF Agreement, ResultAgrees, Settled, TruthfulAnswers
  <1>2. QED
    BY <1>1, AgreementAlways, PTL

\* The status of a handle is changed only while it is being submitted, or
\* from one that is not terminal.
LEMMA StatusStep ==
  ASSUME Inv, Agreement, [Next]_vars, NEW h \in Handles,
         job[h].status \in Terminal, ~Submitting(h)
  PROVE  job'[h].status = job[h].status
  <1> SUFFICES ASSUME job'[h] # job[h]
               PROVE  job'[h].status = job[h].status
    OBVIOUS
  <1>1. PICK t \in Threads :
           \/ Configure(t) \/ Submit(t) \/ ReceiveSubmitted(t) \/ ReceiveCancel(t)
           \/ ReceivePoll(t) \/ ReceiveResults(t) \/ ReceiveRetrieved(t)
    <2>1. CASE \E t \in Threads : ThreadStep(t)
      BY <2>1 DEF ThreadStep, StartCancel, StartPoll, StartFetch, AnswerLocally,
         Fail, Wake, TimeOut
    <2>2. CASE ServiceStep
      BY <2>2 DEF ServiceStep, Accept, DecideCancel, Lose, AnswerGet, Advance, client
    <2>3. CASE \/ \E g \in Handles : Create(g)
               \/ \E t \in Threads : Begin(t) \/ BeginRetrieve(t) \/ Expire(t)
               \/ Finished \/ UNCHANGED vars
      BY <2>3 DEF Create, Begin, BeginRetrieve, Expire, Finished, vars
    <2>4. QED
      BY <2>1, <2>2, <2>3 DEF Next
  <1>2. job[h] \in Job
    BY DEF Inv, TypeOK
  <1>3. CASE Configure(t) \/ Submit(t)
    BY <1>3 DEF Configure, Submit, Submittable, Configurable, Inv, TypeOK, Terminal
  <1>4. CASE call[t].pc \in Exchanges
    <2>1. /\ CallAgrees(t) /\ JobAgrees(call[t].on)
          /\ call[t].on \in Handles
      BY <1>4, InExchange
    <2>2. CASE ReceiveSubmitted(t)
      <3>1. call[t].on # h
        BY <2>2 DEF ReceiveSubmitted, Submitting
      <3>2. QED
        BY <2>2, <3>1 DEF ReceiveSubmitted, Inv, TypeOK
    <2>3. CASE ReceiveCancel(t) \/ ReceivePoll(t)
      <3>1. call[t].on # h
        BY <2>1, <2>3 DEF ReceiveCancel, ReceivePoll, CallAgrees
      <3>2. QED
        BY <2>3, <3>1 DEF ReceiveCancel, ReceivePoll, Inv, TypeOK
    <2>4. CASE ReceiveResults(t)
      BY <1>2, <2>4 DEF ReceiveResults, Inv, TypeOK, Job
    <2>5. CASE ReceiveRetrieved(t)
      <3>1. job[call[t].on].status = "CREATED"
        BY <2>1, <2>5 DEF ReceiveRetrieved, CallAgrees, JobAgrees, FreshJob
      <3>2. call[t].on # h
        BY <3>1 DEF Terminal
      <3>3. QED
        BY <2>5, <3>2 DEF ReceiveRetrieved, Inv, TypeOK
    <2>6. QED
      BY <1>1, <1>3, <2>2, <2>3, <2>4, <2>5
  <1>5. QED
    BY <1>1, <1>3, <1>4 DEF ReceiveSubmitted, ReceiveCancel, ReceivePoll,
       ReceiveResults, ReceiveRetrieved, Exchanges

(***************************************************************************)
(* A terminal status is final, but for the provisional FAILED of a         *)
(* submission under way: a frozen handle never comes back to life.         *)
(***************************************************************************)
THEOREM TerminalStaysFinal == Spec => TerminalIsFinal
  <1>1. Inv /\ Agreement /\ [Next]_vars =>
           [\A h \in Handles : job[h].status \in Terminal /\ ~Submitting(h)
                                  => job'[h].status = job[h].status]_vars
    BY StatusStep
  <1>2. QED
    BY <1>1, AgreementAlways, PTL DEF Spec, TerminalIsFinal

-----------------------------------------------------------------------------
(***************************************************************************)
(* DeviceJob implements JobContract, for any number of threads, handles,   *)
(* identifiers and program lists: the initial states map to initial        *)
(* states, and every step to a step of the contract or to none.            *)
(*                                                                         *)
(* The threads, the mutexes and the answers are invisible in the contract. *)
(* The invariants above say why what remains of them is: a submission is   *)
(* settled with the answer to it, a polled status is never older than the  *)
(* handle's, and what the service accepts is what the handle has been      *)
(* frozen with.                                                            *)
(***************************************************************************)

\* The refinement mapping, handle by handle.
View(h) == IF Submitting(h) THEN "SUBMITTING" ELSE job[h].status
Ran(h) == IF RanBy(h) = {} THEN NoProgram
          ELSE remote[CHOOSE i \in RanBy(h) : TRUE].programs

Agreed == Inv /\ OnceInv /\ Agreement

\* What the service ran for a handle is what the handle shows.
LEMMA RanMeaning ==
  Agreed => \A h \in Handles :
               Ran(h) = IF \E i \in Ids : remote[i].source = h
                        THEN job[h].programs ELSE NoProgram
  <1> SUFFICES ASSUME Agreed, NEW h \in Handles
               PROVE  Ran(h) = IF \E i \in Ids : remote[i].source = h
                               THEN job[h].programs ELSE NoProgram
    OBVIOUS
  <1>1. CASE RanBy(h) = {}
    BY <1>1 DEF Ran, RanBy
  <1>2. CASE RanBy(h) # {}
    <2>1. PICK i : i = CHOOSE k \in RanBy(h) : TRUE
      OBVIOUS
    <2>2. i \in Ids /\ remote[i].source = h
      BY <1>2, <2>1 DEF RanBy
    <2>3. remote[i].programs = job[h].programs
      BY <2>2, ConstantsAssumption DEF Agreed, Agreement, RemoteAgrees
    <2>4. QED
      BY <1>2, <2>1, <2>2, <2>3 DEF Ran
  <1>3. QED
    BY <1>1, <1>2

\* And after a step.
LEMMA RanMeaningAfter ==
  Agreed' => \A h \in Handles :
                Ran(h)' = IF \E i \in Ids : remote'[i].source = h
                          THEN job'[h].programs ELSE NoProgram
  <1>1. Agreed' => (\A h \in Handles :
                       Ran(h) = IF \E i \in Ids : remote[i].source = h
                                THEN job[h].programs ELSE NoProgram)'
    BY RanMeaning, PTL
  <1>2. QED
    BY <1>1

\* A step takes the invariants along.
LEMMA NextAgreed == Agreed /\ [Next]_vars => Agreed'
  BY NextInv, NextOnce, NextAgrees DEF Agreed

\* What the service ran for a handle changes only by an acceptance.
LEMMA RanStays ==
  ASSUME Agreed, Agreed', SourcesStay, NEW h \in Handles,
         job[h].attempted => job'[h].programs = job[h].programs
  PROVE  Ran(h)' = Ran(h)
  <1>1. Ran(h) = IF \E i \in Ids : remote[i].source = h
                 THEN job[h].programs ELSE NoProgram
    BY RanMeaning
  <1>2. Ran(h)' = IF \E i \in Ids : remote'[i].source = h
                  THEN job'[h].programs ELSE NoProgram
    BY RanMeaningAfter
  <1>3. (\E i \in Ids : remote[i].source = h) => job[h].attempted
    BY DEF Agreed, OnceInv, Remembered
  <1>4. QED
    BY <1>1, <1>2, <1>3 DEF SourcesStay

\* Ran(h) is a program list or none.
LEMMA RanType == ASSUME Agreed, NEW h \in Handles PROVE Ran(h) \in Programs \cup {NoProgram}
  BY RanMeaning DEF Agreed, Inv, TypeOK, Job

-----------------------------------------------------------------------------
(* Initial states and steps of the contract, in terms of the mapping *)

\* No handle is configured, submitted or run.
LEMMA InitContract == Init => Contract!Init
  <1> SUFFICES ASSUME Init PROVE Contract!Init
    OBVIOUS
  <1>1. \A h \in Handles : ~Submitting(h) /\ RanBy(h) = {}
    BY ConstantsAssumption DEF Init, Submitting, RanBy
  <1>2. QED
    BY <1>1 DEF Init, Contract!Init, FreshJob

\* Steps the contract does not see.
LEMMA Unseen ==
  ASSUME \A h \in Handles : /\ job'[h].programs = job[h].programs
                            /\ View(h)' = View(h)
                            /\ Ran(h)' = Ran(h)
  PROVE  UNCHANGED Contract!vars
  BY DEF Contract!vars, View, Ran

\* Changing the programs of one handle alone is a step of the contract.
LEMMA ContractConfigure ==
  ASSUME NEW h \in Handles, NEW p \in Programs, View(h) = "CREATED",
         job'[h].programs = p,
         \A g \in Handles : /\ g # h => job'[g].programs = job[g].programs
                            /\ View(g)' = View(g)
                            /\ Ran(g)' = Ran(g)
  PROVE  Contract!Next
  <1>1. Contract!Configure(h, p)
    BY DEF Contract!Configure, View, Ran
  <1>2. QED
    BY <1>1 DEF Contract!Next

\* Beginning a submission of one handle is a step of the contract.
LEMMA ContractSubmit ==
  ASSUME NEW h \in Handles, View(h) = "CREATED", job[h].programs # NoProgram,
         View(h)' = "SUBMITTING",
         \A g \in Handles : /\ job'[g].programs = job[g].programs
                            /\ g # h => View(g)' = View(g)
                            /\ Ran(g)' = Ran(g)
  PROVE  Contract!Next
  <1>1. Contract!Submit(h)
    BY DEF Contract!Submit, View, Ran
  <1>2. QED
    BY <1>1 DEF Contract!Next

\* Running what a handle shows is a step of the contract.
LEMMA ContractAccept ==
  ASSUME NEW h \in Handles, View(h) \in {"SUBMITTING", "FAILED"},
         job[h].programs # NoProgram,
         Ran(h) = NoProgram, Ran(h)' = job[h].programs,
         \A g \in Handles : /\ job'[g].programs = job[g].programs
                            /\ View(g)' = View(g)
                            /\ g # h => Ran(g)' = Ran(g)
  PROVE  Contract!Next
  <1> DEFINE config == [g \in Handles |-> job[g].programs]
             view == [g \in Handles |-> View(g)]
             ran == [g \in Handles |-> Ran(g)]
  <1>1. /\ view[h] \in {"SUBMITTING", "FAILED"}
        /\ config[h] # NoProgram
        /\ ran[h] = NoProgram
        /\ ran' = [ran EXCEPT ![h] = config[h]]
        /\ config' = config
        /\ view' = view
    OBVIOUS
  <1>2. Contract!Accept(h)
    BY <1>1, Zenon DEF Contract!Accept, View, Ran
  <1>3. QED
    BY <1>2 DEF Contract!Next

\* Learning what became of a submission is a step of the contract.
LEMMA ContractSettle ==
  ASSUME NEW h \in Handles, View(h) = "SUBMITTING",
         \/ View(h)' = "FAILED"
         \/ View(h)' = "SUBMITTED" /\ Ran(h) = job[h].programs,
         \A g \in Handles : /\ job'[g].programs = job[g].programs
                            /\ g # h => View(g)' = View(g)
                            /\ Ran(g)' = Ran(g)
  PROVE  Contract!Next
  <1>1. Contract!Settle(h)
    <2>1. CASE View(h)' = "FAILED"
      BY <2>1 DEF Contract!Settle, View, Ran
    <2>2. CASE View(h)' = "SUBMITTED" /\ Ran(h) = job[h].programs
      BY <2>2 DEF Contract!Settle, View, Ran
    <2>3. QED
      BY <2>1, <2>2
  <1>2. QED
    BY <1>1 DEF Contract!Next

\* The ranks of the statuses in the contract.
LEMMA ContractRanks ==
  /\ Contract!Rank("SUBMITTED") = 2 /\ Contract!Rank("QUEUED") = 3
  /\ Contract!Rank("RUNNING") = 4 /\ Contract!Rank("DONE") = 5
  /\ Contract!Rank("CANCELED") = 5 /\ Contract!Rank("FAILED") = 5
  BY DEF Contract!Rank

\* Moving a status forward is a step of the contract.
LEMMA ContractProgress ==
  ASSUME NEW h \in Handles, View(h) \in Active, View(h)' # View(h),
         Behind(View(h), View(h)'),
         \A g \in Handles : /\ job'[g].programs = job[g].programs
                            /\ g # h => View(g)' = View(g)
                            /\ Ran(g)' = Ran(g)
  PROVE  Contract!Next
  <1>1. View(h)' \in {"QUEUED", "RUNNING", "DONE", "CANCELED", "FAILED"}
    BY DEF Behind, Active, Terminal
  <1>2. /\ View(h)' \in Contract!Statuses
        /\ Contract!Rank(View(h)) \in 2 .. 4
        /\ Contract!Rank(View(h)') > Contract!Rank(View(h))
    BY <1>1, ContractRanks DEF Contract!Statuses, Behind, Active, Terminal
  <1>3. Contract!Progress(h)
    BY <1>2 DEF Contract!Progress, View, Ran
  <1>4. QED
    BY <1>3 DEF Contract!Next

\* Retrieving what runs is a step of the contract.
LEMMA ContractRetrieve ==
  ASSUME NEW h \in Handles, View(h) = "CREATED", job[h].programs = NoProgram,
         View(h)' \in Active \cup Terminal, job'[h].programs \in Programs,
         \A g \in Handles : /\ g # h => job'[g].programs = job[g].programs
                            /\ g # h => View(g)' = View(g)
                            /\ Ran(g)' = Ran(g)
  PROVE  Contract!Next
  <1>1. View(h)' \in Contract!Statuses /\ Contract!Rank(View(h)') >= 2
    BY ContractRanks DEF Contract!Statuses, Active, Terminal
  <1>2. Contract!Retrieve(h)
    BY <1>1 DEF Contract!Retrieve, View, Ran
  <1>3. QED
    BY <1>2 DEF Contract!Next

-----------------------------------------------------------------------------
(* Steps the contract does not see *)

\* A thread that is not submitting, and does not begin to.
LEMMA SameSubmitting ==
  ASSUME NEW t \in Threads, call[t].pc # "submit", call'[t].pc # "submit",
         \A u \in Threads : u # t => call'[u] = call[u]
  PROVE  \A h \in Handles : Submitting(h)' <=> Submitting(h)
  BY DEF Submitting

\* Nothing that the contract shows of a handle changes.
LEMMA QuietContract ==
  ASSUME Agreed, Agreed', SourcesStay,
         \A h \in Handles : /\ job'[h].programs = job[h].programs
                            /\ job'[h].status = job[h].status
                            /\ Submitting(h)' <=> Submitting(h)
  PROVE  UNCHANGED Contract!vars
  <1>1. \A h \in Handles : View(h)' = View(h)
    BY DEF View
  <1>2. \A h \in Handles : Ran(h)' = Ran(h)
    BY RanStays
  <1>3. QED
    BY <1>1, <1>2, Unseen

\* Handles are published, calls begin and deadlines pass unseen.
LEMMA CallsUnseen ==
  ASSUME Agreed, Agreed',
         \/ \E h \in Handles : Create(h)
         \/ \E t \in Threads : Begin(t) \/ BeginRetrieve(t) \/ Expire(t)
         \/ Finished \/ UNCHANGED vars
  PROVE  UNCHANGED Contract!vars
  <1>1. UNCHANGED <<job, remote>>
    BY DEF Create, Begin, BeginRetrieve, Expire, Finished, vars, service
  <1>2. \A h \in Handles : Submitting(h)' <=> Submitting(h)
    <2>1. CASE UNCHANGED call
      BY <2>1 DEF Submitting
    <2>2. CASE \E t \in Threads : Begin(t) \/ BeginRetrieve(t)
      <3>1. PICK t \in Threads : Begin(t) \/ BeginRetrieve(t)
        BY <2>2
      <3>2. PICK o \in Ops, h \in Handles, pc \in {"lock", "retrieve"} :
               StartCall(t, o, h, pc)
        BY <3>1 DEF Begin, BeginRetrieve, Ops, Agreed, Inv, TypeOK
      <3>3. /\ call[t].pc # "submit" /\ call'[t].pc # "submit"
            /\ \A u \in Threads : u # t => call'[u] = call[u]
        BY <3>2 DEF StartCall, Agreed, Inv, TypeOK
      <3>4. QED
        BY <3>3, SameSubmitting
    <2>3. QED
      BY <2>1, <2>2 DEF Create, Expire, Finished, vars
  <1>3. QED
    BY <1>1, <1>2, QuietContract DEF SourcesStay

\* So do the steps of a thread that leave its handle as it is.
LEMMA StepsUnseen ==
  ASSUME Agreed, Agreed', NEW t \in Threads,
         \/ StartCancel(t) \/ StartPoll(t) \/ StartFetch(t) \/ AnswerLocally(t)
         \/ Wake(t) \/ TimeOut(t) \/ ReceiveResults(t)
         \/ Fail(t) /\ call[t].pc # "submit"
  PROVE  UNCHANGED Contract!vars
  <1>1. UNCHANGED remote
    BY DEF StartCancel, StartPoll, StartFetch, AnswerLocally, Wake, TimeOut,
           ReceiveResults, Fail, service
  <1>2. \A h \in Handles : /\ job'[h].programs = job[h].programs
                           /\ job'[h].status = job[h].status
    <2>1. CASE UNCHANGED job
      BY <2>1
    <2>2. CASE ReceiveResults(t)
      BY <2>2 DEF ReceiveResults, Agreed, Inv, TypeOK, Job
    <2>3. QED
      BY <2>1, <2>2 DEF StartCancel, StartPoll, StartFetch, AnswerLocally, Wake,
                        TimeOut, Fail
  <1>3. /\ call[t].pc # "submit" /\ call'[t].pc # "submit"
        /\ \A u \in Threads : u # t => call'[u] = call[u]
    BY DEF StartCancel, StartPoll, StartFetch, AtLock, Enter, AnswerLocally,
           Return, Wake, TimeOut, ReceiveResults, Fail, Agreed, Inv, TypeOK, Call
  <1>4. QED
    BY <1>1, <1>2, <1>3, SameSubmitting, QuietContract DEF SourcesStay

\* The service works unseen, until it accepts a submission.
LEMMA ServiceUnseen ==
  ASSUME Agreed, Agreed',
         \/ DecideCancel \/ Lose \/ \E t \in Threads : AnswerGet(t)
         \/ \E i \in Ids : Advance(i)
  PROVE  UNCHANGED Contract!vars
  <1>1. UNCHANGED <<job, call>>
    BY DEF DecideCancel, Lose, AnswerGet, Advance, client
  <1>2. SourcesStay
    <2>1. CASE DecideCancel
      <3>1. PICK m \in cancels : DecideCancel!(m)
        BY <2>1 DEF DecideCancel
      <3>2. \/ UNCHANGED remote
            \/ remote' = [remote EXCEPT ![m.id].status = "CANCELED"]
        BY <3>1
      <3>3. QED
        BY <3>2 DEF SourcesStay, Agreed, Inv, TypeOK, RemoteJob
    <2>2. CASE \E i \in Ids : Advance(i)
      BY <2>2 DEF Advance, SourcesStay, Agreed, Inv, TypeOK, RemoteJob
    <2>3. QED
      BY <2>1, <2>2 DEF Lose, AnswerGet, service, SourcesStay
  <1>3. QED
    BY <1>1, <1>2, QuietContract DEF Submitting

-----------------------------------------------------------------------------
(* Steps of the contract *)

\* A step of t under the mutex of h concerns the contract at h only.
LEMMA OtherViews ==
  ASSUME NEW t \in Threads, NEW h \in Handles,
         call[t].pc = "submit" => call[t].on = h,
         call'[t].pc = "submit" => call'[t].on = h,
         \A u \in Threads : u # t => call'[u] = call[u],
         \A g \in Handles : g # h => job'[g] = job[g]
  PROVE  \A g \in Handles : g # h => /\ View(g)' = View(g)
                                     /\ job'[g].programs = job[g].programs
  BY DEF View, Submitting

\* Configuring a handle configures the contract.
LEMMA ConfigureImplements ==
  ASSUME Agreed, Agreed', NEW t \in Threads, Configure(t) PROVE Contract!Next
  <1>1. PICK h \in Handles, p \in Programs : Configure(t)!(h, p)
    BY DEF Configure
  <1>2. /\ call[t].pc = "lock" /\ mutex[h] = NoThread
        /\ ~job[h].attempted /\ job[h].status = "CREATED"
        /\ UNCHANGED remote
    BY <1>1 DEF AtLock, service, Configurable
  <1>3. /\ \A g \in Handles : g # h => job'[g] = job[g]
        /\ job'[h].programs = p /\ job'[h].status = job[h].status
    BY <1>1 DEF Agreed, Inv, TypeOK, Job
  <1>4. /\ \A u \in Threads : u # t => call'[u] = call[u]
        /\ call'[t].pc = "idle"
    BY <1>1 DEF Return, Agreed, Inv, TypeOK, Call
  <1>5. \A g \in Handles : Submitting(g)' <=> Submitting(g)
    BY <1>2, <1>4, SameSubmitting
  <1>6. \A g \in Handles : View(g)' = View(g)
    BY <1>3, <1>5 DEF View
  <1>7. View(h) = "CREATED"
    BY <1>2, FreeHandle DEF View, Agreed
  <1>8. \A g \in Handles : Ran(g)' = Ran(g)
    BY <1>2, <1>3, RanStays DEF SourcesStay
  <1>9. QED
    BY <1>3, <1>6, <1>7, <1>8, ContractConfigure

\* Submitting a handle submits the contract.
LEMMA SubmitImplements ==
  ASSUME Agreed, Agreed', NEW t \in Threads, Submit(t) PROVE Contract!Next
  <1>1. PICK h \in Handles : Submit(t)!(h)
    BY DEF Submit
  <1>2. /\ call[t].pc = "lock" /\ call[t].on = h /\ mutex[h] = NoThread
        /\ job[h].status = "CREATED" /\ job[h].programs # NoProgram
        /\ UNCHANGED remote
    BY <1>1 DEF AtLock, Submittable, Configurable
  <1>3. /\ \A g \in Handles : g # h => job'[g] = job[g]
        /\ job'[h].programs = job[h].programs
    BY <1>1 DEF Attempt, Agreed, Inv, TypeOK, Job
  <1>4. /\ \A u \in Threads : u # t => call'[u] = call[u]
        /\ call'[t].pc = "submit" /\ call'[t].on = h
    BY <1>1, <1>2 DEF Enter, Agreed, Inv, TypeOK, Call
  <1>5. View(h) = "CREATED"
    BY <1>2, FreeHandle DEF View, Agreed
  <1>6. View(h)' = "SUBMITTING"
    BY <1>4 DEF View, Submitting
  <1>7. \A g \in Handles : Ran(g)' = Ran(g)
    BY <1>2, <1>3, RanStays DEF SourcesStay
  <1>8. \A g \in Handles : g # h => View(g)' = View(g)
    BY <1>2, <1>3, <1>4, OtherViews
  <1>9. QED
    BY <1>2, <1>3, <1>5, <1>6, <1>7, <1>8, ContractSubmit

\* The answer to a submission, or its absence, settles it.
LEMMA SettleImplements ==
  ASSUME Agreed, Agreed', NEW t \in Threads,
         \/ ReceiveSubmitted(t)
         \/ Fail(t) /\ call[t].pc = "submit"
  PROVE  Contract!Next
  <1>1. PICK h : h = call[t].on
    OBVIOUS
  <1>2. /\ call[t].pc = "submit" /\ call[t].pc \in Exchanges
        /\ UNCHANGED remote
    BY DEF ReceiveSubmitted, Fail, Exchanges, service
  <1>3. /\ h \in Handles /\ job[h] \in Job /\ call[t] \in Call
        /\ job[h].attempted /\ job[h].id = NoId
        /\ ReplyAgrees(t) /\ JobAgrees(h)
    BY <1>1, <1>2, InExchange DEF CallAgrees, Agreed
  <1>4. job[h].status = "FAILED"
    BY <1>3, ConstantsAssumption
       DEF Agreed, Inv, Serialized, StatusNeedsId, JobAgrees
  <1>5. /\ \A g \in Handles : g # h => job'[g] = job[g]
        /\ job'[h].programs = job[h].programs
        /\ \/ job'[h].status = "FAILED"
           \/ Answered(t, "created") /\ job'[h].status = "SUBMITTED"
    BY <1>1, <1>3, <1>4 DEF ReceiveSubmitted, Fail, Agreed, Inv, TypeOK, Job
  <1>6. PICK r \in {"OK", "ERROR", "TIMEOUT"} : Return(t, r)
    BY DEF ReceiveSubmitted, Fail
  <1>7. /\ \A u \in Threads : u # t => call'[u] = call[u]
        /\ call'[t].pc = "idle"
    BY <1>6 DEF Return, Agreed, Inv, TypeOK, Call
  <1>8. View(h) = "SUBMITTING"
    BY <1>1, <1>2 DEF View, Submitting
  <1>9. View(h)' = job'[h].status
    <2>1. \A u \in Threads : u # t /\ call[u].pc = "submit" => call[u].on # h
      BY <1>1, <1>2, Alone DEF Exchanges, Agreed
    <2>2. QED
      BY <1>7, <2>1 DEF View, Submitting
  <1>10. ASSUME Answered(t, "created") PROVE Ran(h) = job[h].programs
    <2>1. reply[t].id \in Ids /\ remote[reply[t].id].source = h
      BY <1>1, <1>3, <1>10
         DEF Answered, ReplyAgrees, Agreed, Inv, Serialized, AnswersNameJobs
    <2>2. QED
      BY <1>3, <2>1, RanMeaning
  <1>11. \A g \in Handles : Ran(g)' = Ran(g)
    BY <1>2, <1>5, RanStays DEF SourcesStay
  <1>12. \A g \in Handles : g # h => View(g)' = View(g)
    BY <1>1, <1>3, <1>5, <1>7, OtherViews
  <1>13. QED
    BY <1>3, <1>5, <1>8, <1>9, <1>10, <1>11, <1>12, ContractSettle

\* A poll, or a cancellation the service grants, moves the status forward.
LEMMA ProgressImplements ==
  ASSUME Agreed, Agreed', NEW t \in Threads, ReceiveCancel(t) \/ ReceivePoll(t)
  PROVE  Contract!Next \/ UNCHANGED Contract!vars
  <1>1. PICK h : h = call[t].on
    OBVIOUS
  <1>2. /\ call[t].pc \in {"cancel", "poll"} /\ call[t].pc \in Exchanges
        /\ UNCHANGED remote
    BY DEF ReceiveCancel, ReceivePoll, Exchanges, service
  <1>3. /\ h \in Handles /\ job[h] \in Job /\ call[t] \in Call
        /\ reply[t] \in Reply
        /\ job[h].id \in Ids /\ job[h].status \notin Terminal
        /\ ReplyAgrees(t) /\ JobAgrees(h) /\ ~Submitting(h)
    BY <1>1, <1>2, InExchange DEF CallAgrees, Agreed
  <1>4. job[h].status \in Active
    BY <1>3, ConstantsAssumption DEF JobAgrees, Job, Statuses
  <1>5. /\ \A g \in Handles : g # h => job'[g] = job[g]
        /\ job'[h].programs = job[h].programs
        /\ Behind(job[h].status, job'[h].status)
    <2>1. CASE ReceiveCancel(t)
      BY <1>1, <1>3, <1>4, <2>1
         DEF ReceiveCancel, Agreed, Inv, TypeOK, Job, Behind, Active, Terminal
    <2>2. CASE ReceivePoll(t)
      <3>1. reply[t].status \in Statuses /\ reply[t].code = "snapshot"
        BY <2>2 DEF ReceivePoll, Recognized, Answered
      <3>2. Behind(job[h].status, reply[t].status)
        <4>1. call[t].pc = "poll"
          BY <2>2 DEF ReceivePoll
        <4>2. QED
          BY <1>1, <1>3, <3>1, <4>1 DEF ReplyAgrees, Statuses, Active, Terminal
      <3>3. job' = [job EXCEPT ![h] = [job[h] EXCEPT !.status = reply[t].status]]
        BY <1>1, <2>2 DEF ReceivePoll
      <3>4. QED
        BY <1>3, <3>2, <3>3 DEF Agreed, Inv, TypeOK, Job
    <2>3. QED
      BY <2>1, <2>2
  <1>6. /\ \A u \in Threads : u # t => call'[u] = call[u]
        /\ call'[t].pc # "submit"
    BY <1>3 DEF ReceiveCancel, ReceivePoll, Return, Agreed, Inv, TypeOK, Call
  <1>7. \A g \in Handles : Submitting(g)' <=> Submitting(g)
    BY <1>2, <1>6, SameSubmitting
  <1>8. \A g \in Handles : /\ g # h => View(g)' = View(g)
                           /\ Ran(g)' = Ran(g)
                           /\ job'[g].programs = job[g].programs
    BY <1>2, <1>5, <1>7, RanStays DEF View, SourcesStay
  <1>9. View(h) = job[h].status /\ View(h)' = job'[h].status
    BY <1>3, <1>7 DEF View
  <1>10. CASE job'[h].status = job[h].status
    BY <1>8, <1>9, <1>10, Unseen
  <1>11. CASE job'[h].status # job[h].status
    BY <1>3, <1>4, <1>5, <1>8, <1>9, <1>11, ContractProgress
  <1>12. QED
    BY <1>10, <1>11

\* A retrieved handle is complete when it appears.
LEMMA RetrieveImplements ==
  ASSUME Agreed, Agreed', NEW t \in Threads, ReceiveRetrieved(t)
  PROVE  Contract!Next
  <1>1. PICK h : h = call[t].on
    OBVIOUS
  <1>2. /\ call[t].pc = "retrieve" /\ call[t].pc \in Exchanges
        /\ reply[t].code = "snapshot" /\ reply[t].status \in Statuses
        /\ UNCHANGED remote
    BY DEF ReceiveRetrieved, Exchanges, Answered, Recognized, service
  <1>3. /\ h \in Handles /\ reply[t] \in Reply /\ ~Submitting(h)
        /\ JobAgrees(h) /\ ReplyAgrees(t)
        /\ h \notin registered
    BY <1>1, <1>2, InExchange DEF CallAgrees, Agreed
  <1>4. job[h] = FreshJob
    BY <1>3 DEF JobAgrees
  <1>5. /\ \A g \in Handles : g # h => job'[g] = job[g]
        /\ job'[h].programs = reply[t].programs
        /\ job'[h].status = reply[t].status
    BY <1>1, <1>3 DEF ReceiveRetrieved, Adopt, FreshJob, Agreed, Inv, TypeOK
  <1>6. /\ reply[t].status \in Active \cup Terminal
        /\ reply[t].programs \in Programs
    <2> DEFINE i == reply[t].id
    <2>1. i \in Ids
      BY <1>2 DEF Agreed, Inv, Serialized, AnswersNameJobs
    <2>2. /\ remote[i].status # "ABSENT"
          /\ remote[i].programs = reply[t].programs
          /\ Behind(reply[t].status, remote[i].status)
      BY <1>2, <1>3 DEF ReplyAgrees, Statuses, Active, Terminal
    <2>3. RemoteAgrees(i) /\ remote[i] \in RemoteJob
      BY <2>1 DEF Agreed, Agreement, Inv, TypeOK
    <2>4. reply[t].programs # NoProgram /\ remote[i].status # "CREATED"
      BY <2>2, <2>3 DEF RemoteAgrees
    <2>5. QED
      BY <1>2, <1>3, <2>2, <2>4 DEF Behind, Statuses, Reply
  <1>7. /\ \A u \in Threads : u # t => call'[u] = call[u]
        /\ call'[t].pc = "idle"
    BY DEF ReceiveRetrieved, Return, Agreed, Inv, TypeOK, Call
  <1>8. \A g \in Handles : Submitting(g)' <=> Submitting(g)
    BY <1>2, <1>7, SameSubmitting
  <1>9. /\ View(h) = "CREATED" /\ job[h].programs = NoProgram
        /\ View(h)' = reply[t].status
    BY <1>3, <1>4, <1>5, <1>8 DEF View, FreshJob
  <1>10. \A g \in Handles : Ran(g)' = Ran(g)
    <2>1. ~job[h].attempted
      BY <1>4 DEF FreshJob
    <2>2. QED
      BY <1>2, <1>5, <2>1, RanStays DEF SourcesStay
  <1>11. \A g \in Handles : /\ g # h => job'[g].programs = job[g].programs
                            /\ g # h => View(g)' = View(g)
                            /\ Ran(g)' = Ran(g)
    BY <1>5, <1>8, <1>10 DEF View
  <1>12. QED
    BY <1>3, <1>5, <1>6, <1>9, <1>11, ContractRetrieve

\* The service accepts what the handle shows, even after the submission was
\* given up, and it has run nothing of this handle before.
LEMMA AcceptImplements ==
  ASSUME Agreed, Agreed', Accept PROVE Contract!Next
  <1>1. PICK m \in submits, i \in Ids, code \in {"created", "foreign"} :
           Accept!(m, i, code)
    BY DEF Accept
  <1>2. PICK h : h = m.on
    OBVIOUS
  <1>3. /\ h \in Handles /\ SubmissionAgrees(m) /\ JobAgrees(h)
    BY <1>2 DEF Agreed, Inv, TypeOK, Submission, Agreement
  <1>4. /\ job[h].attempted /\ job[h].id = NoId /\ job[h].programs # NoProgram
        /\ job[h].status = "FAILED"
    BY <1>2, <1>3, ConstantsAssumption
       DEF SubmissionAgrees, JobAgrees, Agreed, Inv, Serialized, StatusNeedsId
  <1>5. /\ remote[i].status = "ABSENT" /\ remote'[i].source = h
        /\ \A k \in Ids : k # i => remote'[k] = remote[k]
        /\ UNCHANGED <<job, call>>
    BY <1>1, <1>2 DEF client, Agreed, Inv, TypeOK
  <1>6. View(h) \in {"SUBMITTING", "FAILED"}
    BY <1>4 DEF View
  <1>7. \A g \in Handles : /\ job'[g].programs = job[g].programs
                           /\ View(g)' = View(g)
    BY <1>5 DEF View, Submitting
  <1>8. \A k \in Ids : remote[k].source # h
    BY <1>2, <1>3 DEF Agreed, OnceInv, Once
  <1>9. Ran(h) = NoProgram /\ Ran(h)' = job[h].programs
    BY <1>3, <1>5, <1>8, RanMeaning, RanMeaningAfter
  <1>10. ASSUME NEW g \in Handles, g # h PROVE Ran(g)' = Ran(g)
    <2>1. remote[i].source # g
      BY <1>5, ConstantsAssumption DEF Agreed, Agreement, RemoteAgrees
    <2>2. (\E k \in Ids : remote'[k].source = g)
             <=> (\E k \in Ids : remote[k].source = g)
      BY <1>5, <1>10, <2>1
    <2>3. QED
      BY <1>5, <2>2, RanMeaning, RanMeaningAfter
  <1>11. QED
    BY <1>3, <1>4, <1>6, <1>7, <1>9, <1>10, ContractAccept

-----------------------------------------------------------------------------
(* Every step *)

\* Every step is one of the contract, or none.
LEMMA NextImplements ==
  Agreed /\ [Next]_vars => [Contract!Next]_(Contract!vars)
  <1> SUFFICES ASSUME Agreed, [Next]_vars
               PROVE  Contract!Next \/ UNCHANGED Contract!vars
    OBVIOUS
  <1>1. Agreed'
    BY NextAgreed
  <1>2. CASE \/ \E h \in Handles : Create(h)
             \/ \E t \in Threads : Begin(t) \/ BeginRetrieve(t) \/ Expire(t)
             \/ Finished \/ UNCHANGED vars
    BY <1>1, <1>2, CallsUnseen
  <1>3. CASE \E t \in Threads : ThreadStep(t)
    <2>1. PICK t \in Threads : ThreadStep(t)
      BY <1>3
    <2>2. CASE Configure(t) \/ Submit(t)
      BY <1>1, <2>2, ConfigureImplements, SubmitImplements
    <2>3. CASE \/ StartCancel(t) \/ StartPoll(t) \/ StartFetch(t)
               \/ AnswerLocally(t) \/ Wake(t) \/ TimeOut(t) \/ ReceiveResults(t)
      BY <1>1, <2>3, StepsUnseen
    <2>4. CASE ReceiveSubmitted(t)
      BY <1>1, <2>4, SettleImplements
    <2>5. CASE Fail(t)
      <3>1. CASE call[t].pc = "submit"
        BY <1>1, <2>5, <3>1, SettleImplements
      <3>2. CASE call[t].pc # "submit"
        BY <1>1, <2>5, <3>2, StepsUnseen
      <3>3. QED
        BY <3>1, <3>2
    <2>6. CASE ReceiveCancel(t) \/ ReceivePoll(t)
      BY <1>1, <2>6, ProgressImplements
    <2>7. CASE ReceiveRetrieved(t)
      BY <1>1, <2>7, RetrieveImplements
    <2>8. QED
      BY <2>1, <2>2, <2>3, <2>4, <2>5, <2>6, <2>7 DEF ThreadStep
  <1>4. CASE ServiceStep
    <2>1. CASE Accept
      BY <1>1, <2>1, AcceptImplements
    <2>2. CASE \/ DecideCancel \/ Lose \/ \E t \in Threads : AnswerGet(t)
               \/ \E i \in Ids : Advance(i)
      BY <1>1, <2>2, ServiceUnseen
    <2>3. QED
      BY <1>4, <2>1, <2>2 DEF ServiceStep
  <1>5. QED
    BY <1>2, <1>3, <1>4 DEF Next

(***************************************************************************)
(* The handles keep the contract of JobContract: configuration frozen by   *)
(* submission, at most one run, of the configuration shown, and a status   *)
(* that only moves forward, whatever the threads interleave and whatever   *)
(* answers are lost or late.                                               *)
(***************************************************************************)
THEOREM Implements == Spec => ImplementsContract
  <1>1. Spec => []Agreed
    BY AgreementAlways DEF Agreed
  <1>2. QED
    BY <1>1, InitContract, NextImplements, PTL
       DEF Spec, ImplementsContract, Contract!Spec
=============================================================================
