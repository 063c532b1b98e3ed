------------------------------ MODULE MockRuntime ------------------------------
(***************************************************************************)
(* The offline service (src/python/ibm/qdmi/mock.py) for one fake backend: *)
(* client threads, the HTTP server, the worker that simulates.             *)
(*                                                                         *)
(* connection() makes one server per backend under a lock.  An HTTPServer  *)
(* handles one request at a time.  Each server has a table of jobs and an  *)
(* executor with a single worker, which takes the jobs in the order of     *)
(* submission.  The handler looks at the future of a job in up to three    *)
(* reads, and the worker may act between them.                             *)
(*                                                                         *)
(* A client that gives up a request leaves it to be handled all the same:  *)
(* it is one that ignores the answer.  The authorization header, which     *)
(* every client of connection() has, and framing errors are left out.      *)
(***************************************************************************)
EXTENDS Naturals, Sequences, FiniteSets

CONSTANTS
    Threads,     \* the clients' threads
    Jobs,        \* identifiers of jobs
    NoThread, NoJob,
    MaxServers,  \* bound: servers started
    MaxCalls     \* bound: calls of connection() and requests made

ASSUME ConstantsAssumption ==
    /\ NoThread \notin Threads
    /\ NoJob \notin Jobs
    /\ MaxServers \in Nat
    /\ MaxCalls \in Nat

VARIABLES
    lock,     \* the thread that holds _LOCK
    service,  \* the server in _SERVICES, 0 for none
    created,  \* number of servers started
    client,   \* client[t]: what t, or the handler of its request, is doing
    table,    \* table[j]: the server that lists j, 0 for none
    future,   \* future[j]: the state of the future of j
    queue,    \* queue[n]: jobs the worker of server n has not taken
    worker,   \* worker[n]: the job it simulates
    left,     \* calls that may still be made
    told      \* history: told[j] is what clients have been answered about j

vars == <<lock, service, created, client, table, future, queue, worker, left, told>>

-----------------------------------------------------------------------------
Servers == 1 .. MaxServers
Ended == {"finished", "failed"}
Reads == {"cancelled", "done", "running"}
Handling == {"submit", "store", "cancel", "reply"} \cup Reads
Kinds == {"none", "submit", "status", "results", "cancel"}
Init ==
    /\ lock = NoThread
    /\ service = 0
    /\ created = 0
    /\ client = [t \in Threads |-> [pc |-> "idle", url |-> 0, kind |-> "none",
                                    job |-> NoJob, answer |-> "none"]]
    /\ table = [j \in Jobs |-> 0]
    /\ future = [j \in Jobs |-> "absent"]
    /\ queue = [n \in Servers |-> << >>]
    /\ worker = [n \in Servers |-> NoJob]
    /\ left = MaxCalls
    /\ told = [j \in Jobs |-> {}]

runtime == <<table, future, queue, worker, left, told>>
registry == <<lock, service, created>>

-----------------------------------------------------------------------------
(* connection() *)

\* Fault: the services are looked up without the lock.
MutLockFree == TRUE
LockFree == lock = NoThread

BeginConnect(t) ==
    /\ client[t].pc = "idle"
    /\ client[t].url = 0
    /\ left > 0
    /\ left' = left - 1
    /\ client' = [client EXCEPT ![t].pc = "enter"]
    /\ UNCHANGED <<registry, table, future, queue, worker, told>>

Enter(t) ==
    /\ client[t].pc = "enter"
    /\ LockFree
    /\ lock' = t
    /\ client' = [client EXCEPT ![t].pc = "look"]
    /\ UNCHANGED <<service, created, runtime>>

LookUp(t) ==
    /\ client[t].pc = "look"
    /\ \/ /\ service # 0
          /\ client' = [client EXCEPT ![t].pc = "idle", ![t].url = service]
          /\ lock' = NoThread
       \/ /\ service = 0
          /\ client' = [client EXCEPT ![t].pc = "start"]
          /\ UNCHANGED lock
    /\ UNCHANGED <<service, created, runtime>>

StartServer(t) ==
    /\ client[t].pc = "start"
    /\ created < MaxServers
    /\ created' = created + 1
    /\ service' = created + 1
    /\ client' = [client EXCEPT ![t].pc = "idle", ![t].url = created + 1]
    /\ lock' = NoThread
    /\ UNCHANGED runtime

\* Fault: an exception leaves the lock taken.
MutFailUnlock == UNCHANGED lock
FailUnlock == lock' = NoThread
\* The optional packages are missing, or the port is taken.
FailServer(t) ==
    /\ client[t].pc = "start"
    /\ client' = [client EXCEPT ![t].pc = "idle"]
    /\ FailUnlock
    /\ UNCHANGED <<service, created, runtime>>

-----------------------------------------------------------------------------
(* Requests *)

\* The identifiers clients have been given.
Known == {j \in Jobs : "id" \in told[j]}

Ask(t) ==
    /\ client[t].pc = "idle"
    /\ client[t].url # 0
    /\ left > 0
    /\ left' = left - 1
    /\ \E kind \in Kinds \ {"none"}, j \in Known \cup {NoJob} :
          /\ (kind = "submit") <=> (j = NoJob)
          /\ client' = [client EXCEPT ![t].pc = "sent", ![t].kind = kind,
                                      ![t].job = j]
    /\ UNCHANGED <<registry, table, future, queue, worker, told>>

\* Fault: a server that handles requests concurrently.
MutServerFree(n) == TRUE
ServerFree(n) == \A u \in Threads : client[u].url = n => client[u].pc \notin Handling

Answer(t, answer) ==
    client' = [client EXCEPT ![t].pc = "reply", ![t].answer = answer]

Accept(t) ==
    /\ client[t].pc = "sent"
    /\ ServerFree(client[t].url)
    /\ IF client[t].kind # "submit" /\ table[client[t].job] # client[t].url
       THEN Answer(t, "unknown")
       ELSE client' = [client EXCEPT ![t].pc =
               CASE client[t].kind = "submit" -> "submit"
                 [] client[t].kind = "cancel" -> "cancel"
                 [] OTHER -> "cancelled"]
    /\ UNCHANGED <<registry, runtime>>

Reject(t) ==
    /\ client[t].pc = "submit"
    /\ Answer(t, "invalid")
    /\ UNCHANGED <<registry, runtime>>

\* The job is queued before it is listed.
Enqueue(t) == \E j \in Jobs :
    /\ client[t].pc = "submit"
    /\ future[j] = "absent"
    /\ future' = [future EXCEPT ![j] = "pending"]
    /\ queue' = [queue EXCEPT ![client[t].url] = Append(@, j)]
    /\ client' = [client EXCEPT ![t].pc = "store", ![t].job = j]
    /\ UNCHANGED <<registry, table, worker, left, told>>

Store(t) ==
    /\ client[t].pc = "store"
    /\ table' = [table EXCEPT ![client[t].job] = client[t].url]
    /\ Answer(t, "id")
    /\ UNCHANGED <<registry, future, queue, worker, left, told>>

\* Fault: every cancellation is confirmed.
MutConfirm(canceled) == "204"
Confirm(canceled) == IF canceled THEN "204" ELSE "409"
\* Future.cancel() succeeds until the worker has begun.
Cancel(t) ==
    LET j == client[t].job
        canceled == future[j] \in {"pending", "cancelled"}
    IN  /\ client[t].pc = "cancel"
        /\ future' = IF canceled THEN [future EXCEPT ![j] = "cancelled"] ELSE future
        /\ Answer(t, Confirm(canceled))
        /\ UNCHANGED <<registry, table, queue, worker, left, told>>

\* A read decides the status, or leaves it to the next one.
Decide(t, status) ==
    Answer(t, IF client[t].kind = "status" THEN status
              ELSE IF status = "Completed" THEN "results" ELSE "notReady")

SeesCancelled(j) == future[j] = "cancelled"

Outcome(j) == CASE future[j] = "finished" -> "Completed"
                [] future[j] = "failed" -> "Failed"
                [] OTHER -> "raised"

Read(t) ==
    LET j == client[t].job
        next(pc) == client' = [client EXCEPT ![t].pc = pc]
    IN  /\ CASE client[t].pc = "cancelled" ->
                  IF SeesCancelled(j) THEN Decide(t, "Cancelled") ELSE next("done")
             [] client[t].pc = "done" ->
                  IF future[j] \in Ended \cup {"cancelled"} THEN Decide(t, Outcome(j))
                                                           ELSE next("running")
             [] client[t].pc = "running" ->
                  Decide(t, IF future[j] = "running" THEN "Running" ELSE "Queued")
             [] OTHER -> FALSE
        /\ UNCHANGED <<registry, runtime>>

Reply(t) ==
    /\ client[t].pc = "reply"
    /\ client' = [client EXCEPT ![t].pc = "idle", ![t].kind = "none",
                                ![t].job = NoJob, ![t].answer = "none"]
    /\ told' = IF client[t].job = NoJob THEN told
               ELSE [told EXCEPT ![client[t].job] = @ \cup {client[t].answer}]
    /\ UNCHANGED <<registry, table, future, queue, worker, left>>

-----------------------------------------------------------------------------
(* The worker of server n (external: concurrent.futures) *)

\* It passes over a job that was canceled.
Take(n) ==
    /\ worker[n] = NoJob
    /\ queue[n] # << >>
    /\ queue' = [queue EXCEPT ![n] = Tail(@)]
    /\ LET j == Head(queue[n]) IN
          IF future[j] = "cancelled" THEN UNCHANGED <<future, worker>>
          ELSE /\ future' = [future EXCEPT ![j] = "running"]
               /\ worker' = [worker EXCEPT ![n] = j]
    /\ UNCHANGED <<registry, client, table, left, told>>

\* _simulate returns, or raises.
Simulate(n) ==
    /\ worker[n] # NoJob
    /\ \E result \in Ended : future' = [future EXCEPT ![worker[n]] = result]
    /\ worker' = [worker EXCEPT ![n] = NoJob]
    /\ UNCHANGED <<registry, client, table, queue, left, told>>

-----------------------------------------------------------------------------
ThreadStep(t) ==
    \/ Enter(t) \/ LookUp(t) \/ StartServer(t) \/ FailServer(t)
    \/ Accept(t) \/ Reject(t) \/ Enqueue(t) \/ Store(t) \/ Cancel(t)
    \/ Read(t) \/ Reply(t)

WorkerStep(n) == Take(n) \/ Simulate(n)

\* No call may be made any more, and all work is done.
Finished ==
    /\ left = 0
    /\ \A t \in Threads : client[t].pc = "idle"
    /\ \A n \in Servers : worker[n] = NoJob /\ queue[n] = << >>
    /\ UNCHANGED vars

Next ==
    \/ \E t \in Threads : BeginConnect(t) \/ Ask(t) \/ ThreadStep(t)
    \/ \E n \in Servers : WorkerStep(n)
    \/ Finished

Spec == Init /\ [][Next]_vars

(***************************************************************************)
(* Fairness: the server handles the requests it has, and a simulation ends *)
(* (it is a computation that waits for nothing).  Nothing is assumed of    *)
(* the clients between their calls.                                        *)
(***************************************************************************)
FairSpec ==
    /\ Spec
    /\ \A t \in Threads : WF_vars(ThreadStep(t))
    /\ \A n \in Servers : WF_vars(WorkerStep(n))

-----------------------------------------------------------------------------
(* Properties *)

(***************************************************************************)
(* "cancellation follows the real local job state" (test_mock.py:232), and *)
(* so does every other answer: a job confirmed as canceled is never run    *)
(* and never reported otherwise, one whose cancellation was refused is     *)
(* run, a terminal status is the last one, results are those of a          *)
(* completed job, whatever the worker does between two reads; and no read  *)
(* asks a canceled future for its exception, which raises.                 *)
(***************************************************************************)
AnswersAgree == \A j \in Jobs :
    /\ "raised" \notin told[j]
    /\ told[j] \cap {"204", "Cancelled"} # {} =>
          /\ future[j] = "cancelled"
          /\ told[j] \cap {"409", "Running", "Completed", "Failed", "results"} = {}
    /\ "409" \in told[j] => future[j] \in {"running"} \cup Ended
    /\ told[j] \cap {"Completed", "results"} # {} => future[j] = "finished"
    /\ "Failed" \in told[j] => future[j] = "failed"

(***************************************************************************)
(* "Independent native sessions share one service without losing job       *)
(* identity" (test_mock.py:216): a job one session has submitted is found  *)
(* by all others, also when several connect at the same time.              *)
(***************************************************************************)
NoLostJobs == \A t \in Threads : client[t].answer # "unknown"

(***************************************************************************)
(* The status of a job may be seen to fall back from Running to Queued:    *)
(* the job ends between the reads of done() and running().  But only then, *)
(* so that the next answer is its end; nobody takes a running job for one  *)
(* that waits.                                                             *)
(***************************************************************************)
FallsBackOnlyAtTheEnd == [][ \A t \in Threads :
    Reply(t) /\ client[t].answer = "Queued" /\ "Running" \in told[client[t].job]
        => future[client[t].job] \in Ended ]_vars

(***************************************************************************)
(* Every call of a client returns, connection() included, and every job    *)
(* that was queued ends or is canceled.                                    *)
(***************************************************************************)
EverythingEnds ==
    /\ \A t \in Threads : client[t].pc # "idle" ~> client[t].pc = "idle"
    /\ \A j \in Jobs :
          future[j] = "pending" ~> future[j] \in Ended \cup {"cancelled"}
=============================================================================
