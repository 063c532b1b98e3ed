--------------------------- MODULE MockRuntime_proofs ---------------------------
(***************************************************************************)
(* Proofs about the offline service, for any threads, jobs and bounds:     *)
(* every client talks to the one server there is, answers follow the       *)
(* future of the job whatever the worker does between two reads, and a     *)
(* running job is only said to be queued when it has ended.                *)
(*                                                                         *)
(* No answer is right by itself.  It needs that a server handles one       *)
(* request at a time, so that only the worker acts between two reads and   *)
(* before the answer leaves; that the worker takes each job once, so that  *)
(* futures never go back; and, for jobs to be found, that the lock makes   *)
(* one server.                                                             *)
(***************************************************************************)
EXTENDS MockRuntime, TLAPS

-----------------------------------------------------------------------------
(* The inductive invariant *)

Futures == {"absent", "pending", "running", "cancelled"} \cup Ended
Answers == {"none", "unknown", "invalid", "id", "204", "409", "Cancelled",
            "Completed", "Failed", "raised", "Running", "Queued", "results",
            "notReady"}
Client == [pc : {"idle", "enter", "look", "start", "sent"} \cup Handling,
           url : {0} \cup Servers, kind : Kinds, job : Jobs \cup {NoJob},
           answer : Answers]

TypeOK ==
    /\ lock \in Threads \cup {NoThread}
    /\ service \in {0} \cup Servers
    /\ created \in 0 .. MaxServers
    /\ client \in [Threads -> Client]
    /\ table \in [Jobs -> {0} \cup Servers]
    /\ future \in [Jobs -> Futures]
    /\ queue \in [Servers -> Seq(Jobs)]
    /\ worker \in [Servers -> Jobs \cup {NoJob}]
    /\ left \in Nat
    /\ told \in [Jobs -> SUBSET Answers]

\* The lock is held by whom looks for a server, and makes one of them.
Locked == \A t \in Threads :
    /\ client[t].pc \in {"look", "start"} => lock = t
    /\ client[t].pc = "start" => service = 0

\* All clients have the one server, and all jobs are listed there.
OneService ==
    /\ \A t \in Threads :
          /\ client[t].url \in {0, service}
          /\ client[t].pc \in {"sent"} \cup Handling => client[t].url # 0
    /\ \A j \in Jobs : table[j] \in {0, service}

\* The server handles one request at a time.
OneRequest == \A t, u \in Threads :
    client[t].pc \in Handling /\ client[u].pc \in Handling => t = u

\* Each job waits once, for the worker that then runs it.
Waiting ==
    /\ \A n \in Servers, i \in Nat : i \in DOMAIN queue[n] =>
          future[queue[n][i]] \in {"pending", "cancelled"}
    /\ \A m, n \in Servers, i, k \in Nat :
          i \in DOMAIN queue[m] /\ k \in DOMAIN queue[n]
            /\ queue[m][i] = queue[n][k] => m = n /\ i = k
Working ==
    /\ \A n \in Servers : worker[n] # NoJob => future[worker[n]] = "running"
    /\ \A m, n \in Servers : worker[m] # NoJob /\ worker[m] = worker[n] => m = n

\* Jobs are listed when they are queued, and clients know listed ones.
Listed == \A j \in Jobs :
    /\ table[j] # 0 => future[j] # "absent"
    /\ "id" \in told[j] => table[j] # 0

\* An answer about a job whose future is f.
Agrees(answer, f) ==
    /\ answer \notin {"raised", "unknown"}
    /\ answer \in {"204", "Cancelled"} => f = "cancelled"
    /\ answer \in {"409", "Running"} => f \in {"running"} \cup Ended
    /\ answer \in {"Completed", "results"} => f = "finished"
    /\ answer = "Failed" => f = "failed"

\* Everything clients were answered agrees with the future, now and later.
Told == \A j \in Jobs : \A answer \in told[j] : Agrees(answer, future[j])

\* So does what the handler has found out, and has not answered yet.
RequestOK(c) ==
    /\ c.pc = "sent" /\ c.kind # "submit" => c.job \in Jobs /\ table[c.job] # 0
    /\ c.pc \in {"store", "cancel"} \cup Reads =>
          c.job \in Jobs /\ future[c.job] # "absent"
    /\ c.pc \in {"done", "running"} => future[c.job] # "cancelled"
    /\ c.pc # "reply" => c.answer = "none"
    /\ c.pc = "reply" => c.answer \notin {"raised", "unknown"}
    /\ c.pc = "reply" /\ c.job = NoJob => c.answer = "invalid"
    /\ c.pc = "reply" /\ c.job # NoJob =>
          /\ Agrees(c.answer, future[c.job])
          /\ c.answer = "id" => table[c.job] # 0
          /\ c.answer = "Queued" /\ "Running" \in told[c.job]
               => future[c.job] \in Ended
Requested == \A t \in Threads : RequestOK(client[t])

Inv == /\ TypeOK /\ Locked /\ OneService /\ OneRequest /\ Waiting /\ Working
       /\ Listed /\ Told /\ Requested

-----------------------------------------------------------------------------
(* Steps that only move one client *)

\* What a client does next, the others keep.
LEMMA ClientStep ==
  ASSUME NEW t \in Threads, NEW c \in Client, client \in [Threads -> Client],
         client' = [client EXCEPT ![t] = c]
  PROVE  /\ client' \in [Threads -> Client]
         /\ client'[t] = c
         /\ \A u \in Threads : u # t => client'[u] = client[u]
  OBVIOUS

\* A step of one client that leaves the service and its jobs alone.
LEMMA OnlyClient ==
  ASSUME Inv, NEW t \in Threads, NEW c \in Client,
         client' = [client EXCEPT ![t] = c],
         UNCHANGED <<lock, service, created, table, future, queue, worker, told>>,
         left' \in Nat,
         c.pc \notin {"look", "start"},
         c.url \in {0, service},
         c.pc \in {"sent"} \cup Handling => c.url # 0,
         c.pc \in Handling =>
            \A u \in Threads : u # t => client[u].pc \notin Handling,
         RequestOK(c)
  PROVE  Inv'
  <1>1. /\ client' \in [Threads -> Client]
        /\ client'[t] = c
        /\ \A u \in Threads : u # t => client'[u] = client[u]
    BY ClientStep DEF Inv, TypeOK
  <1>2. TypeOK'
    BY <1>1 DEF Inv, TypeOK
  <1>3. Locked'
    BY <1>1 DEF Inv, Locked
  <1>4. OneService'
    BY <1>1 DEF Inv, OneService
  <1>5. OneRequest'
    BY <1>1 DEF Inv, OneRequest
  <1>6. Waiting' /\ Working' /\ Listed' /\ Told'
    BY DEF Inv, Waiting, Working, Listed, Told, Agrees
  <1>7. Requested'
    <2>1. RequestOK(c)'
      BY DEF RequestOK, Agrees
    <2>2. \A u \in Threads : RequestOK(client[u])
      BY DEF Inv, Requested
    <2>3. SUFFICES ASSUME NEW u \in Threads
                   PROVE  RequestOK(client[u])'
      BY DEF Requested
    <2>4. CASE u = t
      BY <1>1, <2>1, <2>4 DEF RequestOK
    <2>5. CASE u # t
      BY <1>1, <2>2, <2>5 DEF RequestOK, Agrees
    <2>6. QED
      BY <2>4, <2>5
  <1>8. QED
    BY <1>2, <1>3, <1>4, <1>5, <1>6, <1>7 DEF Inv

\* A client that asks for the service.
LEMMA BeginConnectInv ==
  ASSUME Inv, NEW t \in Threads, BeginConnect(t)
  PROVE  Inv'
  <1> DEFINE c == [client[t] EXCEPT !.pc = "enter"]
  <1>1. client[t] \in Client /\ client[t].pc = "idle" /\ client[t].answer = "none"
    BY DEF Inv, TypeOK, BeginConnect, Requested, RequestOK
  <1>2. /\ c \in Client /\ c.pc = "enter" /\ c.url = client[t].url
        /\ c.answer = "none"
    BY <1>1 DEF Client
  <1>3. client' = [client EXCEPT ![t] = c] /\ left' \in Nat
    BY DEF Inv, TypeOK, BeginConnect
  <1>4. UNCHANGED <<lock, service, created, table, future, queue, worker, told>>
    BY DEF BeginConnect, registry
  <1>5. client[t].url \in {0, service}
    BY DEF Inv, OneService
  <1> HIDE DEF c
  <1>6. /\ c.pc \notin {"look", "start"} /\ c.url \in {0, service}
        /\ c.pc \in {"sent"} \cup Handling => c.url # 0
        /\ c.pc \in Handling =>
              \A u \in Threads : u # t => client[u].pc \notin Handling
        /\ RequestOK(c)
    BY <1>2, <1>5 DEF RequestOK, Handling, Reads
  <1>7. QED
    BY <1>2, <1>3, <1>4, <1>6, OnlyClient

\* A client that sends a request, about a job it knows.
LEMMA AskInv ==
  ASSUME Inv, NEW t \in Threads, Ask(t)
  PROVE  Inv'
  <1>1. PICK kind \in Kinds \ {"none"}, j \in Known \cup {NoJob} :
          /\ (kind = "submit") <=> (j = NoJob)
          /\ client' = [client EXCEPT ![t].pc = "sent", ![t].kind = kind,
                                      ![t].job = j]
    BY DEF Ask
  <1> DEFINE c == [client[t] EXCEPT !.pc = "sent", !.kind = kind, !.job = j]
  <1>2. /\ client[t] \in Client /\ client[t].pc = "idle"
        /\ client[t].answer = "none" /\ client[t].url # 0
        /\ client[t].url \in {0, service}
    BY DEF Inv, TypeOK, Ask, Requested, RequestOK, OneService
  <1>3. kind # "submit" => j \in Jobs /\ table[j] # 0
    BY <1>1 DEF Known, Inv, Listed
  <1>4. j \in Jobs \cup {NoJob} /\ kind \in Kinds
    BY <1>1 DEF Known
  <1>5. /\ c \in Client /\ c.pc = "sent" /\ c.url = client[t].url
        /\ c.answer = "none" /\ c.kind = kind /\ c.job = j
    BY <1>2, <1>4 DEF Client
  <1>6. client' = [client EXCEPT ![t] = c]
    BY <1>1 DEF Inv, TypeOK
  <1>7. left' \in Nat /\ UNCHANGED <<lock, service, created, table, future, queue, worker, told>>
    BY DEF Ask, registry, Inv, TypeOK
  <1> HIDE DEF c
  <1>8. /\ c.pc \notin {"look", "start"} /\ c.url \in {0, service}
        /\ c.pc \in {"sent"} \cup Handling => c.url # 0
        /\ c.pc \in Handling =>
              \A u \in Threads : u # t => client[u].pc \notin Handling
        /\ RequestOK(c)
    BY <1>2, <1>3, <1>5 DEF RequestOK, Handling, Reads
  <1>9. QED
    BY <1>5, <1>6, <1>7, <1>8, OnlyClient

\* The record of a client that has been answered.
Answered(c, answer) == [c EXCEPT !.pc = "reply", !.answer = answer]

\* What an answer does to the client that waits for it.
LEMMA AnswerStep ==
  ASSUME Inv, NEW t \in Threads, NEW answer \in Answers, Answer(t, answer),
         client[t].pc \in Handling,
         NEW c, c = Answered(client[t], answer)
  PROVE  /\ client' = [client EXCEPT ![t] = c] /\ c \in Client
         /\ c.pc = "reply" /\ c.answer = answer /\ c.job = client[t].job
         /\ c.url = client[t].url /\ c.url # 0 /\ c.url = service
  <1>1. /\ client[t] \in Client /\ client[t].url # 0 /\ client[t].url = service
    BY DEF Inv, TypeOK, OneService
  <1>2. client' = [client EXCEPT ![t] = c]
    BY DEF Answer, Inv, TypeOK, Answered
  <1>3. "reply" \in Handling
    BY DEF Handling
  <1>4. QED
    BY <1>1, <1>2, <1>3 DEF Client, Answered

\* A free server handles nobody else's request.
LEMMA ServerFreeMeans ==
  ASSUME Inv, NEW t \in Threads, client[t].pc = "sent",
         ServerFree(client[t].url)
  PROVE  \A u \in Threads : client[u].pc \notin Handling
  BY DEF Inv, OneService, ServerFree

\* Neither does the server of a request that is handled.
LEMMA OthersWait ==
  ASSUME Inv, NEW t \in Threads, client[t].pc \in Handling
  PROVE  \A u \in Threads : u # t => client[u].pc \notin Handling
  BY DEF Inv, OneRequest

\* The handler starts with a request, and finds the job there.
LEMMA AcceptInv ==
  ASSUME Inv, NEW t \in Threads, Accept(t)
  PROVE  Inv'
  <1>1. /\ client[t] \in Client /\ client[t].pc = "sent" /\ client[t].answer = "none"
        /\ client[t].url # 0 /\ client[t].url = service
        /\ client[t].kind # "submit" =>
              client[t].job \in Jobs /\ table[client[t].job] = service
    BY DEF Inv, TypeOK, Accept, Requested, RequestOK, OneService
  <1>2. \A u \in Threads : client[u].pc \notin Handling
    BY ServerFreeMeans DEF Accept
  <1>3. UNCHANGED <<lock, service, created, table, future, queue, worker, told>>
        /\ left' \in Nat
    BY DEF Accept, registry, runtime, Inv, TypeOK
  <1>4. PICK pc \in {"submit", "cancel", "cancelled"} :
          /\ client' = [client EXCEPT ![t].pc = pc]
          /\ pc # "submit" => client[t].kind # "submit"
    <2>1. CASE client[t].kind = "submit"
      <3>1. client' = [client EXCEPT ![t].pc = "submit"]
        BY <2>1 DEF Accept
      <3>2. QED
        BY <3>1
    <2>2. CASE client[t].kind = "cancel"
      <3>1. client' = [client EXCEPT ![t].pc = "cancel"]
        BY <1>1, <2>2 DEF Accept
      <3>2. QED
        BY <2>2, <3>1
    <2>3. CASE client[t].kind \notin {"submit", "cancel"}
      <3>1. client' = [client EXCEPT ![t].pc = "cancelled"]
        BY <1>1, <2>3 DEF Accept
      <3>2. QED
        BY <2>3, <3>1
    <2>4. QED
      BY <2>1, <2>2, <2>3
  <1> DEFINE c == [client[t] EXCEPT !.pc = pc]
  <1>5. pc \in Handling /\ pc \notin {"look", "start"}
    BY DEF Handling, Reads
  <1>6. /\ c \in Client /\ c.pc = pc /\ c.url = client[t].url
        /\ c.answer = "none" /\ c.kind = client[t].kind /\ c.job = client[t].job
    BY <1>1, <1>5 DEF Client
  <1>7. client' = [client EXCEPT ![t] = c]
    BY <1>4 DEF Inv, TypeOK
  <1>8. pc # "submit" => client[t].job \in Jobs /\ future[client[t].job] # "absent"
    BY <1>1, <1>4 DEF Inv, Listed
  <1> HIDE DEF c
  <1>9. RequestOK(c)
    BY <1>6, <1>8 DEF RequestOK, Reads
  <1>10. /\ c.pc \notin {"look", "start"} /\ c.url \in {0, service}
         /\ c.pc \in {"sent"} \cup Handling => c.url # 0
         /\ c.pc \in Handling =>
              \A u \in Threads : u # t => client[u].pc \notin Handling
    BY <1>1, <1>2, <1>5, <1>6
  <1>11. QED
    BY <1>3, <1>6, <1>7, <1>9, <1>10, OnlyClient

\* A submission that is refused.
LEMMA RejectInv ==
  ASSUME Inv, NEW t \in Threads, Reject(t)
  PROVE  Inv'
  <1> DEFINE c == Answered(client[t], "invalid")
  <1>1. client[t].pc = "submit" /\ Answer(t, "invalid") /\ "submit" \in Handling
        /\ "reply" \in Handling /\ "invalid" \in Answers
    BY DEF Reject, Handling, Answers
  <1>2. /\ client' = [client EXCEPT ![t] = c] /\ c \in Client
        /\ c.pc = "reply" /\ c.answer = "invalid" /\ c.url # 0 /\ c.url = service
        /\ c.job = client[t].job
    <2> DEFINE answer == "invalid"
    <2>1. client[t].pc \in Handling /\ answer \in Answers /\ Answer(t, answer)
          /\ c = Answered(client[t], answer)
      BY <1>1
    <2> HIDE DEF c, answer
    <2>2. /\ client' = [client EXCEPT ![t] = c] /\ c \in Client
          /\ c.pc = "reply" /\ c.answer = answer /\ c.job = client[t].job
          /\ c.url = client[t].url /\ c.url # 0 /\ c.url = service
      BY <2>1, AnswerStep
    <2>3. QED
      BY <2>2 DEF answer
  <1>3. UNCHANGED <<lock, service, created, table, future, queue, worker, told>>
        /\ left' \in Nat
    BY DEF Reject, registry, runtime, Inv, TypeOK
  <1> HIDE DEF c
  <1>4. RequestOK(c)
    BY <1>2 DEF RequestOK, Reads, Agrees
  <1>5. \A u \in Threads : u # t => client[u].pc \notin Handling
    BY <1>1, OthersWait
  <1>6. /\ c.pc \notin {"look", "start"} /\ c.url \in {0, service}
        /\ c.pc \in {"sent"} \cup Handling => c.url # 0
        /\ c.pc \in Handling =>
              \A u \in Threads : u # t => client[u].pc \notin Handling
    BY <1>2, <1>5
  <1>7. QED
    BY <1>2, <1>3, <1>4, <1>6, OnlyClient

\* A read decides, or goes on to the next one; in between only the worker
\* may have acted.
LEMMA ReadInv ==
  ASSUME Inv, NEW t \in Threads, Read(t)
  PROVE  Inv'
  <1> DEFINE j == client[t].job
             Moved(pc) == [client[t] EXCEPT !.pc = pc]
  <1>1. /\ client[t] \in Client /\ client[t].pc \in Reads
        /\ client[t].answer = "none"
        /\ client[t].url # 0 /\ client[t].url = service
        /\ j \in Jobs /\ future[j] # "absent" /\ future[j] \in Futures
        /\ client[t].pc \in {"done", "running"} => future[j] # "cancelled"
    <2>1. client[t].pc \in Reads
      BY DEF Read, Reads
    <2>2. client[t].pc # "reply" /\ client[t].pc \in Handling
      BY <2>1 DEF Reads, Handling
    <2>3. RequestOK(client[t]) /\ client[t] \in Client
      BY DEF Inv, TypeOK, Requested
    <2>4. client[t].url # 0 /\ client[t].url = service
      BY <2>2 DEF Inv, OneService
    <2>5. QED
      BY <2>1, <2>2, <2>3, <2>4 DEF RequestOK, Inv, TypeOK
  <1>2. UNCHANGED <<lock, service, created, table, future, queue, worker, told>>
        /\ left' \in Nat
    BY DEF Read, registry, runtime, Inv, TypeOK
  <1>3. Reads \subseteq Handling /\ "reply" \in Handling
    BY DEF Handling
  <1>4. \A u \in Threads : u # t => client[u].pc \notin Handling
    BY <1>1, <1>3, OthersWait
  <1>5. ASSUME NEW answer \in Answers \ {"id", "raised", "unknown"},
               Answer(t, answer), Agrees(answer, future[j]),
               answer = "Queued" => future[j] # "running"
        PROVE  Inv'
    <2> DEFINE c == Answered(client[t], answer)
    <2>1. /\ client' = [client EXCEPT ![t] = c] /\ c \in Client
          /\ c.pc = "reply" /\ c.answer = answer /\ c.job = j
          /\ c.url # 0 /\ c.url = service
      <3>1. client[t].pc \in Handling /\ answer \in Answers
        BY <1>1, <1>3
      <3>2. c = Answered(client[t], answer)
        OBVIOUS
      <3> HIDE DEF c
      <3>3. QED
        BY <1>5, <3>1, <3>2, AnswerStep
    <2> HIDE DEF c
    <2>2. answer = "Queued" /\ "Running" \in told[j] => future[j] \in Ended
      BY <1>1, <1>5 DEF Inv, Told, Agrees, Ended
    <2>3. RequestOK(c)
      BY <1>1, <1>5, <2>1, <2>2, ConstantsAssumption DEF RequestOK, Reads
    <2>4. /\ c.pc \notin {"look", "start"} /\ c.url \in {0, service}
          /\ c.pc \in {"sent"} \cup Handling => c.url # 0
          /\ c.pc \in Handling =>
                \A u \in Threads : u # t => client[u].pc \notin Handling
      BY <1>4, <2>1
    <2>5. QED
      BY <1>2, <2>1, <2>3, <2>4, OnlyClient
  <1>6. ASSUME NEW pc \in {"done", "running"},
               client' = [client EXCEPT ![t].pc = pc], future[j] # "cancelled"
        PROVE  Inv'
    <2> DEFINE c == Moved(pc)
    <2>1. pc \in Handling
      BY DEF Handling, Reads
    <2>2. /\ c \in Client /\ c.pc = pc /\ c.url = client[t].url
          /\ c.answer = "none" /\ c.kind = client[t].kind /\ c.job = j
      BY <1>1, <2>1 DEF Client
    <2>3. client' = [client EXCEPT ![t] = c]
      BY <1>6 DEF Inv, TypeOK
    <2> HIDE DEF c
    <2>4. RequestOK(c)
      BY <1>1, <1>6, <2>2 DEF RequestOK, Reads
    <2>5. /\ c.pc \notin {"look", "start"} /\ c.url \in {0, service}
          /\ c.pc \in {"sent"} \cup Handling => c.url # 0
          /\ c.pc \in Handling =>
                \A u \in Threads : u # t => client[u].pc \notin Handling
      BY <1>1, <1>4, <2>2
    <2>6. QED
      BY <1>2, <2>2, <2>3, <2>4, <2>5, OnlyClient
  <1>7. ASSUME NEW status \in {"Cancelled", "Completed", "Failed", "Running", "Queued"},
               Decide(t, status), Agrees(status, future[j]),
               status = "Queued" => future[j] # "running"
        PROVE  Inv'
    <2> DEFINE answer == IF client[t].kind = "status" THEN status
                         ELSE IF status = "Completed" THEN "results" ELSE "notReady"
    <2>1. Answer(t, answer)
      BY <1>7 DEF Decide
    <2>2. /\ answer \in Answers \ {"id", "raised", "unknown"}
          /\ Agrees(answer, future[j])
          /\ answer = "Queued" => future[j] # "running"
      BY <1>7 DEF Answers, Agrees
    <2> HIDE DEF answer
    <2>3. QED
      BY <1>5, <2>1, <2>2
  <1>8. CASE client[t].pc = "cancelled"
    <2>1. CASE SeesCancelled(j)
      <3>1. Decide(t, "Cancelled") /\ future[j] = "cancelled"
        BY <1>8, <2>1 DEF Read, SeesCancelled
      <3>2. Agrees("Cancelled", future[j])
        BY <3>1 DEF Agrees
      <3>3. QED
        BY <1>7, <3>1, <3>2
    <2>2. CASE ~SeesCancelled(j)
      <3>1. client' = [client EXCEPT ![t].pc = "done"] /\ future[j] # "cancelled"
        BY <1>8, <2>2 DEF Read, SeesCancelled
      <3>2. QED
        BY <1>6, <3>1
    <2>3. QED
      BY <2>1, <2>2
  <1>9. CASE client[t].pc = "done"
    <2>1. CASE future[j] \in Ended \cup {"cancelled"}
      <3>1. future[j] \in Ended /\ Decide(t, Outcome(j))
        BY <1>1, <1>9, <2>1 DEF Read
      <3>2. \/ future[j] = "finished" /\ Outcome(j) = "Completed"
            \/ future[j] = "failed" /\ Outcome(j) = "Failed"
        BY <3>1 DEF Outcome, Ended
      <3> DEFINE status == Outcome(j)
      <3>3. /\ status \in {"Completed", "Failed"} /\ Agrees(status, future[j])
            /\ Decide(t, status)
        BY <3>1, <3>2 DEF Agrees
      <3> HIDE DEF status
      <3>4. QED
        BY <1>7, <3>3
    <2>2. CASE future[j] \notin Ended \cup {"cancelled"}
      <3>1. client' = [client EXCEPT ![t].pc = "running"]
        BY <1>9, <2>2 DEF Read
      <3>2. QED
        BY <1>6, <2>2, <3>1
    <2>3. QED
      BY <2>1, <2>2
  <1>10. CASE client[t].pc = "running"
    <2> DEFINE status == IF future[j] = "running" THEN "Running" ELSE "Queued"
    <2>1. Decide(t, status)
      BY <1>10 DEF Read
    <2>2. /\ status \in {"Running", "Queued"} /\ Agrees(status, future[j])
          /\ status = "Queued" => future[j] # "running"
      BY DEF Agrees
    <2> HIDE DEF status
    <2>3. QED
      BY <1>7, <2>1, <2>2
  <1>11. QED
    BY <1>1, <1>8, <1>9, <1>10 DEF Reads

-----------------------------------------------------------------------------
(* Steps of connection() *)

\* Whoever is between taking and releasing the lock is alone there.
LEMMA Connecting ==
  ASSUME Inv, NEW t \in Threads, NEW c \in Client,
         client' = [client EXCEPT ![t] = c],
         UNCHANGED <<table, future, queue, worker, left, told>>,
         \A u \in Threads : u # t => client[u].pc \notin {"look", "start"},
         lock' \in Threads \cup {NoThread}, service' \in {0} \cup Servers,
         created' \in 0 .. MaxServers,
         service = 0 \/ service' = service,
         c.pc \in {"idle", "look", "start"}, c.answer = "none",
         c.pc \in {"look", "start"} => lock' = t,
         c.pc = "start" => service' = 0,
         c.url \in {0, service'}
  PROVE  Inv'
  <1>1. /\ client' \in [Threads -> Client]
        /\ client'[t] = c
        /\ \A u \in Threads : u # t => client'[u] = client[u]
    BY ClientStep DEF Inv, TypeOK
  <1>2. TypeOK'
    BY <1>1 DEF Inv, TypeOK
  <1>3. Locked'
    BY <1>1 DEF Inv, Locked
  <1>4. OneService'
    <2>1. \A u \in Threads : u # t => client[u].url \in {0, service'}
      BY DEF Inv, OneService
    <2>2. \A j \in Jobs : table'[j] \in {0, service'}
      BY DEF Inv, OneService
    <2>3. c.pc \notin {"sent"} \cup Handling
      BY DEF Handling, Reads
    <2>4. QED
      BY <1>1, <2>1, <2>2, <2>3 DEF Inv, OneService
  <1>5. OneRequest'
    <2>1. c.pc \notin Handling
      BY DEF Handling, Reads
    <2>2. QED
      BY <1>1, <2>1 DEF Inv, OneRequest
  <1>6. Waiting' /\ Working' /\ Listed' /\ Told'
    BY DEF Inv, Waiting, Working, Listed, Told, Agrees
  <1>7. Requested'
    <2>1. RequestOK(c)'
      BY DEF RequestOK, Reads
    <2>2. \A u \in Threads : RequestOK(client[u])
      BY DEF Inv, Requested
    <2>3. SUFFICES ASSUME NEW u \in Threads
                   PROVE  RequestOK(client[u])'
      BY DEF Requested
    <2>4. CASE u = t
      BY <1>1, <2>1, <2>4 DEF RequestOK
    <2>5. CASE u # t
      BY <1>1, <2>2, <2>5 DEF RequestOK, Agrees
    <2>6. QED
      BY <2>4, <2>5
  <1>8. QED
    BY <1>2, <1>3, <1>4, <1>5, <1>6, <1>7 DEF Inv

\* Taking the lock.
LEMMA EnterInv ==
  ASSUME Inv, NEW t \in Threads, Enter(t)
  PROVE  Inv'
  <1> DEFINE c == [client[t] EXCEPT !.pc = "look"]
  <1>1. /\ client[t] \in Client /\ client[t].pc = "enter"
        /\ client[t].answer = "none" /\ client[t].url \in {0, service}
    BY DEF Inv, TypeOK, Enter, Requested, RequestOK, OneService
  <1>2. /\ c \in Client /\ c.pc = "look" /\ c.url = client[t].url
        /\ c.answer = "none"
    BY <1>1 DEF Client
  <1>3. client' = [client EXCEPT ![t] = c] /\ lock' = t /\ lock = NoThread
    BY DEF Inv, TypeOK, Enter, LockFree
  <1>4. UNCHANGED <<table, future, queue, worker, left, told>>
        /\ service' = service /\ created' = created
    BY DEF Enter, runtime
  <1>5. \A u \in Threads : u # t => client[u].pc \notin {"look", "start"}
    BY <1>3, ConstantsAssumption DEF Inv, Locked
  <1>6. service \in {0} \cup Servers /\ created \in 0 .. MaxServers
    BY DEF Inv, TypeOK
  <1> HIDE DEF c
  <1>7. /\ lock' \in Threads \cup {NoThread} /\ service' \in {0} \cup Servers
        /\ created' \in 0 .. MaxServers
        /\ service = 0 \/ service' = service
        /\ c.pc \in {"idle", "look", "start"} /\ c.answer = "none"
        /\ c.pc \in {"look", "start"} => lock' = t
        /\ c.pc = "start" => service' = 0
        /\ c.url \in {0, service'}
    BY <1>1, <1>2, <1>3, <1>4, <1>6
  <1>8. QED
    BY <1>2, <1>3, <1>4, <1>5, <1>7, Connecting

\* The service is there, or is not.
LEMMA LookUpInv ==
  ASSUME Inv, NEW t \in Threads, LookUp(t)
  PROVE  Inv'
  <1>1. /\ client[t] \in Client /\ client[t].pc = "look"
        /\ client[t].answer = "none" /\ client[t].url \in {0, service}
        /\ lock = t
    BY DEF Inv, TypeOK, LookUp, Requested, RequestOK, OneService, Locked
  <1>2. UNCHANGED <<table, future, queue, worker, left, told>>
        /\ service' = service /\ created' = created
    BY DEF LookUp, runtime
  <1>3. \A u \in Threads : u # t => client[u].pc \notin {"look", "start"}
    BY <1>1 DEF Inv, Locked
  <1>4. service \in {0} \cup Servers /\ created \in 0 .. MaxServers
    BY DEF Inv, TypeOK
  <1>5. CASE service # 0
    <2> DEFINE c == [client[t] EXCEPT !.pc = "idle", !.url = service]
    <2>1. /\ c \in Client /\ c.pc = "idle" /\ c.url = service
          /\ c.answer = "none"
      BY <1>1, <1>4 DEF Client
    <2>2. client' = [client EXCEPT ![t] = c] /\ lock' = NoThread
      BY <1>5 DEF LookUp, Inv, TypeOK
    <2> HIDE DEF c
    <2>3. /\ lock' \in Threads \cup {NoThread} /\ service' \in {0} \cup Servers
          /\ created' \in 0 .. MaxServers
          /\ service = 0 \/ service' = service
          /\ c.pc \in {"idle", "look", "start"} /\ c.answer = "none"
          /\ c.pc \in {"look", "start"} => lock' = t
          /\ c.pc = "start" => service' = 0
          /\ c.url \in {0, service'}
      BY <1>2, <1>4, <2>1, <2>2
    <2>4. QED
      BY <1>2, <1>3, <2>1, <2>2, <2>3, Connecting
  <1>6. CASE service = 0
    <2> DEFINE c == [client[t] EXCEPT !.pc = "start"]
    <2>1. /\ c \in Client /\ c.pc = "start" /\ c.url = client[t].url
          /\ c.answer = "none"
      BY <1>1 DEF Client
    <2>2. client' = [client EXCEPT ![t] = c] /\ lock' = lock
      BY <1>6 DEF LookUp, Inv, TypeOK
    <2> HIDE DEF c
    <2>3. /\ lock' \in Threads \cup {NoThread} /\ service' \in {0} \cup Servers
          /\ created' \in 0 .. MaxServers
          /\ service = 0 \/ service' = service
          /\ c.pc \in {"idle", "look", "start"} /\ c.answer = "none"
          /\ c.pc \in {"look", "start"} => lock' = t
          /\ c.pc = "start" => service' = 0
          /\ c.url \in {0, service'}
      BY <1>1, <1>2, <1>4, <1>6, <2>1, <2>2
    <2>4. QED
      BY <1>2, <1>3, <2>1, <2>2, <2>3, Connecting
  <1>7. QED
    BY <1>5, <1>6

\* The one server is made, or cannot be.
LEMMA StartServerInv ==
  ASSUME Inv, NEW t \in Threads, StartServer(t) \/ FailServer(t)
  PROVE  Inv'
  <1>1. /\ client[t] \in Client /\ client[t].pc = "start"
        /\ client[t].answer = "none" /\ client[t].url \in {0, service}
        /\ lock = t /\ service = 0 /\ lock' = NoThread
    BY DEF Inv, TypeOK, StartServer, FailServer, FailUnlock, Requested,
           RequestOK, OneService, Locked
  <1>2. UNCHANGED <<table, future, queue, worker, left, told>>
    BY DEF StartServer, FailServer, runtime
  <1>3. \A u \in Threads : u # t => client[u].pc \notin {"look", "start"}
    BY <1>1 DEF Inv, Locked
  <1>4. service \in {0} \cup Servers /\ created \in 0 .. MaxServers
    BY DEF Inv, TypeOK
  <1>5. CASE StartServer(t)
    <2> DEFINE n == created + 1
               c == [client[t] EXCEPT !.pc = "idle", !.url = n]
    <2>1. n \in Servers /\ n \in 0 .. MaxServers
      BY <1>4, <1>5, ConstantsAssumption DEF StartServer, Servers
    <2>2. /\ client' = [client EXCEPT ![t].pc = "idle", ![t].url = n]
          /\ service' = n /\ created' = n
      BY <1>5 DEF StartServer
    <2> HIDE DEF n
    <2>3. client' = [client EXCEPT ![t] = c]
      BY <2>2 DEF Inv, TypeOK
    <2>4. /\ c \in Client /\ c.pc = "idle" /\ c.url = n /\ c.answer = "none"
      BY <1>1, <2>1 DEF Client
    <2> HIDE DEF c
    <2>5. /\ lock' \in Threads \cup {NoThread} /\ service' \in {0} \cup Servers
          /\ created' \in 0 .. MaxServers
          /\ service = 0 \/ service' = service
          /\ c.pc \in {"idle", "look", "start"} /\ c.answer = "none"
          /\ c.pc \in {"look", "start"} => lock' = t
          /\ c.pc = "start" => service' = 0
          /\ c.url \in {0, service'}
      BY <1>1, <2>1, <2>2, <2>4
    <2>6. QED
      BY <1>2, <1>3, <2>3, <2>4, <2>5, Connecting
  <1>6. CASE FailServer(t)
    <2> DEFINE c == [client[t] EXCEPT !.pc = "idle"]
    <2>1. /\ c \in Client /\ c.pc = "idle" /\ c.url = client[t].url
          /\ c.answer = "none"
      BY <1>1 DEF Client
    <2>2. client' = [client EXCEPT ![t] = c] /\ service' = service
          /\ created' = created
      BY <1>6 DEF FailServer, Inv, TypeOK
    <2> HIDE DEF c
    <2>3. /\ lock' \in Threads \cup {NoThread} /\ service' \in {0} \cup Servers
          /\ created' \in 0 .. MaxServers
          /\ service = 0 \/ service' = service
          /\ c.pc \in {"idle", "look", "start"} /\ c.answer = "none"
          /\ c.pc \in {"look", "start"} => lock' = t
          /\ c.pc = "start" => service' = 0
          /\ c.url \in {0, service'}
      BY <1>1, <1>4, <2>1, <2>2
    <2>4. QED
      BY <1>2, <1>3, <2>1, <2>2, <2>3, Connecting
  <1>7. QED
    BY <1>5, <1>6

-----------------------------------------------------------------------------
(* Steps of the service *)

\* Futures only go forward.
Advance(f, g) ==
    \/ g = f
    \/ f = "absent" /\ g = "pending"
    \/ f = "pending" /\ g \in {"running", "cancelled"}
    \/ f = "running" /\ g \in Ended

\* What agrees with a future agrees with what becomes of it.
LEMMA AgreesStays ==
  ASSUME NEW f, NEW g, Advance(f, g), NEW answer, Agrees(answer, f)
  PROVE  Agrees(answer, g)
  BY DEF Advance, Agrees, Ended

\* What was told stays true while futures go forward.
LEMMA ToldStays ==
  ASSUME Inv, \A j \in Jobs : Advance(future[j], future'[j]), told' = told
  PROVE  Told'
  <1>1. \A j \in Jobs : \A answer \in told[j] : Agrees(answer, future[j])
    BY DEF Inv, Told
  <1>2. \A j \in Jobs : \A answer \in told[j] : Agrees(answer, future'[j])
    BY <1>1, AgreesStays
  <1>3. QED
    BY <1>2 DEF Told, Agrees

\* A client that waits is not harmed by what happens to futures meanwhile.
LEMMA OthersKeep ==
  ASSUME Inv, NEW u \in Threads, client'[u] = client[u],
         \A j \in Jobs : Advance(future[j], future'[j]),
         \A j \in Jobs : table[j] # 0 => table'[j] # 0,
         told' = told \/ client[u].pc # "reply",
         client[u].pc \in {"done", "running"} => \A j \in Jobs :
            future[j] # "cancelled" => future'[j] # "cancelled"
  PROVE  RequestOK(client[u])'
  <1> DEFINE c == client[u]
  <1>1. RequestOK(c) /\ c \in Client /\ c.job \in Jobs \cup {NoJob}
    BY DEF Inv, Requested, TypeOK, Client
  <1>2. /\ c.pc = "sent" /\ c.kind # "submit" => c.job \in Jobs /\ table'[c.job] # 0
        /\ c.pc \in {"store", "cancel"} \cup Reads =>
              c.job \in Jobs /\ future'[c.job] # "absent"
        /\ c.pc \in {"done", "running"} => future'[c.job] # "cancelled"
        /\ c.pc # "reply" => c.answer = "none"
        /\ c.pc = "reply" => c.answer \notin {"raised", "unknown"}
        /\ c.pc = "reply" /\ c.job = NoJob => c.answer = "invalid"
    BY <1>1 DEF RequestOK, Advance, Ended, Reads
  <1>3. c.pc = "reply" /\ c.job # NoJob =>
          /\ Agrees(c.answer, future'[c.job])
          /\ c.answer = "id" => table'[c.job] # 0
          /\ c.answer = "Queued" /\ "Running" \in told'[c.job]
               => future'[c.job] \in Ended
    <2> SUFFICES ASSUME c.pc = "reply", c.job # NoJob
                 PROVE  /\ Agrees(c.answer, future'[c.job])
                        /\ c.answer = "id" => table'[c.job] # 0
                        /\ c.answer = "Queued" /\ "Running" \in told'[c.job]
                             => future'[c.job] \in Ended
      OBVIOUS
    <2>1. /\ c.job \in Jobs /\ Agrees(c.answer, future[c.job])
          /\ c.answer = "id" => table[c.job] # 0
          /\ c.answer = "Queued" /\ "Running" \in told[c.job]
               => future[c.job] \in Ended
      BY <1>1 DEF RequestOK
    <2>2. Agrees(c.answer, future'[c.job])
      BY <2>1, AgreesStays
    <2>3. told' = told
      OBVIOUS
    <2>4. future[c.job] \in Ended => future'[c.job] \in Ended
      BY <2>1 DEF Advance, Ended
    <2>5. QED
      BY <2>1, <2>2, <2>3, <2>4
  <1>4. QED
    BY <1>2, <1>3 DEF RequestOK, Agrees

\* The job is listed under its identifier, which the client is given.
LEMMA StoreInv ==
  ASSUME Inv, NEW t \in Threads, Store(t)
  PROVE  Inv'
  <1> DEFINE j == client[t].job
             answer == "id"
             c == Answered(client[t], answer)
  <1>1. client[t].pc = "store" /\ "store" \in Handling /\ "reply" \in Handling
    BY DEF Store, Handling
  <1>2. /\ j \in Jobs /\ future[j] # "absent" /\ client[t].url # 0
        /\ client[t].url = service /\ client[t].url \in Servers
    BY <1>1 DEF Inv, Requested, RequestOK, OneService, TypeOK
  <1>3. /\ client' = [client EXCEPT ![t] = c] /\ c \in Client
        /\ c.pc = "reply" /\ c.answer = "id" /\ c.job = client[t].job
        /\ c.url = client[t].url /\ c.url # 0 /\ c.url = service
    <2>1. answer \in Answers /\ Answer(t, answer) /\ c = Answered(client[t], answer)
          /\ client[t].pc \in Handling
      BY <1>1 DEF Store, Answers
    <2> HIDE DEF c, answer
    <2>2. /\ client' = [client EXCEPT ![t] = c] /\ c \in Client
          /\ c.pc = "reply" /\ c.answer = answer /\ c.job = client[t].job
          /\ c.url = client[t].url /\ c.url # 0 /\ c.url = service
      BY <2>1, AnswerStep
    <2>3. QED
      BY <2>2 DEF answer
  <1> HIDE DEF c
  <1>4. /\ client' \in [Threads -> Client]
        /\ client'[t] = c
        /\ \A u \in Threads : u # t => client'[u] = client[u]
    BY <1>3, ClientStep DEF Inv, TypeOK
  <1>5. UNCHANGED <<lock, service, created, future, queue, worker, left, told>>
        /\ table' = [table EXCEPT ![j] = service]
    BY <1>2 DEF Store, registry
  <1>6. TypeOK'
    BY <1>2, <1>4, <1>5 DEF Inv, TypeOK
  <1>7. Locked'
    BY <1>3, <1>4, <1>5 DEF Inv, Locked
  <1>8. OneService'
    BY <1>3, <1>4, <1>5 DEF Inv, OneService, TypeOK
  <1>9. OneRequest'
    BY <1>1, <1>3, <1>4 DEF Inv, OneRequest
  <1>10. Waiting' /\ Working'
    BY <1>5 DEF Inv, Waiting, Working
  <1>11. \A i \in Jobs : table[i] # 0 => table'[i] # 0
    BY <1>2, <1>5 DEF Inv, TypeOK
  <1>12. \A i \in Jobs : Advance(future[i], future'[i])
    BY <1>5 DEF Advance
  <1>13. Listed'
    BY <1>2, <1>5, <1>11 DEF Inv, Listed, TypeOK
  <1>14. Told'
    BY <1>5, <1>12, ToldStays
  <1>15. Requested'
    <2>1. SUFFICES ASSUME NEW u \in Threads
                   PROVE  RequestOK(client[u])'
      BY DEF Requested
    <2>2. CASE u = t
      <3>1. table'[c.job] # 0
        BY <1>2, <1>3, <1>5 DEF Inv, TypeOK
      <3>2. QED
        BY <1>2, <1>3, <1>4, <2>2, <3>1, ConstantsAssumption
           DEF RequestOK, Reads, Agrees
    <2>3. CASE u # t
      BY <1>4, <1>5, <1>11, <1>12, <2>3, OthersKeep
    <2>4. QED
      BY <2>2, <2>3
  <1>16. QED
    BY <1>6, <1>7, <1>8, <1>9, <1>10, <1>13, <1>14, <1>15 DEF Inv

\* The job joins the queue of the worker, where it is not.
LEMMA EnqueueInv ==
  ASSUME Inv, NEW t \in Threads, Enqueue(t)
  PROVE  Inv'
  <1>1. PICK j \in Jobs :
          /\ future[j] = "absent"
          /\ future' = [future EXCEPT ![j] = "pending"]
          /\ queue' = [queue EXCEPT ![client[t].url] = Append(@, j)]
          /\ client' = [client EXCEPT ![t].pc = "store", ![t].job = j]
    BY DEF Enqueue
  <1> DEFINE n == client[t].url
             c == [client[t] EXCEPT !.pc = "store", !.job = j]
  <1>2. client[t].pc = "submit" /\ "submit" \in Handling /\ "store" \in Handling
    BY DEF Enqueue, Handling
  <1>3. /\ client[t] \in Client /\ client[t].answer = "none"
        /\ n # 0 /\ n = service /\ n \in Servers
    BY <1>2 DEF Inv, Requested, RequestOK, OneService, TypeOK
  <1>4. client' = [client EXCEPT ![t] = c]
    BY <1>1 DEF Inv, TypeOK
  <1>5. /\ c \in Client /\ c.pc = "store" /\ c.url = n /\ c.job = j
        /\ c.answer = "none"
    BY <1>2, <1>3 DEF Client
  <1> HIDE DEF c
  <1>6. /\ client' \in [Threads -> Client]
        /\ client'[t] = c
        /\ \A u \in Threads : u # t => client'[u] = client[u]
    BY <1>4, <1>5, ClientStep DEF Inv, TypeOK
  <1>7. UNCHANGED <<lock, service, created, table, worker, left, told>>
    BY DEF Enqueue, registry
  <1>8. /\ future' \in [Jobs -> Futures] /\ future'[j] = "pending"
        /\ \A i \in Jobs : i # j => future'[i] = future[i]
    BY <1>1 DEF Inv, TypeOK, Futures
  <1>9. /\ queue' \in [Servers -> Seq(Jobs)]
        /\ queue'[n] = Append(queue[n], j)
        /\ \A m \in Servers : m # n => queue'[m] = queue[m]
        /\ \A m \in Servers : queue[m] \in Seq(Jobs)
    BY <1>1, <1>3 DEF Inv, TypeOK
  <1> HIDE DEF n
  <1>10. TypeOK'
    BY <1>6, <1>7, <1>8, <1>9 DEF Inv, TypeOK
  <1>11. Locked'
    BY <1>5, <1>6, <1>7 DEF Inv, Locked
  <1>12. OneService'
    BY <1>3, <1>5, <1>6, <1>7 DEF Inv, OneService
  <1>13. OneRequest'
    BY <1>2, <1>5, <1>6 DEF Inv, OneRequest
  <1>14. Waiting'
    <2>1. \A m \in Servers, i \in Nat : i \in DOMAIN queue[m] =>
            queue[m][i] \in Jobs /\ queue[m][i] # j
      BY <1>1, <1>9 DEF Inv, Waiting
    <2>2. /\ DOMAIN queue'[n] = DOMAIN queue[n] \cup {Len(queue[n]) + 1}
          /\ Len(queue[n]) + 1 \notin DOMAIN queue[n]
          /\ queue'[n][Len(queue[n]) + 1] = j
          /\ \A i \in DOMAIN queue[n] : queue'[n][i] = queue[n][i]
      BY <1>3, <1>9
    <2>3. \A m \in Servers, i \in Nat : i \in DOMAIN queue'[m] =>
            \/ i \in DOMAIN queue[m] /\ queue'[m][i] = queue[m][i]
            \/ m = n /\ i = Len(queue[n]) + 1 /\ queue'[m][i] = j
      BY <1>9, <2>2
    <2>4. \A m \in Servers, i \in Nat : i \in DOMAIN queue'[m] =>
            future'[queue'[m][i]] \in {"pending", "cancelled"}
      BY <1>8, <2>1, <2>3 DEF Inv, Waiting
    <2>5. \A m, o \in Servers, i, k \in Nat :
            i \in DOMAIN queue'[m] /\ k \in DOMAIN queue'[o]
              /\ queue'[m][i] = queue'[o][k] => m = o /\ i = k
      BY <2>1, <2>3 DEF Inv, Waiting
    <2>6. QED
      BY <2>4, <2>5 DEF Waiting
  <1>15. Working'
    BY <1>1, <1>7, <1>8 DEF Inv, Working, TypeOK
  <1>16. Listed'
    BY <1>7, <1>8 DEF Inv, Listed
  <1>17. \A i \in Jobs : Advance(future[i], future'[i])
    BY <1>1, <1>8 DEF Advance
  <1>18. Told'
    BY <1>7, <1>17, ToldStays
  <1>19. Requested'
    <2>1. SUFFICES ASSUME NEW u \in Threads
                   PROVE  RequestOK(client[u])'
      BY DEF Requested
    <2>2. CASE u = t
      BY <1>5, <1>6, <1>8, <2>2 DEF RequestOK, Reads
    <2>3. CASE u # t
      <3>1. \A i \in Jobs : future[i] # "cancelled" => future'[i] # "cancelled"
        BY <1>8
      <3>2. QED
        BY <1>6, <1>7, <1>17, <2>3, <3>1, OthersKeep
    <2>4. QED
      BY <2>2, <2>3
  <1>20. QED
    BY <1>10, <1>11, <1>12, <1>13, <1>14, <1>15, <1>16, <1>18, <1>19 DEF Inv

\* A cancellation comes before the worker, or too late.
LEMMA CancelInv ==
  ASSUME Inv, NEW t \in Threads, Cancel(t)
  PROVE  Inv'
  <1> DEFINE j == client[t].job
             canceled == future[j] \in {"pending", "cancelled"}
             answer == Confirm(canceled)
             c == Answered(client[t], answer)
  <1>1. client[t].pc = "cancel" /\ "cancel" \in Handling /\ "reply" \in Handling
    BY DEF Cancel, Handling
  <1>2. /\ j \in Jobs /\ future[j] # "absent" /\ future[j] \in Futures
        /\ client[t].url # 0 /\ client[t].url = service
    BY <1>1 DEF Inv, Requested, RequestOK, OneService, TypeOK
  <1>3. /\ answer \in {"204", "409"} /\ answer \in Answers
        /\ answer = "204" <=> canceled
    BY DEF Confirm, Answers
  <1>4. /\ client' = [client EXCEPT ![t] = c] /\ c \in Client
        /\ c.pc = "reply" /\ c.answer = answer /\ c.job = client[t].job
        /\ c.url = client[t].url /\ c.url # 0 /\ c.url = service
    <2>1. Answer(t, answer) /\ c = Answered(client[t], answer)
          /\ client[t].pc \in Handling
      BY <1>1 DEF Cancel
    <2> HIDE DEF c, answer
    <2>2. QED
      BY <1>3, <2>1, AnswerStep
  <1> HIDE DEF c, answer
  <1>5. /\ client' \in [Threads -> Client]
        /\ client'[t] = c
        /\ \A u \in Threads : u # t => client'[u] = client[u]
    BY <1>4, ClientStep DEF Inv, TypeOK
  <1>6. UNCHANGED <<lock, service, created, table, queue, worker, left, told>>
    BY DEF Cancel, registry
  <1>7. /\ future' \in [Jobs -> Futures]
        /\ \A i \in Jobs : i # j => future'[i] = future[i]
        /\ canceled => future'[j] = "cancelled"
        /\ ~canceled => future'[j] = future[j]
    BY <1>2 DEF Cancel, Inv, TypeOK, Futures
  <1>8. \A i \in Jobs : Advance(future[i], future'[i])
    BY <1>7 DEF Advance
  <1>9. TypeOK'
    BY <1>5, <1>6, <1>7 DEF Inv, TypeOK
  <1>10. Locked'
    BY <1>4, <1>5, <1>6 DEF Inv, Locked
  <1>11. OneService'
    BY <1>4, <1>5, <1>6 DEF Inv, OneService
  <1>12. OneRequest'
    BY <1>1, <1>4, <1>5 DEF Inv, OneRequest
  <1>13. Waiting'
    <2>1. \A i \in Jobs : future[i] \in {"pending", "cancelled"}
            => future'[i] \in {"pending", "cancelled"}
      BY <1>7
    <2>2. \A n \in Servers, i \in Nat : i \in DOMAIN queue[n] => queue[n][i] \in Jobs
      BY DEF Inv, TypeOK
    <2>3. QED
      BY <1>6, <2>1, <2>2 DEF Inv, Waiting
  <1>14. Working'
    <2>1. \A i \in Jobs : future[i] = "running" => future'[i] = "running"
      BY <1>7
    <2>2. QED
      BY <1>6, <2>1 DEF Inv, Working, TypeOK
  <1>15. Listed'
    <2>1. \A i \in Jobs : future[i] # "absent" => future'[i] # "absent"
      BY <1>7
    <2>2. QED
      BY <1>6, <2>1 DEF Inv, Listed
  <1>16. Told'
    BY <1>6, <1>8, ToldStays
  <1>17. Requested'
    <2>1. SUFFICES ASSUME NEW u \in Threads
                   PROVE  RequestOK(client[u])'
      BY DEF Requested
    <2>2. CASE u = t
      <3>1. Agrees(answer, future'[j])
        BY <1>2, <1>3, <1>7 DEF Agrees, Futures
      <3>2. QED
        BY <1>2, <1>3, <1>4, <1>5, <2>2, <3>1, ConstantsAssumption
           DEF RequestOK, Reads, Agrees
    <2>3. CASE u # t
      <3>1. client[u].pc \notin Handling
        BY <1>1, <2>3, OthersWait
      <3>2. client[u].pc \notin {"done", "running"}
        BY <3>1 DEF Handling, Reads
      <3>3. QED
        BY <1>5, <1>6, <1>8, <2>3, <3>2, OthersKeep
    <2>4. QED
      BY <2>2, <2>3
  <1>18. QED
    BY <1>9, <1>10, <1>11, <1>12, <1>13, <1>14, <1>15, <1>16, <1>17 DEF Inv

\* The answer reaches the client.
LEMMA ReplyInv ==
  ASSUME Inv, NEW t \in Threads, Reply(t)
  PROVE  Inv'
  <1> DEFINE j == client[t].job
             c == [client[t] EXCEPT !.pc = "idle", !.kind = "none",
                                    !.job = NoJob, !.answer = "none"]
  <1>1. client[t].pc = "reply" /\ "reply" \in Handling
    BY DEF Reply, Handling
  <1>2. /\ client[t] \in Client /\ j \in Jobs \cup {NoJob}
        /\ client[t].answer \in Answers /\ client[t].url \in {0, service}
        /\ j # NoJob => /\ Agrees(client[t].answer, future[j])
                        /\ client[t].answer = "id" => table[j] # 0
    BY <1>1 DEF Inv, TypeOK, Requested, RequestOK, OneService, Client
  <1>3. client' = [client EXCEPT ![t] = c]
    BY DEF Reply, Inv, TypeOK
  <1>4. /\ c \in Client /\ c.pc = "idle" /\ c.answer = "none"
        /\ c.url = client[t].url
    BY <1>2 DEF Client, Kinds, Answers
  <1> HIDE DEF c
  <1>5. /\ client' \in [Threads -> Client]
        /\ client'[t] = c
        /\ \A u \in Threads : u # t => client'[u] = client[u]
    BY <1>3, <1>4, ClientStep DEF Inv, TypeOK
  <1>6. UNCHANGED <<lock, service, created, table, future, queue, worker, left>>
    BY DEF Reply, registry
  <1>7. /\ told' \in [Jobs -> SUBSET Answers]
        /\ \A i \in Jobs :
              \/ told'[i] = told[i]
              \/ i = j /\ told'[i] = told[i] \cup {client[t].answer}
    BY <1>2 DEF Reply, Inv, TypeOK
  <1>8. TypeOK'
    BY <1>5, <1>6, <1>7 DEF Inv, TypeOK
  <1>9. c.pc \notin {"look", "start", "sent"} \cup Handling
    BY <1>4 DEF Handling, Reads
  <1>10. Locked'
    BY <1>5, <1>6, <1>9 DEF Inv, Locked
  <1>11. OneService'
    BY <1>2, <1>4, <1>5, <1>6, <1>9 DEF Inv, OneService
  <1>12. OneRequest'
    BY <1>5, <1>9 DEF Inv, OneRequest
  <1>13. Waiting' /\ Working'
    BY <1>6 DEF Inv, Waiting, Working
  <1>14. Listed'
    <2>1. j \in Jobs => j # NoJob
      BY ConstantsAssumption
    <2>2. QED
      BY <1>2, <1>6, <1>7, <2>1 DEF Inv, Listed
  <1>15. Told'
    <2>1. j \in Jobs => j # NoJob
      BY ConstantsAssumption
    <2>2. \A i \in Jobs : \A answer \in told'[i] : Agrees(answer, future[i])
      BY <1>2, <1>7, <2>1 DEF Inv, Told
    <2>3. QED
      BY <1>6, <2>2 DEF Told, Agrees
  <1>16. Requested'
    <2>1. SUFFICES ASSUME NEW u \in Threads
                   PROVE  RequestOK(client[u])'
      BY DEF Requested
    <2>2. CASE u = t
      BY <1>4, <1>5, <2>2 DEF RequestOK, Reads
    <2>3. CASE u # t
      <3>1. client[u].pc \notin Handling
        BY <1>1, <2>3, OthersWait
      <3>2. client[u].pc \notin {"reply", "done", "running"}
        BY <3>1 DEF Handling, Reads
      <3>3. \A i \in Jobs : Advance(future[i], future'[i])
        BY <1>6 DEF Advance
      <3>4. QED
        BY <1>5, <1>6, <2>3, <3>2, <3>3, OthersKeep
    <2>4. QED
      BY <2>2, <2>3
  <1>17. QED
    BY <1>8, <1>10, <1>11, <1>12, <1>13, <1>14, <1>15, <1>16 DEF Inv

-----------------------------------------------------------------------------
(* Steps of the worker *)

\* A worker takes or drops the job at the head of its queue.
LEMMA TakeInv ==
  ASSUME Inv, NEW n \in Servers, Take(n)
  PROVE  Inv'
  <1> DEFINE j == Head(queue[n])
  <1>1. /\ UNCHANGED <<lock, service, created, client, table, left, told>>
        /\ worker[n] = NoJob /\ queue[n] # << >>
        /\ queue' = [queue EXCEPT ![n] = Tail(@)]
    BY DEF Take, registry
  <1>2. /\ \A m \in Servers : queue[m] \in Seq(Jobs)
        /\ queue' \in [Servers -> Seq(Jobs)]
        /\ queue'[n] = Tail(queue[n])
        /\ \A m \in Servers : m # n => queue'[m] = queue[m]
    BY <1>1 DEF Inv, TypeOK
  <1>3. j \in Jobs /\ 1 \in DOMAIN queue[n] /\ j = queue[n][1]
    BY <1>1, <1>2
  <1>4. future[j] \in {"pending", "cancelled"}
    BY <1>3 DEF Inv, Waiting
  <1>5. /\ future' \in [Jobs -> Futures] /\ worker' \in [Servers -> Jobs \cup {NoJob}]
        /\ \A i \in Jobs : i # j => future'[i] = future[i]
        /\ \A m \in Servers : m # n => worker'[m] = worker[m]
        /\ \/ future'[j] = future[j] /\ worker'[n] = NoJob
           \/ future[j] = "pending" /\ future'[j] = "running" /\ worker'[n] = j
    BY <1>1, <1>3, <1>4 DEF Take, Inv, TypeOK, Futures
  <1> HIDE DEF j
  <1>6. \A i \in Jobs : Advance(future[i], future'[i])
    BY <1>5 DEF Advance
  <1>7. TypeOK'
    BY <1>1, <1>2, <1>5 DEF Inv, TypeOK
  <1>8. Locked' /\ OneService' /\ OneRequest'
    BY <1>1 DEF Inv, Locked, OneService, OneRequest
  <1>9. Waiting'
    <2>1. \A m \in Servers, i \in Nat : i \in DOMAIN queue'[m] =>
            \/ m # n /\ i \in DOMAIN queue[m] /\ queue'[m][i] = queue[m][i]
            \/ /\ m = n /\ i + 1 \in DOMAIN queue[m] /\ i + 1 # 1
               /\ queue'[m][i] = queue[m][i + 1]
      BY <1>1, <1>2
    <2>2. \A m \in Servers, i \in Nat : i \in DOMAIN queue'[m] =>
            queue'[m][i] # j
      BY <1>3, <2>1 DEF Inv, Waiting
    <2>3. \A m \in Servers, i \in Nat : i \in DOMAIN queue'[m] =>
            queue'[m][i] \in Jobs
            /\ future[queue'[m][i]] \in {"pending", "cancelled"}
      BY <1>2, <2>1 DEF Inv, Waiting
    <2>4. \A m, o \in Servers, i, k \in Nat :
            i \in DOMAIN queue'[m] /\ k \in DOMAIN queue'[o]
              /\ queue'[m][i] = queue'[o][k] => m = o /\ i = k
      <3> SUFFICES ASSUME NEW m \in Servers, NEW o \in Servers,
                          NEW i \in Nat, NEW k \in Nat,
                          i \in DOMAIN queue'[m], k \in DOMAIN queue'[o],
                          queue'[m][i] = queue'[o][k]
                   PROVE  m = o /\ i = k
        OBVIOUS
      <3>1. PICK a \in {i, i + 1}, b \in {k, k + 1} :
              /\ a \in DOMAIN queue[m] /\ b \in DOMAIN queue[o]
              /\ queue[m][a] = queue[o][b]
              /\ a = IF m = n THEN i + 1 ELSE i
              /\ b = IF o = n THEN k + 1 ELSE k
        BY <2>1
      <3>2. a \in Nat /\ b \in Nat
        OBVIOUS
      <3>3. m = o /\ a = b
        BY <3>1, <3>2 DEF Inv, Waiting
      <3>4. QED
        BY <3>1, <3>3
    <2>5. QED
      BY <1>5, <2>2, <2>3, <2>4 DEF Waiting
  <1>10. Working'
    <2>1. \A m \in Servers : worker[m] # NoJob => worker[m] \in Jobs /\ worker[m] # j
      BY <1>4 DEF Inv, Working, TypeOK
    <2>2. QED
      BY <1>3, <1>5, <2>1 DEF Inv, Working
  <1>11. Listed'
    BY <1>1, <1>3, <1>5 DEF Inv, Listed
  <1>12. Told'
    BY <1>1, <1>6, ToldStays
  <1>13. Requested'
    <2>1. SUFFICES ASSUME NEW u \in Threads
                   PROVE  RequestOK(client[u])'
      BY DEF Requested
    <2>2. \A i \in Jobs : future[i] # "cancelled" => future'[i] # "cancelled"
      BY <1>5
    <2>3. QED
      BY <1>1, <1>6, <2>2, OthersKeep
  <1>14. QED
    BY <1>7, <1>8, <1>9, <1>10, <1>11, <1>12, <1>13 DEF Inv

\* A simulation ends.
LEMMA SimulateInv ==
  ASSUME Inv, NEW n \in Servers, Simulate(n)
  PROVE  Inv'
  <1> DEFINE j == worker[n]
  <1>1. PICK result \in Ended : future' = [future EXCEPT ![j] = result]
    BY DEF Simulate
  <1>2. /\ UNCHANGED <<lock, service, created, client, table, queue, left, told>>
        /\ worker' = [worker EXCEPT ![n] = NoJob] /\ j # NoJob
    BY DEF Simulate, registry
  <1>3. j \in Jobs /\ future[j] = "running"
    BY <1>2 DEF Inv, Working, TypeOK
  <1>4. /\ future' \in [Jobs -> Futures] /\ future'[j] \in Ended
        /\ \A i \in Jobs : i # j => future'[i] = future[i]
        /\ worker' \in [Servers -> Jobs \cup {NoJob}] /\ worker'[n] = NoJob
        /\ \A m \in Servers : m # n => worker'[m] = worker[m]
    BY <1>1, <1>2, <1>3 DEF Inv, TypeOK, Futures
  <1>5. \A i \in Jobs : Advance(future[i], future'[i])
    BY <1>3, <1>4 DEF Advance
  <1>6. TypeOK'
    BY <1>2, <1>4 DEF Inv, TypeOK
  <1>7. Locked' /\ OneService' /\ OneRequest'
    BY <1>2 DEF Inv, Locked, OneService, OneRequest
  <1>8. Waiting'
    <2>1. \A m \in Servers, i \in Nat : i \in DOMAIN queue[m] =>
            queue[m][i] \in Jobs /\ queue[m][i] # j
      BY <1>3 DEF Inv, Waiting, TypeOK
    <2>2. QED
      BY <1>2, <1>4, <2>1 DEF Inv, Waiting
  <1>9. Working'
    <2>1. \A m \in Servers : m # n /\ worker[m] # NoJob
            => worker[m] \in Jobs /\ worker[m] # j
      BY <1>2 DEF Inv, Working, TypeOK
    <2> HIDE DEF j
    <2>2. QED
      BY <1>4, <2>1 DEF Inv, Working
  <1>10. Listed'
    BY <1>2, <1>3, <1>4 DEF Inv, Listed, Ended
  <1>11. Told'
    BY <1>2, <1>5, ToldStays
  <1>12. Requested'
    <2>1. SUFFICES ASSUME NEW u \in Threads
                   PROVE  RequestOK(client[u])'
      BY DEF Requested
    <2>2. \A i \in Jobs : future[i] # "cancelled" => future'[i] # "cancelled"
      BY <1>4 DEF Ended
    <2>3. QED
      BY <1>2, <1>5, <2>2, OthersKeep
  <1>13. QED
    BY <1>6, <1>7, <1>8, <1>9, <1>10, <1>11, <1>12 DEF Inv

-----------------------------------------------------------------------------
(* The theorems *)

\* Initially nothing is known, asked or queued.
LEMMA InitInv == Init => Inv
  <1> SUFFICES ASSUME Init
               PROVE  Inv
    OBVIOUS
  <1>1. TypeOK
    <2>1. \A t \in Threads : client[t] \in Client
      BY DEF Init, Client, Kinds, Answers
    <2>2. << >> \in Seq(Jobs)
      OBVIOUS
    <2>3. /\ client \in [Threads -> Client] /\ queue \in [Servers -> Seq(Jobs)]
      BY <2>1, <2>2 DEF Init
    <2>4. QED
      BY <2>3, ConstantsAssumption DEF Init, TypeOK, Futures
  <1>2. \A t \in Threads : client[t].pc = "idle" /\ client[t].url = 0
                           /\ client[t].answer = "none"
    BY DEF Init
  <1>3. "idle" \notin {"look", "start", "sent"} \cup Handling
    BY DEF Handling, Reads
  <1>4. Locked /\ OneService /\ OneRequest
    BY <1>2, <1>3 DEF Locked, OneService, OneRequest, Init
  <1>5. Waiting
    BY DEF Waiting, Init
  <1>6. Working /\ Listed /\ Told
    BY DEF Init, Working, Listed, Told
  <1>7. Requested
    BY <1>2 DEF Requested, RequestOK, Reads
  <1>8. QED
    BY <1>1, <1>4, <1>5, <1>6, <1>7 DEF Inv

\* Every step keeps the invariant.
LEMMA NextInv == Inv /\ [Next]_vars => Inv'
  <1> SUFFICES ASSUME Inv, [Next]_vars
               PROVE  Inv'
    OBVIOUS
  <1>1. CASE UNCHANGED vars
    BY <1>1 DEF vars, Inv, TypeOK, Locked, OneService, OneRequest, Waiting,
       Working, Listed, Told, Requested, RequestOK, Agrees
  <1>2. ASSUME NEW t \in Threads, BeginConnect(t) \/ Ask(t) \/ ThreadStep(t)
        PROVE  Inv'
    BY <1>2, BeginConnectInv, AskInv, EnterInv, LookUpInv, StartServerInv,
       AcceptInv, RejectInv, EnqueueInv, StoreInv, CancelInv, ReadInv, ReplyInv
       DEF ThreadStep
  <1>3. ASSUME NEW n \in Servers, WorkerStep(n)
        PROVE  Inv'
    BY <1>3, TakeInv, SimulateInv DEF WorkerStep
  <1>4. Finished => UNCHANGED vars
    BY DEF Finished
  <1>5. QED
    BY <1>1, <1>2, <1>3, <1>4 DEF Next

\* The invariant holds in every reachable state.
LEMMA InvAlways == Spec => []Inv
  BY InitInv, NextInv, PTL DEF Spec

(***************************************************************************)
(* What clients were answered about a job agrees, with itself and with     *)
(* what becomes of the job: confirmed cancellations are never run, refused *)
(* ones are, ends are final (the handler of mock.py).                      *)
(***************************************************************************)
THEOREM AnswersAlwaysAgree == Spec => []AnswersAgree
  <1>1. Inv => AnswersAgree
    <2> SUFFICES ASSUME Inv, NEW j \in Jobs
                 PROVE  /\ "raised" \notin told[j]
                        /\ told[j] \cap {"204", "Cancelled"} # {} =>
                              /\ future[j] = "cancelled"
                              /\ told[j] \cap {"409", "Running", "Completed",
                                               "Failed", "results"} = {}
                        /\ "409" \in told[j] => future[j] \in {"running"} \cup Ended
                        /\ told[j] \cap {"Completed", "results"} # {} =>
                              future[j] = "finished"
                        /\ "Failed" \in told[j] => future[j] = "failed"
      BY DEF AnswersAgree
    <2>1. \A answer \in told[j] : Agrees(answer, future[j])
      BY DEF Inv, Told
    <2>2. QED
      BY <2>1 DEF Agrees, Ended
  <1>2. QED
    BY <1>1, InvAlways, PTL

(***************************************************************************)
(* A job a client was given the identifier of is found, by all clients and *)
(* however many connect at the same time (_LOCK of mock.py).               *)
(***************************************************************************)
THEOREM NoJobIsLost == Spec => []NoLostJobs
  <1>1. Inv => NoLostJobs
    <2> SUFFICES ASSUME Inv, NEW t \in Threads
                 PROVE  client[t].answer # "unknown"
      BY DEF NoLostJobs
    <2>1. RequestOK(client[t])
      BY DEF Inv, Requested
    <2>2. QED
      BY <2>1 DEF RequestOK
  <1>2. QED
    BY <1>1, InvAlways, PTL

(***************************************************************************)
(* A job seen running is only reported as queued once it has ended: the    *)
(* three reads of the handler of mock.py and the worker between them.      *)
(***************************************************************************)
THEOREM FallsBackAtTheEnd == Spec => FallsBackOnlyAtTheEnd
  <1>1. Inv /\ [Next]_vars =>
          [ \A t \in Threads :
              Reply(t) /\ client[t].answer = "Queued"
                  /\ "Running" \in told[client[t].job]
                => future[client[t].job] \in Ended ]_vars
    <2> SUFFICES ASSUME Inv, NEW t \in Threads, Reply(t),
                        client[t].answer = "Queued",
                        "Running" \in told[client[t].job]
                 PROVE  future[client[t].job] \in Ended
      OBVIOUS
    <2>1. RequestOK(client[t]) /\ client[t].pc = "reply"
          /\ client[t].job \in Jobs \cup {NoJob}
      BY DEF Inv, Requested, Reply, TypeOK, Client
    <2>2. QED
      BY <2>1 DEF RequestOK
  <1>2. QED
    BY <1>1, InvAlways, PTL DEF Spec, FallsBackOnlyAtTheEnd
=============================================================================
