----------------------------- MODULE Auth_proofs -----------------------------
(***************************************************************************)
(* Proofs about Auth, for any number of threads and tokens and for every   *)
(* timeout, lifetime, margin and delay.                                    *)
(***************************************************************************)
EXTENDS Auth, TLAPS

\* A call that has a token has one that was granted; so have the rejections.
HoldsToken ==
    /\ \A t \in Threads : call[t].pc \in {"send", "exchange", "backoff"} =>
          call[t].token \in 1 .. granted
    /\ rejected \subseteq 1 .. granted
Inv == TypeOK /\ LockedOnlyForRefresh /\ HoldsToken

-----------------------------------------------------------------------------
(* Operators *)

\* The margin is part of the lifetime.
LEMMA MarginType ==
  ASSUME NEW lifetime \in Lifetimes
  PROVE  /\ Margin(lifetime) \in Nat
         /\ Margin(lifetime) <= lifetime
  <1>1. lifetime \in Nat /\ MarginShare \in Nat \ {0} /\ MarginCap \in Nat
    BY ConstantsAssumption
  <1>2. lifetime \div MarginShare \in Nat /\ lifetime \div MarginShare <= lifetime
    BY <1>1
  <1>3. QED
    BY <1>1, <1>2 DEF Margin, Smaller

\* A call that returns, and one that ends its exchange, are requests.
LEMMA NoCallType == NoCall \in Request
  BY ConstantsAssumption DEF NoCall, Request

\* An exchange that has ended leaves a request.
LEMMA EndedType ==
  ASSUME NEW c \in Request, NEW pc \in {"lock", "send", "backoff"}
  PROVE  /\ Ended(c, pc) \in Request
         /\ Ended(c, pc).pc = pc
         /\ Ended(c, pc).token = c.token
  BY DEF Ended, Request

\* What is left of the deadline, before it has passed.
LEMMA RemainingType ==
  ASSUME TypeOK, NEW t \in Threads, ~Late(t)
  PROVE  /\ Remaining(t) \in Nat \ {0}
         /\ clock + Remaining(t) <= call[t].deadline
         /\ Remaining(t) <= Timeout
  <1>1. clock \in Nat /\ call[t].deadline \in Nat
    BY DEF TypeOK, Request
  <1>2. Timeout \in Nat \ {0}
    BY ConstantsAssumption
  <1>3. QED
    BY <1>1, <1>2 DEF Late, Remaining, Smaller

\* A request that begins has the time its caller allows, whatever the width
\* of the clock, and the timeout at most.
LEMMA DeadlineType ==
  ASSUME TypeOK, clock + Timeout <= MaxClock,
         NEW wait \in Waits, NEW started \in 0 .. clock
  PROVE  /\ Allowed(started, wait) \in Nat
         /\ Smaller(WaitDeadline(started, wait), clock + Timeout)
              = Allowed(started, wait)
         /\ Allowed(started, wait) <= clock + Timeout
  <1>1. /\ clock \in Nat /\ Timeout \in Nat /\ wait \in Nat /\ started \in Nat
        /\ MaxClock \in Nat /\ MaxTime \in Nat
        /\ clock + Timeout <= MaxTime
    BY ConstantsAssumption DEF TypeOK
  <1>2. QED
    BY <1>1 DEF Allowed, WaitDeadline, Smaller

\* The delay the service asks for is a time, and only saturation shortens it.
LEMMA RetryAfterType ==
  ASSUME TypeOK, NEW header \in RetryAfter
  PROVE  /\ ParseRetryAfter(header) \in Nat
         /\ Wanted(header) \in Nat
         /\ ParseRetryAfter(header) < MaxDelay =>
              Wanted(header) <= clock + ParseRetryAfter(header)
  <1>1. /\ header.form \in {"none", "seconds", "date"} /\ header.value \in Nat
        /\ clock \in Nat /\ MaxDelay \in Nat
    BY ConstantsAssumption DEF TypeOK
  <1>2. CASE header.form = "none"
    BY <1>1, <1>2 DEF ParseRetryAfter, Wanted
  <1>3. CASE header.form = "seconds"
    BY <1>1, <1>3 DEF ParseRetryAfter, Wanted, Smaller
  <1>4. CASE header.form = "date"
    BY <1>1, <1>4 DEF ParseRetryAfter, Wanted, Smaller, Larger
  <1>5. QED
    BY <1>1, <1>2, <1>3, <1>4

-----------------------------------------------------------------------------
(* Steps *)

\* It begins with no token, no request and a free mutex.
LEMMA InitInv == Init => Inv
  <1> SUFFICES ASSUME Init PROVE Inv
    OBVIOUS
  <1>1. NoToken \in Token
    BY DEF NoToken, Token
  <1>2. TypeOK
    BY <1>1, NoCallType, ConstantsAssumption DEF Init, TypeOK
  <1>3. LockedOnlyForRefresh /\ HoldsToken
    BY ConstantsAssumption DEF Init, LockedOnlyForRefresh, HoldsToken, NoCall
  <1>4. QED
    BY <1>2, <1>3 DEF Inv

\* A step of t that replaces its call by c and touches neither mutex nor cache.
LEMMA CallInv ==
  ASSUME Inv, NEW t \in Threads, NEW c \in Request,
         call' = [call EXCEPT ![t] = c],
         c.pc # "iam", call[t].pc # "iam",
         c.pc \in {"send", "exchange", "backoff"} => c.token \in 1 .. granted,
         tokens' \in [1 .. MaxTokens -> Token],
         requests' \in Nat,
         rejected' \subseteq 1 .. granted,
         UNCHANGED <<clock, granted, cached, mutex>>
  PROVE  Inv'
  <1>1. /\ call' \in [Threads -> Request]
        /\ call'[t] = c
        /\ \A u \in Threads : u # t => call'[u] = call[u]
    BY DEF Inv, TypeOK
  <1>2. rejected' \subseteq 1 .. MaxTokens
    BY ConstantsAssumption DEF Inv, TypeOK
  <1>3. TypeOK'
    BY <1>1, <1>2 DEF Inv, TypeOK
  <1>4. LockedOnlyForRefresh'
    BY <1>1 DEF Inv, LockedOnlyForRefresh
  <1>5. HoldsToken'
    BY <1>1 DEF Inv, HoldsToken
  <1>6. QED
    BY <1>3, <1>4, <1>5 DEF Inv

\* A request begins.
LEMMA BeginInv == ASSUME Inv, NEW t \in Threads, Begin(t) PROVE Inv'
  <1>1. PICK post \in BOOLEAN, wait \in Waits, started \in 0 .. clock :
             Begin(t)!(post, wait, started)
    BY DEF Begin
  <1> DEFINE deadline == Smaller(WaitDeadline(started, wait), clock + Timeout)
             allowed == Allowed(started, wait)
             c == [NoCall EXCEPT !.pc = "lock", !.post = post,
                     !.deadline = deadline, !.begun = clock, !.allowed = allowed]
  <1>2. clock \in Nat /\ requests' \in Nat
    BY <1>1, ConstantsAssumption DEF Inv, TypeOK
  <1>3. c \in Request /\ c.pc = "lock"
    <2>1. deadline \in Nat /\ allowed \in Nat
      BY <1>1, DeadlineType DEF Inv
    <2> HIDE DEF deadline, allowed
    <2>2. QED
      BY <1>2, <2>1, NoCallType DEF Request, NoCall
  <1>4. call' = [call EXCEPT ![t] = c]
    BY <1>1
  <1> HIDE DEF c
  <1>5. QED
    BY <1>1, <1>2, <1>3, <1>4, CallInv DEF Inv, TypeOK, HoldsToken

\* Returning, from anywhere but a refresh.
LEMMA ReturnInv ==
  ASSUME Inv, NEW t \in Threads, call[t].pc # "iam", Return(t),
         tokens' \in [1 .. MaxTokens -> Token],
         rejected' \subseteq 1 .. granted,
         UNCHANGED <<clock, granted, cached, mutex, requests>>
  PROVE  Inv'
  <1>1. NoCall.pc = "idle"
    BY DEF NoCall
  <1>2. QED
    BY <1>1, NoCallType, CallInv DEF Return, Inv, TypeOK

\* A request takes the cached token.
LEMMA AcquireCachedInv ==
  ASSUME Inv, NEW t \in Threads, AcquireCached(t) PROVE Inv'
  <1> DEFINE c == [call[t] EXCEPT !.pc = "send", !.token = cached]
  <1>1. call[t] \in Request /\ cached \in 1 .. granted /\ granted <= MaxTokens
    BY ConstantsAssumption DEF AcquireCached, Usable, Inv, TypeOK
  <1>2. c \in Request /\ c.pc = "send" /\ c.token = cached
    <2>1. cached \in Nat
      BY <1>1, ConstantsAssumption DEF Inv, TypeOK
    <2>2. QED
      BY <1>1, <2>1 DEF Request
  <1>3. call' = [call EXCEPT ![t] = c]
    BY DEF AcquireCached, Inv, TypeOK
  <1> HIDE DEF c
  <1>4. QED
    BY <1>1, <1>2, <1>3, CallInv DEF AcquireCached, Inv, TypeOK, HoldsToken

\* A refresh begins with the mutex free, and takes it.
LEMMA StartRefreshInv ==
  ASSUME Inv, NEW t \in Threads, StartRefresh(t) PROVE Inv'
  <1> DEFINE c == [call[t] EXCEPT !.pc = "iam", !.since = clock,
                                  !.until = clock + Remaining(t)]
  <1>1. call[t] \in Request /\ clock \in Nat /\ clock + Remaining(t) \in Nat
    BY RemainingType DEF StartRefresh, Inv, TypeOK
  <1>2. c \in Request /\ c.pc = "iam"
    BY <1>1 DEF Request
  <1>3. call' = [call EXCEPT ![t] = c]
    BY DEF StartRefresh, Inv, TypeOK
  <1> HIDE DEF c
  <1>4. /\ call' \in [Threads -> Request]
        /\ call'[t].pc = "iam"
        /\ \A u \in Threads : u # t => call'[u] = call[u]
    BY <1>2, <1>3 DEF Inv, TypeOK
  <1>5. TypeOK'
    BY <1>4 DEF StartRefresh, Inv, TypeOK
  <1>6. LockedOnlyForRefresh'
    BY <1>4, ConstantsAssumption DEF StartRefresh, Inv, LockedOnlyForRefresh
  <1>7. HoldsToken'
    BY <1>4 DEF StartRefresh, Inv, HoldsToken
  <1>8. QED
    BY <1>5, <1>6, <1>7 DEF Inv

\* The end of a refresh leaves the mutex and the refresh together.
LEMMA UnlockEffect ==
  ASSUME Inv, NEW t \in Threads, call[t].pc = "iam", mutex' = NoThread,
         NEW c \in Request, c.pc # "iam", call' = [call EXCEPT ![t] = c]
  PROVE  /\ LockedOnlyForRefresh'
         /\ call' \in [Threads -> Request]
         /\ call'[t] = c
         /\ \A u \in Threads : u # t => call'[u] = call[u]
  <1>1. /\ call' \in [Threads -> Request]
        /\ call'[t] = c
        /\ \A u \in Threads : u # t => call'[u] = call[u]
    BY DEF Inv, TypeOK
  <1>2. LockedOnlyForRefresh'
    BY <1>1, ConstantsAssumption DEF Inv, LockedOnlyForRefresh
  <1>3. QED
    BY <1>1, <1>2

\* IAM answers with a token.
LEMMA FinishRefreshInv ==
  ASSUME Inv, NEW t \in Threads, FinishRefresh(t) PROVE Inv'
  <1>1. PICK lifetime \in Lifetimes : FinishRefresh(t)!(lifetime)
    BY DEF FinishRefresh
  <1> DEFINE c == [Ended(call[t], "send") EXCEPT !.token = granted + 1]
             token == [expires |-> call[t].since + (lifetime - Margin(lifetime)),
                       good |-> call[t].since + lifetime, valid |-> TRUE]
  <1>2. /\ call[t] \in Request
        /\ granted + 1 \in 1 .. MaxTokens
        /\ granted \in Nat
        /\ MaxTokens \in Nat
        /\ mutex' = NoThread
    BY <1>1, ConstantsAssumption DEF Inv, TypeOK
  <1>3. c \in Request /\ c.pc = "send" /\ c.token = granted + 1
    <2>1. granted + 1 \in Nat
      BY <1>2
    <2>2. QED
      BY <1>2, <2>1, EndedType DEF Request
  <1>4. call' = [call EXCEPT ![t] = c]
    BY <1>1 DEF Inv, TypeOK
  <1>5. token \in Token
    <2>1. lifetime \in Nat /\ call[t].since \in Nat
      BY <1>2, ConstantsAssumption DEF Request
    <2>2. /\ call[t].since + (lifetime - Margin(lifetime)) \in Nat
          /\ call[t].since + lifetime \in Nat
      BY <2>1, MarginType
    <2>3. QED
      BY <2>2 DEF Token
  <1>6. tokens' \in [1 .. MaxTokens -> Token]
    BY <1>1, <1>2, <1>5 DEF Inv, TypeOK
  <1> HIDE DEF c, token
  <1>7. /\ LockedOnlyForRefresh'
        /\ call' \in [Threads -> Request]
        /\ call'[t] = c
        /\ \A u \in Threads : u # t => call'[u] = call[u]
    BY <1>1, <1>2, <1>3, <1>4, UnlockEffect
  <1>8. TypeOK'
    BY <1>1, <1>2, <1>6, <1>7 DEF Inv, TypeOK
  <1>9. HoldsToken'
    BY <1>1, <1>2, <1>3, <1>7 DEF Inv, HoldsToken
  <1>10. QED
    BY <1>7, <1>8, <1>9 DEF Inv

\* IAM does not.
LEMMA FailRefreshInv ==
  ASSUME Inv, NEW t \in Threads, FailRefresh(t) PROVE Inv'
  <1>1. mutex' = NoThread /\ call[t].pc = "iam" /\ NoCall.pc = "idle"
        /\ call' = [call EXCEPT ![t] = NoCall]
    BY DEF FailRefresh, Return, NoCall
  <1>2. /\ LockedOnlyForRefresh'
        /\ call' \in [Threads -> Request]
        /\ call'[t] = NoCall
        /\ \A u \in Threads : u # t => call'[u] = call[u]
    BY <1>1, NoCallType, UnlockEffect
  <1>3. TypeOK'
    BY <1>1, <1>2 DEF FailRefresh, Inv, TypeOK
  <1>4. HoldsToken'
    BY <1>1, <1>2 DEF FailRefresh, Inv, HoldsToken
  <1>5. QED
    BY <1>2, <1>3, <1>4 DEF Inv

\* The steps of a request outside the refresh.
LEMMA GiveUpInv == ASSUME Inv, NEW t \in Threads, GiveUp(t) PROVE Inv'
  BY ReturnInv DEF GiveUp, Inv, TypeOK, HoldsToken

\* A request ends with its answer.
LEMMA ReceiveInv == ASSUME Inv, NEW t \in Threads, Receive(t) PROVE Inv'
  BY ReturnInv DEF Receive, Inv, TypeOK, HoldsToken

\* A request is sent, or its deadline has passed.
LEMMA SendInv == ASSUME Inv, NEW t \in Threads, Send(t) PROVE Inv'
  <1> DEFINE c == [call[t] EXCEPT !.pc = "exchange", !.since = clock,
                           !.until = clock + Remaining(t), !.sends = @ + 1]
  <1>1. /\ call[t] \in Request
        /\ clock \in Nat /\ clock + Remaining(t) \in Nat
        /\ call[t].token \in 1 .. granted
    BY RemainingType DEF Send, Inv, TypeOK, HoldsToken
  <1>2. call[t].sends + 1 \in Nat
    BY <1>1 DEF Request
  <1>3. c \in Request /\ c.pc = "exchange" /\ c.token = call[t].token
    BY <1>1, <1>2 DEF Request
  <1>4. call' = [call EXCEPT ![t] = c]
    BY DEF Send, Inv, TypeOK
  <1> HIDE DEF c
  <1>5. QED
    BY <1>1, <1>3, <1>4, CallInv DEF Send, Inv, TypeOK, HoldsToken

\* A request goes on after a sleep.
LEMMA WakeInv == ASSUME Inv, NEW t \in Threads, Wake(t) PROVE Inv'
  <1>1. call[t] \in Request /\ call[t].token \in 1 .. granted
    BY DEF Wake, Inv, TypeOK, HoldsToken
  <1>2. call' = [call EXCEPT ![t] = Ended(call[t], "send")]
    BY DEF Wake, Inv, TypeOK
  <1>3. QED
    BY <1>1, <1>2, EndedType, CallInv DEF Wake, Inv, TypeOK, HoldsToken

\* A refused token was granted, and stays a token.
LEMMA RefuseEffect ==
  ASSUME Inv, NEW t \in Threads, call[t].pc = "exchange",
         tokens' = Refuse(t), rejected' = rejected \cup {call[t].token}
  PROVE  /\ call[t].token \in 1 .. granted
         /\ tokens' \in [1 .. MaxTokens -> Token]
         /\ tokens'[call[t].token].valid = FALSE
         /\ \A i \in 1 .. MaxTokens : i # call[t].token => tokens'[i] = tokens[i]
         /\ rejected' \subseteq 1 .. granted
  <1>1. call[t].token \in 1 .. granted /\ call[t].token \in 1 .. MaxTokens
    BY ConstantsAssumption DEF Inv, TypeOK, HoldsToken
  <1>2. tokens' = [tokens EXCEPT ![call[t].token] =
                     [tokens[call[t].token] EXCEPT !.valid = FALSE]]
    BY DEF Refuse
  <1>3. [tokens[call[t].token] EXCEPT !.valid = FALSE] \in Token
    BY <1>1 DEF Inv, TypeOK, Token
  <1>4. [tokens[call[t].token] EXCEPT !.valid = FALSE].valid = FALSE
    BY <1>1 DEF Inv, TypeOK, Token
  <1>5. QED
    BY <1>1, <1>2, <1>3, <1>4 DEF Inv, TypeOK, HoldsToken

\* The service refuses the token of a request.
LEMMA ReceiveUnauthorizedInv ==
  ASSUME Inv, NEW t \in Threads, ReceiveUnauthorized(t) PROVE Inv'
  <1>1. /\ call[t].pc = "exchange" /\ call[t] \in Request
        /\ tokens' = Refuse(t)
        /\ rejected' = rejected \cup {call[t].token}
        /\ UNCHANGED <<clock, granted, cached, mutex, requests>>
        /\ requests \in Nat
    BY DEF ReceiveUnauthorized, Inv, TypeOK
  <1>2. CASE Return(t)
    BY <1>1, <1>2, RefuseEffect, ReturnInv
  <1>3. CASE call' = [call EXCEPT ![t] = Ended(@, "lock"), ![t].refreshed = TRUE,
                                  ![t].refused = call[t].token]
    <2> DEFINE c == [Ended(call[t], "lock") EXCEPT !.refreshed = TRUE,
                                                   !.refused = call[t].token]
    <2>1. c \in Request /\ c.pc = "lock"
      <3>1. Ended(call[t], "lock") \in Request /\ Ended(call[t], "lock").pc = "lock"
        BY <1>1, EndedType
      <3>2. call[t].token \in Nat
        BY <1>1 DEF Request
      <3>3. QED
        BY <3>1, <3>2 DEF Request
    <2>2. call' = [call EXCEPT ![t] = c]
      BY <1>3 DEF Inv, TypeOK
    <2> HIDE DEF c
    <2>3. QED
      BY <1>1, <2>1, <2>2, RefuseEffect, CallInv
  <1>4. QED
    BY <1>2, <1>3 DEF ReceiveUnauthorized

\* A request fails for now.
LEMMA ReceiveTransientInv ==
  ASSUME Inv, NEW t \in Threads, ReceiveTransient(t) PROVE Inv'
  <1>1. PICK header \in RetryAfter : ReceiveTransient(t)!(header)
    BY DEF ReceiveTransient
  <1> DEFINE delay == Larger(BaseDelay * (call[t].retries + 1),
                             ParseRetryAfter(header))
             wanted == Wanted(header)
             c == [Ended(call[t], "backoff") EXCEPT !.retries = @ + 1,
                                                    !.until = clock + delay,
                                                    !.wanted = wanted]
  <1>2. /\ call[t].pc = "exchange" /\ call[t] \in Request
        /\ call[t].token \in 1 .. granted
        /\ UNCHANGED <<clock, tokens, granted, cached, mutex, requests, rejected>>
    BY <1>1 DEF Inv, TypeOK, HoldsToken
  <1>3. CASE Return(t)
    BY <1>2, <1>3, ReturnInv DEF Inv, TypeOK, HoldsToken
  <1>4. CASE ~Exhausted(t) /\ call' = [call EXCEPT ![t] = c]
    <2>1. call[t].retries + 1 \in 0 .. 2
      BY <1>2, <1>4 DEF Exhausted, Request
    <2>2. BaseDelay * (call[t].retries + 1) \in Nat
      BY <2>1, ConstantsAssumption
    <2>3. clock + delay \in Nat /\ wanted \in Nat
      BY <2>2, RetryAfterType DEF Larger, Inv, TypeOK
    <2>4. /\ Ended(call[t], "backoff") \in Request
          /\ Ended(call[t], "backoff").pc = "backoff"
          /\ Ended(call[t], "backoff").token = call[t].token
          /\ Ended(call[t], "backoff").retries = call[t].retries
      BY <1>2, EndedType DEF Ended, Request
    <2>5. c \in Request /\ c.pc = "backoff" /\ c.token = call[t].token
      <3> HIDE DEF delay, wanted
      <3>1. QED
        BY <2>1, <2>3, <2>4 DEF Request
    <2> HIDE DEF c
    <2>6. QED
      BY <1>2, <1>4, <2>5, CallInv DEF Inv, TypeOK, HoldsToken
  <1>5. Return(t) \/ (~Exhausted(t) /\ call' = [call EXCEPT ![t] = c])
    BY <1>1
  <1>6. QED
    BY <1>3, <1>4, <1>5

\* Time goes on.
LEMMA TickInv == ASSUME Inv, Tick PROVE Inv'
  BY DEF Tick, Inv, TypeOK, LockedOnlyForRefresh, HoldsToken

\* Every step keeps the invariant.
LEMMA NextInv == Inv /\ [Next]_vars => Inv'
  <1> SUFFICES ASSUME Inv, [Next]_vars PROVE Inv'
    OBVIOUS
  <1>1. CASE \E t \in Threads : Begin(t) \/ ThreadStep(t)
    BY <1>1, BeginInv, AcquireCachedInv, StartRefreshInv, FinishRefreshInv,
       FailRefreshInv, GiveUpInv, SendInv, ReceiveInv, ReceiveUnauthorizedInv,
       ReceiveTransientInv, WakeInv DEF ThreadStep
  <1>2. CASE Tick
    BY <1>2, TickInv
  <1>3. CASE UNCHANGED vars
    BY <1>3 DEF vars, Inv, TypeOK, LockedOnlyForRefresh, HoldsToken
  <1>4. QED
    BY <1>1, <1>2, <1>3 DEF Next, Finished

\* The invariant holds always.
LEMMA InvAlways == Spec => []Inv
  BY InitInv, NextInv, PTL DEF Spec

(***************************************************************************)
(* Every state of every execution is well typed.                           *)
(***************************************************************************)
THEOREM TypeCorrect == Spec => []TypeOK
  BY InvAlways, PTL DEF Inv

(***************************************************************************)
(* acquireToken holds the mutex exactly during the IAM exchange: a failed  *)
(* refresh releases it, and no request is sent while it is held.           *)
(***************************************************************************)
THEOREM ExclusiveRefresh == Spec => []LockedOnlyForRefresh
  BY InvAlways, PTL DEF Inv

-----------------------------------------------------------------------------
(* What the steps of t do to its call, field by field *)

\* Of the fields that survive every step of a request; others keep theirs.
Continues(t, c) ==
    /\ call'[t] = c
    /\ c.post = call[t].post /\ c.deadline = call[t].deadline
    /\ c.begun = call[t].begun /\ c.allowed = call[t].allowed
    /\ \A u \in Threads : u # t => call'[u] = call[u]

\* A thread that returns has no call, and the others keep theirs.
LEMMA ReturnEffect ==
  ASSUME Inv, NEW t \in Threads, Return(t)
  PROVE  call'[t] = NoCall /\ \A u \in Threads : u # t => call'[u] = call[u]
  BY DEF Return, Inv, TypeOK

\* What the end of an exchange leaves of a request.
LEMMA EndedEffect ==
  ASSUME NEW c \in Request, NEW pc \in {"lock", "send", "backoff"},
         NEW d, d = Ended(c, pc)
  PROVE  /\ d \in Request /\ d.pc = pc /\ d.post = c.post
         /\ d.deadline = c.deadline /\ d.token = c.token
         /\ d.refreshed = c.refreshed /\ d.retries = c.retries
         /\ d.sends = c.sends /\ d.begun = c.begun /\ d.allowed = c.allowed
         /\ d.refused = c.refused
         /\ d.since = 0 /\ d.until = 0
  BY DEF Ended, Request

\* What a request begins with.
LEMMA BeginEffect ==
  ASSUME Inv, NEW t \in Threads, Begin(t)
  PROVE  /\ UNCHANGED <<clock, tokens, granted, cached, rejected>>
         /\ \A u \in Threads : u # t => call'[u] = call[u]
         /\ call'[t].pc = "lock" /\ call'[t].begun = clock
         /\ call'[t].deadline \in Nat /\ call'[t].deadline <= clock + Timeout
         /\ call'[t].deadline = call'[t].allowed
         /\ call'[t].sends = 0 /\ call'[t].refused = 0
         /\ call'[t].retries = 0 /\ call'[t].refreshed = FALSE
  <1>1. PICK post \in BOOLEAN, wait \in Waits, started \in 0 .. clock :
             Begin(t)!(post, wait, started)
    BY DEF Begin
  <1> DEFINE deadline == Smaller(WaitDeadline(started, wait), clock + Timeout)
             allowed == Allowed(started, wait)
             c == [NoCall EXCEPT !.pc = "lock", !.post = post,
                     !.deadline = deadline, !.begun = clock, !.allowed = allowed]
  <1>2. deadline \in Nat /\ deadline = allowed /\ deadline <= clock + Timeout
    BY <1>1, DeadlineType DEF Inv
  <1>3. call'[t] = c /\ \A u \in Threads : u # t => call'[u] = call[u]
    BY <1>1 DEF Inv, TypeOK
  <1>4. UNCHANGED <<clock, tokens, granted, cached, rejected>>
    BY <1>1
  <1> HIDE DEF deadline, allowed
  <1>5. /\ c.pc = "lock" /\ c.begun = clock /\ c.deadline = deadline
        /\ c.sends = 0 /\ c.refused = 0 /\ c.allowed = allowed
        /\ c.retries = 0 /\ c.refreshed = FALSE
    BY DEF NoCall
  <1> HIDE DEF c
  <1>6. QED
    BY <1>2, <1>3, <1>4, <1>5

\* What taking the cached token changes.
LEMMA AcquireCachedEffect ==
  ASSUME Inv, NEW t \in Threads, AcquireCached(t)
  PROVE  \E c : /\ Continues(t, c)
                /\ c.pc = "send" /\ c.token = cached /\ c.sends = call[t].sends
                /\ c.refreshed = call[t].refreshed
                /\ c.retries = call[t].retries /\ c.refused = call[t].refused
  <1> DEFINE c == [call[t] EXCEPT !.pc = "send", !.token = cached]
  <1>1. call[t] \in Request
    BY DEF Inv, TypeOK
  <1>2. /\ c.pc = "send" /\ c.token = cached /\ c.sends = call[t].sends
        /\ c.post = call[t].post /\ c.deadline = call[t].deadline
        /\ c.begun = call[t].begun /\ c.allowed = call[t].allowed
        /\ c.refreshed = call[t].refreshed
        /\ c.retries = call[t].retries /\ c.refused = call[t].refused
    BY <1>1 DEF Request
  <1>3. call'[t] = c /\ \A u \in Threads : u # t => call'[u] = call[u]
    BY DEF AcquireCached, Inv, TypeOK
  <1> HIDE DEF c
  <1>4. QED
    BY <1>2, <1>3 DEF Continues

\* What going to IAM changes.
LEMMA StartRefreshEffect ==
  ASSUME Inv, NEW t \in Threads, StartRefresh(t)
  PROVE  \E c : /\ Continues(t, c)
                /\ c.pc = "iam" /\ c.since = clock
                /\ c.until = clock + Remaining(t) /\ c.sends = call[t].sends
                /\ c.refreshed = call[t].refreshed
                /\ c.retries = call[t].retries /\ c.refused = call[t].refused
  <1> DEFINE c == [call[t] EXCEPT !.pc = "iam", !.since = clock,
                                  !.until = clock + Remaining(t)]
  <1>1. call[t] \in Request
    BY DEF Inv, TypeOK
  <1>2. /\ c.pc = "iam" /\ c.since = clock /\ c.until = clock + Remaining(t)
        /\ c.post = call[t].post /\ c.deadline = call[t].deadline
        /\ c.begun = call[t].begun /\ c.allowed = call[t].allowed
        /\ c.refreshed = call[t].refreshed
        /\ c.retries = call[t].retries /\ c.refused = call[t].refused
        /\ c.sends = call[t].sends
    BY <1>1 DEF Request
  <1>3. call'[t] = c /\ \A u \in Threads : u # t => call'[u] = call[u]
    BY DEF StartRefresh, Inv, TypeOK
  <1> HIDE DEF c
  <1>4. QED
    BY <1>2, <1>3 DEF Continues

\* What a new token changes.
LEMMA FinishRefreshEffect ==
  ASSUME Inv, NEW t \in Threads, FinishRefresh(t)
  PROVE  \E c : /\ Continues(t, c)
                /\ c.pc = "send" /\ c.token = granted + 1
                /\ c.sends = call[t].sends /\ c.refreshed = call[t].refreshed
                /\ c.retries = call[t].retries /\ c.refused = call[t].refused
  <1> DEFINE e == Ended(call[t], "send")
             c == [e EXCEPT !.token = granted + 1]
  <1>1. call[t] \in Request
    BY DEF Inv, TypeOK
  <1>2. /\ e \in Request /\ e.pc = "send" /\ e.post = call[t].post
        /\ e.deadline = call[t].deadline
        /\ e.refreshed = call[t].refreshed /\ e.retries = call[t].retries
        /\ e.sends = call[t].sends /\ e.begun = call[t].begun
        /\ e.allowed = call[t].allowed
        /\ e.refused = call[t].refused
    BY <1>1, EndedEffect
  <1>3. call'[t] = c /\ \A u \in Threads : u # t => call'[u] = call[u]
    BY DEF FinishRefresh, Inv, TypeOK
  <1> HIDE DEF e
  <1>4. /\ c.pc = "send" /\ c.post = call[t].post
        /\ c.deadline = call[t].deadline /\ c.token = granted + 1
        /\ c.refreshed = call[t].refreshed /\ c.retries = call[t].retries
        /\ c.sends = call[t].sends /\ c.begun = call[t].begun
        /\ c.allowed = call[t].allowed
        /\ c.refused = call[t].refused
    BY <1>2 DEF Request
  <1> HIDE DEF c
  <1>5. QED
    BY <1>3, <1>4 DEF Continues

\* What sending changes.
LEMMA SendEffect ==
  ASSUME Inv, NEW t \in Threads, Send(t)
  PROVE  \E c : /\ Continues(t, c)
                /\ c.pc = "exchange" /\ c.since = clock
                /\ c.until = clock + Remaining(t) /\ c.token = call[t].token
                /\ c.sends = call[t].sends + 1
                /\ c.refreshed = call[t].refreshed
                /\ c.retries = call[t].retries /\ c.refused = call[t].refused
  <1> DEFINE c == [call[t] EXCEPT !.pc = "exchange", !.since = clock,
                           !.until = clock + Remaining(t), !.sends = @ + 1]
  <1>1. call[t] \in Request
    BY DEF Inv, TypeOK
  <1>2. /\ c.pc = "exchange" /\ c.since = clock /\ c.until = clock + Remaining(t)
        /\ c.post = call[t].post /\ c.deadline = call[t].deadline
        /\ c.begun = call[t].begun /\ c.allowed = call[t].allowed
        /\ c.refreshed = call[t].refreshed
        /\ c.retries = call[t].retries /\ c.refused = call[t].refused
        /\ c.sends = call[t].sends + 1 /\ c.token = call[t].token
    BY <1>1 DEF Request
  <1>3. call'[t] = c /\ \A u \in Threads : u # t => call'[u] = call[u]
    BY DEF Send, Inv, TypeOK
  <1> HIDE DEF c
  <1>4. QED
    BY <1>2, <1>3 DEF Continues

\* What waking up changes.
LEMMA WakeEffect ==
  ASSUME Inv, NEW t \in Threads, Wake(t)
  PROVE  \E c : /\ Continues(t, c)
                /\ c.pc = "send" /\ c.token = call[t].token
                /\ c.sends = call[t].sends /\ c.refreshed = call[t].refreshed
                /\ c.retries = call[t].retries /\ c.refused = call[t].refused
  <1> DEFINE c == Ended(call[t], "send")
  <1>1. call[t] \in Request
    BY DEF Inv, TypeOK
  <1>2. /\ c.pc = "send" /\ c.post = call[t].post
        /\ c.deadline = call[t].deadline /\ c.token = call[t].token
        /\ c.refreshed = call[t].refreshed /\ c.retries = call[t].retries
        /\ c.sends = call[t].sends /\ c.begun = call[t].begun
        /\ c.allowed = call[t].allowed
        /\ c.refused = call[t].refused
    BY <1>1, EndedEffect
  <1>3. call'[t] = c /\ \A u \in Threads : u # t => call'[u] = call[u]
    BY DEF Wake, Inv, TypeOK
  <1> HIDE DEF c
  <1>4. QED
    BY <1>2, <1>3 DEF Continues

\* What a 401 changes.
LEMMA UnauthorizedEffect ==
  ASSUME Inv, NEW t \in Threads, ReceiveUnauthorized(t)
  PROVE  \/ Return(t)
         \/ /\ Reauthenticates(t)
            /\ \E c : /\ Continues(t, c)
                      /\ c.pc = "lock" /\ c.refreshed = TRUE
                      /\ c.refused = call[t].token
                      /\ c.retries = call[t].retries /\ c.sends = call[t].sends
  <1> DEFINE e == Ended(call[t], "lock")
             c == [e EXCEPT !.refreshed = TRUE, !.refused = call[t].token]
  <1>1. call[t] \in Request
    BY DEF Inv, TypeOK
  <1>2. /\ e \in Request /\ e.pc = "lock" /\ e.post = call[t].post
        /\ e.deadline = call[t].deadline /\ e.retries = call[t].retries
        /\ e.sends = call[t].sends /\ e.begun = call[t].begun
        /\ e.allowed = call[t].allowed
    BY <1>1, EndedEffect
  <1>3. ASSUME call' = [call EXCEPT ![t] = c]
        PROVE  call'[t] = c /\ \A u \in Threads : u # t => call'[u] = call[u]
    BY <1>3 DEF Inv, TypeOK
  <1> HIDE DEF e
  <1>4. /\ c.pc = "lock" /\ c.post = call[t].post
        /\ c.deadline = call[t].deadline /\ c.refreshed = TRUE
        /\ c.refused = call[t].token /\ c.retries = call[t].retries
        /\ c.sends = call[t].sends /\ c.begun = call[t].begun
        /\ c.allowed = call[t].allowed
    BY <1>1, <1>2 DEF Request
  <1>5. Return(t) \/ (Reauthenticates(t) /\ call' = [call EXCEPT ![t] = c])
    BY DEF ReceiveUnauthorized, e
  <1> HIDE DEF c
  <1>6. QED
    BY <1>3, <1>4, <1>5 DEF Continues

\* What a failure that may pass changes.
LEMMA TransientEffect ==
  ASSUME Inv, NEW t \in Threads, ReceiveTransient(t)
  PROVE  \/ Return(t)
         \/ /\ ~Exhausted(t)
            /\ \E c, delay : /\ Continues(t, c)
                      /\ delay \in Nat /\ ~Late(t) /\ Fits(t, delay)
                      /\ c.pc = "backoff" /\ c.until = clock + delay
                      /\ c.wanted <= c.until
                      /\ c.retries = call[t].retries + 1
                      /\ c.token = call[t].token
                      /\ c.refreshed = call[t].refreshed
                      /\ c.refused = call[t].refused /\ c.sends = call[t].sends
  <1>1. PICK header \in RetryAfter : ReceiveTransient(t)!(header)
    BY DEF ReceiveTransient
  <1> DEFINE after == ParseRetryAfter(header)
             delay == Larger(BaseDelay * (call[t].retries + 1), after)
             wanted == Wanted(header)
             e == Ended(call[t], "backoff")
             c == [e EXCEPT !.retries = @ + 1, !.until = clock + delay,
                            !.wanted = wanted]
  <1>2. call[t] \in Request
    BY DEF Inv, TypeOK
  <1>3. delay \in Nat /\ after <= delay /\ after \in Nat
    <2>1. call[t].retries + 1 \in Nat /\ BaseDelay \in Nat /\ after \in Nat
      BY <1>2, RetryAfterType, ConstantsAssumption DEF Request, Inv
    <2>2. BaseDelay * (call[t].retries + 1) \in Nat
      BY <2>1
    <2> HIDE DEF after
    <2>3. QED
      BY <2>1, <2>2 DEF Larger
  <1>4. /\ e \in Request /\ e.pc = "backoff" /\ e.post = call[t].post
        /\ e.deadline = call[t].deadline /\ e.token = call[t].token
        /\ e.refreshed = call[t].refreshed /\ e.retries = call[t].retries
        /\ e.sends = call[t].sends /\ e.begun = call[t].begun
        /\ e.allowed = call[t].allowed
        /\ e.refused = call[t].refused
    BY <1>2, EndedEffect
  <1>5. ASSUME call' = [call EXCEPT ![t] = c]
        PROVE  call'[t] = c /\ \A u \in Threads : u # t => call'[u] = call[u]
    BY <1>5 DEF Inv, TypeOK
  <1>6. \/ Return(t)
        \/ /\ ~Exhausted(t) /\ ~Late(t) /\ Fits(t, delay)
           /\ call' = [call EXCEPT ![t] = c]
    BY <1>1
  \* A delay that fits is not a saturated one.
  <1>7. ~Late(t) /\ Fits(t, delay) => wanted <= clock + delay
    <2>1. SUFFICES ASSUME ~Late(t), Fits(t, delay) PROVE wanted <= clock + delay
      OBVIOUS
    <2>2. delay < Remaining(t) /\ Remaining(t) <= Timeout /\ Remaining(t) \in Nat
      BY <2>1, RemainingType DEF Fits, Inv
    <2>3. after < MaxDelay => wanted <= clock + after
      BY RetryAfterType DEF Inv
    <2>4. clock \in Nat /\ wanted \in Nat
      BY RetryAfterType DEF Inv, TypeOK
    <2>5. Timeout \in Nat /\ MaxDelay \in Nat /\ Timeout <= MaxDelay
      BY ConstantsAssumption
    <2> HIDE DEF after, delay, wanted
    <2>6. QED
      BY <1>3, <2>2, <2>3, <2>4, <2>5
  <1> HIDE DEF delay, e, after, wanted
  <1>8. /\ c.pc = "backoff" /\ c.post = call[t].post
        /\ c.deadline = call[t].deadline /\ c.token = call[t].token
        /\ c.refreshed = call[t].refreshed /\ c.retries = call[t].retries + 1
        /\ c.sends = call[t].sends /\ c.begun = call[t].begun
        /\ c.allowed = call[t].allowed
        /\ c.refused = call[t].refused /\ c.until = clock + delay
        /\ c.wanted = wanted
    BY <1>4 DEF Request
  <1> HIDE DEF c
  <1>9. QED
    BY <1>3, <1>5, <1>6, <1>7, <1>8 DEF Continues

-----------------------------------------------------------------------------
(* Only refused tokens are invalid, and IAM is asked only when needed *)

\* Only two steps touch the tokens, the cache or the set of rejections.
LEMMA RejectedInit == Init => InvalidMeansRejected
  BY DEF Init, InvalidMeansRejected

\* Rejected tokens stay rejected by every step.
LEMMA RejectedNext ==
  Inv /\ InvalidMeansRejected /\ [Next]_vars => InvalidMeansRejected'
  <1> SUFFICES ASSUME Inv, InvalidMeansRejected, [Next]_vars
               PROVE  InvalidMeansRejected'
    OBVIOUS
  <1>1. CASE UNCHANGED <<tokens, granted, rejected>>
    BY <1>1 DEF InvalidMeansRejected
  <1>2. ASSUME NEW t \in Threads, FinishRefresh(t) PROVE InvalidMeansRejected'
    <2>1. granted' = granted + 1 /\ granted + 1 \in 1 .. MaxTokens /\ granted \in Nat
      BY <1>2, ConstantsAssumption DEF FinishRefresh, Inv, TypeOK
    <2>2. tokens'[granted + 1].valid = TRUE
      BY <1>2, <2>1 DEF FinishRefresh, Inv, TypeOK
    <2>3. \A i \in 1 .. granted : tokens'[i] = tokens[i]
      BY <1>2, <2>1 DEF FinishRefresh, Inv, TypeOK
    <2>4. rejected' = rejected /\ granted + 1 \notin rejected
      BY <1>2, <2>1 DEF FinishRefresh, Inv, HoldsToken
    <2>5. QED
      BY <2>1, <2>2, <2>3, <2>4 DEF InvalidMeansRejected
  <1>3. ASSUME NEW t \in Threads, ReceiveUnauthorized(t)
        PROVE  InvalidMeansRejected'
    <2>1. /\ call[t].pc = "exchange" /\ tokens' = Refuse(t)
          /\ rejected' = rejected \cup {call[t].token}
          /\ granted' = granted /\ granted \in 0 .. MaxTokens
      BY <1>3 DEF ReceiveUnauthorized, Inv, TypeOK
    <2>2. /\ tokens'[call[t].token].valid = FALSE
          /\ \A i \in 1 .. MaxTokens : i # call[t].token => tokens'[i] = tokens[i]
      BY <2>1, RefuseEffect
    <2>3. QED
      BY <2>1, <2>2, ConstantsAssumption DEF InvalidMeansRejected
  <1>4. CASE Tick
    BY <1>1, <1>4 DEF Tick
  <1>5. CASE UNCHANGED vars
    BY <1>1, <1>5 DEF vars
  <1>6. ASSUME NEW t \in Threads,
               \/ Begin(t) \/ AcquireCached(t) \/ StartRefresh(t) \/ FailRefresh(t)
               \/ GiveUp(t) \/ Send(t) \/ Receive(t) \/ ReceiveTransient(t) \/ Wake(t)
        PROVE  UNCHANGED <<tokens, granted, rejected>>
    BY <1>6 DEF Begin, AcquireCached, StartRefresh, FailRefresh, GiveUp, Send,
       Receive, ReceiveTransient, Wake
  <1>7. QED
    BY <1>1, <1>2, <1>3, <1>4, <1>5, <1>6 DEF Next, Finished, ThreadStep

(***************************************************************************)
(* A token is marked invalid exactly when the service has refused it, in   *)
(* whatever order the threads' answers come in (Auth.cpp:261-262).         *)
(***************************************************************************)
THEOREM OnlyRefusedTokensInvalid == Spec => []InvalidMeansRejected
  BY InvAlways, RejectedInit, RejectedNext, PTL DEF Spec

\* No thread begins at IAM.
LEMMA NeedlessInit == Init => NoNeedlessRefresh
  BY DEF Init, NoNeedlessRefresh, NoCall

\* No step sends a thread to IAM for nothing.
LEMMA NeedlessNext ==
  Inv /\ Inv' /\ InvalidMeansRejected /\ NoNeedlessRefresh /\ [Next]_vars
    => NoNeedlessRefresh'
  <1> SUFFICES ASSUME Inv, Inv', InvalidMeansRejected, NoNeedlessRefresh,
                      [Next]_vars
               PROVE  NoNeedlessRefresh'
    OBVIOUS
  \* No step but StartRefresh brings a call to the exchange with IAM.
  <1>1. ASSUME NEW t \in Threads,
               \/ Begin(t) \/ AcquireCached(t) \/ FailRefresh(t) \/ GiveUp(t)
               \/ Send(t) \/ Receive(t) \/ ReceiveTransient(t) \/ Wake(t)
        PROVE  /\ UNCHANGED <<clock, tokens, cached, rejected>>
               /\ \A u \in Threads : call'[u].pc = "iam" => call[u].pc = "iam"
    <2>1. CASE FailRefresh(t) \/ GiveUp(t) \/ Receive(t)
      BY <2>1, ReturnEffect DEF FailRefresh, GiveUp, Receive, NoCall
    <2>2. CASE AcquireCached(t) \/ Send(t) \/ Wake(t)
      <3>1. UNCHANGED <<clock, tokens, cached, rejected>>
        BY <2>2 DEF AcquireCached, Send, Wake
      <3>2. QED
        BY <2>2, <3>1, AcquireCachedEffect, SendEffect, WakeEffect DEF Continues
    <2>3. CASE ReceiveTransient(t)
      <3>1. UNCHANGED <<clock, tokens, cached, rejected>>
        BY <2>3 DEF ReceiveTransient
      <3>2. QED
        BY <2>3, <3>1, TransientEffect, ReturnEffect DEF Continues, NoCall
    <2>4. CASE Begin(t)
      BY <2>4, BeginEffect
    <2>5. QED
      BY <1>1, <2>1, <2>2, <2>3, <2>4
  <1>2. ASSUME NEW t \in Threads, StartRefresh(t) PROVE NoNeedlessRefresh'
    <2>1. /\ UNCHANGED <<clock, tokens, cached, rejected>>
          /\ \A u \in Threads : u # t => call'[u] = call[u]
      BY <1>2 DEF StartRefresh, Inv, TypeOK
    <2>2. cached = 0 \/ cached \in rejected \/ clock >= tokens[cached].expires
      <3>1. cached # 0 => cached \in 1 .. granted /\ cached \in 1 .. MaxTokens
        BY ConstantsAssumption DEF Inv, TypeOK
      <3>2. cached # 0 => tokens[cached].expires \in Nat
        BY <3>1 DEF Inv, TypeOK, Token
      <3>3. QED
        BY <1>2, <3>1, <3>2
        DEF StartRefresh, Usable, InvalidMeansRejected, Inv, TypeOK
    <2>3. QED
      BY <2>1, <2>2 DEF NoNeedlessRefresh
  \* The refresh that ends was the only one.
  <1>3. ASSUME NEW t \in Threads, FinishRefresh(t) PROVE NoNeedlessRefresh'
    <2>1. mutex' = NoThread
      BY <1>3 DEF FinishRefresh
    <2>2. QED
      BY <2>1, ConstantsAssumption DEF NoNeedlessRefresh, Inv, LockedOnlyForRefresh
  <1>4. ASSUME NEW t \in Threads, ReceiveUnauthorized(t) PROVE NoNeedlessRefresh'
    <2>1. /\ clock' = clock /\ cached' = cached
          /\ rejected' = rejected \cup {call[t].token}
          /\ tokens' = Refuse(t) /\ call[t].pc = "exchange"
      BY <1>4 DEF ReceiveUnauthorized
    <2>2. \A u \in Threads : call'[u].pc = "iam" => call[u].pc = "iam"
      <3>1. CASE Return(t)
        BY <3>1, ReturnEffect DEF NoCall
      <3>2. CASE ~Return(t)
        <4>1. PICK c : Continues(t, c) /\ c.pc = "lock"
          BY <1>4, <3>2, UnauthorizedEffect
        <4>2. QED
          BY <4>1 DEF Continues
      <3>3. QED
        BY <3>1, <3>2
    <2>3. cached # 0 /\ cached # call[t].token => tokens'[cached] = tokens[cached]
      <3>1. cached # 0 => cached \in 1 .. MaxTokens
        BY ConstantsAssumption DEF Inv, TypeOK
      <3>2. QED
        BY <2>1, <3>1, RefuseEffect
    <2>4. QED
      BY <2>1, <2>2, <2>3 DEF NoNeedlessRefresh
  <1>5. CASE Tick
    <2>1. cached # 0 => tokens[cached].expires \in Nat
      BY ConstantsAssumption DEF Inv, TypeOK, Token
    <2>2. clock \in Nat
      BY DEF Inv, TypeOK
    <2>3. QED
      BY <1>5, <2>1, <2>2 DEF Tick, NoNeedlessRefresh
  <1>6. CASE UNCHANGED vars
    BY <1>6 DEF vars, NoNeedlessRefresh
  <1>7. QED
    BY <1>1, <1>2, <1>3, <1>4, <1>5, <1>6 DEF Next, Finished, ThreadStep, NoNeedlessRefresh

(***************************************************************************)
(* Threads that waited for the mutex use what the thread before them got:  *)
(* nobody asks IAM while the cached token is valid (Auth.cpp:225-234).     *)
(***************************************************************************)
THEOREM RefreshedOnlyWhenNeeded == Spec => []NoNeedlessRefresh
  BY InvAlways, OnlyRefusedTokensInvalid, NeedlessInit, NeedlessNext, PTL DEF Spec

-----------------------------------------------------------------------------
(* How often a request is sent *)

\* One send for each retry and each refresh, and the one under way.
SendsCounted == \A t \in Threads :
    /\ call[t].post =>
          /\ call[t].retries = 0 /\ ~call[t].refreshed
          /\ call[t].pc # "backoff"
    /\ call[t].sends <= call[t].retries + (IF call[t].refreshed THEN 1 ELSE 0)
                                        + (IF call[t].pc = "exchange" THEN 1 ELSE 0)

\* Nothing has been sent to begin with.
LEMMA SendsInit == Init => SendsCounted
  BY DEF Init, SendsCounted, NoCall

\* Every step keeps the count of what was sent.
LEMMA SendsNext == Inv /\ SendsCounted /\ [Next]_vars => SendsCounted'
  <1> SUFFICES ASSUME Inv, SendsCounted, [Next]_vars PROVE SendsCounted'
    OBVIOUS
  <1>1. \A t \in Threads : /\ call[t].sends \in Nat /\ call[t].retries \in 0 .. 2
                            /\ call[t].post \in BOOLEAN
                            /\ call[t].refreshed \in BOOLEAN
    BY DEF Inv, TypeOK, Request
  <1>2. ASSUME NEW t \in Threads, Return(t) PROVE SendsCounted'
    BY <1>2, ReturnEffect DEF NoCall, SendsCounted
  <1>3. ASSUME NEW t \in Threads, Begin(t) PROVE SendsCounted'
    <2>1. /\ call'[t].pc = "lock" /\ call'[t].sends = 0
          /\ call'[t].retries = 0 /\ call'[t].refreshed = FALSE
          /\ \A u \in Threads : u # t => call'[u] = call[u]
      BY <1>3, BeginEffect
    <2>2. QED
      BY <2>1 DEF SendsCounted
  <1>4. ASSUME NEW t \in Threads,
               AcquireCached(t) \/ StartRefresh(t) \/ FinishRefresh(t) \/ Wake(t)
        PROVE  SendsCounted'
    <2>1. call[t].pc \in {"lock", "iam", "backoff"}
      BY <1>4 DEF AcquireCached, StartRefresh, FinishRefresh, Wake
    <2>2. PICK c : /\ Continues(t, c) /\ c.pc \in {"send", "iam"}
                   /\ c.sends = call[t].sends /\ c.retries = call[t].retries
                   /\ c.refreshed = call[t].refreshed
      BY <1>4, AcquireCachedEffect, StartRefreshEffect, FinishRefreshEffect, WakeEffect
    <2>3. QED
      BY <1>1, <2>1, <2>2 DEF Continues, SendsCounted
  <1>5. ASSUME NEW t \in Threads, Send(t) PROVE SendsCounted'
    <2>1. call[t].pc = "send"
      BY <1>5 DEF Send
    <2>2. PICK c : /\ Continues(t, c) /\ c.pc = "exchange"
                   /\ c.sends = call[t].sends + 1 /\ c.retries = call[t].retries
                   /\ c.refreshed = call[t].refreshed
      BY <1>5, SendEffect
    <2>3. QED
      BY <1>1, <2>1, <2>2 DEF Continues, SendsCounted
  <1>6. ASSUME NEW t \in Threads, ReceiveUnauthorized(t), ~Return(t)
        PROVE  SendsCounted'
    <2>1. PICK c : /\ Continues(t, c) /\ c.pc = "lock"
                   /\ c.sends = call[t].sends /\ c.retries = call[t].retries
                   /\ c.refreshed = TRUE
      BY <1>6, UnauthorizedEffect
    <2>2. ~call[t].post /\ ~call[t].refreshed
      BY <1>6, UnauthorizedEffect DEF Reauthenticates
    <2>3. QED
      BY <1>1, <2>1, <2>2 DEF Continues, SendsCounted
  <1>7. ASSUME NEW t \in Threads, ReceiveTransient(t), ~Return(t)
        PROVE  SendsCounted'
    <2>1. PICK c : /\ Continues(t, c) /\ c.pc = "backoff"
                   /\ c.sends = call[t].sends /\ c.retries = call[t].retries + 1
                   /\ c.refreshed = call[t].refreshed
      BY <1>7, TransientEffect
    <2>2. ~call[t].post
      BY <1>7, TransientEffect DEF Exhausted
    <2>3. QED
      BY <1>1, <2>1, <2>2 DEF Continues, SendsCounted
  <1>8. CASE Tick \/ UNCHANGED vars
    BY <1>8 DEF Tick, vars, SendsCounted
  <1>9. QED
    BY <1>2, <1>3, <1>4, <1>5, <1>6, <1>7, <1>8
    DEF Next, Finished, ThreadStep, FailRefresh, GiveUp, Receive

(***************************************************************************)
(* A POST is sent once and a GET four times at most, in whatever order     *)
(* transient failures and refusals alternate (Auth.hpp:62).                *)
(***************************************************************************)
THEOREM AttemptsBounded == Spec => []SendsBounded
  <1>1. Inv /\ SendsCounted => SendsBounded
    <2> SUFFICES ASSUME Inv, SendsCounted, NEW t \in Threads
                 PROVE  call[t].sends <= IF call[t].post THEN 1 ELSE 4
      BY DEF SendsBounded
    <2>1. call[t].sends \in Nat /\ call[t].retries \in 0 .. 2
      BY DEF Inv, TypeOK, Request
    <2>2. QED
      BY <2>1 DEF SendsCounted
  <1>2. QED
    BY <1>1, InvAlways, SendsInit, SendsNext, PTL DEF Spec

-----------------------------------------------------------------------------
(* The deadline *)

\* No budget is in use to begin with.
LEMMA BudgetInit == Init => BudgetShared
  BY ConstantsAssumption DEF Init, BudgetShared, NoCall

\* Every step keeps within the one deadline of a request.
LEMMA BudgetNext == Inv /\ BudgetShared /\ [Next]_vars => BudgetShared'
  <1> SUFFICES ASSUME Inv, BudgetShared, [Next]_vars PROVE BudgetShared'
    OBVIOUS
  <1>1. /\ clock \in Nat /\ Timeout \in Nat
        /\ \A t \in Threads : call[t].deadline \in Nat /\ call[t].begun \in Nat
    BY ConstantsAssumption DEF Inv, TypeOK, Request
  <1>2. ASSUME NEW t \in Threads, Return(t) PROVE BudgetShared'
    BY <1>1, <1>2, ReturnEffect DEF NoCall, BudgetShared
  <1>3. ASSUME NEW t \in Threads, Begin(t) PROVE BudgetShared'
    BY <1>1, <1>3, BeginEffect DEF BudgetShared
  <1>4. ASSUME NEW t \in Threads, StartRefresh(t) \/ Send(t) PROVE BudgetShared'
    <2>1. clock < call[t].deadline /\ clock + Remaining(t) <= call[t].deadline
      BY <1>1, <1>4, RemainingType DEF StartRefresh, Send, Late, Inv
    <2>2. PICK c : /\ Continues(t, c) /\ c.pc \in {"iam", "exchange"}
                   /\ c.since = clock /\ c.until = clock + Remaining(t)
      BY <1>4, StartRefreshEffect, SendEffect
    <2>3. QED
      BY <1>1, <2>1, <2>2 DEF Continues, BudgetShared
  <1>5. ASSUME NEW t \in Threads, AcquireCached(t) \/ FinishRefresh(t) \/ Wake(t)
        PROVE  BudgetShared'
    <2>1. PICK c : Continues(t, c) /\ c.pc = "send"
      BY <1>5, AcquireCachedEffect, FinishRefreshEffect, WakeEffect
    <2>2. QED
      BY <2>1 DEF Continues, BudgetShared
  <1>6. ASSUME NEW t \in Threads, ReceiveUnauthorized(t), ~Return(t)
        PROVE  BudgetShared'
    <2>1. PICK c : Continues(t, c) /\ c.pc = "lock"
      BY <1>6, UnauthorizedEffect
    <2>2. QED
      BY <2>1 DEF Continues, BudgetShared
  <1>7. ASSUME NEW t \in Threads, ReceiveTransient(t), ~Return(t)
        PROVE  BudgetShared'
    <2>1. PICK c, delay : /\ Continues(t, c) /\ c.pc = "backoff"
                          /\ delay \in Nat /\ ~Late(t) /\ Fits(t, delay)
                          /\ c.until = clock + delay
      BY <1>7, TransientEffect
    <2>2. Remaining(t) \in Nat /\ clock + Remaining(t) <= call[t].deadline
      BY <2>1, RemainingType DEF Inv
    <2>3. clock + delay <= call[t].deadline
      BY <1>1, <2>1, <2>2 DEF Fits
    <2>4. QED
      BY <1>1, <2>1, <2>3 DEF Continues, BudgetShared
  <1>8. CASE Tick \/ UNCHANGED vars
    BY <1>8 DEF Tick, vars, BudgetShared
  <1>9. QED
    BY <1>2, <1>3, <1>4, <1>5, <1>6, <1>7, <1>8
    DEF Next, Finished, ThreadStep, FailRefresh, GiveUp, Receive

(***************************************************************************)
(* Whatever mixture of lock waits, refreshes, retries and sleeps a request *)
(* goes through, each begins before the one deadline and is limited to     *)
(* what is left of it (Auth.hpp:63).                                       *)
(***************************************************************************)
THEOREM DeadlineShared == Spec => []BudgetShared
  BY BudgetInit, BudgetNext, InvAlways, PTL DEF Spec

-----------------------------------------------------------------------------
(* The tokens requests are sent with *)

\* The token that was refused is among the rejected.
RefusedRejected == \A t \in Threads :
    call[t].refused # 0 => call[t].refused \in rejected
Renewed == RefusedRejected /\ RepeatsWithAnotherToken

\* No token has been refused to begin with.
LEMMA RenewedInit == Init => Renewed
  BY DEF Init, Renewed, RefusedRejected, RepeatsWithAnotherToken, NoCall

\* Every step keeps a repetition away from the token that was refused.
LEMMA RenewedNext ==
  Inv /\ InvalidMeansRejected /\ Renewed /\ [Next]_vars => Renewed'
  <1> SUFFICES ASSUME Inv, InvalidMeansRejected, Renewed, [Next]_vars
               PROVE  Renewed'
    OBVIOUS
  <1> USE DEF Renewed, RefusedRejected, RepeatsWithAnotherToken
  <1>1. ASSUME NEW t \in Threads, Return(t), rejected \subseteq rejected'
        PROVE  Renewed'
    BY <1>1, ReturnEffect DEF NoCall
  <1>2. ASSUME NEW t \in Threads, Begin(t) PROVE Renewed'
    BY <1>2, BeginEffect
  <1>3. ASSUME NEW t \in Threads, AcquireCached(t) PROVE Renewed'
    <2>1. cached \in 1 .. granted /\ tokens[cached].valid /\ rejected' = rejected
      BY <1>3, ConstantsAssumption DEF AcquireCached, Usable, Inv, TypeOK
    <2>2. cached \notin rejected
      BY <2>1 DEF InvalidMeansRejected
    <2>3. QED
      BY <1>3, <2>1, <2>2, AcquireCachedEffect DEF Continues
  <1>4. ASSUME NEW t \in Threads, FinishRefresh(t) PROVE Renewed'
    <2>1. granted + 1 \notin rejected /\ rejected' = rejected
      BY <1>4, ConstantsAssumption DEF FinishRefresh, Inv, TypeOK, HoldsToken
    <2>2. QED
      BY <1>4, <2>1, FinishRefreshEffect DEF Continues
  <1>5. ASSUME NEW t \in Threads, StartRefresh(t) PROVE Renewed'
    <2>1. rejected' = rejected
      BY <1>5 DEF StartRefresh
    <2>2. QED
      BY <1>5, <2>1, StartRefreshEffect DEF Continues
  <1>6. ASSUME NEW t \in Threads,
               Send(t) \/ Wake(t) \/ (ReceiveTransient(t) /\ ~Return(t))
        PROVE  Renewed'
    <2>1. /\ rejected' = rejected
          /\ call[t].pc \in {"send", "exchange", "backoff"}
      BY <1>6 DEF Send, Wake, ReceiveTransient
    <2>2. PICK c : /\ Continues(t, c) /\ c.token = call[t].token
                   /\ c.refused = call[t].refused
      BY <1>6, SendEffect, WakeEffect, TransientEffect
    <2>3. QED
      BY <2>1, <2>2 DEF Continues
  <1>7. ASSUME NEW t \in Threads, ReceiveUnauthorized(t), ~Return(t)
        PROVE  Renewed'
    <2>1. rejected' = rejected \cup {call[t].token}
      BY <1>7 DEF ReceiveUnauthorized
    <2>2. PICK c : Continues(t, c) /\ c.pc = "lock" /\ c.refused = call[t].token
      BY <1>7, UnauthorizedEffect
    <2>3. QED
      BY <2>1, <2>2 DEF Continues
  <1>8. CASE Tick \/ UNCHANGED vars
    BY <1>8 DEF Tick, vars
  <1>9. QED
    BY <1>1, <1>2, <1>3, <1>4, <1>5, <1>6, <1>7, <1>8
    DEF Next, Finished, ThreadStep, FailRefresh, GiveUp, Receive, ReceiveTransient,
        ReceiveUnauthorized

(***************************************************************************)
(* After a 401 a request is repeated with a token that the service has not *)
(* refused it (Auth.cpp:260-268), whatever other threads do to the cache.  *)
(***************************************************************************)
THEOREM RepeatedWithAnotherToken == Spec => []RepeatsWithAnotherToken
  BY InvAlways, OnlyRefusedTokensInvalid, RenewedInit, RenewedNext, PTL
  DEF Spec, Renewed

\* Tokens outlive their margin, and the request that holds one its deadline.
Begun == \A t \in Threads :
    /\ call[t].begun <= clock
    /\ call[t].pc = "iam" => call[t].begun <= call[t].since
Outlives ==
    /\ \A i \in 1 .. granted : tokens[i].expires + Timeout <= tokens[i].good
    /\ \A t \in Threads : call[t].pc \in {"send", "exchange", "backoff"} =>
          call[t].deadline <= tokens[call[t].token].good

\* No request has begun to begin with.
LEMMA BegunInit == Init => Begun
  BY DEF Init, Begun, NoCall

\* Every step keeps when a request began.
LEMMA BegunNext == Inv /\ Begun /\ [Next]_vars => Begun'
  <1> SUFFICES ASSUME Inv, Begun, [Next]_vars PROVE Begun'
    OBVIOUS
  <1> USE DEF Begun
  <1>1. clock \in Nat /\ \A t \in Threads : call[t].begun \in Nat
    BY DEF Inv, TypeOK, Request
  <1>2. ASSUME NEW t \in Threads, Return(t), clock' = clock PROVE Begun'
    BY <1>1, <1>2, ReturnEffect DEF NoCall
  <1>3. ASSUME NEW t \in Threads, Begin(t) PROVE Begun'
    <2>1. /\ clock' = clock /\ call'[t].pc = "lock" /\ call'[t].begun = clock
          /\ \A u \in Threads : u # t => call'[u] = call[u]
      BY <1>3, BeginEffect
    <2>2. QED
      BY <1>1, <2>1
  <1>4. ASSUME NEW t \in Threads, StartRefresh(t) PROVE Begun'
    <2>1. clock' = clock
      BY <1>4 DEF StartRefresh
    <2>2. PICK c : Continues(t, c) /\ c.since = clock
      BY <1>4, StartRefreshEffect
    <2>3. QED
      BY <1>1, <2>1, <2>2 DEF Continues
  <1>5. ASSUME NEW t \in Threads, ThreadStep(t), ~StartRefresh(t), ~Return(t)
        PROVE  Begun'
    <2>1. clock' = clock
      BY <1>5 DEF ThreadStep, AcquireCached, FinishRefresh, FailRefresh, GiveUp,
         Send, Receive, ReceiveUnauthorized, ReceiveTransient, Wake
    <2>2. PICK c : Continues(t, c) /\ c.pc # "iam"
      BY <1>5, AcquireCachedEffect, FinishRefreshEffect, SendEffect, WakeEffect,
         UnauthorizedEffect, TransientEffect
      DEF ThreadStep, FailRefresh, GiveUp, Receive
    <2>3. QED
      BY <1>1, <2>1, <2>2 DEF Continues
  <1>6. ASSUME NEW t \in Threads, ThreadStep(t), Return(t) PROVE Begun'
    <2>1. clock' = clock
      BY <1>6 DEF ThreadStep, AcquireCached, StartRefresh, FinishRefresh,
         FailRefresh, GiveUp, Send, Receive, ReceiveUnauthorized,
         ReceiveTransient, Wake
    <2>2. QED
      BY <1>2, <1>6, <2>1
  <1>7. CASE Tick
    BY <1>1, <1>7 DEF Tick
  <1>8. CASE UNCHANGED vars
    BY <1>8 DEF vars
  <1>9. QED
    BY <1>3, <1>4, <1>5, <1>6, <1>7, <1>8 DEF Next, Finished

\* Refusing a token changes no time of it.
LEMMA RefuseKeepsTimes ==
  ASSUME Inv, NEW t \in Threads, call[t].pc = "exchange", tokens' = Refuse(t)
  PROVE  \A i \in 1 .. MaxTokens : /\ tokens'[i].good = tokens[i].good
                                   /\ tokens'[i].expires = tokens[i].expires
  <1>1. call[t].token \in 1 .. MaxTokens
    BY ConstantsAssumption DEF Inv, TypeOK, HoldsToken
  <1>2. tokens' = [tokens EXCEPT ![call[t].token] =
                     [tokens[call[t].token] EXCEPT !.valid = FALSE]]
    BY DEF Refuse
  <1>3. tokens[call[t].token] \in Token
    BY <1>1 DEF Inv, TypeOK
  <1> DEFINE token == [tokens[call[t].token] EXCEPT !.valid = FALSE]
  <1>4. /\ token.good = tokens[call[t].token].good
        /\ token.expires = tokens[call[t].token].expires
    BY <1>3 DEF Token
  <1> HIDE DEF token
  <1>5. QED
    BY <1>1, <1>2, <1>4 DEF token, Inv, TypeOK

\* No token is in use to begin with.
LEMMA OutlivesInit == Init => Outlives
  BY DEF Init, Outlives, NoCall

\* The token just granted outlives its margin by the timeout, and the request.
LEMMA FinishOutlives ==
  ASSUME MarginCovers, Inv, BudgetShared, Begun, Outlives,
         NEW t \in Threads, FinishRefresh(t)
  PROVE  Outlives'
  <1>1. PICK lifetime \in Lifetimes : FinishRefresh(t)!(lifetime)
    BY DEF FinishRefresh
  <1>2. /\ granted' = granted + 1 /\ granted \in Nat
        /\ granted + 1 \in 1 .. MaxTokens /\ MaxTokens \in Nat
    BY <1>1, ConstantsAssumption DEF Inv, TypeOK
  <1>3. /\ lifetime \in Nat /\ Margin(lifetime) \in Nat
        /\ Margin(lifetime) <= lifetime /\ Timeout <= Margin(lifetime)
        /\ Timeout \in Nat
    BY MarginType, ConstantsAssumption DEF MarginCovers
  <1>4. /\ call[t].since \in Nat /\ call[t].begun \in Nat
        /\ call[t].deadline \in Nat
    BY DEF Inv, TypeOK, Request
  <1>5. /\ call[t].begun <= call[t].since
        /\ call[t].deadline <= call[t].begun + Timeout
    BY <1>1 DEF Begun, BudgetShared
  <1>6. /\ tokens'[granted + 1].expires = call[t].since + (lifetime - Margin(lifetime))
        /\ tokens'[granted + 1].good = call[t].since + lifetime
        /\ \A i \in 1 .. granted : tokens'[i] = tokens[i]
    BY <1>1, <1>2 DEF Inv, TypeOK
  <1>7. /\ tokens'[granted + 1].expires + Timeout <= tokens'[granted + 1].good
        /\ call[t].deadline <= tokens'[granted + 1].good
    BY <1>3, <1>4, <1>5, <1>6
  <1>8. PICK c : /\ Continues(t, c) /\ c.pc = "send" /\ c.token = granted + 1
    BY FinishRefreshEffect
  <1>9. \A i \in 1 .. granted' : tokens'[i].expires + Timeout <= tokens'[i].good
    BY <1>2, <1>6, <1>7 DEF Outlives
  <1>10. ASSUME NEW u \in Threads, call'[u].pc \in {"send", "exchange", "backoff"}
         PROVE  call'[u].deadline <= tokens'[call'[u].token].good
    <2>1. CASE u = t
      BY <1>7, <1>8, <2>1 DEF Continues
    <2>2. CASE u # t
      <3>1. call'[u] = call[u] /\ call[u].token \in 1 .. granted
        BY <1>8, <1>10, <2>2 DEF Continues, Inv, HoldsToken
      <3>2. QED
        BY <1>6, <1>10, <3>1 DEF Outlives
    <2>3. QED
      BY <2>1, <2>2
  <1>11. QED
    BY <1>9, <1>10 DEF Outlives

\* Every step keeps tokens good until the deadline of their request.
LEMMA OutlivesNext ==
  ASSUME MarginCovers
  PROVE  Inv /\ BudgetShared /\ Begun /\ Outlives /\ [Next]_vars => Outlives'
  <1> SUFFICES ASSUME Inv, BudgetShared, Begun, Outlives, [Next]_vars
               PROVE  Outlives'
    OBVIOUS
  <1>1. /\ clock \in Nat /\ Timeout \in Nat /\ MaxTokens \in Nat
        /\ granted \in 0 .. MaxTokens
    BY ConstantsAssumption DEF Inv, TypeOK
  \* Most steps of t leave the tokens, and those of the other threads, alone.
  <1>2. ASSUME NEW t \in Threads, UNCHANGED <<tokens, granted>>,
               \A u \in Threads : u # t => call'[u] = call[u],
               call'[t].pc \in {"send", "exchange", "backoff"} =>
                 call'[t].deadline <= tokens[call'[t].token].good
        PROVE  Outlives'
    BY <1>2 DEF Outlives
  <1>3. ASSUME NEW t \in Threads, Return(t), UNCHANGED <<tokens, granted>>
        PROVE  Outlives'
    BY <1>2, <1>3, ReturnEffect DEF NoCall
  <1>4. ASSUME NEW t \in Threads, Begin(t) PROVE Outlives'
    BY <1>2, <1>4, BeginEffect
  <1>5. ASSUME NEW t \in Threads, AcquireCached(t) PROVE Outlives'
    <2>1. /\ cached \in 1 .. granted /\ clock < tokens[cached].expires
          /\ UNCHANGED <<tokens, granted>>
      BY <1>1, <1>5 DEF AcquireCached, Usable, Inv, TypeOK
    <2>2. tokens[cached].expires + Timeout <= tokens[cached].good
      BY <2>1 DEF Outlives
    <2>3. tokens[cached].expires \in Nat /\ tokens[cached].good \in Nat
      BY <1>1, <2>1 DEF Inv, TypeOK, Token
    <2>4. /\ call[t].deadline <= call[t].begun + Timeout /\ call[t].begun <= clock
          /\ call[t].deadline \in Nat /\ call[t].begun \in Nat
      BY DEF BudgetShared, Begun, Inv, TypeOK, Request
    <2>5. call[t].deadline <= tokens[cached].good
      BY <1>1, <2>1, <2>2, <2>3, <2>4
    <2>6. PICK c : Continues(t, c) /\ c.pc = "send" /\ c.token = cached
      BY <1>5, AcquireCachedEffect
    <2>7. QED
      BY <1>2, <2>1, <2>5, <2>6 DEF Continues
  <1>6. ASSUME NEW t \in Threads, StartRefresh(t) PROVE Outlives'
    <2>1. UNCHANGED <<tokens, granted>>
      BY <1>6 DEF StartRefresh
    <2>2. PICK c : Continues(t, c) /\ c.pc = "iam"
      BY <1>6, StartRefreshEffect
    <2>3. QED
      BY <1>2, <2>1, <2>2 DEF Continues
  <1>7. ASSUME NEW t \in Threads,
               Send(t) \/ Wake(t) \/ (ReceiveTransient(t) /\ ~Return(t))
        PROVE  Outlives'
    <2>1. /\ UNCHANGED <<tokens, granted>>
          /\ call[t].pc \in {"send", "exchange", "backoff"}
      BY <1>7 DEF Send, Wake, ReceiveTransient
    <2>2. PICK c : Continues(t, c) /\ c.token = call[t].token
      BY <1>7, SendEffect, WakeEffect, TransientEffect
    <2>3. QED
      BY <1>2, <2>1, <2>2 DEF Continues, Outlives
  <1>8. ASSUME NEW t \in Threads, ReceiveUnauthorized(t) PROVE Outlives'
    <2>1. /\ granted' = granted /\ call[t].pc = "exchange" /\ tokens' = Refuse(t)
      BY <1>8 DEF ReceiveUnauthorized
    <2>2. \A i \in 1 .. MaxTokens : /\ tokens'[i].good = tokens[i].good
                                    /\ tokens'[i].expires = tokens[i].expires
      BY <2>1, RefuseKeepsTimes
    <2>3. /\ call'[t].pc \in {"idle", "lock"}
          /\ \A u \in Threads : u # t => call'[u] = call[u]
      <3>1. CASE Return(t)
        BY <3>1, ReturnEffect DEF NoCall
      <3>2. CASE ~Return(t)
        <4>1. PICK c : Continues(t, c) /\ c.pc = "lock"
          BY <1>8, <3>2, UnauthorizedEffect
        <4>2. QED
          BY <4>1 DEF Continues
      <3>3. QED
        BY <3>1, <3>2
    <2>4. \A u \in Threads : call[u].pc \in {"send", "exchange", "backoff"} =>
            call[u].token \in 1 .. MaxTokens
      BY <1>1 DEF Inv, HoldsToken
    <2>5. QED
      BY <1>1, <2>1, <2>2, <2>3, <2>4 DEF Outlives
  <1>9. ASSUME NEW t \in Threads,
               FailRefresh(t) \/ GiveUp(t) \/ Receive(t)
                 \/ (ReceiveTransient(t) /\ Return(t))
        PROVE  Outlives'
    BY <1>3, <1>9 DEF FailRefresh, GiveUp, Receive, ReceiveTransient
  <1>10. CASE Tick \/ UNCHANGED vars
    BY <1>10 DEF Tick, vars, Outlives
  <1>11. QED
    BY <1>4, <1>5, <1>6, <1>7, <1>8, <1>9, <1>10, FinishOutlives DEF Next, Finished, ThreadStep

(***************************************************************************)
(* When the margin of every token covers the request timeout, no request   *)
(* is sent with a token that has expired at IAM, though a retry after a    *)
(* backoff does not look at the expiry again (Auth.cpp:216-220, 246-284).  *)
(***************************************************************************)
THEOREM TokensOutliveRequests ==
  ASSUME MarginCovers
  PROVE  Spec => []NeverSendsExpired
  <1>1. Inv /\ BudgetShared /\ Outlives => NeverSendsExpired
    <2> SUFFICES ASSUME Inv, BudgetShared, Outlives,
                        NEW t \in Threads, call[t].pc = "exchange"
                 PROVE  call[t].since < tokens[call[t].token].good
      BY DEF NeverSendsExpired
    <2>1. /\ call[t].since < call[t].deadline
          /\ call[t].deadline <= tokens[call[t].token].good
      BY DEF BudgetShared, Outlives
    <2>2. call[t].token \in 1 .. MaxTokens
      BY ConstantsAssumption DEF Inv, TypeOK, HoldsToken
    <2>3. /\ call[t].since \in Nat /\ call[t].deadline \in Nat
          /\ tokens[call[t].token].good \in Nat
      BY <2>2 DEF Inv, TypeOK, Request, Token
    <2>4. QED
      BY <2>1, <2>3
  <1>2. Inv /\ BudgetShared /\ Begun /\ Outlives /\ [Next]_vars => Outlives'
    BY OutlivesNext
  <1>3. QED
    BY <1>1, <1>2, InvAlways, DeadlineShared, BegunInit, BegunNext, OutlivesInit,
       PTL DEF Spec

-----------------------------------------------------------------------------
(* Times, whatever their width *)

\* No time is kept to begin with.
LEMMA TimesInit == Init => TimesAsAsked
  BY DEF Init, TimesAsAsked, NoCall

\* Every step keeps times as they were asked for.
LEMMA TimesNext == Inv /\ TimesAsAsked /\ [Next]_vars => TimesAsAsked'
  <1> SUFFICES ASSUME Inv, TimesAsAsked, [Next]_vars PROVE TimesAsAsked'
    OBVIOUS
  <1> USE DEF TimesAsAsked
  <1>1. ASSUME NEW t \in Threads, Return(t) PROVE TimesAsAsked'
    BY <1>1, ReturnEffect DEF NoCall
  <1>2. ASSUME NEW t \in Threads, Begin(t) PROVE TimesAsAsked'
    BY <1>2, BeginEffect
  <1>3. ASSUME NEW t \in Threads, ReceiveTransient(t), ~Return(t)
        PROVE  TimesAsAsked'
    <2>1. PICK c, delay : /\ Continues(t, c) /\ c.wanted <= c.until
                          /\ c.pc = "backoff" /\ c.until = clock + delay
                          /\ delay \in Nat
      BY <1>3, TransientEffect
    <2>2. QED
      BY <2>1 DEF Continues
  \* No other step ends in a backoff.
  <1>4. ASSUME NEW t \in Threads, ThreadStep(t), ~ReceiveTransient(t), ~Return(t)
        PROVE  TimesAsAsked'
    <2>1. PICK c : Continues(t, c) /\ c.pc # "backoff"
      BY <1>4, AcquireCachedEffect, StartRefreshEffect, FinishRefreshEffect,
         SendEffect, WakeEffect, UnauthorizedEffect
      DEF ThreadStep, FailRefresh, GiveUp, Receive
    <2>2. QED
      BY <2>1 DEF Continues
  <1>5. CASE Tick \/ UNCHANGED vars
    BY <1>5 DEF Tick, vars
  <1>6. QED
    BY <1>1, <1>2, <1>3, <1>4, <1>5 DEF Next, Finished, ThreadStep

(***************************************************************************)
(* For every width of the clock and of Retry-After: a request has the time *)
(* its caller allows and is repeated when the service wants it, or not at  *)
(* all (Device.cpp:617-625, Http.cpp:106-136).                             *)
(***************************************************************************)
THEOREM NoTimeWrapsAround == Spec => []TimesAsAsked
  BY TimesInit, TimesNext, InvAlways, PTL DEF Spec

(***************************************************************************)
(* Refused tokens, and no others, are not used again.                      *)
(***************************************************************************)
THEOREM RefusedTokensAreDead == Spec => []RefusedTokensDie
  BY OnlyRefusedTokensInvalid, RepeatedWithAnotherToken, PTL DEF RefusedTokensDie

(***************************************************************************)
(* The mutex is held for the exchange with IAM, which happens when needed. *)
(***************************************************************************)
THEOREM RefreshesAreShared == Spec => []RefreshIsShared
  BY RefreshedOnlyWhenNeeded, ExclusiveRefresh, PTL DEF RefreshIsShared

(***************************************************************************)
(* The attempts of a request are few, and all of them share its deadline.  *)
(***************************************************************************)
THEOREM RequestsBounded == Spec => []RequestsAreBounded
  BY AttemptsBounded, DeadlineShared, PTL DEF RequestsAreBounded
=============================================================================
