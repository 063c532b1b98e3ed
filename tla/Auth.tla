--------------------------------- MODULE Auth ---------------------------------
(***************************************************************************)
(* Authenticated requests of one session (src/Auth.cpp:172-292): several   *)
(* threads share a cached bearer token, refreshed under a timed mutex; a   *)
(* GET is retried after transient failures and once after a 401; lock      *)
(* waits, IAM exchange, requests and backoff share one deadline.           *)
(*                                                                         *)
(* Time is a clock that may pass between any two steps, so exchanges,      *)
(* sleeps and the threads themselves may be as slow as they like.  Answers *)
(* of IAM and of the service are chosen freely.                            *)
(***************************************************************************)
EXTENDS Integers, FiniteSets

CONSTANTS
    Threads,      \* the client's threads
    NoThread,
    Timeout,      \* Configuration::requestTimeout
    Waits,        \* timeouts of job_wait: 0 for none, or for other requests
    MaxTime,      \* Deadline::max()
    Lifetimes,    \* expires_in of the tokens IAM grants
    MarginCap, MarginShare,  \* 60 seconds and a tenth in the code
    BaseDelay,    \* 100 ms in the code, and twice as much the second time
    RetryAfter,   \* Retry-After headers: none, a number of seconds, or a date
    MaxDelay,     \* milliseconds::max()
    MaxTokens,    \* bound: tokens granted
    MaxRequests,  \* bound: requests made
    MaxClock      \* bound: time; requests begin early enough to end by then

ASSUME ConstantsAssumption ==
    /\ NoThread \notin Threads
    /\ Timeout \in Nat \ {0}
    /\ Waits \subseteq Nat
    /\ Lifetimes \subseteq Nat \ {0}
    /\ MarginCap \in Nat
    /\ MarginShare \in Nat \ {0}
    /\ BaseDelay \in Nat
    /\ RetryAfter \subseteq [form : {"none", "seconds", "date"}, value : Nat]
    /\ MaxDelay \in Nat /\ Timeout <= MaxDelay
    /\ MaxTokens \in Nat
    /\ MaxRequests \in Nat
    /\ MaxClock \in Nat
    /\ MaxTime \in Nat /\ MaxClock <= MaxTime

VARIABLES
    clock,
    tokens,    \* tokens[i]: the Token objects, those not granted yet unused
    granted,   \* number of tokens granted
    cached,    \* cachedToken, 0 for none
    mutex,     \* the thread that holds Auth::mutex
    call,      \* call[t]: the request t makes
    requests,  \* requests made
    rejected   \* history: the tokens the service answered with 401

vars == <<clock, tokens, granted, cached, mutex, call, requests, rejected>>

-----------------------------------------------------------------------------
NoToken == [expires |-> 0, good |-> 0, valid |-> TRUE]

\* since: when the exchange began; until: when it or the sleep must end;
\* refused: the token of this request's 401 (history), begun: its start (history);
\* allowed: the time its caller allows, wanted: when the service wants to see
\* it again at the earliest (histories, without any limits of their width).
NoCall == [pc |-> "idle", post |-> FALSE, deadline |-> 0, token |-> 0,
           refreshed |-> FALSE, retries |-> 0, sends |-> 0,
           since |-> 0, until |-> 0, begun |-> 0, refused |-> 0,
           allowed |-> 0, wanted |-> 0]

Init ==
    /\ clock = 0
    /\ tokens = [i \in 1 .. MaxTokens |-> NoToken]
    /\ granted = 0
    /\ cached = 0
    /\ mutex = NoThread
    /\ call = [t \in Threads |-> NoCall]
    /\ requests = 0
    /\ rejected = {}

Return(t) == call' = [call EXCEPT ![t] = NoCall]

\* The exchange or the sleep of a call is over, and its times with it.
Ended(c, pc) == [c EXCEPT !.pc = pc, !.since = 0, !.until = 0, !.wanted = 0]

Smaller(a, b) == IF a < b THEN a ELSE b
Larger(a, b) == IF a > b THEN a ELSE b

\* Fault: every exchange has the whole timeout.
MutRemaining(t) == Timeout
\* remaining(): what the deadline leaves, never more than the timeout.
Remaining(t) == Smaller(Timeout, call[t].deadline - clock)
Late(t) == clock >= call[t].deadline

\* Fault: without a margin.
MutMargin(lifetime) == 0
Margin(lifetime) == Smaller(MarginCap, lifetime \div MarginShare)

-----------------------------------------------------------------------------
\* The deadline of a job_wait that started at some time.
WaitDeadline(started, wait) ==
    IF wait = 0 \/ wait >= MaxTime - started THEN MaxTime ELSE started + wait

Allowed(started, wait) ==
    IF wait = 0 THEN clock + Timeout ELSE Smaller(started + wait, clock + Timeout)

\* The deadline is fixed before anything else happens.  Only a GET may be
\* the poll of a job_wait, whose deadline may have passed already.
Begin(t) == \E post \in BOOLEAN, wait \in Waits, started \in 0 .. clock :
    /\ post => wait = 0
    /\ call[t].pc = "idle"
    /\ requests < MaxRequests
    /\ clock + Timeout <= MaxClock
    /\ requests' = requests + 1
    /\ call' = [call EXCEPT ![t] = [NoCall EXCEPT !.pc = "lock", !.post = post,
            !.deadline = Smaller(WaitDeadline(started, wait), clock + Timeout),
            !.begun = clock, !.allowed = Allowed(started, wait)]]
    /\ UNCHANGED <<clock, tokens, granted, cached, mutex, rejected>>

\* Fault: who gets the mutex refreshes, as it had to when it asked.
MutUsable == FALSE
\* The cached token, if any, is neither rejected nor expired.
Usable ==
    /\ cached # 0
    /\ tokens[cached].valid
    /\ clock < tokens[cached].expires

AcquireCached(t) ==
    /\ call[t].pc = "lock"
    /\ mutex = NoThread
    /\ Usable
    /\ call' = [call EXCEPT ![t].pc = "send", ![t].token = cached]
    /\ UNCHANGED <<clock, tokens, granted, cached, mutex, requests, rejected>>

StartRefresh(t) ==
    /\ call[t].pc = "lock"
    /\ mutex = NoThread
    /\ ~Usable
    /\ ~Late(t)
    /\ mutex' = t
    /\ call' = [call EXCEPT ![t].pc = "iam", ![t].since = clock,
                            ![t].until = clock + Remaining(t)]
    /\ UNCHANGED <<clock, tokens, granted, cached, requests, rejected>>

\* IAM granted a token at some time after the exchange began.
FinishRefresh(t) == \E lifetime \in Lifetimes :
    /\ call[t].pc = "iam"
    /\ granted < MaxTokens
    /\ granted' = granted + 1
    /\ tokens' = [tokens EXCEPT ![granted + 1] =
                    [expires |-> call[t].since + (lifetime - Margin(lifetime)),
                     good |-> call[t].since + lifetime,
                     valid |-> TRUE]]
    /\ cached' = granted + 1
    /\ mutex' = NoThread
    /\ call' = [call EXCEPT ![t] = Ended(@, "send"), ![t].token = granted + 1]
    /\ UNCHANGED <<clock, requests, rejected>>

FailRefresh(t) ==
    /\ call[t].pc = "iam"
    /\ mutex' = NoThread
    /\ Return(t)
    /\ UNCHANGED <<clock, tokens, granted, cached, requests, rejected>>

\* The deadline has passed while waiting for the mutex or before sending.
GiveUp(t) ==
    /\ call[t].pc \in {"lock", "send"}
    /\ Late(t)
    /\ Return(t)
    /\ UNCHANGED <<clock, tokens, granted, cached, mutex, requests, rejected>>

Send(t) ==
    /\ call[t].pc = "send"
    /\ ~Late(t)
    /\ call' = [call EXCEPT ![t].pc = "exchange", ![t].since = clock,
                            ![t].until = clock + Remaining(t),
                            ![t].sends = @ + 1]
    /\ UNCHANGED <<clock, tokens, granted, cached, mutex, requests, rejected>>

\* Success, a permanent failure, or the timeout of the transport.
Receive(t) ==
    /\ call[t].pc = "exchange"
    /\ Return(t)
    /\ UNCHANGED <<clock, tokens, granted, cached, mutex, requests, rejected>>

\* Fault: the cached token is invalidated.
MutRefuse(t) == [tokens EXCEPT ![cached].valid = FALSE]
\* A 401 invalidates the token of the request, which may be an older one.
Refuse(t) == [tokens EXCEPT ![call[t].token].valid = FALSE]

Reauthenticates(t) == ~call[t].post /\ ~call[t].refreshed

ReceiveUnauthorized(t) ==
    /\ call[t].pc = "exchange"
    /\ tokens' = Refuse(t)
    /\ rejected' = rejected \cup {call[t].token}
    /\ \/ /\ Reauthenticates(t)
          /\ call' = [call EXCEPT ![t] = Ended(@, "lock"), ![t].refreshed = TRUE,
                                  ![t].refused = call[t].token]
       \/ ~Reauthenticates(t) /\ Return(t)
    /\ UNCHANGED <<clock, granted, cached, mutex, requests>>

\* Fault: one retry too many.
MutExhausted(t) == call[t].post \/ call[t].retries = 3
Exhausted(t) == call[t].post \/ call[t].retries = 2

\* Fault: the delay the service asks for is slept in any case.
MutFits(t, delay) == TRUE
Fits(t, delay) == delay < Remaining(t)

\* Fault: the multiplication by 1000 overflows.
MutParseRetryAfter(header) ==
    CASE header.form = "seconds" -> header.value % (MaxDelay + 1)
      [] header.form = "date" -> Smaller(Larger(0, header.value - clock), MaxDelay)
      [] header.form = "none" -> 0
\* The delay the service asks for; both forms saturate.
ParseRetryAfter(header) ==
    CASE header.form = "seconds" -> Smaller(header.value, MaxDelay)
      [] header.form = "date" -> Smaller(Larger(0, header.value - clock), MaxDelay)
      [] header.form = "none" -> 0

Wanted(header) ==
    CASE header.form = "seconds" -> clock + header.value
      [] header.form = "date" -> header.value
      [] header.form = "none" -> clock

\* A transient failure: another attempt, if its delay fits the deadline.
ReceiveTransient(t) == \E header \in RetryAfter :
    LET delay == Larger(BaseDelay * (call[t].retries + 1), ParseRetryAfter(header))
    IN  /\ call[t].pc = "exchange"
        /\ \/ /\ Exhausted(t) \/ Late(t) \/ ~Fits(t, delay)
              /\ Return(t)
           \/ /\ ~Exhausted(t)
              /\ ~Late(t)
              /\ Fits(t, delay)
              /\ call' = [call EXCEPT ![t] =
                    [Ended(call[t], "backoff") EXCEPT !.retries = @ + 1,
                                                      !.until = clock + delay,
                                                      !.wanted = Wanted(header)]]
        /\ UNCHANGED <<clock, tokens, granted, cached, mutex, requests, rejected>>

Wake(t) ==
    /\ call[t].pc = "backoff"
    /\ clock >= call[t].until
    /\ call' = [call EXCEPT ![t] = Ended(@, "send")]
    /\ UNCHANGED <<clock, tokens, granted, cached, mutex, requests, rejected>>

Tick ==
    /\ clock < MaxClock
    /\ clock' = clock + 1
    /\ UNCHANGED <<tokens, granted, cached, mutex, call, requests, rejected>>

-----------------------------------------------------------------------------
ThreadStep(t) ==
    \/ AcquireCached(t) \/ StartRefresh(t) \/ FinishRefresh(t) \/ FailRefresh(t)
    \/ GiveUp(t) \/ Send(t) \/ Receive(t) \/ ReceiveUnauthorized(t)
    \/ ReceiveTransient(t) \/ Wake(t)

\* The bounds allow no further request, and none is under way.
Finished ==
    /\ \A t \in Threads : call[t].pc = "idle"
    /\ clock = MaxClock
    /\ UNCHANGED vars

Next ==
    \/ Tick
    \/ \E t \in Threads : Begin(t) \/ ThreadStep(t)
    \/ Finished

Spec == Init /\ [][Next]_vars

(***************************************************************************)
(* Fairness: time passes, and a thread that can go on does (an exchange    *)
(* ends by the transport's timeout).  Nothing is assumed of the mutex.     *)
(***************************************************************************)
FairSpec == Spec /\ WF_vars(Tick) /\ \A t \in Threads : WF_vars(ThreadStep(t))

-----------------------------------------------------------------------------
(* Properties *)

Token == [expires : Nat, good : Nat, valid : BOOLEAN]
Request == [pc : {"idle", "lock", "iam", "send", "exchange", "backoff"},
            post : BOOLEAN, deadline : Nat, token : Nat,
            refreshed : BOOLEAN, retries : 0 .. 2, sends : Nat,
            since : Nat, until : Nat, begun : Nat, refused : Nat,
            allowed : Nat, wanted : Nat]
TypeOK ==
    /\ clock \in Nat
    /\ tokens \in [1 .. MaxTokens -> Token]
    /\ granted \in 0 .. MaxTokens
    /\ cached \in 0 .. granted
    /\ mutex \in Threads \cup {NoThread}
    /\ call \in [Threads -> Request]
    /\ requests \in Nat
    /\ rejected \subseteq 1 .. MaxTokens

(***************************************************************************)
(* "A late response invalidates only the token used for that request"      *)
(* (Auth.cpp:261): whatever order the answers of several threads come in,  *)
(* only tokens the service rejected become invalid, and those do.  And     *)
(* after a 401 a GET is not repeated with the token that was refused.      *)
(***************************************************************************)
InvalidMeansRejected == \A i \in 1 .. granted :
    ~tokens[i].valid <=> i \in rejected
RepeatsWithAnotherToken == \A t \in Threads :
    call[t].pc \in {"send", "exchange", "backoff"} /\ call[t].refused # 0
        => call[t].token # call[t].refused
RefusedTokensDie == InvalidMeansRejected /\ RepeatsWithAnotherToken

(***************************************************************************)
(* Concurrent requests share a refresh: a thread asks IAM only while the   *)
(* cached token is missing, rejected or expired, so not for a token that   *)
(* another thread has renewed while this one waited for the mutex.  The    *)
(* mutex is held for the IAM exchange only: requests run concurrently,     *)
(* and a failed refresh leaves the waiting threads to try themselves.      *)
(***************************************************************************)
NoNeedlessRefresh == \A t \in Threads : call[t].pc = "iam" =>
    cached = 0 \/ cached \in rejected \/ clock >= tokens[cached].expires
LockedOnlyForRefresh == \A t \in Threads :
    mutex = t <=> call[t].pc = "iam"
RefreshIsShared == NoNeedlessRefresh /\ LockedOnlyForRefresh

(***************************************************************************)
(* "POST is sent once", "GET retries transient failures twice and          *)
(* refreshes once after 401" (Auth.hpp:62), in any mixture of the two:     *)
(* no request is sent more than four times, no POST twice.                 *)
(* "Authentication, retries, and backoff share one timeout" (Auth.hpp:63): *)
(* every exchange and every sleep of a request begins before the deadline, *)
(* is limited to what is left of it, and the deadline is the timeout.      *)
(***************************************************************************)
SendsBounded == \A t \in Threads :
    call[t].sends <= IF call[t].post THEN 1 ELSE 4
BudgetShared == \A t \in Threads :
    /\ call[t].deadline <= call[t].begun + Timeout
    /\ call[t].pc \in {"iam", "exchange"} => call[t].since < call[t].deadline
    /\ call[t].pc \in {"iam", "exchange", "backoff"} =>
          call[t].until <= call[t].deadline
RequestsAreBounded == SendsBounded /\ BudgetShared

(***************************************************************************)
(* "Retries wait ... longer when Retry-After requires it", "A shorter      *)
(* job-wait deadline takes precedence" (docs/api.md:62-64), however large  *)
(* the numbers are: no sum or product of times wraps around, so a request  *)
(* is neither given up earlier than its caller allows nor repeated before  *)
(* the service wants it.                                                   *)
(***************************************************************************)
TimesAsAsked == \A t \in Threads :
    /\ call[t].deadline = call[t].allowed
    /\ call[t].pc = "backoff" => call[t].until >= call[t].wanted

(***************************************************************************)
(* "Refresh occurs before expiry" (docs/api.md): when the safety margin of *)
(* the tokens covers the request timeout, no request is sent with a token  *)
(* that has expired at IAM, retries after backoff included, which do not   *)
(* look at the expiry again.                                               *)
(***************************************************************************)
MarginCovers == \A lifetime \in Lifetimes : Timeout <= Margin(lifetime)
NeverSendsExpired == \A t \in Threads : call[t].pc = "exchange" =>
    call[t].since < tokens[call[t].token].good

(***************************************************************************)
(* Every request returns, whatever IAM, the service and the other threads  *)
(* do: nobody waits for the mutex, for an answer or asleep for ever.       *)
(***************************************************************************)
RequestsReturn == \A t \in Threads : call[t].pc # "idle" ~> call[t].pc = "idle"
=============================================================================
