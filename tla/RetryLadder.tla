----------------------------- MODULE RetryLadder ----------------------------
(***************************************************************************)
(* One Client shared by concurrent calls.  Every public method of the SDK  *)
(* goes through request or getRaw, these through doRequest, and doRequest  *)
(* through the go-retry executor: up to MaxAttempts attempts, each of them *)
(* one httpClient.Do, one log entry and one classification of the answer,  *)
(* with a context-aware wait in between that honours Retry-After.          *)
(*                                                                         *)
(* A call is one activation of request or getRaw.  Its steps interleave    *)
(* with those of the other calls, with the end of its own context and with *)
(* the answers of the server.                                              *)
(***************************************************************************)
EXTENDS WiseErrors, Sequences

CONSTANTS
  Calls,            \* the calls made on the shared client
  FailFast,         \* those of them made by VerifyCredentials
  MaxRetries,       \* WithRetry's maxRetries
  RetryMaxDelay,    \* WithRetry's maxDelay, in seconds (0: the default)
  AttemptTimeout,   \* http.Client.Timeout, in seconds
  Replies           \* the answers the server may give

ASSUME CallsAssumption == FailFast \subseteq Calls
ASSUME LimitsAssumption ==
  /\ MaxRetries \in Int
  /\ RetryMaxDelay \in Int
  /\ AttemptTimeout \in Nat
ASSUME RepliesAssumption == Replies \subseteq Reply

VARIABLES
  maxAttempts,  \* retryConfig.MaxAttempts of the shared client
  pc,           \* where each call is
  request,      \* what each call asks for
  budget,       \* retryConfig.MaxAttempts as the call's executor read it
  attempt,      \* the 1-based attempt number go-retry passes in
  ctx,          \* the call's context
  reply,        \* the response Do returned, while the client holds it
  err,          \* the last attempt's error, and its RetryAfter
  wait,         \* the delay chosen before the next attempt
  open,         \* response bodies the call has open
  log,          \* entries given to the Logger for this call
  requests,     \* HTTP requests that left the client
  elapsed,      \* seconds spent in attempts and waits
  outcome       \* what the call returned

vars == <<maxAttempts, pc, request, budget, attempt, ctx, reply, err, wait,
          open, log, requests, elapsed, outcome>>

DefaultMaxRetries == 3
DefaultRetryMaxDelay == 5

\* Mutant: a configured zero is taken as it is.
RetryMaxAsGiven == IF MaxRetries >= 0 THEN MaxRetries ELSE DefaultMaxRetries

\* New applies its defaults to every value that is not positive.
RetryMax == IF MaxRetries > 0 THEN MaxRetries ELSE DefaultMaxRetries
DelayCeiling == IF RetryMaxDelay > 0 THEN RetryMaxDelay ELSE DefaultRetryMaxDelay

\* How a call uses a 2xx body: decode it, return it raw, or ignore it.
Modes == {"decode", "raw", "discard"}
Requests == [mode : Modes, wellFormed : BOOLEAN]
NoRequest == [mode |-> "none", wellFormed |-> FALSE]

NoReply == [status |-> 0, twoFAResult |-> FALSE, twoFAToken |-> FALSE,
            retryAfter |-> 0]
NoFailure == [type |-> NoError, retryAfter |-> 0]
TransportFailure == [type |-> Untyped, retryAfter |-> 0]
NoOutcome == [kind |-> "none", type |-> NoError]

Init ==
  /\ maxAttempts = RetryMax + 1
  /\ pc = [c \in Calls |-> "idle"]
  /\ request = [c \in Calls |-> NoRequest]
  /\ budget = [c \in Calls |-> 0]
  /\ attempt = [c \in Calls |-> 0]
  /\ ctx = [c \in Calls |-> "live"]
  /\ reply = [c \in Calls |-> NoReply]
  /\ err = [c \in Calls |-> NoFailure]
  /\ wait = [c \in Calls |-> 0]
  /\ open = [c \in Calls |-> 0]
  /\ log = [c \in Calls |-> << >>]
  /\ requests = [c \in Calls |-> 0]
  /\ elapsed = [c \in Calls |-> 0]
  /\ outcome = [c \in Calls |-> NoOutcome]

Goto(c, from, to) == pc[c] = from /\ pc' = [pc EXCEPT ![c] = to]

LogEntry(a, status, delay) == [attempt |-> a, status |-> status, delay |-> delay]
LogRequest(c, entry) == log' = [log EXCEPT ![c] = Append(@, entry)]
Spend(c, seconds) == elapsed' = [elapsed EXCEPT ![c] = @ + seconds]
Return(c, kind, type) ==
  outcome' = [outcome EXCEPT ![c] = [kind |-> kind, type |-> type]]

(***************************************************************************)
(* A call enters doRequest: the executor takes the client's retryConfig by *)
(* value.  VerifyCredentials hands it the copy whose MaxAttempts is 1.     *)
(* wellFormed says whether json.Marshal and http.NewRequestWithContext     *)
(* accept the call's arguments (a bad base URL fails every attempt alike). *)
(***************************************************************************)
Enter(c, req, limit) ==
  /\ Goto(c, "idle", "ready")
  /\ request' = [request EXCEPT ![c] = req]
  /\ budget' = [budget EXCEPT ![c] = limit]
  /\ attempt' = [attempt EXCEPT ![c] = 1]
  /\ UNCHANGED <<ctx, reply, err, wait, open, log, requests, elapsed, outcome>>

\* Mutant: the shared client is changed in place.
VerifyCredentialsInPlace(c) ==
  /\ c \in FailFast
  /\ \E wf \in BOOLEAN : Enter(c, [mode |-> "decode", wellFormed |-> wf], 1)
  /\ maxAttempts' = 1

DoRequest(c) ==
  /\ c \notin FailFast
  /\ \E req \in Requests : Enter(c, req, maxAttempts)
  /\ UNCHANGED maxAttempts

VerifyCredentials(c) ==
  /\ c \in FailFast
  /\ \E wf \in BOOLEAN : Enter(c, [mode |-> "decode", wellFormed |-> wf], 1)
  /\ UNCHANGED maxAttempts

(***************************************************************************)
(* One attempt.  Building the request fails before anything is logged; an  *)
(* ended context fails Do before anything is sent; otherwise the request   *)
(* is on the wire.                                                         *)
(***************************************************************************)
ContextLive(c) == ctx[c] = "live"

BuildFails(c) ==
  /\ ~request[c].wellFormed
  /\ Goto(c, "ready", "failed")
  /\ err' = [err EXCEPT ![c] = TransportFailure]
  /\ UNCHANGED <<maxAttempts, request, budget, attempt, ctx, reply, wait, open,
                 log, requests, elapsed, outcome>>

DoRefused(c) ==
  /\ request[c].wellFormed
  /\ ~ContextLive(c)
  /\ Goto(c, "ready", "failed")
  /\ LogRequest(c, LogEntry(attempt[c], 0, 0))
  /\ err' = [err EXCEPT ![c] = TransportFailure]
  /\ UNCHANGED <<maxAttempts, request, budget, attempt, ctx, reply, wait, open,
                 requests, elapsed, outcome>>

Do(c) ==
  /\ request[c].wellFormed
  /\ ContextLive(c)
  /\ Goto(c, "ready", "inflight")
  /\ requests' = [requests EXCEPT ![c] = @ + 1]
  /\ UNCHANGED <<maxAttempts, request, budget, attempt, ctx, reply, err, wait,
                 open, log, elapsed, outcome>>

\* Do returns a response, even when the context ended while it was coming in.
\* The seconds spent are those of the whole attempt, reading the body included:
\* http.Client.Timeout bounds both.
DoAnswers(c) ==
  \E r \in Replies, d \in 0..AttemptTimeout :
    /\ Goto(c, "inflight", "answered")
    /\ reply' = [reply EXCEPT ![c] = r]
    /\ open' = [open EXCEPT ![c] = @ + 1]
    /\ LogRequest(c, LogEntry(attempt[c], r.status, 0))
    /\ Spend(c, d)
    /\ UNCHANGED <<maxAttempts, request, budget, attempt, ctx, err, wait,
                   requests, outcome>>

\* A lost connection, the client's timeout or the end of the context.
DoFails(c) ==
  \E d \in 0..AttemptTimeout :
    /\ Goto(c, "inflight", "failed")
    /\ LogRequest(c, LogEntry(attempt[c], 0, 0))
    /\ err' = [err EXCEPT ![c] = TransportFailure]
    /\ Spend(c, d)
    /\ UNCHANGED <<maxAttempts, request, budget, attempt, ctx, reply, wait,
                   open, requests, outcome>>

\* Mutant: the body is dropped unclosed.
LeakBody(c) == reply' = [reply EXCEPT ![c] = NoReply] /\ UNCHANGED open

\* responseCloser.close, and the close of an attempt that failed.
CloseBody(c) ==
  /\ reply' = [reply EXCEPT ![c] = NoReply]
  /\ open' = [open EXCEPT ![c] = @ - 1]

\* A 2xx response leaves the executor with its body open.
AttemptSucceeds(c) ==
  /\ IsSuccess(reply[c].status)
  /\ Goto(c, "answered", "body")
  /\ UNCHANGED <<maxAttempts, request, budget, attempt, ctx, reply, err, wait,
                 open, log, requests, elapsed, outcome>>

\* Any other response is read, closed and turned into its typed error.
AttemptFails(c) ==
  /\ ~IsSuccess(reply[c].status)
  /\ Goto(c, "answered", "failed")
  /\ err' = [err EXCEPT ![c] =
               [type |-> ClassifyAPIError(reply[c]),
                retryAfter |-> ParseRetryAfter(reply[c].retryAfter)]]
  /\ CloseBody(c)
  /\ UNCHANGED <<maxAttempts, request, budget, attempt, ctx, wait, log,
                 requests, elapsed, outcome>>

(***************************************************************************)
(* go-retry, between two attempts.                                         *)
(***************************************************************************)

\* Mutant: the hint is honoured in full.
HonoredDelayUncapped(e) ==
  IF ~AsType(e.type, "RateLimitError") THEN 0 ELSE e.retryAfter

\* DelayFunc: the server's hint capped at the ceiling, 0 for "use backoff".
HonoredDelay(e) ==
  IF ~AsType(e.type, "RateLimitError") \/ e.retryAfter <= 0 THEN 0
  ELSE IF e.retryAfter < DelayCeiling THEN e.retryAfter ELSE DelayCeiling

\* Mutants: one attempt too many; the last attempt is taken for no attempt.
AttemptsLeftOneMore(c) == attempt[c] <= budget[c]
ExhaustedLater(c) == attempt[c] > budget[c]

AttemptsLeft(c) == attempt[c] < budget[c]
Exhausted(c) == attempt[c] >= budget[c]

GiveUp(c) ==
  /\ Goto(c, "failed", "done")
  /\ \/ ~IsRetryableError(err[c].type) /\ Return(c, "rejected", err[c].type)
     \/ /\ IsRetryableError(err[c].type)
        /\ Exhausted(c)
        /\ Return(c, "exhausted", err[c].type)
  /\ UNCHANGED <<maxAttempts, request, budget, attempt, ctx, reply, err, wait,
                 open, log, requests, elapsed>>

HonorRetryAfter(c) ==
  /\ IsRetryableError(err[c].type)
  /\ AttemptsLeft(c)
  /\ HonoredDelay(err[c]) > 0
  /\ Goto(c, "failed", "waiting")
  /\ wait' = [wait EXCEPT ![c] = HonoredDelay(err[c])]
  /\ LogRequest(c, LogEntry(attempt[c], 429, HonoredDelay(err[c])))
  /\ UNCHANGED <<maxAttempts, request, budget, attempt, ctx, reply, err, open,
                 requests, elapsed, outcome>>

\* Exponential backoff with jitter, capped at MaxDelay by the executor.
BackOff(c) ==
  /\ IsRetryableError(err[c].type)
  /\ AttemptsLeft(c)
  /\ HonoredDelay(err[c]) = 0
  /\ Goto(c, "failed", "waiting")
  /\ \E d \in 0..DelayCeiling : wait' = [wait EXCEPT ![c] = d]
  /\ UNCHANGED <<maxAttempts, request, budget, attempt, ctx, reply, err, open,
                 log, requests, elapsed, outcome>>

\* The timer wins the select (it may, even when the context has ended too).
NextAttempt(c) ==
  /\ Goto(c, "waiting", "ready")
  /\ attempt' = [attempt EXCEPT ![c] = @ + 1]
  /\ Spend(c, wait[c])
  /\ wait' = [wait EXCEPT ![c] = 0]
  /\ UNCHANGED <<maxAttempts, request, budget, ctx, reply, err, open, log,
                 requests, outcome>>

\* The context wins it: the last attempt's error stays in the chain.
WaitAborted(c) ==
  /\ ctx[c] # "live"
  /\ Goto(c, "waiting", "done")
  /\ \E d \in 0..wait[c] : Spend(c, d)
  /\ wait' = [wait EXCEPT ![c] = 0]
  /\ Return(c, ctx[c], err[c].type)
  /\ UNCHANGED <<maxAttempts, request, budget, attempt, ctx, reply, err, open,
                 log, requests>>

(***************************************************************************)
(* Back in request or getRaw, outside the executor: the deferred close     *)
(* runs whatever becomes of the body.                                      *)
(***************************************************************************)
LeaveRequest(c) ==
  /\ Goto(c, "body", "done")
  /\ CloseBody(c)
  /\ UNCHANGED <<maxAttempts, request, budget, attempt, ctx, err, wait, log,
                 requests, elapsed>>

BodyUsed(c) == LeaveRequest(c) /\ Return(c, "value", NoError)

\* A body that is not JSON, or that cannot be read to its end.
BodyBroken(c) ==
  /\ \/ request[c].mode = "decode" /\ Return(c, "corruption", NoError)
     \/ request[c].mode = "raw" /\ Return(c, "unread", Untyped)
  /\ LeaveRequest(c)

(***************************************************************************)
(* The caller cancels, or the deadline passes.                             *)
(***************************************************************************)
CtxEnds(c) ==
  /\ pc[c] \notin {"idle", "done"}
  /\ ctx[c] = "live"
  /\ \E how \in {"canceled", "deadline"} : ctx' = [ctx EXCEPT ![c] = how]
  /\ UNCHANGED <<maxAttempts, pc, request, budget, attempt, reply, err, wait,
                 open, log, requests, elapsed, outcome>>

Attempt(c) == BuildFails(c) \/ DoRefused(c) \/ Do(c)
Exchange(c) == DoAnswers(c) \/ DoFails(c)
Settle(c) == AttemptSucceeds(c) \/ AttemptFails(c)
Decide(c) == GiveUp(c) \/ HonorRetryAfter(c) \/ BackOff(c)
Wait(c) == NextAttempt(c) \/ WaitAborted(c)
Finish(c) == BodyUsed(c) \/ BodyBroken(c)

\* The steps the running program takes by itself.
Step(c) == Attempt(c) \/ Exchange(c) \/ Settle(c) \/ Decide(c) \/ Wait(c) \/ Finish(c)

Next == \E c \in Calls : DoRequest(c) \/ VerifyCredentials(c) \/ Step(c) \/ CtxEnds(c)

Spec == Init /\ [][Next]_vars

\* A goroutine that can run does run; Do returns by its timeout, timers fire.
Fairness == \A c \in Calls : WF_vars(Step(c))

FairSpec == Spec /\ Fairness

-----------------------------------------------------------------------------
(***************************************************************************)
(* Properties                                                              *)
(***************************************************************************)

\* Every variable keeps to the values of its Go counterpart.
TypeOK ==
  /\ maxAttempts \in Nat
  /\ pc \in [Calls -> {"idle", "ready", "inflight", "answered", "failed",
                       "waiting", "body", "done"}]
  /\ request \in [Calls -> Requests \cup {NoRequest}]
  /\ budget \in [Calls -> Nat]
  /\ attempt \in [Calls -> Nat]
  /\ ctx \in [Calls -> {"live", "canceled", "deadline"}]
  /\ reply \in [Calls -> Reply \cup {NoReply}]
  /\ err \in [Calls -> [type : ErrorTypes, retryAfter : Nat]]
  /\ wait \in [Calls -> Nat]
  /\ open \in [Calls -> Int]
  /\ log \in [Calls -> Seq([attempt : Nat, status : Nat, delay : Nat])]
  /\ requests \in [Calls -> Nat]
  /\ elapsed \in [Calls -> Nat]
  /\ outcome \in [Calls -> [kind : {"none", "rejected", "exhausted", "canceled",
                                    "deadline", "value", "corruption", "unread"},
                            type : ErrorTypes]]

\* client.go:215-221: VerifyCredentials works on a copy, so that whatever calls
\* run beside it, each ordinary call may send its full MaxAttempts requests and
\* each credential check exactly one.
BudgetIsolation ==
  \A c \in Calls :
    requests[c] <= IF c \in FailFast THEN 1 ELSE RetryMax + 1

\* A call whose attempts all failed retryably has spent its budget in full, which
\* is the four attempts Health documents when no retries are configured, a zero
\* among that: nothing another call does shortens the ladder, and no setting makes
\* it a single attempt (client.go:87-90, 115, 200-201, 221).
ExhaustionIsEarned ==
  \A c \in Calls :
    outcome[c].kind = "exhausted" =>
      attempt[c] = IF c \in FailFast THEN 1
                   ELSE IF MaxRetries > 0 THEN MaxRetries + 1 ELSE 4

\* Answers the doc of isRetryableError (client.go:151-156) calls terminal and
\* the code treats so; an accepted request is terminal too.
Terminal == {"AuthError", "NotFoundError", "SCAChallengeError", "APIError"}

\* No request leaves the client after a terminal answer to an earlier attempt,
\* nor after a 2xx one, whose body may still be on its way (client.go:343).
NoRequestAfterVerdict ==
  [][\A c \in Calls :
       requests'[c] > requests[c] =>
         err[c].type \notin Terminal /\ open[c] = 0]_vars

\* No request leaves the client once the call's context has ended
\* (client.go:385, 423 and the executor's context-aware delay).
NoRequestAfterCtxEnd ==
  [][\A c \in Calls : ctx[c] # "live" => requests'[c] = requests[c]]_vars

\* A call holds at most one response body, holds none while it waits for the
\* next attempt, and has closed it when it returns (client.go:236-244, 445-448).
BodyDiscipline ==
  \A c \in Calls :
    open[c] = IF pc[c] \in {"answered", "body"} THEN 1 ELSE 0

\* The entry before the i-th, or one of attempt 0.
EntryBefore(c, i) == IF i = 1 THEN LogEntry(0, 0, 0) ELSE log[c][i - 1]

\* What the Logger sees (options.go:30-52): attempts are numbered 1, 2, ...
\* with no gap, and a delay decision follows the 429 it is about, carries its
\* attempt number and never exceeds the configured ceiling.
LogTellsTheLadder ==
  \A c \in Calls : \A i \in DOMAIN log[c] :
    \/ /\ log[c][i].delay = 0
       /\ log[c][i].attempt = EntryBefore(c, i).attempt + 1
    \/ /\ log[c][i].delay \in 1..DelayCeiling
       /\ EntryBefore(c, i) = LogEntry(log[c][i].attempt, 429, 0)

\* What the call returns agrees with the last exchange the Logger saw: a value
\* only after a 2xx, a typed error only for the status that has that type, an
\* untyped error only when the last attempt got no answer (client.go:396-402).
\* A delay decision repeats the status it is about.
OutcomeMatchesLog ==
  \A c \in Calls :
    LET last == log[c][Len(log[c])]
        type == outcome[c].type
    IN pc[c] = "done" /\ request[c].wellFormed =>
         /\ outcome[c].kind \in {"value", "corruption", "unread"} <=> IsSuccess(last.status)
         /\ type = "RateLimitError" <=> last.status = 429
         /\ type = "ServerError" <=> last.status >= 500
         /\ type \in {"AuthError", "SCAChallengeError"} <=> last.status \in {401, 403}

\* The worst case Health documents (client.go:195-203): MaxAttempts timeouts
\* plus one capped delay between each two attempts.
TimeBudget ==
  \A c \in Calls :
    elapsed[c] <=
      IF c \in FailFast THEN AttemptTimeout
      ELSE (RetryMax + 1) * AttemptTimeout + RetryMax * DelayCeiling

\* A call that was made returns, whatever the server and the context do.
EveryCallReturns == \A c \in Calls : pc[c] # "idle" ~> pc[c] = "done"

\* README.md:954 and client.go:152-154 say a 400 is not retried.  It is: the
\* error is a *BadRequestError, which IsRetryableError does not name.
BadRequestIsFinal ==
  [][\A c \in Calls :
       requests'[c] > requests[c] => err[c].type # "BadRequestError"]_vars

(***************************************************************************)
(* Refinement: to its caller a call is an ApiCall.                         *)
(***************************************************************************)
Phase(c) ==
  CASE pc[c] = "idle" -> "idle"
    [] pc[c] \in {"inflight", "answered"} -> "awaiting"
    [] pc[c] = "done" -> "returned"
    [] OTHER -> "running"

\* What the server's last answer allows the call to do next.
Answer(c) ==
  IF pc[c] \in {"idle", "inflight", "answered"} \/ requests[c] = 0 THEN "none"
  ELSE IF pc[c] = "body" \/ outcome[c].kind \in {"value", "corruption", "unread"}
       THEN "accepted"
  ELSE IF IsRetryableError(err[c].type) THEN "again" ELSE "refused"

Verdict(c) ==
  CASE outcome[c].kind \in {"exhausted", "canceled", "deadline"} -> "failed"
    [] outcome[c].kind \in {"corruption", "unread"} -> "unreadable"
    [] OTHER -> outcome[c].kind

Promise == INSTANCE ApiCall WITH
  Limit  <- [c \in Calls |-> IF c \in FailFast THEN 1 ELSE RetryMax + 1],
  phase  <- [c \in Calls |-> Phase(c)],
  sends  <- requests,
  answer <- [c \in Calls |-> Answer(c)],
  verdict <- [c \in Calls |-> Verdict(c)]

\* The ladder implements what ApiCall promises, liveness included.
ImplementsApiCall == Promise!FairSpec
=============================================================================
