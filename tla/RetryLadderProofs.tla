------------------------- MODULE RetryLadderProofs --------------------------
(***************************************************************************)
(* The safety of the ladder for every set of calls, every WithRetry and    *)
(* every set of answers: the invariants and action properties TLC checks   *)
(* on MCRetryLadder's instances, and the safety of the refinement.  One    *)
(* inductive invariant carries them; the clock, the caller's view and the  *)
(* log each add an invariant of their own to it.                           *)
(***************************************************************************)
EXTENDS RetryLadder, TLAPS

\* The attempts a call may make, and the seconds its finished ones may have
\* taken, with the wait after each of them.
Ladder(c) == IF c \in FailFast THEN 1 ELSE RetryMax + 1
Finished(c) == (attempt[c] - 1) * (AttemptTimeout + DelayCeiling)

\* The shared client is never changed, and each executor took its own copy.
ConfigInv ==
  /\ maxAttempts = RetryMax + 1
  /\ \A c \in Calls : pc[c] # "idle" => budget[c] = Ladder(c)

\* Attempts are numbered from 1 to the budget, and at most one request leaves
\* the client in each.
AttemptInv ==
  \A c \in Calls :
    /\ pc[c] = "idle" => attempt[c] = 0 /\ requests[c] = 0
    /\ pc[c] # "idle" => 1 <= attempt[c] /\ attempt[c] <= budget[c]
    /\ pc[c] = "waiting" => attempt[c] < budget[c]
    /\ requests[c] <= attempt[c]
    /\ pc[c] = "ready" => requests[c] < attempt[c]

\* A call that is about to make another attempt failed retryably before.
RetryInv ==
  \A c \in Calls : pc[c] \in {"idle", "ready", "waiting"} => IsRetryableError(err[c].type)

EarnedInv ==
  \A c \in Calls :
    outcome[c].kind = "exhausted" => pc[c] = "done" /\ attempt[c] >= budget[c]

IInv == TypeOK /\ ConfigInv /\ AttemptInv /\ RetryInv /\ EarnedInv /\ BodyDiscipline

-----------------------------------------------------------------------------
(***************************************************************************)
(* Lemmas about the operators.                                             *)
(***************************************************************************)

\* The ladder's constants are counts and seconds, whatever WithRetry was given.
LEMMA LimitsType == RetryMax \in Nat /\ DelayCeiling \in Nat
  BY LimitsAssumption DEF RetryMax, DelayCeiling, DefaultMaxRetries, DefaultRetryMaxDelay

\* An answer always has one of the seven types, and a usable hint.
LEMMA ClassifyType ==
  ASSUME NEW r \in Reply \cup {NoReply}
  PROVE  /\ ClassifyAPIError(r) \in ErrorTypes
         /\ ParseRetryAfter(r.retryAfter) \in Nat
  <1>1. ClassifyAPIError(r) \in ErrorTypes
    BY DEF ClassifyAPIError, ErrorTypes, APIErrorTypes
  <1>2. ParseRetryAfter(r.retryAfter) \in Nat
    BY DEF ParseRetryAfter, DefaultRetryAfter, Reply, NoReply
  <1>3. QED BY <1>1, <1>2

\* A status is a number the Logger can be given.
LEMMA StatusType == ASSUME NEW r \in Reply PROVE r.status \in Nat
  BY DEF Reply, Status

\* The server's hint never exceeds the configured ceiling (client.go:125).
LEMMA HonoredDelayBound ==
  ASSUME NEW e \in [type : ErrorTypes, retryAfter : Nat]
  PROVE  HonoredDelay(e) \in 0..DelayCeiling
  BY LimitsType DEF HonoredDelay

-----------------------------------------------------------------------------
\* Every variable of the ladder keeps to the values of its Go counterpart, for
\* every configuration and every set of answers.
THEOREM TypeCorrect == Spec => []TypeOK
<1>1. Init => TypeOK
  BY LimitsType DEF Init, TypeOK, NoReply, NoFailure, NoOutcome, NoRequest, NoError,
     ErrorTypes
<1>2. TypeOK /\ [Next]_vars => TypeOK'
  <2> SUFFICES ASSUME TypeOK, [Next]_vars PROVE TypeOK'
    OBVIOUS
  <2> USE DEF TypeOK, Goto
  <2>1. ASSUME NEW c \in Calls, DoRequest(c) PROVE TypeOK'
    BY <2>1 DEF DoRequest, Enter
  <2>2. ASSUME NEW c \in Calls, VerifyCredentials(c) PROVE TypeOK'
    BY <2>2 DEF VerifyCredentials, Enter, Requests, Modes
  <2>3. ASSUME NEW c \in Calls, Attempt(c) PROVE TypeOK'
    <3> TransportFailure \in [type : ErrorTypes, retryAfter : Nat]
      BY DEF TransportFailure, ErrorTypes
    <3>1. CASE BuildFails(c)
      BY <3>1 DEF BuildFails
    <3>2. CASE DoRefused(c)
      <4>1. log' \in [Calls -> Seq([attempt : Nat, status : Nat, delay : Nat])]
        BY <3>2 DEF DoRefused, LogRequest, LogEntry
      <4>2. QED BY <3>2, <4>1 DEF DoRefused
    <3>3. CASE Do(c)
      BY <3>3 DEF Do
    <3>4. QED BY <2>3, <3>1, <3>2, <3>3 DEF Attempt
  <2>4. ASSUME NEW c \in Calls, Exchange(c) PROVE TypeOK'
    <3> TransportFailure \in [type : ErrorTypes, retryAfter : Nat]
      BY DEF TransportFailure, ErrorTypes
    <3>1. CASE DoAnswers(c)
      <4>1. PICK r \in Replies, d \in 0..AttemptTimeout : DoAnswers(c)!(r, d)
        BY <3>1 DEF DoAnswers
      <4>2. r \in Reply /\ d \in Nat
        BY RepliesAssumption, LimitsAssumption
      <4>6. r.status \in Nat
        BY <4>2, StatusType
      <4>3. elapsed' \in [Calls -> Nat] /\ open' \in [Calls -> Int]
        BY <4>1, <4>2 DEF Spend
      <4>4. log' \in [Calls -> Seq([attempt : Nat, status : Nat, delay : Nat])]
        BY <4>1, <4>6 DEF LogRequest, LogEntry
      <4>5. QED BY <4>1, <4>2, <4>3, <4>4
    <3>2. CASE DoFails(c)
      <4>1. PICK d \in 0..AttemptTimeout : DoFails(c)!(d)
        BY <3>2 DEF DoFails
      <4>2. elapsed' \in [Calls -> Nat]
        BY <4>1, LimitsAssumption DEF Spend
      <4>3. log' \in [Calls -> Seq([attempt : Nat, status : Nat, delay : Nat])]
        BY <4>1 DEF LogRequest, LogEntry
      <4>4. QED BY <4>1, <4>2, <4>3
    <3>3. QED BY <2>4, <3>1, <3>2 DEF Exchange
  <2>5. ASSUME NEW c \in Calls, Settle(c) PROVE TypeOK'
    <3>1. CASE AttemptSucceeds(c)
      BY <3>1 DEF AttemptSucceeds
    <3>2. CASE AttemptFails(c)
      <4>1. open' \in [Calls -> Int] /\ reply' \in [Calls -> Reply \cup {NoReply}]
        BY <3>2 DEF AttemptFails, CloseBody
      <4>3. err' \in [Calls -> [type : ErrorTypes, retryAfter : Nat]]
        BY <3>2, ClassifyType DEF AttemptFails
      <4>4. QED BY <3>2, <4>1, <4>3 DEF AttemptFails
    <3>3. QED BY <2>5, <3>1, <3>2 DEF Settle
  <2>6. ASSUME NEW c \in Calls, Decide(c) PROVE TypeOK'
    <3>1. CASE GiveUp(c)
      <4>1. PICK kind \in {"rejected", "exhausted"} : Return(c, kind, err[c].type)
        BY <3>1 DEF GiveUp
      <4>2. outcome' \in [Calls -> [kind : {"none", "rejected", "exhausted", "canceled",
                                           "deadline", "value", "corruption", "unread"},
                                   type : ErrorTypes]]
        BY <4>1 DEF Return
      <4>3. QED BY <3>1, <4>2 DEF GiveUp
    <3>2. CASE HonorRetryAfter(c)
      <4>1. HonoredDelay(err[c]) \in Nat
        BY HonoredDelayBound, LimitsType
      <4>2. wait' \in [Calls -> Nat]
        BY <3>2, <4>1 DEF HonorRetryAfter
      <4>3. log' \in [Calls -> Seq([attempt : Nat, status : Nat, delay : Nat])]
        BY <3>2, <4>1 DEF HonorRetryAfter, LogRequest, LogEntry
      <4>4. QED BY <3>2, <4>2, <4>3 DEF HonorRetryAfter
    <3>3. CASE BackOff(c)
      <4>1. wait' \in [Calls -> Nat]
        BY <3>3, LimitsType DEF BackOff
      <4>2. QED BY <3>3, <4>1 DEF BackOff
    <3>4. QED BY <2>6, <3>1, <3>2, <3>3 DEF Decide
  <2>7. ASSUME NEW c \in Calls, Wait(c) PROVE TypeOK'
    <3>1. CASE NextAttempt(c)
      <4>1. /\ wait' \in [Calls -> Nat]
            /\ attempt' \in [Calls -> Nat]
            /\ elapsed' \in [Calls -> Nat]
        BY <3>1 DEF NextAttempt, Spend
      <4>2. QED BY <3>1, <4>1 DEF NextAttempt
    <3>2. CASE WaitAborted(c)
      <4>1. wait' \in [Calls -> Nat] /\ elapsed' \in [Calls -> Nat]
        BY <3>2 DEF WaitAborted, Spend
      <4>2. QED BY <3>2, <4>1 DEF WaitAborted, Return
    <3>3. QED BY <2>7, <3>1, <3>2 DEF Wait
  <2>8. ASSUME NEW c \in Calls, Finish(c) PROVE TypeOK'
    <3>1. LeaveRequest(c) /\ \E kind \in {"value", "corruption", "unread"},
                                type \in {NoError, Untyped} : Return(c, kind, type)
      BY <2>8 DEF Finish, BodyUsed, BodyBroken
    <3>2. open' \in [Calls -> Int] /\ reply' \in [Calls -> Reply \cup {NoReply}]
      BY <3>1 DEF LeaveRequest, CloseBody
    <3>3. outcome' \in [Calls -> [kind : {"none", "rejected", "exhausted", "canceled",
                                         "deadline", "value", "corruption", "unread"},
                                 type : ErrorTypes]]
      BY <3>1 DEF Return, ErrorTypes
    <3>4. QED BY <3>1, <3>2, <3>3 DEF LeaveRequest
  <2>9. ASSUME NEW c \in Calls, CtxEnds(c) PROVE TypeOK'
    BY <2>9 DEF CtxEnds
  <2>10. CASE UNCHANGED vars
    BY <2>10 DEF vars
  <2>11. QED
    BY <2>1, <2>2, <2>3, <2>4, <2>5, <2>6, <2>7, <2>8, <2>9, <2>10 DEF Next, Step
<1>3. QED BY <1>1, <1>2, PTL DEF Spec

-----------------------------------------------------------------------------
(***************************************************************************)
(* The inductive invariant.  The three theorems on it split its conjuncts  *)
(* by what they speak of: attempts and configuration, the last error, and  *)
(* the response bodies.                                                    *)
(***************************************************************************)

\* The part of TypeOK the arithmetic below needs.
LEMMA CounterTypes ==
  ASSUME TypeOK
  PROVE  /\ budget \in [Calls -> Nat]
         /\ attempt \in [Calls -> Nat]
         /\ requests \in [Calls -> Nat]
         /\ wait \in [Calls -> Nat]
         /\ elapsed \in [Calls -> Nat]
         /\ ctx \in [Calls -> {"live", "canceled", "deadline"}]
  BY DEF TypeOK

\* A step keeps the numbering of attempts within each executor's own budget
\* (client.go:115, 215-221).
LEMMA AttemptsStep ==
  ASSUME TypeOK, TypeOK', ConfigInv, AttemptInv, [Next]_vars
  PROVE  ConfigInv' /\ AttemptInv'
<1> DEFINE Counts ==
      /\ DOMAIN pc = Calls
      /\ budget \in [Calls -> Nat]
      /\ attempt \in [Calls -> Nat]
      /\ requests \in [Calls -> Nat]
<1> Counts
  BY DEF TypeOK
<1> USE DEF ConfigInv, AttemptInv, Ladder, Goto
<1>1. ASSUME NEW c \in Calls, DoRequest(c) PROVE ConfigInv' /\ AttemptInv'
  BY <1>1, LimitsType DEF DoRequest, Enter
<1>2. ASSUME NEW c \in Calls, VerifyCredentials(c) PROVE ConfigInv' /\ AttemptInv'
  BY <1>2 DEF VerifyCredentials, Enter
<1>3. ASSUME NEW c \in Calls, Attempt(c) PROVE ConfigInv' /\ AttemptInv'
  BY <1>3 DEF Attempt, BuildFails, DoRefused, Do
<1>4. ASSUME NEW c \in Calls, Exchange(c) PROVE ConfigInv' /\ AttemptInv'
  BY <1>4 DEF Exchange, DoAnswers, DoFails
<1>5. ASSUME NEW c \in Calls, Settle(c) PROVE ConfigInv' /\ AttemptInv'
  BY <1>5 DEF Settle, AttemptSucceeds, AttemptFails
<1>6. ASSUME NEW c \in Calls, Decide(c) PROVE ConfigInv' /\ AttemptInv'
  BY <1>6 DEF Decide, GiveUp, HonorRetryAfter, BackOff, AttemptsLeft
<1>7. ASSUME NEW c \in Calls, Wait(c) PROVE ConfigInv' /\ AttemptInv'
  BY <1>7 DEF Wait, NextAttempt, WaitAborted
<1>8. ASSUME NEW c \in Calls, Finish(c) PROVE ConfigInv' /\ AttemptInv'
  BY <1>8 DEF Finish, BodyUsed, BodyBroken, LeaveRequest
<1>9. ASSUME NEW c \in Calls, CtxEnds(c) PROVE ConfigInv' /\ AttemptInv'
  BY <1>9 DEF CtxEnds
<1>10. CASE UNCHANGED vars
  BY <1>10 DEF vars
<1>11. QED
  BY <1>1, <1>2, <1>3, <1>4, <1>5, <1>6, <1>7, <1>8, <1>9, <1>10 DEF Next, Step

\* A step keeps another attempt to calls that failed retryably, and exhaustion
\* to calls that used their budget up.
LEMMA ErrorsStep ==
  ASSUME TypeOK, TypeOK', RetryInv, EarnedInv, [Next]_vars
  PROVE  RetryInv' /\ EarnedInv'
<1> DEFINE Domains == /\ DOMAIN pc = Calls /\ DOMAIN err = Calls
                      /\ DOMAIN outcome = Calls /\ DOMAIN attempt = Calls
                      /\ DOMAIN budget = Calls
<1> Domains
  BY DEF TypeOK
<1> USE DEF RetryInv, EarnedInv, Goto
<1>1. ASSUME NEW c \in Calls, DoRequest(c) \/ VerifyCredentials(c)
      PROVE  RetryInv' /\ EarnedInv'
  BY <1>1 DEF DoRequest, VerifyCredentials, Enter
<1>2. ASSUME NEW c \in Calls, Attempt(c) \/ Exchange(c) \/ Settle(c)
      PROVE  RetryInv' /\ EarnedInv'
  BY <1>2 DEF Attempt, BuildFails, DoRefused, Do, Exchange, DoAnswers, DoFails,
              Settle, AttemptSucceeds, AttemptFails
<1>3. ASSUME NEW c \in Calls, Decide(c) PROVE RetryInv' /\ EarnedInv'
  <2>1. CASE GiveUp(c)
    BY <2>1 DEF GiveUp, Exhausted, Return
  <2>2. CASE HonorRetryAfter(c) \/ BackOff(c)
    BY <2>2 DEF HonorRetryAfter, BackOff
  <2>3. QED BY <1>3, <2>1, <2>2 DEF Decide
<1>4. ASSUME NEW c \in Calls, Wait(c) PROVE RetryInv' /\ EarnedInv'
  <2>1. CASE NextAttempt(c)
    BY <2>1 DEF NextAttempt
  <2>2. CASE WaitAborted(c)
    BY <2>2, CounterTypes DEF WaitAborted, Return
  <2>3. QED BY <1>4, <2>1, <2>2 DEF Wait
<1>5. ASSUME NEW c \in Calls, Finish(c) PROVE RetryInv' /\ EarnedInv'
  BY <1>5 DEF Finish, BodyUsed, BodyBroken, LeaveRequest, Return
<1>6. ASSUME NEW c \in Calls, CtxEnds(c) PROVE RetryInv' /\ EarnedInv'
  BY <1>6 DEF CtxEnds
<1>7. CASE UNCHANGED vars
  BY <1>7 DEF vars
<1>8. QED BY <1>1, <1>2, <1>3, <1>4, <1>5, <1>6, <1>7 DEF Next, Step

\* A step keeps exactly the bodies open that a call still has to look at.
LEMMA BodiesStep ==
  ASSUME TypeOK, TypeOK', BodyDiscipline, [Next]_vars
  PROVE  BodyDiscipline'
<1> DEFINE Domains == DOMAIN pc = Calls /\ open \in [Calls -> Int]
<1> Domains
  BY DEF TypeOK
<1> USE DEF BodyDiscipline, Goto
<1>1. ASSUME NEW c \in Calls, DoRequest(c) \/ VerifyCredentials(c) PROVE BodyDiscipline'
  BY <1>1 DEF DoRequest, VerifyCredentials, Enter
<1>2. ASSUME NEW c \in Calls, Attempt(c) PROVE BodyDiscipline'
  BY <1>2 DEF Attempt, BuildFails, DoRefused, Do
<1>3. ASSUME NEW c \in Calls, Exchange(c) PROVE BodyDiscipline'
  BY <1>3 DEF Exchange, DoAnswers, DoFails
<1>4. ASSUME NEW c \in Calls, Settle(c) PROVE BodyDiscipline'
  BY <1>4 DEF Settle, AttemptSucceeds, AttemptFails, CloseBody
<1>5. ASSUME NEW c \in Calls, Decide(c) \/ Wait(c) PROVE BodyDiscipline'
  BY <1>5 DEF Decide, GiveUp, HonorRetryAfter, BackOff, Wait, NextAttempt, WaitAborted
<1>6. ASSUME NEW c \in Calls, Finish(c) PROVE BodyDiscipline'
  BY <1>6 DEF Finish, BodyUsed, BodyBroken, LeaveRequest, CloseBody
<1>7. ASSUME NEW c \in Calls, CtxEnds(c) PROVE BodyDiscipline'
  BY <1>7 DEF CtxEnds
<1>8. CASE UNCHANGED vars
  BY <1>8 DEF vars
<1>9. QED BY <1>1, <1>2, <1>3, <1>4, <1>5, <1>6, <1>7, <1>8 DEF Next, Step

\* The ladder never leaves its inductive invariant.
THEOREM LadderInvariant == Spec => []IInv
<1>1. Init => IInv
  <2> SUFFICES ASSUME Init PROVE IInv
    OBVIOUS
  <2>1. TypeOK
    BY LimitsType DEF Init, TypeOK, NoReply, NoFailure, NoOutcome, NoRequest, NoError,
       ErrorTypes
  <2>2. ConfigInv /\ AttemptInv
    BY DEF Init, ConfigInv, AttemptInv
  <2>3. RetryInv /\ EarnedInv
    BY DEF Init, RetryInv, EarnedInv, NoFailure, NoOutcome, NoError, IsRetryableError, AsType
  <2>4. BodyDiscipline
    BY DEF Init, BodyDiscipline
  <2>5. QED BY <2>1, <2>2, <2>3, <2>4 DEF IInv
<1>2. TypeOK' /\ IInv /\ [Next]_vars => IInv'
  BY AttemptsStep, ErrorsStep, BodiesStep DEF IInv
<1>3. QED BY <1>1, <1>2, TypeCorrect, PTL DEF Spec

-----------------------------------------------------------------------------
(***************************************************************************)
(* What follows from it.                                                   *)
(***************************************************************************)

\* VerifyCredentials sends one request at most and costs no other call any of
\* its own, for every number of calls (client.go:215-221).
THEOREM BudgetsAreIsolated == Spec => []BudgetIsolation
<1>1. IInv => BudgetIsolation
  BY LimitsType, CounterTypes DEF IInv, ConfigInv, AttemptInv, BudgetIsolation, Ladder
<1>2. QED BY <1>1, LadderInvariant, PTL

\* A call reports exhaustion only after its full budget, the documented four
\* attempts when none is configured (client.go:87-90, 115, 200-201).
THEOREM ExhaustionTakesTheBudget == Spec => []ExhaustionIsEarned
<1>1. IInv => ExhaustionIsEarned
  BY LimitsType, CounterTypes
  DEF IInv, ConfigInv, AttemptInv, EarnedInv, ExhaustionIsEarned, Ladder, RetryMax,
      DefaultMaxRetries
<1>2. QED BY <1>1, LadderInvariant, PTL

\* Every response body is closed by the time its call waits or returns.
THEOREM BodiesAreClosed == Spec => []BodyDiscipline
<1>1. IInv => BodyDiscipline
  BY DEF IInv
<1>2. QED BY <1>1, LadderInvariant, PTL

\* Only Do makes a request leave the client, and only the one of its call.
LEMMA OnlyDoSends ==
  ASSUME [Next]_vars
  PROVE  requests' = requests \/ \E d \in Calls : Do(d)
<1>1. ASSUME NEW d \in Calls, DoRequest(d) \/ VerifyCredentials(d) \/ CtxEnds(d)
      PROVE  requests' = requests
  BY <1>1 DEF DoRequest, VerifyCredentials, Enter, CtxEnds
<1>2. ASSUME NEW d \in Calls, Attempt(d) PROVE requests' = requests \/ Do(d)
  BY <1>2 DEF Attempt, BuildFails, DoRefused
<1>3. ASSUME NEW d \in Calls, Exchange(d) \/ Settle(d) PROVE requests' = requests
  BY <1>3 DEF Exchange, DoAnswers, DoFails, Settle, AttemptSucceeds, AttemptFails
<1>4. ASSUME NEW d \in Calls, Decide(d) \/ Wait(d) PROVE requests' = requests
  BY <1>4 DEF Decide, GiveUp, HonorRetryAfter, BackOff, Wait, NextAttempt, WaitAborted
<1>5. ASSUME NEW d \in Calls, Finish(d) PROVE requests' = requests
  BY <1>5 DEF Finish, BodyUsed, BodyBroken, LeaveRequest
<1>6. CASE UNCHANGED vars
  BY <1>6 DEF vars
<1>7. QED BY <1>1, <1>2, <1>3, <1>4, <1>5, <1>6 DEF Next, Step

\* A request that leaves the client belongs to the call whose Do it is.
LEMMA DoSendsItsOwn ==
  ASSUME requests \in [Calls -> Nat], NEW c \in Calls, NEW d \in Calls, Do(d),
         requests'[c] # requests[c]
  PROVE  c = d
  BY DEF Do

\* No request follows a terminal answer or an accepted request.
THEOREM NoRequestFollowsAVerdict == Spec => NoRequestAfterVerdict
<1>1. ASSUME IInv, [Next]_vars, NEW c \in Calls, requests'[c] > requests[c]
      PROVE  err[c].type \notin Terminal /\ open[c] = 0
  <2> requests \in [Calls -> Nat]
    BY <1>1 DEF IInv, TypeOK
  <2>1. pc[c] = "ready"
    BY <1>1, OnlyDoSends, DoSendsItsOwn DEF Do, Goto
  <2>2. IsRetryableError(err[c].type) /\ open[c] = 0
    BY <1>1, <2>1 DEF IInv, RetryInv, BodyDiscipline
  <2>3. QED BY <2>2 DEF IsRetryableError, AsType, Terminal
<1>2. IInv /\ [Next]_vars =>
        [\A c \in Calls : requests'[c] > requests[c] =>
            err[c].type \notin Terminal /\ open[c] = 0]_vars
  BY <1>1
<1>3. QED BY <1>2, LadderInvariant, PTL DEF Spec, NoRequestAfterVerdict

\* No request leaves the client once the context of its call has ended.
THEOREM NoRequestFollowsCtxEnd == Spec => NoRequestAfterCtxEnd
<1>1. ASSUME TypeOK, [Next]_vars, NEW c \in Calls, ctx[c] # "live"
      PROVE  requests'[c] = requests[c]
  <2> requests \in [Calls -> Nat]
    BY <1>1 DEF TypeOK
  <2>1. ~Do(c)
    BY <1>1 DEF Do, ContextLive
  <2>2. QED BY <1>1, <2>1, OnlyDoSends, DoSendsItsOwn
<1>2. TypeOK /\ [Next]_vars =>
        [\A c \in Calls : ctx[c] # "live" => requests'[c] = requests[c]]_vars
  BY <1>1
<1>3. QED BY <1>2, TypeCorrect, PTL DEF Spec, NoRequestAfterCtxEnd

-----------------------------------------------------------------------------
(***************************************************************************)
(* The worst case of a call.  ClockInv charges every finished attempt, and *)
(* the wait after it, in full.                                             *)
(***************************************************************************)
ClockInv ==
  \A c \in Calls :
    /\ pc[c] = "idle" => elapsed[c] = 0
    /\ pc[c] \in {"ready", "inflight"} => elapsed[c] <= Finished(c)
    /\ pc[c] \in {"answered", "failed", "body", "waiting"} =>
         elapsed[c] <= Finished(c) + AttemptTimeout
    /\ pc[c] = "waiting" => wait[c] <= DelayCeiling
    /\ pc[c] = "done" =>
         \/ elapsed[c] <= Finished(c) + AttemptTimeout
         \/ /\ attempt[c] < budget[c]
            /\ elapsed[c] <= Finished(c) + AttemptTimeout + DelayCeiling

\* One more finished attempt adds one timeout and one ceiling.
LEMMA FinishedGrows ==
  ASSUME NEW n \in Nat, NEW k \in Nat
  PROVE  (n + 1) * k = n * k + k
  OBVIOUS

\* The worst case of a whole ladder is its timeouts plus its delays.
LEMMA FinishedSplits ==
  ASSUME NEW n \in Nat, NEW t \in Nat, NEW d \in Nat
  PROVE  n * (t + d) + t = (n + 1) * t + n * d
  OBVIOUS

\* More finished attempts never take less time.
LEMMA FinishedMonotone ==
  ASSUME NEW m \in Nat, NEW n \in Nat, NEW k \in Nat, m <= n
  PROVE  m * k <= n * k
<1>1. PICK d \in Nat : n = m + d
  <2>1. n - m \in Nat /\ n = m + (n - m)
    OBVIOUS
  <2>2. QED BY <2>1
<1>2. n * k = m * k + d * k /\ d * k \in Nat /\ m * k \in Nat
  BY <1>1
<1>3. QED BY <1>2

\* A step spends no more than the attempts and waits it ends allow.
LEMMA ClockStep ==
  ASSUME TypeOK, TypeOK', AttemptInv, ClockInv, [Next]_vars
  PROVE  ClockInv'
<1> DEFINE Span == AttemptTimeout + DelayCeiling
<1>0. AttemptTimeout \in Nat /\ DelayCeiling \in Nat /\ Span \in Nat
  BY LimitsAssumption, LimitsType
<1> DOMAIN pc = Calls
  BY DEF TypeOK
<1> USE CounterTypes DEF Goto
<1>1. ASSUME NEW c \in Calls, DoRequest(c) \/ VerifyCredentials(c) PROVE ClockInv'
  <2>1. attempt'[c] = 1 /\ pc'[c] = "ready" /\ elapsed'[c] = 0
    BY <1>1 DEF DoRequest, VerifyCredentials, Enter, ClockInv
  <2>2. Finished(c)' = 0
    BY <2>1, <1>0 DEF Finished
  <2>3. QED BY <1>1, <2>1, <2>2 DEF DoRequest, VerifyCredentials, Enter, ClockInv, Finished
<1>2. ASSUME NEW c \in Calls, Attempt(c) PROVE ClockInv'
  <2>1. UNCHANGED <<attempt, elapsed, wait, budget>>
    BY <1>2 DEF Attempt, BuildFails, DoRefused, Do
  <2>2. pc[c] = "ready" /\ \E to \in {"failed", "inflight"} : pc' = [pc EXCEPT ![c] = to]
    BY <1>2 DEF Attempt, BuildFails, DoRefused, Do
  <2>3. elapsed[c] <= Finished(c) + AttemptTimeout
    <3>1. Finished(c) \in Int
      BY <1>0 DEF Finished
    <3>2. QED BY <2>2, <3>1, <1>0 DEF ClockInv
  <2>4. QED BY <2>1, <2>2, <2>3 DEF ClockInv, Finished
<1>3. ASSUME NEW c \in Calls, Exchange(c) PROVE ClockInv'
  <2>1. UNCHANGED <<attempt, wait, budget>>
    BY <1>3 DEF Exchange, DoAnswers, DoFails
  <2>2. pc[c] = "inflight" /\ \E to \in {"failed", "answered"} : pc' = [pc EXCEPT ![c] = to]
    BY <1>3 DEF Exchange, DoAnswers, DoFails
  <2>3. PICK d \in 0..AttemptTimeout : elapsed' = [elapsed EXCEPT ![c] = @ + d]
    BY <1>3 DEF Exchange, DoAnswers, DoFails, Spend
  <2>4. elapsed'[c] <= Finished(c) + AttemptTimeout
    <3>1. Finished(c) \in Int
      BY <1>0 DEF Finished
    <3>2. QED BY <2>2, <2>3, <3>1, <1>0 DEF ClockInv
  <2>5. QED BY <2>1, <2>2, <2>3, <2>4 DEF ClockInv, Finished
<1>4. ASSUME NEW c \in Calls, Settle(c) \/ Finish(c) PROVE ClockInv'
  <2>1. UNCHANGED <<attempt, elapsed, wait, budget>>
    BY <1>4 DEF Settle, AttemptSucceeds, AttemptFails, Finish, BodyUsed, BodyBroken,
                LeaveRequest
  <2>2. /\ pc[c] \in {"answered", "body"}
        /\ \E to \in {"body", "failed", "done"} : pc' = [pc EXCEPT ![c] = to]
    BY <1>4 DEF Settle, AttemptSucceeds, AttemptFails, Finish, BodyUsed, BodyBroken,
                LeaveRequest
  <2>3. QED BY <2>1, <2>2 DEF ClockInv, Finished
<1>5. ASSUME NEW c \in Calls, Decide(c) PROVE ClockInv'
  <2>1. UNCHANGED <<attempt, elapsed, budget>>
    BY <1>5 DEF Decide, GiveUp, HonorRetryAfter, BackOff
  <2>2. CASE GiveUp(c)
    BY <2>1, <2>2 DEF GiveUp, ClockInv, Finished
  <2>3. CASE HonorRetryAfter(c) \/ BackOff(c)
    <3>1. err[c] \in [type : ErrorTypes, retryAfter : Nat]
      BY DEF TypeOK
    <3>2. PICK d \in 0..DelayCeiling : wait' = [wait EXCEPT ![c] = d]
      BY <2>3, <3>1, HonoredDelayBound DEF HonorRetryAfter, BackOff
    <3>3. pc[c] = "failed" /\ pc' = [pc EXCEPT ![c] = "waiting"]
      BY <2>3 DEF HonorRetryAfter, BackOff
    <3>4. QED BY <2>1, <3>2, <3>3, <1>0 DEF ClockInv, Finished
  <2>4. QED BY <1>5, <2>2, <2>3 DEF Decide
<1>6. ASSUME NEW c \in Calls, NextAttempt(c) PROVE ClockInv'
  <2>1. /\ pc[c] = "waiting" /\ pc' = [pc EXCEPT ![c] = "ready"]
        /\ attempt' = [attempt EXCEPT ![c] = @ + 1]
        /\ elapsed' = [elapsed EXCEPT ![c] = @ + wait[c]]
        /\ wait' = [wait EXCEPT ![c] = 0]
        /\ budget' = budget
    BY <1>6 DEF NextAttempt, Spend
  <2>2. attempt[c] \in Nat /\ attempt[c] >= 1 /\ attempt[c] - 1 \in Nat
    BY <2>1 DEF AttemptInv
  <2>3. attempt[c] * Span = (attempt[c] - 1) * Span + Span
    BY <2>2, <1>0, FinishedGrows
  <2>4. Finished(c)' = Finished(c) + Span /\ Finished(c) \in Int
    BY <2>1, <2>2, <2>3, <1>0 DEF Finished
  <2>5. elapsed'[c] <= Finished(c)'
    BY <2>1, <2>4, <1>0 DEF ClockInv
  <2>6. QED BY <2>1, <2>5 DEF ClockInv, Finished
<1>7. ASSUME NEW c \in Calls, WaitAborted(c) PROVE ClockInv'
  <2>1. /\ pc[c] = "waiting" /\ pc' = [pc EXCEPT ![c] = "done"]
        /\ UNCHANGED <<attempt, budget>>
        /\ wait' = [wait EXCEPT ![c] = 0]
    BY <1>7 DEF WaitAborted
  <2>2. PICK d \in 0..wait[c] : elapsed' = [elapsed EXCEPT ![c] = @ + d]
    BY <1>7 DEF WaitAborted, Spend
  <2>3. attempt[c] < budget[c] /\ Finished(c) \in Int
    BY <2>1, <1>0 DEF AttemptInv, Finished
  <2>4. elapsed'[c] <= Finished(c) + AttemptTimeout + DelayCeiling
    BY <2>1, <2>2, <2>3, <1>0 DEF ClockInv
  <2>5. QED BY <2>1, <2>2, <2>3, <2>4 DEF ClockInv, Finished
<1>8. ASSUME NEW c \in Calls, CtxEnds(c) PROVE ClockInv'
  BY <1>8 DEF CtxEnds, ClockInv, Finished
<1>9. CASE UNCHANGED vars
  BY <1>9 DEF vars, ClockInv, Finished
<1>10. QED
  BY <1>1, <1>2, <1>3, <1>4, <1>5, <1>6, <1>7, <1>8, <1>9 DEF Next, Step, Wait

\* No call outlives the worst case documented for Health (client.go:195-203),
\* whatever the attempts, hints and backoffs were.
THEOREM WorstCase == Spec => []TimeBudget
<1>1. Init => ClockInv
  BY DEF Init, ClockInv
<1>2. IInv /\ TypeOK' /\ ClockInv /\ [Next]_vars => ClockInv'
  BY ClockStep DEF IInv
<1>3. IInv /\ ClockInv => TimeBudget
  <2> SUFFICES ASSUME IInv, ClockInv, NEW c \in Calls
               PROVE  elapsed[c] <= IF c \in FailFast THEN AttemptTimeout
                        ELSE (RetryMax + 1) * AttemptTimeout + RetryMax * DelayCeiling
    BY DEF TimeBudget
  <2> DEFINE Span == AttemptTimeout + DelayCeiling
             More == Ladder(c) - 1
  <2>0. /\ AttemptTimeout \in Nat /\ DelayCeiling \in Nat /\ Span \in Nat
        /\ RetryMax \in Nat /\ More \in Nat
    BY LimitsAssumption, LimitsType DEF Ladder
  <2>1. /\ attempt[c] \in Nat /\ budget[c] \in Nat /\ elapsed[c] \in Nat
    BY CounterTypes DEF IInv
  <2>2. CASE pc[c] = "idle"
    <3>1. elapsed[c] = 0
      BY <2>2 DEF ClockInv
    <3>2. (RetryMax + 1) * AttemptTimeout \in Nat /\ RetryMax * DelayCeiling \in Nat
      BY <2>0
    <3>3. QED BY <3>1, <3>2, <2>0
  <2>3. CASE pc[c] # "idle"
    <3>1. attempt[c] - 1 \in Nat /\ attempt[c] - 1 <= More
      BY <2>1, <2>3 DEF IInv, ConfigInv, AttemptInv
    <3>2. (attempt[c] - 1) * Span <= More * Span
      BY <3>1, <2>0, FinishedMonotone
    <3>3. elapsed[c] <= More * Span + AttemptTimeout
      <4> pc[c] \in {"ready", "inflight", "answered", "failed", "waiting", "body", "done"}
        BY <2>3 DEF IInv, TypeOK
      <4> (attempt[c] - 1) * Span \in Nat /\ More * Span \in Nat
        BY <3>1, <2>0
      <4>1. CASE elapsed[c] <= Finished(c) + AttemptTimeout
        BY <4>1, <3>2, <2>0, <2>1 DEF Finished
      <4>2. CASE elapsed[c] <= Finished(c)
        BY <4>2, <3>2, <2>0, <2>1 DEF Finished
      <4>3. CASE /\ attempt[c] < budget[c]
                 /\ elapsed[c] <= Finished(c) + AttemptTimeout + DelayCeiling
        <5>1. attempt[c] <= More
          BY <4>3, <2>1, <2>3 DEF IInv, ConfigInv
        <5>2. attempt[c] * Span <= More * Span
          BY <5>1, <2>0, <2>1, FinishedMonotone
        <5>3. attempt[c] * Span = (attempt[c] - 1) * Span + Span
          <6>1. ((attempt[c] - 1) + 1) * Span = (attempt[c] - 1) * Span + Span
            BY <3>1, <2>0, FinishedGrows
          <6>2. (attempt[c] - 1) + 1 = attempt[c]
            BY <2>1
          <6>3. QED BY <6>1, <6>2
        <5>4. elapsed[c] <= (attempt[c] - 1) * Span + Span
          <6>1. Finished(c) = (attempt[c] - 1) * Span /\ Finished(c) \in Nat
            BY <3>1, <2>0 DEF Finished
          <6>2. elapsed[c] <= Finished(c) + Span
            BY <4>3, <6>1, <2>0, <2>1
          <6>3. QED BY <6>1, <6>2
        <5>5. attempt[c] * Span \in Nat
          BY <2>0, <2>1
        <5>6. QED BY <5>2, <5>3, <5>4, <5>5, <2>0, <2>1
      <4>4. QED BY <4>1, <4>2, <4>3 DEF ClockInv
    <3>4. More * Span + AttemptTimeout =
            (More + 1) * AttemptTimeout + More * DelayCeiling
      BY <2>0, FinishedSplits
    <3>5. CASE c \in FailFast
      BY <3>3, <3>5, <2>0, <2>1 DEF Ladder
    <3>6. CASE c \notin FailFast
      BY <3>3, <3>4, <3>6, <2>0, <2>1 DEF Ladder
    <3>7. QED BY <3>5, <3>6
  <2>4. QED BY <2>2, <2>3
<1>4. QED BY <1>1, <1>2, <1>3, LadderInvariant, TypeCorrect, PTL DEF Spec

-----------------------------------------------------------------------------
(***************************************************************************)
(* The safety of the refinement: every step of a call is a step of ApiCall *)
(* or one its caller does not see.  AnswerInv ties what a call may do next *)
(* to the exchange it has behind it.                                       *)
(***************************************************************************)
AnswerInv ==
  \A c \in Calls :
    /\ pc[c] # "done" => outcome[c] = NoOutcome
    /\ pc[c] \in {"inflight", "answered", "body"} => requests[c] >= 1
    /\ pc[c] = "failed" /\ requests[c] = 0 => IsRetryableError(err[c].type)

\* A lost exchange and one that was never begun are tried again.
LEMMA UntypedIsRetryable == IsRetryableError(TransportFailure.type)
  BY DEF IsRetryableError, AsType, TransportFailure, Untyped

\* A call returns once, and is refused only by an answer it was given.
LEMMA AnswerStep ==
  ASSUME TypeOK, TypeOK', AnswerInv, [Next]_vars
  PROVE  AnswerInv'
<1> DEFINE Domains == /\ DOMAIN pc = Calls /\ DOMAIN err = Calls
                      /\ DOMAIN outcome = Calls /\ requests \in [Calls -> Nat]
<1> Domains
  BY DEF TypeOK
<1> USE DEF AnswerInv, Goto
<1>1. ASSUME NEW c \in Calls, DoRequest(c) \/ VerifyCredentials(c) PROVE AnswerInv'
  BY <1>1 DEF DoRequest, VerifyCredentials, Enter
<1>2. ASSUME NEW c \in Calls, Attempt(c) PROVE AnswerInv'
  BY <1>2, UntypedIsRetryable DEF Attempt, BuildFails, DoRefused, Do
<1>3. ASSUME NEW c \in Calls, Exchange(c) PROVE AnswerInv'
  BY <1>3, UntypedIsRetryable DEF Exchange, DoAnswers, DoFails
<1>4. ASSUME NEW c \in Calls, Settle(c) PROVE AnswerInv'
  BY <1>4 DEF Settle, AttemptSucceeds, AttemptFails
<1>5. ASSUME NEW c \in Calls, Decide(c) PROVE AnswerInv'
  BY <1>5 DEF Decide, GiveUp, HonorRetryAfter, BackOff, Return
<1>6. ASSUME NEW c \in Calls, Wait(c) PROVE AnswerInv'
  BY <1>6 DEF Wait, NextAttempt, WaitAborted, Return
<1>7. ASSUME NEW c \in Calls, Finish(c) PROVE AnswerInv'
  BY <1>7 DEF Finish, BodyUsed, BodyBroken, LeaveRequest, Return
<1>8. ASSUME NEW c \in Calls, CtxEnds(c) PROVE AnswerInv'
  BY <1>8 DEF CtxEnds
<1>9. CASE UNCHANGED vars
  BY <1>9 DEF vars
<1>10. QED
  BY <1>1, <1>2, <1>3, <1>4, <1>5, <1>6, <1>7, <1>8, <1>9 DEF Next, Step

\* What a caller sees of a call, at one moment.
View(c) == <<Phase(c), requests[c], Answer(c), Verdict(c)>>

\* A step of one call is not seen by the callers of the others.
LEMMA OthersSeeNothing ==
  ASSUME NEW c \in Calls, NEW d \in Calls, d # c,
         pc'[d] = pc[d], requests'[d] = requests[d], err'[d] = err[d],
         outcome'[d] = outcome[d]
  PROVE  View(d)' = View(d)
  BY DEF View, Phase, Answer, Verdict

Phases == [c \in Calls |-> Phase(c)]
AnswersSeen == [c \in Calls |-> Answer(c)]
VerdictsSeen == [c \in Calls |-> Verdict(c)]

\* When only one call moves, what is seen of all of them changes at that one.
LEMMA OneMoves ==
  ASSUME NEW c \in Calls, \A d \in Calls \ {c} : View(d)' = View(d)
  PROVE  /\ Phases' = [Phases EXCEPT ![c] = Phase(c)']
         /\ AnswersSeen' = [AnswersSeen EXCEPT ![c] = Answer(c)']
         /\ VerdictsSeen' = [VerdictsSeen EXCEPT ![c] = Verdict(c)']
<1>1. ASSUME NEW d \in Calls \ {c}
      PROVE  Phase(d)' = Phase(d) /\ Answer(d)' = Answer(d) /\ Verdict(d)' = Verdict(d)
  BY <1>1 DEF View
<1>2. QED BY <1>1 DEF Phases, AnswersSeen, VerdictsSeen

\* A step no caller sees.
LEMMA Unseen ==
  ASSUME \A d \in Calls : View(d)' = View(d), requests' = requests
  PROVE  UNCHANGED <<Phases, requests, AnswersSeen, VerdictsSeen>>
<1>1. ASSUME NEW d \in Calls
      PROVE  Phase(d)' = Phase(d) /\ Answer(d)' = Answer(d) /\ Verdict(d)' = Verdict(d)
  BY <1>1 DEF View
<1>2. QED BY <1>1 DEF Phases, AnswersSeen, VerdictsSeen

\* The mapped state, as ApiCall reads it.
Quiet == UNCHANGED Promise!vars
LEMMA MappedState ==
  /\ Quiet <=> UNCHANGED <<Phases, requests, AnswersSeen, VerdictsSeen>>
  /\ \A c \in Calls :
       /\ Phases[c] = Phase(c)
       /\ AnswersSeen[c] = Answer(c)
       /\ VerdictsSeen[c] = Verdict(c)
  BY DEF Quiet, Promise!vars, Phases, AnswersSeen, VerdictsSeen

\* A call that is made starts.
LEMMA StartRefines ==
  ASSUME TypeOK, AttemptInv, AnswerInv, NEW c \in Calls, DoRequest(c) \/ VerifyCredentials(c)
  PROVE  Promise!Start(c)
<1>1. /\ pc[c] = "idle" /\ pc' = [pc EXCEPT ![c] = "ready"]
      /\ UNCHANGED <<err, requests, outcome>>
  BY DEF DoRequest, VerifyCredentials, Enter, Goto
<1>2. \A d \in Calls \ {c} : View(d)' = View(d)
  BY <1>1, OthersSeeNothing DEF TypeOK
<1>3. Phase(c) = "idle" /\ Phase(c)' = "running"
  BY <1>1 DEF Phase, TypeOK
<1>4. Answer(c)' = Answer(c) /\ Verdict(c)' = Verdict(c)
  BY <1>1 DEF Answer, Verdict, AttemptInv
<1>5. Phases' = [Phases EXCEPT ![c] = "running"] /\ UNCHANGED <<AnswersSeen, VerdictsSeen>>
  BY <1>2, <1>3, <1>4, OneMoves, MappedState DEF Phases, AnswersSeen, VerdictsSeen
<1>6. QED
  BY <1>1, <1>3, <1>5, MappedState DEF Promise!Start, Phases, AnswersSeen, VerdictsSeen

\* Do is the one step that sends, within the limit and while the answers allow it.
LEMMA SendRefines ==
  ASSUME TypeOK, ConfigInv, AttemptInv, RetryInv, AnswerInv, NEW c \in Calls, Do(c)
  PROVE  Promise!Send(c)
<1>1. /\ pc[c] = "ready" /\ pc' = [pc EXCEPT ![c] = "inflight"]
      /\ requests' = [requests EXCEPT ![c] = @ + 1]
      /\ UNCHANGED <<err, outcome>>
  BY DEF Do, Goto
<1>2. \A d \in Calls \ {c} : View(d)' = View(d)
  BY <1>1, OthersSeeNothing DEF TypeOK
<1>3. Phase(c) = "running" /\ Phase(c)' = "awaiting" /\ Verdict(c)' = Verdict(c)
  BY <1>1 DEF Phase, Verdict, TypeOK
<1>4. requests[c] < Ladder(c)
  BY <1>1, LimitsType, CounterTypes DEF ConfigInv, AttemptInv, Ladder
<1>5. Answer(c) \in {"none", "again"} /\ Answer(c)' = "none"
  <2>1. IsRetryableError(err[c].type) /\ outcome[c].kind = "none" /\ pc'[c] = "inflight"
    BY <1>1 DEF RetryInv, AnswerInv, NoOutcome, TypeOK
  <2>2. QED BY <1>1, <2>1 DEF Answer
<1>6. /\ Phases' = [Phases EXCEPT ![c] = "awaiting"]
      /\ AnswersSeen' = [AnswersSeen EXCEPT ![c] = "none"]
      /\ UNCHANGED VerdictsSeen
  BY <1>2, <1>3, <1>5, OneMoves DEF Phases, AnswersSeen, VerdictsSeen
<1>7. QED
  BY <1>1, <1>3, <1>4, <1>5, <1>6, MappedState
  DEF Promise!Send, Phases, AnswersSeen, VerdictsSeen, Ladder

\* The end of an exchange is an answer received: accepted, refused, or one that
\* allows another request.
LEMMA ReceiveRefines ==
  ASSUME TypeOK, TypeOK', AnswerInv, NEW c \in Calls, Settle(c) \/ DoFails(c)
  PROVE  Promise!Receive(c)
<1>1. /\ pc[c] \in {"inflight", "answered"}
      /\ \E to \in {"body", "failed"} : pc' = [pc EXCEPT ![c] = to]
      /\ UNCHANGED <<requests, outcome>>
      /\ \A d \in Calls \ {c} : err'[d] = err[d]
  BY DEF Settle, AttemptSucceeds, AttemptFails, DoFails, Goto, TypeOK
<1>2. \A d \in Calls \ {c} : View(d)' = View(d)
  BY <1>1, OthersSeeNothing DEF TypeOK
<1>3. pc'[c] \in {"body", "failed"} /\ requests[c] >= 1 /\ outcome[c].kind = "none"
  BY <1>1 DEF TypeOK, AnswerInv, NoOutcome
<1>4. Phase(c) = "awaiting" /\ Phase(c)' = "running" /\ Verdict(c)' = Verdict(c)
  BY <1>1, <1>3 DEF Phase, Verdict
<1>5. Answer(c)' \in Promise!Answers
  BY <1>1, <1>3 DEF Answer, Promise!Answers, TypeOK
<1>6. /\ Phases' = [Phases EXCEPT ![c] = "running"]
      /\ AnswersSeen' = [AnswersSeen EXCEPT ![c] = Answer(c)']
      /\ UNCHANGED VerdictsSeen
  BY <1>2, <1>4, OneMoves DEF Phases, AnswersSeen, VerdictsSeen
<1>7. QED
  BY <1>1, <1>4, <1>5, <1>6, MappedState
  DEF Promise!Receive, Phases, AnswersSeen, VerdictsSeen

\* A call that gives up, is aborted, or has used its body returns what its last
\* answer allows.
LEMMA ReturnRefines ==
  ASSUME TypeOK, RetryInv, AnswerInv, NEW c \in Calls,
         GiveUp(c) \/ WaitAborted(c) \/ Finish(c)
  PROVE  Promise!Return(c)
<1>1. /\ pc[c] \in {"failed", "waiting", "body"} /\ pc' = [pc EXCEPT ![c] = "done"]
      /\ UNCHANGED <<requests, err>>
      /\ \A d \in Calls \ {c} : outcome'[d] = outcome[d]
  BY DEF GiveUp, WaitAborted, Finish, BodyUsed, BodyBroken, LeaveRequest, Return, Goto, TypeOK
<1>2. \A d \in Calls \ {c} : View(d)' = View(d)
  BY <1>1, OthersSeeNothing DEF TypeOK
<1>3. Phase(c) = "running" /\ Phase(c)' = "returned"
  BY <1>1 DEF Phase, TypeOK
<1>4. outcome[c].kind = "none" /\ pc'[c] = "done"
  BY <1>1 DEF AnswerInv, NoOutcome, TypeOK
<1>5. Answer(c)' = Answer(c) /\ Verdict(c)' \in Promise!Verdicts(Answer(c))
  <2>1. CASE GiveUp(c)
    <3>1. pc[c] = "failed"
      BY <2>1 DEF GiveUp, Goto
    <3>2. CASE ~IsRetryableError(err[c].type) /\ outcome'[c].kind = "rejected"
      <4>1. requests[c] # 0
        BY <3>1, <3>2 DEF AnswerInv
      <4>2. Answer(c) = "refused" /\ Answer(c)' = "refused" /\ Verdict(c)' = "rejected"
        BY <1>1, <1>4, <3>1, <3>2, <4>1 DEF Answer, Verdict
      <4>3. QED BY <4>2 DEF Promise!Verdicts
    <3>3. CASE IsRetryableError(err[c].type) /\ outcome'[c].kind = "exhausted"
      <4>1. Answer(c) \in {"none", "again"} /\ Answer(c)' = Answer(c) /\ Verdict(c)' = "failed"
        BY <1>1, <1>4, <3>1, <3>3 DEF Answer, Verdict
      <4>2. QED BY <4>1 DEF Promise!Verdicts
    <3>4. QED BY <2>1, <3>2, <3>3 DEF GiveUp, Return, TypeOK
  <2>2. CASE WaitAborted(c)
    <3>1. pc[c] = "waiting" /\ outcome'[c].kind \in {"canceled", "deadline"}
      BY <2>2, CounterTypes DEF WaitAborted, Goto, Return, TypeOK
    <3>2. IsRetryableError(err[c].type)
      BY <3>1 DEF RetryInv
    <3>3. Answer(c) \in {"none", "again"} /\ Answer(c)' = Answer(c) /\ Verdict(c)' = "failed"
      BY <1>1, <1>4, <3>1, <3>2 DEF Answer, Verdict
    <3>4. QED BY <3>3 DEF Promise!Verdicts
  <2>3. CASE Finish(c)
    <3>1. pc[c] = "body" /\ outcome'[c].kind \in {"value", "corruption", "unread"}
      BY <2>3 DEF Finish, BodyUsed, BodyBroken, LeaveRequest, Goto, Return, TypeOK
    <3>2. requests[c] # 0
      BY <3>1, CounterTypes DEF AnswerInv
    <3>3. /\ Answer(c) = "accepted" /\ Answer(c)' = "accepted"
          /\ Verdict(c)' \in {"value", "unreadable"}
      BY <1>1, <1>4, <3>1, <3>2 DEF Answer, Verdict
    <3>4. QED BY <3>3 DEF Promise!Verdicts
  <2>4. QED BY <2>1, <2>2, <2>3
<1>6. /\ Phases' = [Phases EXCEPT ![c] = "returned"]
      /\ UNCHANGED AnswersSeen
      /\ VerdictsSeen' = [VerdictsSeen EXCEPT ![c] = Verdict(c)']
  BY <1>2, <1>3, <1>5, OneMoves DEF Phases, AnswersSeen, VerdictsSeen
<1>7. QED
  BY <1>1, <1>3, <1>5, <1>6, MappedState
  DEF Promise!Return, Phases, AnswersSeen, VerdictsSeen

\* Building, logging, waiting and counting happen out of the caller's sight.
LEMMA HiddenSteps ==
  ASSUME TypeOK, TypeOK', RetryInv, AnswerInv, NEW c \in Calls,
         \/ BuildFails(c) \/ DoRefused(c) \/ DoAnswers(c)
         \/ HonorRetryAfter(c) \/ BackOff(c) \/ NextAttempt(c) \/ CtxEnds(c)
  PROVE  Quiet
<1>1. requests' = requests /\ outcome' = outcome
  BY DEF BuildFails, DoRefused, DoAnswers, HonorRetryAfter, BackOff, NextAttempt, CtxEnds
<1>2. \A d \in Calls \ {c} : pc'[d] = pc[d] /\ err'[d] = err[d]
  BY DEF BuildFails, DoRefused, DoAnswers, HonorRetryAfter, BackOff, NextAttempt, CtxEnds,
         Goto, TypeOK
<1>3. \A d \in Calls \ {c} : View(d)' = View(d)
  BY <1>1, <1>2, OthersSeeNothing
<1>4. Verdict(c)' = Verdict(c)
  BY <1>1 DEF Verdict
<1>5. CASE BuildFails(c) \/ DoRefused(c)
  <2>1. /\ pc[c] = "ready" /\ pc'[c] = "failed"
        /\ IsRetryableError(err[c].type) /\ IsRetryableError(err'[c].type)
    BY <1>5, UntypedIsRetryable DEF BuildFails, DoRefused, Goto, RetryInv, TypeOK
  <2>2. Phase(c)' = Phase(c) /\ Answer(c)' = Answer(c)
    BY <1>1, <2>1 DEF Phase, Answer
  <2>3. QED BY <1>1, <1>3, <1>4, <2>2, Unseen, MappedState DEF View
<1>6. CASE DoAnswers(c)
  <2>1. pc[c] = "inflight" /\ pc'[c] = "answered"
    BY <1>6 DEF DoAnswers, Goto, TypeOK
  <2>2. Phase(c)' = Phase(c) /\ Answer(c)' = Answer(c)
    BY <2>1 DEF Phase, Answer
  <2>3. QED BY <1>1, <1>3, <1>4, <2>2, Unseen, MappedState DEF View
<1>7. CASE HonorRetryAfter(c) \/ BackOff(c) \/ NextAttempt(c)
  <2>1. /\ pc[c] \in {"failed", "waiting"} /\ pc'[c] \in {"waiting", "ready"}
        /\ err' = err
    BY <1>7 DEF HonorRetryAfter, BackOff, NextAttempt, Goto, TypeOK
  <2>2. Phase(c)' = Phase(c) /\ Answer(c)' = Answer(c)
    BY <1>1, <2>1 DEF Phase, Answer
  <2>3. QED BY <1>1, <1>3, <1>4, <2>2, Unseen, MappedState DEF View
<1>8. CASE CtxEnds(c)
  <2>1. pc' = pc /\ err' = err
    BY <1>8 DEF CtxEnds
  <2>2. Phase(c)' = Phase(c) /\ Answer(c)' = Answer(c)
    BY <1>1, <2>1 DEF Phase, Answer
  <2>3. QED BY <1>1, <1>3, <1>4, <2>2, Unseen, MappedState DEF View
<1>9. QED BY <1>5, <1>6, <1>7, <1>8

\* To their callers the calls of one client are ApiCalls: each sends at most its
\* limit, asks again only while the answers allow it, and returns once what the last
\* answer says, whatever the calls, answers and delays (client.go:323-454).  This
\* is the safety of ImplementsApiCall.
THEOREM LadderIsAnApiCall == Spec => Promise!Spec
<1>1. Init => Promise!Init
  BY DEF Init, Promise!Init, Phase, Answer, Verdict, NoOutcome
<1>2. Init => AnswerInv
  BY DEF Init, AnswerInv, NoOutcome
<1>3. TypeOK' /\ IInv /\ AnswerInv /\ [Next]_vars => AnswerInv'
  BY AnswerStep DEF IInv
<1>4. TypeOK' /\ IInv /\ AnswerInv /\ [Next]_vars => [Promise!Next]_(Promise!vars)
  <2> SUFFICES ASSUME TypeOK', IInv, AnswerInv, [Next]_vars
               PROVE  Promise!Next \/ Quiet
    BY DEF Quiet
  <2>0. TypeOK /\ ConfigInv /\ AttemptInv /\ RetryInv
    BY DEF IInv
  <2>1. ASSUME NEW c \in Calls, DoRequest(c) \/ VerifyCredentials(c) PROVE Promise!Next
    BY <2>0, <2>1, StartRefines DEF Promise!Next
  <2>2. ASSUME NEW c \in Calls, Do(c) PROVE Promise!Next
    BY <2>0, <2>2, SendRefines DEF Promise!Next, Promise!Advance
  <2>3. ASSUME NEW c \in Calls, Settle(c) \/ DoFails(c) PROVE Promise!Next
    BY <2>0, <2>3, ReceiveRefines DEF Promise!Next, Promise!Advance
  <2>4. ASSUME NEW c \in Calls, GiveUp(c) \/ WaitAborted(c) \/ Finish(c) PROVE Promise!Next
    BY <2>0, <2>4, ReturnRefines DEF Promise!Next, Promise!Advance
  <2>5. ASSUME NEW c \in Calls,
               \/ BuildFails(c) \/ DoRefused(c) \/ DoAnswers(c)
               \/ HonorRetryAfter(c) \/ BackOff(c) \/ NextAttempt(c) \/ CtxEnds(c)
        PROVE  Quiet
    BY <2>0, <2>5, HiddenSteps
  <2>6. CASE UNCHANGED vars
    <3>1. UNCHANGED <<pc, requests, err, outcome>>
      BY <2>6 DEF vars
    <3>2. \A d \in Calls : View(d)' = View(d)
      BY <3>1 DEF View, Phase, Answer, Verdict
    <3>3. QED BY <3>1, <3>2, Unseen, MappedState
  <2>7. QED
    BY <2>1, <2>2, <2>3, <2>4, <2>5, <2>6
    DEF Next, Step, Attempt, Exchange, Decide, Wait
<1>5. QED
  BY <1>1, <1>2, <1>3, <1>4, LadderInvariant, TypeCorrect, PTL DEF Spec, Promise!Spec

-----------------------------------------------------------------------------
(***************************************************************************)
(* What the Logger is told.  LogInv says how far the log of a call has     *)
(* come: the attempt its last entry is about, and what that entry says of  *)
(* the error at hand.                                                      *)
(***************************************************************************)
Entry == [attempt : Nat, status : Nat, delay : Nat]
LastEntry(c) == log[c][Len(log[c])]
Logged(c) == IF log[c] = << >> THEN 0 ELSE LastEntry(c).attempt

\* An error type and a status that belong together.
TypeTells(type, status) ==
  /\ type = "RateLimitError" <=> status = 429
  /\ type = "ServerError" <=> status >= 500
  /\ type \in {"AuthError", "SCAChallengeError"} <=> status \in {401, 403}

LogInv ==
  \A c \in Calls :
    /\ pc[c] = "idle" => log[c] = << >> /\ err[c].type # "RateLimitError"
    /\ pc[c] # "idle" /\ ~request[c].wellFormed =>
         /\ log[c] = << >> /\ err[c].type # "RateLimitError"
         /\ pc[c] \notin {"inflight", "answered", "body"}
    /\ pc[c] # "idle" /\ request[c].wellFormed =>
         Logged(c) = IF pc[c] \in {"ready", "inflight"} THEN attempt[c] - 1 ELSE attempt[c]
    /\ pc[c] = "answered" => LastEntry(c).status = reply[c].status /\ LastEntry(c).delay = 0
    /\ pc[c] = "body" => IsSuccess(LastEntry(c).status)
    /\ pc[c] \in {"failed", "waiting"} /\ request[c].wellFormed =>
         TypeTells(err[c].type, LastEntry(c).status) /\ ~IsSuccess(LastEntry(c).status)
    /\ pc[c] = "failed" /\ request[c].wellFormed => LastEntry(c).delay = 0

\* The type of an error tells the status it was made from (errors.go:483-515).
LEMMA TypeTellsStatus ==
  ASSUME NEW r \in Reply \cup {NoReply}
  PROVE  TypeTells(ClassifyAPIError(r), r.status)
<1>1. r.status \in Nat
  BY DEF Reply, Status, NoReply
<1>2. QED BY <1>1 DEF TypeTells, ClassifyAPIError, IsSCAChallenge

\* No answer is status 0, and an untyped error.
LEMMA UntypedTells ==
  TypeTells(TransportFailure.type, 0) /\ ~IsSuccess(0) /\ TransportFailure.type # "RateLimitError"
  BY DEF TypeTells, TransportFailure, Untyped, IsSuccess

\* What an entry given to the Logger changes.
LEMMA LogGrows ==
  ASSUME TypeOK, NEW c \in Calls, NEW e \in Entry, LogRequest(c, e)
  PROVE  /\ Len(log'[c]) = Len(log[c]) + 1 /\ log'[c] # << >>
         /\ LastEntry(c)' = e /\ Logged(c)' = e.attempt
         /\ \A i \in DOMAIN log[c] : log'[c][i] = log[c][i]
         /\ \A d \in Calls \ {c} : log'[d] = log[d]
<1>1. log \in [Calls -> Seq(Entry)]
  BY DEF TypeOK, Entry
<1>2. log' = [log EXCEPT ![c] = Append(log[c], e)]
  BY DEF LogRequest
<1>3. log'[c] = Append(log[c], e) /\ \A d \in Calls \ {c} : log'[d] = log[d]
  BY <1>1, <1>2
<1>4. /\ Len(log'[c]) = Len(log[c]) + 1 /\ log'[c] # << >>
      /\ log'[c][Len(log'[c])] = e
      /\ \A i \in DOMAIN log[c] : log'[c][i] = log[c][i]
  BY <1>1, <1>3
<1>5. QED BY <1>3, <1>4 DEF LastEntry, Logged

\* An entry that is about the next attempt, or about the 429 just logged, keeps
\* the log in order.
LEMMA LogStaysInOrder ==
  ASSUME TypeOK, LogTellsTheLadder, NEW c \in Calls, NEW e \in Entry, LogRequest(c, e),
         \/ e.delay = 0 /\ e.attempt = Logged(c) + 1
         \/ /\ e.delay \in 1..DelayCeiling /\ log[c] # << >>
            /\ LastEntry(c) = LogEntry(e.attempt, 429, 0)
  PROVE  LogTellsTheLadder'
<1>1. log \in [Calls -> Seq(Entry)] /\ log[c] \in Seq(Entry)
  BY DEF TypeOK, Entry
<1>0. PICK n \in Nat : n = Len(log[c])
  BY <1>1
<1> DEFINE Told(d, i) == \/ /\ log[d][i].delay = 0
                            /\ log[d][i].attempt = EntryBefore(d, i).attempt + 1
                         \/ /\ log[d][i].delay \in 1..DelayCeiling
                            /\ EntryBefore(d, i) = LogEntry(log[d][i].attempt, 429, 0)
<1>2. n = Len(log[c]) /\ DOMAIN log[c] = 1..n /\ (log[c] = << >> <=> n = 0)
  BY <1>0, <1>1
<1>3. /\ Len(log'[c]) = n + 1 /\ LastEntry(c)' = e
      /\ \A i \in 1..n : log'[c][i] = log[c][i]
      /\ \A d \in Calls \ {c} : log'[d] = log[d]
  BY <1>2, LogGrows
<1>4. DOMAIN log'[c] = 1..n + 1 /\ log'[c][n + 1] = e
  <2>1. log'[c] = Append(log[c], e)
    BY <1>1 DEF LogRequest
  <2>2. QED BY <1>1, <1>2, <2>1
<1>5. ASSUME NEW i \in 1..n PROVE Told(c, i)'
  <2>1. log'[c][i] = log[c][i] /\ EntryBefore(c, i)' = EntryBefore(c, i)
    BY <1>2, <1>3 DEF EntryBefore
  <2>2. Told(c, i)
    BY <1>2 DEF LogTellsTheLadder
  <2>3. QED BY <2>1, <2>2
<1>6. Told(c, n + 1)'
  <2>1. CASE n = 0
    <3>1. EntryBefore(c, n + 1)' = LogEntry(0, 0, 0) /\ Logged(c) = 0
      BY <1>2, <2>1 DEF EntryBefore, Logged
    <3>2. LogEntry(0, 0, 0).attempt = 0
      BY DEF LogEntry
    <3>3. QED BY <1>2, <1>4, <2>1, <3>1, <3>2
  <2>2. CASE n # 0
    <3>1. n + 1 # 1 /\ n + 1 - 1 = n /\ log'[c][n] = log[c][n]
      BY <1>2, <1>3, <2>2
    <3>2. EntryBefore(c, n + 1)' = log'[c][n + 1 - 1]
      BY <3>1 DEF EntryBefore
    <3>3. EntryBefore(c, n + 1)' = LastEntry(c) /\ Logged(c) = LastEntry(c).attempt
      BY <1>2, <2>2, <3>1, <3>2 DEF LastEntry, Logged
    <3>4. QED BY <1>4, <3>3 DEF LogEntry
  <2>3. QED BY <2>1, <2>2
<1>7. ASSUME NEW d \in Calls \ {c}, NEW i \in DOMAIN log'[d] PROVE Told(d, i)'
  <2>1. log'[d] = log[d]
    BY <1>3
  <2>2. Told(d, i)
    BY <2>1 DEF LogTellsTheLadder
  <2>3. QED BY <2>1, <2>2 DEF EntryBefore
<1>8. \A d \in Calls : \A i \in DOMAIN log'[d] : Told(d, i)'
  <2>1. \A i \in 1..n + 1 : i \in 1..n \/ i = n + 1
    BY <1>2
  <2>2. \A i \in DOMAIN log'[c] : Told(c, i)'
    BY <1>4, <1>5, <1>6, <2>1
  <2>3. QED BY <1>7, <2>2
<1>9. QED BY <1>8 DEF LogTellsTheLadder

\* A call that is owed a Retry-After has just logged the 429.
LEMMA HonoredIsLogged ==
  ASSUME TypeOK, AttemptInv, LogInv, NEW c \in Calls, HonorRetryAfter(c)
  PROVE  /\ request[c].wellFormed /\ log[c] # << >>
         /\ LastEntry(c) = LogEntry(attempt[c], 429, 0)
         /\ HonoredDelay(err[c]) \in 1..DelayCeiling
<1>1. pc[c] = "failed" /\ HonoredDelay(err[c]) > 0
  BY DEF HonorRetryAfter, Goto
<1>2. err[c].type = "RateLimitError" /\ HonoredDelay(err[c]) \in 1..DelayCeiling
  <2>1. err[c] \in [type : ErrorTypes, retryAfter : Nat]
    BY DEF TypeOK
  <2>2. HonoredDelay(err[c]) \in 0..DelayCeiling
    BY <2>1, HonoredDelayBound
  <2>3. QED BY <1>1, <2>2, LimitsType DEF HonoredDelay, AsType
<1>3. request[c].wellFormed /\ Logged(c) = attempt[c]
  BY <1>1, <1>2 DEF LogInv
<1>4. log[c] # << >> /\ LastEntry(c).attempt = attempt[c]
  <2>1. attempt[c] >= 1
    BY <1>1 DEF AttemptInv
  <2>2. QED BY <1>3, <2>1 DEF Logged
<1>5. LastEntry(c).delay = 0 /\ LastEntry(c).status = 429
  BY <1>1, <1>2, <1>3 DEF LogInv, TypeTells
<1>6. LastEntry(c) \in Entry
  <2>1. log[c] \in Seq(Entry)
    BY DEF TypeOK, Entry
  <2>2. QED BY <1>4, <2>1 DEF LastEntry
<1>7. QED BY <1>2, <1>3, <1>4, <1>5, <1>6 DEF LogEntry, Entry

\* Every step keeps the Logger's story in order.
LEMMA LogTellsStep ==
  ASSUME TypeOK, TypeOK', AttemptInv, LogInv, LogTellsTheLadder, [Next]_vars
  PROVE  LogTellsTheLadder'
<1> USE DEF Goto
<1>0. ASSUME UNCHANGED log PROVE LogTellsTheLadder'
  BY <1>0 DEF LogTellsTheLadder, EntryBefore
<1>1. ASSUME NEW c \in Calls, DoRequest(c) \/ VerifyCredentials(c) \/ CtxEnds(c)
      PROVE  LogTellsTheLadder'
  BY <1>0, <1>1 DEF DoRequest, VerifyCredentials, Enter, CtxEnds
<1>2. ASSUME NEW c \in Calls, BuildFails(c) \/ Do(c) \/ Settle(c) PROVE LogTellsTheLadder'
  BY <1>0, <1>2 DEF BuildFails, Do, Settle, AttemptSucceeds, AttemptFails
<1>3. ASSUME NEW c \in Calls, GiveUp(c) \/ BackOff(c) \/ Wait(c) \/ Finish(c)
      PROVE  LogTellsTheLadder'
  BY <1>0, <1>3 DEF GiveUp, BackOff, Wait, NextAttempt, WaitAborted, Finish, BodyUsed,
                    BodyBroken, LeaveRequest
<1>4. ASSUME NEW c \in Calls, DoRefused(c) \/ Exchange(c) PROVE LogTellsTheLadder'
  <2>1. PICK st \in Nat : LogRequest(c, LogEntry(attempt[c], st, 0))
    BY <1>4, RepliesAssumption, StatusType DEF DoRefused, Exchange, DoAnswers, DoFails
  <2>2. pc[c] \in {"ready", "inflight"} /\ request[c].wellFormed
    BY <1>4 DEF DoRefused, Exchange, DoAnswers, DoFails, LogInv
  <2>3. Logged(c) = attempt[c] - 1 /\ attempt[c] \in Nat
    BY <2>2, CounterTypes DEF LogInv
  <2>4. QED BY <2>1, <2>3, LogStaysInOrder DEF LogEntry, Entry
<1>5. ASSUME NEW c \in Calls, HonorRetryAfter(c) PROVE LogTellsTheLadder'
  <2>1. LogRequest(c, LogEntry(attempt[c], 429, HonoredDelay(err[c])))
    BY <1>5 DEF HonorRetryAfter
  <2>2. attempt[c] \in Nat /\ HonoredDelay(err[c]) \in 1..DelayCeiling
    BY <1>5, CounterTypes, HonoredIsLogged
  <2>3. LogEntry(attempt[c], 429, HonoredDelay(err[c])) \in Entry
    BY <2>2, LimitsType DEF LogEntry, Entry
  <2>4. QED BY <1>5, <2>1, <2>2, <2>3, HonoredIsLogged, LogStaysInOrder DEF LogEntry
<1>6. CASE UNCHANGED vars
  BY <1>0, <1>6 DEF vars
<1>7. QED
  BY <1>1, <1>2, <1>3, <1>4, <1>5, <1>6 DEF Next, Step, Attempt, Decide

\* A step that neither logs nor learns anything new keeps what the log says.
LEMMA LogStepSilent ==
  ASSUME TypeOK, LogInv, NEW c \in Calls,
         \/ BuildFails(c) \/ Do(c) \/ AttemptSucceeds(c) \/ BackOff(c)
         \/ NextAttempt(c) \/ GiveUp(c) \/ WaitAborted(c) \/ Finish(c) \/ CtxEnds(c)
  PROVE  LogInv'
<1>1. UNCHANGED <<log, request>> /\ \A d \in Calls \ {c} : UNCHANGED <<pc[d], err[d], attempt[d], reply[d]>>
  BY DEF BuildFails, Do, AttemptSucceeds, BackOff, NextAttempt, GiveUp, WaitAborted, Finish,
         BodyUsed, BodyBroken, LeaveRequest, CloseBody, CtxEnds, Goto, TypeOK
<1>2. \A d \in Calls : LastEntry(d)' = LastEntry(d) /\ Logged(d)' = Logged(d)
  BY <1>1 DEF LastEntry, Logged
<1>3. \A d \in Calls \ {c} : LogInv!(d)'
  BY <1>1, <1>2 DEF LogInv
<1>4. LogInv!(c)'
  <2>1. CASE BuildFails(c)
    BY <1>1, <1>2, <2>1, UntypedTells DEF BuildFails, Goto, LogInv, TypeOK
  <2>2. CASE Do(c) \/ CtxEnds(c) \/ BackOff(c)
    BY <1>1, <1>2, <2>2 DEF Do, CtxEnds, BackOff, Goto, LogInv, TypeOK
  <2>3. CASE AttemptSucceeds(c)
    BY <1>1, <1>2, <2>3 DEF AttemptSucceeds, Goto, LogInv, TypeOK
  <2>4. CASE NextAttempt(c)
    <3>1. /\ pc[c] = "waiting" /\ pc'[c] = "ready" /\ err' = err
          /\ attempt'[c] - 1 = attempt[c]
      BY <2>4 DEF NextAttempt, Goto, TypeOK
    <3>2. QED BY <1>1, <1>2, <3>1 DEF LogInv
  <2>5. CASE GiveUp(c) \/ WaitAborted(c) \/ Finish(c)
    BY <1>1, <1>2, <2>5
    DEF GiveUp, WaitAborted, Finish, BodyUsed, BodyBroken, LeaveRequest, Goto, LogInv, TypeOK
  <2>6. QED BY <2>1, <2>2, <2>3, <2>4, <2>5
<1>5. QED BY <1>3, <1>4 DEF LogInv

\* A step that makes a call, gives an entry to the Logger or turns an answer into
\* an error keeps what the log says.
LEMMA LogStepTold ==
  ASSUME TypeOK, AttemptInv, LogInv, NEW c \in Calls,
         \/ DoRequest(c) \/ VerifyCredentials(c) \/ DoRefused(c) \/ Exchange(c)
         \/ AttemptFails(c) \/ HonorRetryAfter(c)
  PROVE  LogInv'
<1>1. \A d \in Calls \ {c} :
        UNCHANGED <<log[d], request[d], pc[d], err[d], attempt[d], reply[d]>>
  <2> /\ DOMAIN log = Calls /\ DOMAIN request = Calls /\ DOMAIN pc = Calls
      /\ DOMAIN err = Calls /\ DOMAIN attempt = Calls /\ DOMAIN reply = Calls
    BY DEF TypeOK
  <2>1. CASE DoRequest(c) \/ VerifyCredentials(c)
    BY <2>1 DEF DoRequest, VerifyCredentials, Enter, Goto
  <2>2. CASE DoRefused(c) \/ Exchange(c)
    BY <2>2 DEF DoRefused, Exchange, DoAnswers, DoFails, LogRequest, Goto
  <2>3. CASE AttemptFails(c) \/ HonorRetryAfter(c)
    BY <2>3 DEF AttemptFails, CloseBody, HonorRetryAfter, LogRequest, Goto
  <2>4. QED BY <2>1, <2>2, <2>3
<1>2. \A d \in Calls \ {c} : LogInv!(d)'
  BY <1>1 DEF LogInv, LastEntry, Logged
<1>3. LogInv!(c)'
  <2>1. CASE DoRequest(c) \/ VerifyCredentials(c)
    <3>1. /\ pc[c] = "idle" /\ pc'[c] = "ready" /\ attempt'[c] = 1
          /\ UNCHANGED <<log, err>>
      BY <2>1 DEF DoRequest, VerifyCredentials, Enter, Goto, TypeOK
    <3>2. log'[c] = << >> /\ Logged(c)' = 0 /\ err'[c].type # "RateLimitError"
      BY <3>1 DEF LogInv, Logged
    <3>3. QED BY <3>1, <3>2 DEF LogInv
  <2>2. CASE DoRefused(c) \/ DoFails(c)
    <3>1. /\ LogRequest(c, LogEntry(attempt[c], 0, 0)) /\ request[c].wellFormed
          /\ pc'[c] = "failed" /\ err'[c] = TransportFailure /\ UNCHANGED <<request, attempt>>
      BY <2>2 DEF DoRefused, DoFails, Goto, TypeOK, LogInv
    <3>2. LogEntry(attempt[c], 0, 0) \in Entry
      BY CounterTypes DEF LogEntry, Entry
    <3>3. /\ LastEntry(c)' = LogEntry(attempt[c], 0, 0)
          /\ Logged(c)' = LogEntry(attempt[c], 0, 0).attempt
      BY <3>1, <3>2, LogGrows
    <3>4. QED BY <3>1, <3>3, UntypedTells DEF LogInv, LogEntry
  <2>3. CASE DoAnswers(c)
    <3>1. PICK r \in Reply :
            /\ LogRequest(c, LogEntry(attempt[c], r.status, 0)) /\ reply'[c] = r
            /\ pc[c] = "inflight" /\ pc'[c] = "answered" /\ UNCHANGED <<request, attempt>>
      BY <2>3, RepliesAssumption DEF DoAnswers, Goto, TypeOK
    <3>2. request[c].wellFormed
      BY <3>1 DEF LogInv
    <3>3. LogEntry(attempt[c], r.status, 0) \in Entry
      BY CounterTypes, StatusType DEF LogEntry, Entry
    <3>4. /\ LastEntry(c)' = LogEntry(attempt[c], r.status, 0)
          /\ Logged(c)' = LogEntry(attempt[c], r.status, 0).attempt
      BY <3>1, <3>3, LogGrows
    <3>5. QED BY <3>1, <3>2, <3>4 DEF LogInv, LogEntry
  <2>4. CASE AttemptFails(c)
    <3>1. /\ pc[c] = "answered" /\ pc'[c] = "failed" /\ ~IsSuccess(reply[c].status)
          /\ err'[c].type = ClassifyAPIError(reply[c])
          /\ UNCHANGED <<log, request, attempt>>
      BY <2>4 DEF AttemptFails, Goto, TypeOK
    <3>2. TypeTells(err'[c].type, reply[c].status)
      BY <3>1, TypeTellsStatus DEF TypeOK
    <3>3. LastEntry(c)' = LastEntry(c) /\ Logged(c)' = Logged(c)
      BY <3>1 DEF LastEntry, Logged
    <3>4. request[c].wellFormed
      BY <3>1 DEF LogInv
    <3>5. QED BY <3>1, <3>2, <3>3, <3>4 DEF LogInv
  <2>5. CASE HonorRetryAfter(c)
    <3>1. /\ LogRequest(c, LogEntry(attempt[c], 429, HonoredDelay(err[c])))
          /\ pc[c] = "failed" /\ pc'[c] = "waiting" /\ UNCHANGED <<request, attempt, err>>
      BY <2>5 DEF HonorRetryAfter, Goto, TypeOK
    <3>2. request[c].wellFormed /\ LastEntry(c).status = 429
      BY <2>5, HonoredIsLogged DEF LogEntry
    <3>3. LogEntry(attempt[c], 429, HonoredDelay(err[c])) \in Entry
      BY <2>5, CounterTypes, LimitsType, HonoredIsLogged DEF LogEntry, Entry
    <3>4. LastEntry(c)'.status = 429 /\ Logged(c)' = attempt[c]
      BY <3>1, <3>3, LogGrows DEF LogEntry
    <3>5. QED BY <3>1, <3>2, <3>4 DEF LogInv
  <2>6. QED BY <2>1, <2>2, <2>3, <2>4, <2>5 DEF Exchange
<1>4. QED BY <1>2, <1>3 DEF LogInv

\* A call returns what the last entry of its log says.
LEMMA OutcomeStep ==
  ASSUME TypeOK, TypeOK', AttemptInv, LogInv, OutcomeMatchesLog, [Next]_vars
  PROVE  OutcomeMatchesLog'
<1> USE DEF Goto
<1>1. ASSUME NEW c \in Calls,
             /\ pc'[c] # "done"
             /\ \A d \in Calls \ {c} : UNCHANGED <<pc[d], log[d], request[d], outcome[d]>>
      PROVE  OutcomeMatchesLog'
  BY <1>1 DEF OutcomeMatchesLog
<1>2. ASSUME NEW c \in Calls, DoRequest(c) \/ VerifyCredentials(c) PROVE OutcomeMatchesLog'
  BY <1>1, <1>2 DEF DoRequest, VerifyCredentials, Enter, TypeOK
<1>3. ASSUME NEW c \in Calls, Attempt(c) \/ Exchange(c) \/ Settle(c) PROVE OutcomeMatchesLog'
  BY <1>1, <1>3 DEF Attempt, BuildFails, DoRefused, Do, Exchange, DoAnswers, DoFails, Settle,
                    AttemptSucceeds, AttemptFails, LogRequest, TypeOK
<1>4. ASSUME NEW c \in Calls, HonorRetryAfter(c) \/ BackOff(c) \/ NextAttempt(c)
      PROVE  OutcomeMatchesLog'
  BY <1>1, <1>4 DEF HonorRetryAfter, BackOff, NextAttempt, LogRequest, TypeOK
<1>5. ASSUME NEW c \in Calls, GiveUp(c) \/ WaitAborted(c) \/ Finish(c)
      PROVE  OutcomeMatchesLog'
  <2> DEFINE Matches(d) ==
        pc[d] = "done" /\ request[d].wellFormed =>
          /\ outcome[d].kind \in {"value", "corruption", "unread"}
               <=> IsSuccess(LastEntry(d).status)
          /\ TypeTells(outcome[d].type, LastEntry(d).status)
  <2> DOMAIN pc = Calls /\ DOMAIN outcome = Calls
    BY DEF TypeOK
  <2>1. UNCHANGED <<log, request>> /\ \A d \in Calls \ {c} : UNCHANGED <<pc[d], outcome[d]>>
    BY <1>5 DEF GiveUp, WaitAborted, Finish, BodyUsed, BodyBroken, LeaveRequest, Return
  <2>2. \A d \in Calls : LastEntry(d)' = LastEntry(d)
    BY <2>1 DEF LastEntry
  <2>3. \A d \in Calls : Matches(d)
    BY DEF OutcomeMatchesLog, LastEntry, TypeTells
  <2>4. Matches(c)'
    <3>1. CASE GiveUp(c) \/ WaitAborted(c)
      <4>1. /\ pc[c] \in {"failed", "waiting"} /\ outcome'[c].type = err[c].type
            /\ outcome'[c].kind \in {"rejected", "exhausted", "canceled", "deadline"}
        BY <3>1, CounterTypes DEF GiveUp, WaitAborted, Return
      <4>2. QED BY <2>1, <2>2, <4>1 DEF LogInv
    <3>2. CASE Finish(c)
      <4>1. /\ pc[c] = "body" /\ outcome'[c].type \in {NoError, Untyped}
            /\ outcome'[c].kind \in {"value", "corruption", "unread"}
        BY <3>2 DEF Finish, BodyUsed, BodyBroken, LeaveRequest, Return
      <4>2. IsSuccess(LastEntry(c).status)
        BY <4>1 DEF LogInv
      <4>3. LastEntry(c).status \in Nat
        <5>1. log[c] \in Seq(Entry)
          BY DEF TypeOK, Entry
        <5>2. Logged(c) = attempt[c] /\ attempt[c] >= 1
          BY <4>1 DEF LogInv, AttemptInv
        <5>3. LastEntry(c) \in Entry
          BY <5>1, <5>2 DEF Logged, LastEntry
        <5>4. QED BY <5>3 DEF Entry
      <4>4. TypeTells(outcome'[c].type, LastEntry(c).status)
        BY <4>1, <4>2, <4>3 DEF TypeTells, NoError, Untyped, IsSuccess
      <4>5. QED BY <2>1, <2>2, <4>1, <4>2, <4>4
    <3>3. QED BY <1>5, <3>1, <3>2
  <2>5. \A d \in Calls : Matches(d)'
    BY <2>1, <2>2, <2>3, <2>4
  <2>6. QED BY <2>5 DEF OutcomeMatchesLog, LastEntry, TypeTells
<1>6. ASSUME NEW c \in Calls, CtxEnds(c) PROVE OutcomeMatchesLog'
  BY <1>6 DEF CtxEnds, OutcomeMatchesLog
<1>7. CASE UNCHANGED vars
  BY <1>7 DEF vars, OutcomeMatchesLog
<1>8. QED
  BY <1>2, <1>3, <1>4, <1>5, <1>6, <1>7 DEF Next, Step, Decide, Wait

\* Log and outcome are kept true together.
LEMMA LogInvariant == Spec => [](LogInv /\ LogTellsTheLadder /\ OutcomeMatchesLog)
<1> DEFINE Told == LogInv /\ LogTellsTheLadder /\ OutcomeMatchesLog
<1>1. Init => Told
  BY DEF Init, LogInv, LogTellsTheLadder, OutcomeMatchesLog, NoFailure, NoError
<1>2. TypeOK' /\ IInv /\ Told /\ [Next]_vars => Told'
  <2> SUFFICES ASSUME TypeOK', IInv, Told, [Next]_vars PROVE Told'
    OBVIOUS
  <2>1. TypeOK /\ AttemptInv
    BY DEF IInv
  <2>2. LogInv'
    <3>1. CASE UNCHANGED vars
      BY <3>1 DEF vars, LogInv, LastEntry, Logged
    <3>2. CASE Next
      BY <2>1, <3>2, LogStepSilent, LogStepTold
      DEF Next, Step, Attempt, Settle, Decide, Wait
    <3>3. QED BY <3>1, <3>2
  <2>3. QED BY <2>1, <2>2, LogTellsStep, OutcomeStep
<1>3. QED BY <1>1, <1>2, LadderInvariant, TypeCorrect, PTL DEF Spec

\* The Logger is told the ladder as it happened, for any number of calls, any limits
\* and any answers (options.go:30-52, client.go:119-137, 425-436).
THEOREM LogIsInOrder == Spec => []LogTellsTheLadder
BY LogInvariant, PTL

\* What a call returns agrees with the last exchange the Logger saw, with the
\* types of all statuses (client.go:396-402, errors.go:483-515).
THEOREM OutcomeIsLogged == Spec => []OutcomeMatchesLog
BY LogInvariant, PTL
-----------------------------------------------------------------------------
(***************************************************************************)
(* Why every call returns: each step of its own brings it nearer to the    *)
(* end, and nothing else moves it.  (That it takes those steps is the      *)
(* fairness of FairSpec, which TLC adds in EveryCallReturns.)              *)
(***************************************************************************)
Stage ==
  [ready |-> 5, inflight |-> 4, answered |-> 3, failed |-> 2, body |-> 2, waiting |-> 1,
   done |-> 0]

\* The steps a call has left at most: a ladder of six for each attempt.
Rank(c) == 6 * (budget[c] - attempt[c]) + Stage[pc[c]]

\* A call under way is run down by its own steps and by no others, whatever the
\* other calls, its context and the server do (client.go:323-455 and go-retry).
CallsRunDown ==
  [][\A c \in Calls :
       pc[c] # "idle" =>
         /\ Rank(c) \in Nat
         /\ IF Step(c) THEN Rank(c)' < Rank(c) ELSE Rank(c)' = Rank(c)]_vars

\* A step of a call goes down the stages, or up again with the next attempt.
LEMMA StepMoves ==
  ASSUME NEW c \in Calls, Step(c)
  PROVE  /\ UNCHANGED budget
         /\ \/ /\ attempt' = attempt
               /\ \E to \in DOMAIN Stage :
                    pc' = [pc EXCEPT ![c] = to] /\ Stage[to] < Stage[pc[c]]
            \/ /\ attempt' = [attempt EXCEPT ![c] = attempt[c] + 1]
               /\ pc[c] = "waiting" /\ pc' = [pc EXCEPT ![c] = "ready"]
<1> USE DEF Goto, Stage
<1>1. CASE Attempt(c)
  BY <1>1 DEF Attempt, BuildFails, DoRefused, Do
<1>2. CASE Exchange(c)
  BY <1>2 DEF Exchange, DoAnswers, DoFails
<1>3. CASE Settle(c)
  BY <1>3 DEF Settle, AttemptSucceeds, AttemptFails
<1>4. CASE Decide(c)
  BY <1>4 DEF Decide, GiveUp, HonorRetryAfter, BackOff
<1>5. CASE Wait(c)
  BY <1>5 DEF Wait, NextAttempt, WaitAborted
<1>6. CASE Finish(c)
  BY <1>6 DEF Finish, BodyUsed, BodyBroken, LeaveRequest
<1> QED BY <1>1, <1>2, <1>3, <1>4, <1>5, <1>6 DEF Step

\* Nobody else moves a call that was made.
LEMMA OthersStay ==
  ASSUME TypeOK, [Next]_vars, NEW c \in Calls, pc[c] # "idle", ~Step(c)
  PROVE  pc'[c] = pc[c] /\ attempt'[c] = attempt[c] /\ budget'[c] = budget[c]
<1>1. DOMAIN pc = Calls /\ DOMAIN attempt = Calls /\ DOMAIN budget = Calls
  BY DEF TypeOK
<1>2. CASE UNCHANGED vars
  BY <1>2 DEF vars
<1>3. ASSUME NEW d \in Calls, DoRequest(d) \/ VerifyCredentials(d)
      PROVE  pc'[c] = pc[c] /\ attempt'[c] = attempt[c] /\ budget'[c] = budget[c]
  BY <1>1, <1>3 DEF DoRequest, VerifyCredentials, Enter, Goto
<1>4. ASSUME NEW d \in Calls, Step(d)
      PROVE  pc'[c] = pc[c] /\ attempt'[c] = attempt[c] /\ budget'[c] = budget[c]
  BY <1>1, <1>4, StepMoves
<1>5. ASSUME NEW d \in Calls, CtxEnds(d)
      PROVE  pc'[c] = pc[c] /\ attempt'[c] = attempt[c] /\ budget'[c] = budget[c]
  BY <1>5 DEF CtxEnds
<1> QED BY <1>2, <1>3, <1>4, <1>5 DEF Next

\* For every configuration each step a call takes is one of the few it has left.
THEOREM CallsComeToAnEnd == Spec => CallsRunDown
<1>1. ASSUME IInv, [Next]_vars, NEW c \in Calls, pc[c] # "idle"
      PROVE  /\ Rank(c) \in Nat
             /\ IF Step(c) THEN Rank(c)' < Rank(c) ELSE Rank(c)' = Rank(c)
  <2>1. /\ pc \in [Calls -> DOMAIN Stage \cup {"idle"}] /\ DOMAIN attempt = Calls
        /\ attempt[c] \in Nat /\ budget[c] \in Nat /\ attempt[c] <= budget[c]
    BY <1>1 DEF IInv, TypeOK, AttemptInv, Stage
  <2>2. \A s \in DOMAIN Stage : Stage[s] \in 0..5
    BY DEF Stage
  <2>3. Stage[pc[c]] \in 0..5
    BY <1>1, <2>1, <2>2
  <2>4. Rank(c) \in Nat
    BY <2>1, <2>3 DEF Rank
  <2>5. CASE Step(c)
    <3>1. budget' = budget
      BY <2>5, StepMoves
    <3>2. CASE attempt' = attempt
      <4>1. Stage[pc'[c]] \in 0..5 /\ Stage[pc'[c]] < Stage[pc[c]]
        BY <2>1, <2>2, <2>5, <3>2, StepMoves
      <4> QED BY <2>1, <2>3, <2>5, <3>1, <3>2, <4>1 DEF Rank
    <3>3. CASE /\ attempt' = [attempt EXCEPT ![c] = attempt[c] + 1]
               /\ pc[c] = "waiting" /\ pc' = [pc EXCEPT ![c] = "ready"]
      <4>1. attempt'[c] = attempt[c] + 1 /\ pc'[c] = "ready"
        BY <2>1, <3>3
      <4>2. Stage["ready"] = 5 /\ Stage["waiting"] = 1
        BY DEF Stage
      <4> QED BY <2>1, <2>5, <3>1, <3>3, <4>1, <4>2 DEF Rank
    <3> QED BY <2>5, <3>2, <3>3, StepMoves
  <2>6. CASE ~Step(c)
    <3>1. pc'[c] = pc[c] /\ attempt'[c] = attempt[c] /\ budget'[c] = budget[c]
      BY <1>1, <2>6, OthersStay DEF IInv
    <3> QED BY <2>4, <2>6, <3>1 DEF Rank
  <2> QED BY <2>4, <2>5, <2>6
<1>2. IInv /\ [Next]_vars =>
        [\A c \in Calls :
           pc[c] # "idle" =>
             /\ Rank(c) \in Nat
             /\ IF Step(c) THEN Rank(c)' < Rank(c) ELSE Rank(c)' = Rank(c)]_vars
  BY <1>1
<1> QED BY <1>2, LadderInvariant, PTL DEF Spec, CallsRunDown
=============================================================================
