------------------------------- MODULE Writes -------------------------------
(***************************************************************************)
(* The methods that change something at Wise: create a transfer, a third-  *)
(* party transfer, a balance, a recipient, a quote or a subscription, fund *)
(* or cancel a transfer, delete a subscription.  Each is a POST, PUT or    *)
(* DELETE that goes through the retry ladder, so one call may leave        *)
(* several requests behind, and the network may deliver any of them late,  *)
(* after the call has returned, or never.  What the code contributes is    *)
(* the key Wise deduplicates on, where there is one.                       *)
(*                                                                         *)
(* A task is something the consumer wants done once.  The consumer calls   *)
(* again after an error or a crash, with the same request value, and stops *)
(* when a call has succeeded.  Server, network and consumer are external.  *)
(***************************************************************************)
EXTENDS Integers, FiniteSets

CONSTANTS
  Tasks,        \* what the consumer wants done, each of one kind
  Kinds,        \* the kinds of writes considered
  MaxAttempts,  \* the retry ladder of one call
  MaxCalls      \* how often the consumer tries (a bound of the model)

AllKinds == {"transfer", "third-party", "balance", "keyed balance", "recipient",
             "quote", "subscription", "fund", "cancel", "delete"}

ASSUME KindsAssumption == Kinds \subseteq AllKinds
ASSUME LadderAssumption == MaxAttempts \in Nat \ {0} /\ MaxCalls \in Nat

VARIABLES
  kind,      \* what each task is
  pc,        \* where the task's current call is
  call,      \* calls made for the task
  attempt,   \* the 1-based attempt of the current call
  wire,      \* requests that have left the client and reached nobody yet
  answers,   \* answers on their way back
  effects,   \* what the server did: one record per effect
  result,    \* what the last call returned
  doubt      \* an attempt or a call for the task ended without a usable answer

vars == <<kind, pc, call, attempt, wire, answers, effects, result, doubt>>

\* Requests whose key the caller chooses, and keeps: customerTransactionId,
\* originalTransferId, X-idempotence-uuid; or that name the object they act on.
CallerKeyed == {"transfer", "third-party", "keyed balance", "fund", "cancel", "delete"}

\* Requests a repetition of which is answered like the first.
Idempotent == {"transfer", "third-party", "keyed balance", "balance"}

(***************************************************************************)
(* What makes two requests the same to Wise: a key that is kept for the    *)
(* task, one that is kept for the call, or nothing at all.                 *)
(***************************************************************************)
KeptKey(t) == [task |-> t, call |-> 0, attempt |-> 0]
CallKey(t) == [task |-> t, call |-> call[t], attempt |-> 0]
NoKey(t) == [task |-> t, call |-> call[t], attempt |-> attempt[t]]

\* Mutant: the customerTransactionId is generated per call.
CreateTransferPerCall(t) == CallKey(t)

CreateTransfer(t) == KeptKey(t)
CreateThirdPartyTransfer(t) == KeptKey(t)

\* Mutant: the generated UUID belongs to the attempt.
CreateBalancePerAttempt(t) == IF kind[t] = "keyed balance" THEN KeptKey(t) ELSE NoKey(t)

\* The caller's key, or a UUID made before the ladder starts.
CreateBalance(t) == IF kind[t] = "keyed balance" THEN KeptKey(t) ELSE CallKey(t)

CreateRecipient(t) == NoKey(t)
CreateQuote(t) == NoKey(t)
CreateProfileWebhookSubscription(t) == NoKey(t)

\* These name the object they act on.
FundTransfer(t) == KeptKey(t)
CancelTransfer(t) == KeptKey(t)
DeleteProfileWebhookSubscription(t) == KeptKey(t)

Key(t) ==
  CASE kind[t] = "transfer" -> CreateTransfer(t)
    [] kind[t] = "third-party" -> CreateThirdPartyTransfer(t)
    [] kind[t] \in {"balance", "keyed balance"} -> CreateBalance(t)
    [] kind[t] = "recipient" -> CreateRecipient(t)
    [] kind[t] = "quote" -> CreateQuote(t)
    [] kind[t] = "subscription" -> CreateProfileWebhookSubscription(t)
    [] kind[t] = "fund" -> FundTransfer(t)
    [] kind[t] = "cancel" -> CancelTransfer(t)
    [] kind[t] = "delete" -> DeleteProfileWebhookSubscription(t)

Request(t) == [task |-> t, call |-> call[t], attempt |-> attempt[t], key |-> Key(t)]

Init ==
  /\ kind \in [Tasks -> Kinds]
  /\ pc = [t \in Tasks |-> "idle"]
  /\ call = [t \in Tasks |-> 0]
  /\ attempt = [t \in Tasks |-> 0]
  /\ wire = {}
  /\ answers = {}
  /\ effects = {}
  /\ result = [t \in Tasks |-> [kind |-> "none"]]
  /\ doubt = [t \in Tasks |-> FALSE]

Goto(t, from, to) == pc[t] = from /\ pc' = [pc EXCEPT ![t] = to]
Return(t, from, value) ==
  Goto(t, from, "idle") /\ result' = [result EXCEPT ![t] = value]
Doubt(t) == doubt' = [doubt EXCEPT ![t] = TRUE]

Failed == [kind |-> "failed"]
Rejected == [kind |-> "rejected"]
Value(effect) == [kind |-> "value", effect |-> effect]

(***************************************************************************)
(* The consumer.                                                           *)
(***************************************************************************)

\* Valid arguments: the call reaches the ladder.
Call(t) ==
  /\ result[t].kind # "value"
  /\ call[t] < MaxCalls
  /\ Goto(t, "idle", "ready")
  /\ call' = [call EXCEPT ![t] = @ + 1]
  /\ attempt' = [attempt EXCEPT ![t] = 1]
  /\ UNCHANGED <<kind, wire, answers, effects, result, doubt>>

\* Crash or cancellation in mid-call, or before the result was kept.  Requests
\* under way stay under way.
Forget(t) ==
  /\ call[t] > 0
  /\ pc' = [pc EXCEPT ![t] = "idle"]
  /\ result' = [result EXCEPT ![t] = Failed]
  /\ Doubt(t)
  /\ UNCHANGED <<kind, call, attempt, wire, answers, effects>>

(***************************************************************************)
(* The ladder.                                                             *)
(***************************************************************************)
Send(t) ==
  /\ Goto(t, "ready", "inflight")
  /\ wire' = wire \cup {Request(t)}
  /\ UNCHANGED <<kind, call, attempt, answers, effects, result, doubt>>

\* Another attempt while there is one, else the last error.
Retry(t, error) ==
  \/ /\ attempt[t] < MaxAttempts
     /\ Goto(t, "inflight", "ready")
     /\ attempt' = [attempt EXCEPT ![t] = @ + 1]
     /\ UNCHANGED result
  \/ /\ attempt[t] = MaxAttempts
     /\ Return(t, "inflight", error)
     /\ UNCHANGED attempt

\* No answer in time: what became of the request is not known.
TimeOut(t) ==
  /\ Retry(t, Failed)
  /\ Doubt(t)
  /\ UNCHANGED <<kind, call, wire, answers, effects>>

\* The answer to the current attempt; those to earlier ones have no reader.
AnswerTo(t, a) == a \in answers /\ a.task = t /\ a.call = call[t] /\ a.attempt = attempt[t]

\* Mutant: of the 2xx only 200 counts as a success, and a creation's 201 is an
\* untyped error.
ReceivedRetried(t) ==
  \E a \in answers :
    /\ AnswerTo(t, a)
    /\ a.value.kind = "value"
    /\ Retry(t, Failed)
    /\ UNCHANGED <<kind, call, wire, answers, effects, doubt>>

Received(t) ==
  \E a \in answers :
    /\ AnswerTo(t, a)
    /\ a.value.kind = "value"
    /\ Return(t, "inflight", a.value)
    /\ UNCHANGED <<kind, call, attempt, wire, answers, effects, doubt>>

\* 2xx, but the body is no JSON, or its mapping to domain values fails.
Unmapped(t) ==
  \E a \in answers :
    /\ AnswerTo(t, a)
    /\ a.value.kind = "value"
    /\ Return(t, "inflight", Failed)
    /\ Doubt(t)
    /\ UNCHANGED <<kind, call, attempt, wire, answers, effects>>

\* 4xx: the client is told that nothing was done on this request.
Refused(t) ==
  \E a \in answers :
    /\ AnswerTo(t, a)
    /\ a.value = Rejected
    /\ \/ Return(t, "inflight", Rejected) /\ UNCHANGED attempt
       \/ Retry(t, Rejected)
    /\ UNCHANGED <<kind, call, wire, answers, effects, doubt>>

(***************************************************************************)
(* The server, and the network around it: any request on the wire is       *)
(* handled at any time, once, or lost.                                     *)
(***************************************************************************)
Done(r) == {e \in effects : e.key = r.key}
Answer(r, value) ==
  answers' = answers \cup
    {[task |-> r.task, call |-> r.call, attempt |-> r.attempt, value |-> value]}

Perform(r) ==
  /\ Done(r) = {}
  /\ LET effect == [task |-> r.task, key |-> r.key, id |-> Cardinality(effects) + 1] IN
       /\ effects' = effects \cup {effect}
       /\ Answer(r, Value(effect.id))

\* The second funding is answered with payment.exists, the second cancellation
\* and the second deletion with a 4xx.
Repeat(r) ==
  /\ \E e \in Done(r) :
       Answer(r, IF kind[r.task] \in Idempotent THEN Value(e.id) ELSE Rejected)
  /\ UNCHANGED effects

\* Invalid at the server, insufficient funds, a strong-authentication demand, a
\* token that is no longer accepted.
Decline(r) ==
  /\ Answer(r, Rejected)
  /\ UNCHANGED effects

Handle(r) ==
  /\ wire' = wire \ {r}
  /\ Perform(r) \/ Repeat(r) \/ Decline(r)
  /\ UNCHANGED <<kind, pc, call, attempt, result, doubt>>

Drop(r) ==
  /\ wire' = wire \ {r}
  /\ UNCHANGED <<kind, pc, call, attempt, answers, effects, result, doubt>>

Next ==
  \/ \E t \in Tasks : \/ Call(t) \/ Forget(t) \/ Send(t) \/ TimeOut(t)
                      \/ Received(t) \/ Unmapped(t) \/ Refused(t)
  \/ \E r \in wire : Handle(r) \/ Drop(r)

Spec == Init /\ [][Next]_vars

-----------------------------------------------------------------------------
Keys == [task : Tasks, call : 0..MaxCalls, attempt : 0..MaxAttempts]
Results == {[kind |-> "none"], Failed, Rejected} \cup [kind : {"value"}, effect : Nat]

\* Every variable keeps to its type, and a result names an effect by its number.
TypeOK ==
  /\ kind \in [Tasks -> Kinds]
  /\ pc \in [Tasks -> {"idle", "ready", "inflight"}]
  /\ call \in [Tasks -> 0..MaxCalls]
  /\ attempt \in [Tasks -> 0..MaxAttempts]
  /\ wire \subseteq [task : Tasks, call : 0..MaxCalls, attempt : 0..MaxAttempts, key : Keys]
  /\ answers \subseteq [task : Tasks, call : 0..MaxCalls, attempt : 0..MaxAttempts,
                        value : Results]
  /\ effects \subseteq [task : Tasks, key : Keys, id : Nat]
  /\ result \in [Tasks -> Results]
  /\ doubt \in [Tasks -> BOOLEAN]

\* The key of the request is the caller's: however many attempts, timeouts,
\* crashes and late deliveries there are, Wise does it once (transfers.go:213-218,
\* balances.go:91-95, third_party_transfers.go:60-63).
OncePerCallerKey ==
  \A e, f \in effects :
    /\ e.task = f.task
    /\ kind[e.task] \in CallerKeyed
    => e = f

\* The generated key of CreateBalance covers the attempts of its call: one call
\* opens at most one balance (balances.go:112-121).
OncePerCall ==
  \A e, f \in effects :
    /\ e.task = f.task
    /\ kind[e.task] = "balance"
    /\ e.key.call = f.key.call
    => e = f

\* A write without any key is done twice only after an attempt or a call for it
\* ended without a usable answer: an orderly run of the ladder does not repeat
\* what was done (client.go:371-395).
RepetitionNeedsDoubt ==
  \A t \in Tasks :
    ~doubt[t] => \A e, f \in effects : e.task = t /\ f.task = t => e = f

\* The id a call returns is that of an effect of its own task, never of a task
\* running beside it on the same client (client.go:275-281: the headers of a call
\* are its own).
ValueIsOwn ==
  \A t \in Tasks :
    result[t].kind = "value" =>
      \E e \in effects : e.task = t /\ e.id = result[t].effect

\* A rejection is the truth about the task, unless an earlier attempt or call
\* was in doubt: the second DELETE's 404, the second funding's payment.exists and
\* the late POST are the ways to be rejected for what was done.
RejectionIsHonest ==
  \A t \in Tasks :
    /\ pc[t] = "idle"
    /\ result[t] = Rejected
    /\ \E e \in effects : e.task = t
    => doubt[t]

=============================================================================
