------------------------------ MODULE Webhooks ------------------------------
(***************************************************************************)
(* Webhook subscriptions, deliveries and the decoding of events.  A        *)
(* subscription is created with a POST the client may repeat; Wise sends   *)
(* every event of its type to the handler and sends it again until it is   *)
(* acknowledged; the handler verifies, parses, dispatches on the event     *)
(* type and skips the delivery IDs it has recorded, as the documentation   *)
(* of the package tells it to.  Wise, the network and the handler are      *)
(* external; verification, parsing and the accessors are the code's.       *)
(* What the documentation leaves open is settled here: a handler answers   *)
(* an accessor's error as it does one of ParseWebhookEvent, acts before it *)
(* records the ID and acknowledges last, and may crash in between.         *)
(***************************************************************************)
EXTENDS Naturals, Sequences, FiniteSets

CONSTANTS
  Triggers,     \* the event types subscribed to
  MaxSubs,      \* bound: subscriptions ever created
  MaxEvents,    \* bound: events
  MaxFlaws,     \* bound: fields of one event that are absent or spoilt
  MaxAttempts,  \* deliveries of one event to one subscription before Wise gives up
  MaxFaults     \* bound: replies, deliveries and acknowledgements lost, altered or
                \*        doubled, and crashes of the handler

ASSUME BoundsAssumption == {MaxSubs, MaxEvents, MaxFlaws, MaxAttempts, MaxFaults} \subseteq Nat

\* What the data block of an event carries and the accessors read (the id is that
\* of the resource or the transfer); an event type the package has never seen
\* carries what it likes.
Carries ==
  [stateChange   |-> {"id", "current_state", "occurred_at"},
   payoutFailure |-> {"id", "occurred_at"},
   credit        |-> {"id", "occurred_at", "amount", "balance", "currency"},
   activeCases   |-> {"id", "active_cases"},
   refund        |-> {"id", "occurred_at", "refund_amount", "refund_currency"},
   unseen        |-> {}]

ASSUME TriggersAssumption == Triggers \subseteq DOMAIN Carries

VARIABLES
  subs,     \* what Wise has: for each subscription ever created, its type, or "none"
  known,    \* the subscriptions the consumer was told of, and holds the key of
  events,   \* what happened, oldest first
  pending,  \* the deliveries Wise has to see acknowledged: subscription and event
  tries,    \* how often each was sent
  net,      \* the deliveries under way
  acted,    \* the deliveries the handler acted on, in order
  work,     \* those it has not recorded and acknowledged yet
  seen,     \* the delivery IDs it recorded
  faults    \* what went wrong so far

vars == <<subs, known, events, pending, tries, net, acted, work, seen, faults>>

Pairs == (1..MaxSubs) \X (1..MaxEvents)

Init ==
  /\ subs = <<>> /\ known = {}
  /\ events = <<>>
  /\ pending = {} /\ tries = [p \in Pairs |-> 0]
  /\ net = {} /\ acted = <<>> /\ work = {} /\ seen = {}
  /\ faults = 0

Fault == faults < MaxFaults /\ faults' = faults + 1

handlerVars == <<acted, work, seen>>
deliveryVars == <<events, tries, net, handlerVars>>

(***************************************************************************)
(* Subscriptions.                                                          *)
(***************************************************************************)

\* The reply arrives, or the reply to a repetition; or none does, and the call
\* fails although the subscription is there.
Create(t) ==
  \/ /\ Len(subs) < MaxSubs
     /\ subs' = Append(subs, t)
     /\ known' = known \cup {Len(subs')}
     /\ UNCHANGED <<deliveryVars, pending, faults>>
  \/ /\ Len(subs) + 1 < MaxSubs
     /\ subs' = subs \o <<t, t>>
     /\ known' = known \cup {Len(subs')}
     /\ Fault
     /\ UNCHANGED <<deliveryVars, pending>>
  \/ /\ Len(subs) < MaxSubs
     /\ subs' = Append(subs, t)
     /\ Fault
     /\ UNCHANGED <<deliveryVars, pending, known>>

\* Any subscription of the profile, a stray one found by listing them.  A lost
\* reply makes it a 404 the second time; the subscription is gone all the same.
Delete(s) ==
  /\ subs[s] # "none"
  /\ subs' = [subs EXCEPT ![s] = "none"]
  /\ known' = known \ {s}
  /\ pending' = {p \in pending : p[1] # s}
  /\ UNCHANGED <<deliveryVars, faults>>

(***************************************************************************)
(* Wise and the network.                                                   *)
(***************************************************************************)

\* An event as it is sent: fields its data lacks (absent, or null), fields whose
\* value nothing makes sense of (of the wrong JSON type, a time in a layout of its
\* own, no currency, an amount out of range), and whether its sent_at parses.
Envelopes ==
  {e \in [type : Triggers, lacks : SUBSET UNION {Carries[t] : t \in Triggers},
          spoils : SUBSET UNION {Carries[t] : t \in Triggers}, dated : BOOLEAN] :
     /\ e.lacks \cup e.spoils \subseteq Carries[e.type]
     /\ e.lacks \cap e.spoils = {}
     /\ Cardinality(e.lacks \cup e.spoils) <= MaxFlaws}

Happen(e) ==
  /\ events' = Append(events, e)
  /\ pending' = pending \cup {<<s, Len(events')>> : s \in {i \in DOMAIN subs : subs[i] = e.type}}
  /\ UNCHANGED <<subs, known, tries, net, handlerVars, faults>>

\* Every attempt has a delivery ID of its own, the number of the attempt.
Deliver(p) ==
  /\ p \in pending
  /\ tries[p] < MaxAttempts
  /\ tries' = [tries EXCEPT ![p] = @ + 1]
  /\ net' = net \cup {[to |-> p, id |-> tries'[p], intact |-> TRUE]}
  /\ UNCHANGED <<subs, known, events, pending, handlerVars, faults>>

Alter(m) ==
  /\ m.intact
  /\ Fault
  /\ net' = (net \ {m}) \cup {[m EXCEPT !.intact = FALSE]}
  /\ UNCHANGED <<subs, known, events, pending, tries, handlerVars>>

Lose(m) ==
  /\ Fault
  /\ net' = net \ {m}
  /\ UNCHANGED <<subs, known, events, pending, tries, handlerVars>>

(***************************************************************************)
(* The code.                                                               *)
(***************************************************************************)

\* Mutant: whatever the signature says.
VerifyNothing(m) == TRUE

\* The signature is one of the subscription's key over the bytes as they came; a
\* subscription the consumer was not told of has a key it does not hold.
VerifyWebhookSignature(m) == m.to[1] \in known /\ m.intact

\* An envelope without an event type is never sent here.
ParseWebhookEvent(e) == e.dated

\* What an accessor asks for: a time has to parse, toMoney has to have a currency,
\* and a refund is checked for its amount, where the amounts of a credit are not.
\* Any other field that is absent is read as zero.

\* Mutant: a refund has to hold the amount of a credit.
NeedsAmount ==
  [stateChange   |-> {"occurred_at"},
   payoutFailure |-> {"occurred_at"},
   credit        |-> {"occurred_at", "currency"},
   activeCases   |-> {},
   refund        |-> {"occurred_at", "amount", "refund_currency"}]

\* Mutant: the amount of a refund is read as that of a credit is.
NeedsNoAmount ==
  [stateChange   |-> {"occurred_at"},
   payoutFailure |-> {"occurred_at"},
   credit        |-> {"occurred_at", "currency"},
   activeCases   |-> {},
   refund        |-> {"occurred_at", "refund_currency"}]

Needs ==
  [stateChange   |-> {"occurred_at"},
   payoutFailure |-> {"occurred_at"},
   credit        |-> {"occurred_at", "currency"},
   activeCases   |-> {},
   refund        |-> {"occurred_at", "refund_amount", "refund_currency"}]

Decodes(e) == e.spoils = {} /\ Needs[e.type] \subseteq Carries[e.type] \ e.lacks

(***************************************************************************)
(* The handler.                                                            *)
(***************************************************************************)
Dispatch(e) == e.type \in DOMAIN Needs => Decodes(e)

Passes(m) ==
  /\ VerifyWebhookSignature(m)
  /\ ParseWebhookEvent(events[m.to[2]])
  /\ Dispatch(events[m.to[2]])

\* 401, or 400; Wise will send it again.
Reject(m) ==
  /\ ~Passes(m)
  /\ net' = net \ {m}
  /\ UNCHANGED <<subs, known, events, pending, tries, handlerVars, faults>>

\* The network may have delivered the request twice.
Act(m) ==
  /\ Passes(m)
  /\ <<m.to, m.id>> \notin seen
  /\ acted' = Append(acted, m)
  /\ work' = work \cup {m}
  /\ \/ net' = net \ {m} /\ UNCHANGED faults
     \/ UNCHANGED net /\ Fault
  /\ UNCHANGED <<subs, known, events, pending, tries, seen>>

\* The acknowledgement arrives, or is lost.
Acknowledge(p) ==
  \/ pending' = pending \ {p} /\ UNCHANGED faults
  \/ UNCHANGED pending /\ Fault

Finish(m) ==
  /\ seen' = seen \cup {<<m.to, m.id>>}
  /\ work' = work \ {m}
  /\ Acknowledge(m.to)
  /\ UNCHANGED <<subs, known, events, tries, net, acted>>

\* A delivery whose ID is recorded is acknowledged and not acted on.
Skip(m) ==
  /\ Passes(m)
  /\ <<m.to, m.id>> \in seen
  /\ net' = net \ {m}
  /\ Acknowledge(m.to)
  /\ UNCHANGED <<subs, known, events, tries, handlerVars>>

\* What the handler acted on is neither recorded nor acknowledged.
Crash ==
  /\ work # {}
  /\ work' = {}
  /\ Fault
  /\ UNCHANGED <<subs, known, events, pending, tries, net, acted, seen>>

Handle ==
  \/ \E m \in net : Reject(m) \/ Act(m) \/ Skip(m)
  \/ \E m \in work : Finish(m)

Redeliver == \E p \in pending : Deliver(p)

Next ==
  \/ \E t \in Triggers : Create(t)
  \/ \E s \in DOMAIN subs : Delete(s)
  \/ Len(events) < MaxEvents /\ \E e \in Envelopes : Happen(e)
  \/ Redeliver
  \/ \E m \in net : Alter(m) \/ Lose(m)
  \/ Handle
  \/ Crash

\* Wise sends again what is not acknowledged, each delivery; the handler runs.
Spec ==
  /\ Init /\ [][Next]_vars
  /\ \A p \in Pairs : WF_vars(Deliver(p))
  /\ WF_vars(Handle)

(***************************************************************************)
(* Properties.                                                             *)
(***************************************************************************)

Deliveries == [to : Pairs, id : 1..MaxAttempts, intact : BOOLEAN]

\* Every variable keeps to its type; the keys the consumer holds are those of
\* subscriptions that exist (DeleteProfileWebhookSubscription).
TypeOK ==
  /\ subs \in Seq(Triggers \cup {"none"}) /\ Len(subs) <= MaxSubs
  /\ known \subseteq {s \in DOMAIN subs : subs[s] # "none"}
  /\ events \in Seq(Envelopes) /\ Len(events) <= MaxEvents
  /\ pending \subseteq (DOMAIN subs) \X (DOMAIN events)
  /\ tries \in [Pairs -> 0..MaxAttempts]
  /\ net \subseteq Deliveries /\ work \subseteq Deliveries
  /\ acted \in Seq(Deliveries)
  /\ seen \subseteq Pairs \X (1..MaxAttempts)
  /\ faults \in 0..MaxFaults

\* What no accessor reads as zero when it is absent.
NeverZero == {"occurred_at", "currency", "refund_amount", "refund_currency"}

\* What the handler acts on is what Wise sent: nothing altered on its way, nothing
\* of a subscription it never had the key of, no field that makes no sense, and no
\* time, currency or refund that Wise did not send (VerifyWebhookSignature,
\* ParseWebhookEvent and the accessors).  Of the rest a payload may lack something
\* and be acted on: the id, the state and the cases, and, which the documentation
\* does not say, the amount and the balance of a credit, which are then zero.
ActedIsSent ==
  \A i \in DOMAIN acted :
    LET e == events[acted[i].to[2]]
    IN  /\ acted[i].intact /\ e.dated
        /\ acted[i].to[1] \in known \/ subs[acted[i].to[1]] = "none"
        /\ e.type \in DOMAIN Needs => e.spoils = {} /\ e.lacks \cap NeverZero = {}

Complete(e) == e.dated /\ e.lacks = {} /\ e.spoils = {}

\* A complete event of a subscription the consumer knows is acted on in the end,
\* however the deliveries interleave, as long as fewer of them go wrong than Wise
\* makes, and unless the subscription is deleted.
EventsAreActedOn ==
  \A p \in Pairs :
    (/\ p \in pending
     /\ p[1] \in known
     /\ Complete(events[p[2]])) ~>
    \/ \E i \in DOMAIN acted : acted[i].to = p
    \/ p[1] \notin known
=============================================================================
