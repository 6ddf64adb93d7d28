--------------------------- MODULE WebhooksProofs ---------------------------
(***************************************************************************)
(* What TLAPS proves of Webhooks, for any event types and bounds.  The     *)
(* argument: whatever left Wise is about a subscription and an event there *)
(* are, only what verifies, parses and decodes is acted on, a recorded ID  *)
(* and a delivery at work each stand for an act, and an attempt that comes *)
(* to nothing costs a fault.                                               *)
(***************************************************************************)
EXTENDS Webhooks, SequenceTheorems, FiniteSetTheorems, TLAPS

\* Pairs of a subscription and an event that there are.
Existing(p) == p[1] \in DOMAIN subs /\ p[2] \in DOMAIN events

\* What was sent, is under way or was acted on is about such a pair.
SentInv ==
  /\ \A p \in Pairs : tries[p] > 0 => Existing(p)
  /\ \A m \in net : Existing(m.to)
  /\ \A i \in DOMAIN acted : Existing(acted[i].to)

Acted(p) == \E i \in DOMAIN acted : acted[i].to = p

\* Every delivery ID the handler recorded is that of a delivery it acted on, and
\* every delivery at work was acted on.
SeenInv == (\A x \in seen : Acted(x[1])) /\ (\A m \in work : Acted(m.to))

IInv == TypeOK /\ SentInv /\ SeenInv /\ ActedIsSent

-----------------------------------------------------------------------------
\* Nothing there was is forgotten: subscriptions are at most marked as deleted,
\* events and acts stay.
LEMMA HistoryGrows ==
  ASSUME TypeOK, [Next]_vars
  PROVE  /\ subs' \in Seq(Triggers \cup {"none"}) /\ Len(subs') <= MaxSubs
         /\ \A s \in DOMAIN subs : s \in DOMAIN subs' /\ subs'[s] \in {subs[s], "none"}
         /\ events' \in Seq(Envelopes) /\ Len(events') <= MaxEvents
         /\ \A n \in DOMAIN events : n \in DOMAIN events' /\ events'[n] = events[n]
         /\ acted' \in Seq(Deliveries)
         /\ \A i \in DOMAIN acted : i \in DOMAIN acted' /\ acted'[i] = acted[i]
<1> DEFINE Subs == Triggers \cup {"none"}
           SubsGrow == /\ subs' \in Seq(Subs) /\ Len(subs') <= MaxSubs
                       /\ \A s \in DOMAIN subs : s \in DOMAIN subs' /\ subs'[s] \in {subs[s], "none"}
           EventsGrow == /\ events' \in Seq(Envelopes) /\ Len(events') <= MaxEvents
                         /\ \A n \in DOMAIN events : n \in DOMAIN events' /\ events'[n] = events[n]
           ActedGrow == /\ acted' \in Seq(Deliveries)
                        /\ \A i \in DOMAIN acted : i \in DOMAIN acted' /\ acted'[i] = acted[i]
<1>1. /\ subs \in Seq(Subs) /\ Len(subs) <= MaxSubs /\ Len(subs) \in Nat
      /\ events \in Seq(Envelopes) /\ Len(events) <= MaxEvents /\ Len(events) \in Nat
      /\ acted \in Seq(Deliveries) /\ Len(acted) \in Nat
      /\ {MaxSubs, MaxEvents, MaxFlaws, MaxAttempts, MaxFaults} \subseteq Nat
  BY BoundsAssumption DEF TypeOK
<1>2. UNCHANGED subs => SubsGrow
  BY <1>1
<1>3. UNCHANGED events => EventsGrow
  BY <1>1
<1>4. UNCHANGED acted => ActedGrow
  BY <1>1
<1>5. ASSUME NEW t \in Triggers, Create(t) PROVE SubsGrow /\ EventsGrow /\ ActedGrow
  <2>1. UNCHANGED <<events, acted>>
    BY <1>5 DEF Create, deliveryVars, handlerVars
  <2>2. CASE Len(subs) < MaxSubs /\ subs' = Append(subs, t)
    <3>1. t \in Subs
      OBVIOUS
    <3>2. /\ subs' \in Seq(Subs) /\ Len(subs') = Len(subs) + 1
          /\ \A s \in 1..Len(subs) : subs'[s] = subs[s]
      BY <1>1, <2>2, <3>1, AppendProperties
    <3> QED BY <1>1, <1>3, <1>4, <2>1, <2>2, <3>2
  <2>3. CASE Len(subs) + 1 < MaxSubs /\ subs' = subs \o <<t, t>>
    <3>1. <<t, t>> \in Seq(Subs) /\ Len(<<t, t>>) = 2
      OBVIOUS
    <3>2. /\ subs' \in Seq(Subs) /\ Len(subs') = Len(subs) + 2
          /\ \A s \in 1..Len(subs) + 2 :
               subs'[s] = IF s <= Len(subs) THEN subs[s] ELSE <<t, t>>[s - Len(subs)]
      BY <1>1, <2>3, <3>1, ConcatProperties
    <3> QED BY <1>1, <1>3, <1>4, <2>1, <2>3, <3>2
  <2> QED BY <1>5, <2>2, <2>3 DEF Create
<1>6. ASSUME NEW s \in DOMAIN subs, Delete(s) PROVE SubsGrow /\ EventsGrow /\ ActedGrow
  <2>1. subs' = [subs EXCEPT ![s] = "none"] /\ UNCHANGED <<events, acted>>
    BY <1>6 DEF Delete, deliveryVars, handlerVars
  <2>2. s \in 1..Len(subs) /\ "none" \in Subs
    BY <1>1
  <2>3. subs' \in Seq(Subs) /\ Len(subs') = Len(subs)
    BY <1>1, <2>1, <2>2, ExceptSeq
  <2> QED BY <1>1, <1>3, <1>4, <2>1, <2>2, <2>3
<1>7. ASSUME Len(events) < MaxEvents, NEW e \in Envelopes, Happen(e)
      PROVE  SubsGrow /\ EventsGrow /\ ActedGrow
  <2>1. events' = Append(events, e) /\ UNCHANGED <<subs, acted>>
    BY <1>7 DEF Happen, handlerVars
  <2>2. /\ events' \in Seq(Envelopes) /\ Len(events') = Len(events) + 1
        /\ \A n \in 1..Len(events) : events'[n] = events[n]
    BY <1>1, <2>1, AppendProperties
  <2> QED BY <1>1, <1>2, <1>4, <1>7, <2>1, <2>2
<1>8. ASSUME NEW m \in net, Act(m) PROVE SubsGrow /\ EventsGrow /\ ActedGrow
  <2>1. acted' = Append(acted, m) /\ UNCHANGED <<subs, events>>
    BY <1>8 DEF Act
  <2>2. m \in Deliveries
    BY DEF TypeOK
  <2>3. /\ acted' \in Seq(Deliveries) /\ Len(acted') = Len(acted) + 1
        /\ \A i \in 1..Len(acted) : acted'[i] = acted[i]
    BY <1>1, <2>1, <2>2, AppendProperties
  <2>4. ActedGrow
    BY <1>1, <2>3
  <2>5. SubsGrow /\ EventsGrow
    BY <1>2, <1>3, <2>1
  <2> QED BY <2>4, <2>5
<1>9. ASSUME UNCHANGED <<subs, events, acted>> PROVE SubsGrow /\ EventsGrow /\ ActedGrow
  BY <1>2, <1>3, <1>4, <1>9
<1>10. (\/ Redeliver \/ Crash \/ UNCHANGED vars
        \/ \E m \in net : Alter(m) \/ Lose(m) \/ Reject(m) \/ Skip(m)
        \/ \E m \in work : Finish(m))
         => UNCHANGED <<subs, events, acted>>
  BY DEF Redeliver, Deliver, Alter, Lose, Reject, Skip, Finish, Crash, handlerVars, vars
<1> QED BY <1>5, <1>6, <1>7, <1>8, <1>9, <1>10 DEF Next, Handle

-----------------------------------------------------------------------------
\* Every step keeps the types.
LEMMA TypeStep == ASSUME TypeOK, [Next]_vars PROVE TypeOK'
<1> DEFINE Keys == known' \subseteq {s \in DOMAIN subs' : subs'[s] # "none"}
           Rest == /\ pending' \subseteq (DOMAIN subs') \X (DOMAIN events')
                   /\ tries' \in [Pairs -> 0..MaxAttempts]
                   /\ net' \subseteq Deliveries /\ work' \subseteq Deliveries
                   /\ seen' \subseteq Pairs \X (1..MaxAttempts)
                   /\ faults' \in 0..MaxFaults
<1>1. /\ subs \in Seq(Triggers \cup {"none"}) /\ Len(subs) \in Nat /\ Len(subs) <= MaxSubs
      /\ known \subseteq {s \in DOMAIN subs : subs[s] # "none"}
      /\ events \in Seq(Envelopes) /\ Len(events) \in Nat /\ Len(events) <= MaxEvents
      /\ pending \subseteq (DOMAIN subs) \X (DOMAIN events)
      /\ tries \in [Pairs -> 0..MaxAttempts]
      /\ net \subseteq Deliveries /\ work \subseteq Deliveries
      /\ seen \subseteq Pairs \X (1..MaxAttempts)
      /\ faults \in 0..MaxFaults
      /\ MaxSubs \in Nat /\ MaxEvents \in Nat /\ MaxAttempts \in Nat /\ MaxFaults \in Nat
  BY BoundsAssumption DEF TypeOK
<1>2. /\ DOMAIN subs \subseteq DOMAIN subs'
      /\ DOMAIN events \subseteq DOMAIN events'
      /\ pending \subseteq (DOMAIN subs') \X (DOMAIN events')
  BY <1>1, HistoryGrows
<1>3. Fault => faults' \in 0..MaxFaults
  BY <1>1 DEF Fault
<1>4. UNCHANGED <<subs, known>> => Keys
  BY <1>1
<1>5. ASSUME NEW t \in Triggers, Create(t) PROVE Keys /\ Rest
  <2>1. /\ UNCHANGED <<tries, net, work, seen, pending>>
        /\ faults' \in 0..MaxFaults
    BY <1>1, <1>3, <1>5 DEF Create, deliveryVars, handlerVars
  <2>2. known' \subseteq known \cup {Len(subs')} /\ Len(subs') \in DOMAIN subs' /\ subs'[Len(subs')] = t
    <3>1. CASE Len(subs) < MaxSubs /\ subs' = Append(subs, t)
      BY <1>1, <1>5, <3>1 DEF Create
    <3>2. CASE Len(subs) + 1 < MaxSubs /\ subs' = subs \o <<t, t>>
      BY <1>1, <1>5, <3>2 DEF Create
    <3> QED BY <1>5, <3>1, <3>2 DEF Create
  <2>3. \A s \in DOMAIN subs : subs'[s] = subs[s]
    <3>1. CASE Len(subs) < MaxSubs /\ subs' = Append(subs, t)
      BY <1>1, <1>5, <3>1, AppendProperties
    <3>2. CASE Len(subs) + 1 < MaxSubs /\ subs' = subs \o <<t, t>>
      <4>1. <<t, t>> \in Seq(Triggers \cup {"none"}) /\ Len(<<t, t>>) = 2
        OBVIOUS
      <4> QED BY <1>1, <3>2, <4>1, ConcatProperties
    <3> QED BY <1>5, <3>1, <3>2 DEF Create
  <2>4. t # "none"
    BY TriggersAssumption DEF Carries
  <2> QED BY <1>1, <1>2, <2>1, <2>2, <2>3, <2>4
<1>6. ASSUME NEW s \in DOMAIN subs, Delete(s) PROVE Keys /\ Rest
  <2>1. /\ subs' = [subs EXCEPT ![s] = "none"]
        /\ known' = known \ {s}
        /\ pending' \subseteq pending
        /\ UNCHANGED <<tries, net, work, seen, faults>>
    BY <1>6 DEF Delete, deliveryVars, handlerVars
  <2> QED BY <1>1, <1>2, <2>1
<1>7. ASSUME Len(events) < MaxEvents, NEW e \in Envelopes, Happen(e) PROVE Keys /\ Rest
  <2>1. /\ UNCHANGED <<subs, known, tries, net, work, seen, faults>>
        /\ pending' = pending \cup {<<s, Len(events')>> : s \in {i \in DOMAIN subs : subs[i] = e.type}}
    BY <1>7 DEF Happen, handlerVars
  <2>2. Len(events') \in DOMAIN events'
    BY <1>1, <1>7 DEF Happen
  <2>3. pending' \subseteq (DOMAIN subs') \X (DOMAIN events')
    BY <1>2, <2>1, <2>2
  <2> QED BY <1>1, <1>4, <2>1, <2>3
<1>8. ASSUME NEW p \in pending, Deliver(p) PROVE Keys /\ Rest
  <2>1. /\ UNCHANGED <<subs, known, pending, work, seen, faults>>
        /\ tries' = [tries EXCEPT ![p] = @ + 1]
        /\ tries[p] < MaxAttempts
        /\ net' = net \cup {[to |-> p, id |-> tries'[p], intact |-> TRUE]}
    BY <1>8 DEF Deliver, handlerVars
  <2>2. p \in Pairs
    BY <1>1 DEF Pairs
  <2>3. tries' \in [Pairs -> 0..MaxAttempts] /\ tries'[p] \in 1..MaxAttempts
    BY <1>1, <2>1, <2>2
  <2>4. net' \subseteq Deliveries
    <3>1. [to |-> p, id |-> tries'[p], intact |-> TRUE] \in Deliveries
      BY <2>2, <2>3 DEF Deliveries
    <3> QED BY <1>1, <2>1, <3>1
  <2> QED BY <1>1, <1>2, <1>4, <2>1, <2>3, <2>4
<1>9. ASSUME NEW m \in net, Alter(m) \/ Lose(m) \/ Reject(m) PROVE Keys /\ Rest
  <2>1. UNCHANGED <<subs, known, pending, tries, work, seen>> /\ faults' \in 0..MaxFaults
    BY <1>1, <1>3, <1>9 DEF Alter, Lose, Reject, handlerVars
  <2>2. net' \subseteq net \cup {[m EXCEPT !.intact = FALSE]}
    BY <1>9 DEF Alter, Lose, Reject
  <2>3. [m EXCEPT !.intact = FALSE] \in Deliveries
    BY <1>1 DEF Deliveries
  <2> QED BY <1>1, <1>2, <1>4, <2>1, <2>2, <2>3
<1>10. ASSUME NEW m \in net, Act(m) \/ Skip(m) PROVE Keys /\ Rest
  <2>1. /\ UNCHANGED <<subs, known, tries, seen>>
        /\ pending' \subseteq pending /\ net' \subseteq net
        /\ work' \subseteq work \cup {m}
        /\ faults' \in 0..MaxFaults
    BY <1>1, <1>3, <1>10 DEF Act, Skip, Acknowledge, handlerVars
  <2> QED BY <1>1, <1>2, <1>4, <2>1
<1>11. ASSUME NEW m \in work, Finish(m) PROVE Keys /\ Rest
  <2>1. /\ UNCHANGED <<subs, known, tries, net>>
        /\ pending' \subseteq pending /\ work' \subseteq work
        /\ faults' \in 0..MaxFaults
        /\ seen' = seen \cup {<<m.to, m.id>>}
    BY <1>1, <1>3, <1>11 DEF Finish, Acknowledge
  <2>2. <<m.to, m.id>> \in Pairs \X (1..MaxAttempts)
    BY <1>1 DEF Deliveries
  <2> QED BY <1>1, <1>2, <1>4, <2>1, <2>2
<1>12. ASSUME Crash \/ UNCHANGED vars PROVE Keys /\ Rest
  <2>1. /\ UNCHANGED <<subs, known, pending, tries, net, seen>> /\ work' \subseteq work
        /\ faults' \in 0..MaxFaults
    BY <1>1, <1>3, <1>12 DEF Crash, vars
  <2> QED BY <1>1, <1>2, <1>4, <2>1
<1>13. Keys /\ Rest
  <2>1. Next \/ UNCHANGED vars
    OBVIOUS
  <2> HIDE DEF Keys, Rest
  <2> QED BY <1>5, <1>6, <1>7, <1>8, <1>9, <1>10, <1>11, <1>12, <2>1 DEF Next, Handle, Redeliver
<1> QED BY <1>13, HistoryGrows DEF TypeOK
-----------------------------------------------------------------------------
\* An act is one of a delivery under way that passes, and no act is taken back.
LEMMA OnlyPassesAct ==
  ASSUME TypeOK, [Next]_vars
  PROVE  \A i \in DOMAIN acted' :
           \/ i \in DOMAIN acted /\ acted'[i] = acted[i]
           \/ \E m \in net : Act(m) /\ acted'[i] = m
<1>1. acted \in Seq(Deliveries) /\ net \subseteq Deliveries
  BY DEF TypeOK
<1>2. ASSUME NEW m \in net, Act(m)
      PROVE  \A i \in DOMAIN acted' : (i \in DOMAIN acted /\ acted'[i] = acted[i]) \/ acted'[i] = m
  <2>1. acted' = Append(acted, m)
    BY <1>2 DEF Act
  <2>2. m \in Deliveries
    BY <1>1
  <2>3. /\ Len(acted') = Len(acted) + 1 /\ acted' \in Seq(Deliveries)
        /\ \A i \in 1..Len(acted) : acted'[i] = acted[i]
        /\ acted'[Len(acted) + 1] = m
    BY <1>1, <2>1, <2>2, AppendProperties
  <2> QED BY <1>1, <2>3
<1>3. (\E m \in net : Act(m)) \/ UNCHANGED acted
  BY DEF Next, Handle, Redeliver, Create, Delete, Happen, Deliver, Alter, Lose, Reject, Skip,
         Finish, Crash, deliveryVars, handlerVars, vars
<1> QED BY <1>2, <1>3

\* A delivery taken from under way without being rejected has been acted on: now,
\* or when its ID was recorded.
LEMMA HandledIsActed ==
  ASSUME TypeOK, SeenInv, NEW m \in net, Act(m) \/ Skip(m)
  PROVE  Acted(m.to)'
<1>1. acted \in Seq(Deliveries) /\ m \in Deliveries
  BY DEF TypeOK
<1>2. CASE Skip(m)
  <2>1. Acted(m.to)
    BY <1>2 DEF SeenInv, Skip
  <2> QED BY <1>2, <2>1 DEF Skip, handlerVars, Acted
<1>3. CASE Act(m)
  <2>1. acted' = Append(acted, m)
    BY <1>3 DEF Act
  <2>2. Len(acted) + 1 \in DOMAIN acted' /\ acted'[Len(acted) + 1] = m
    BY <1>1, <2>1, AppendProperties
  <2> QED BY <2>2 DEF Acted
<1> QED BY <1>2, <1>3

LEMMA SentStep == ASSUME TypeOK, SentInv, [Next]_vars PROVE SentInv'
<1>1. \A p : Existing(p) => Existing(p)'
  BY HistoryGrows DEF Existing
<1>2. pending \subseteq (DOMAIN subs) \X (DOMAIN events) /\ tries \in [Pairs -> 0..MaxAttempts]
  BY DEF TypeOK
<1>3. \A p \in pending : Existing(p)
  BY <1>2 DEF Existing
<1>4. \A p \in Pairs : tries'[p] = tries[p] \/ p \in pending
  <2>1. ASSUME NEW q \in pending, Deliver(q) PROVE \A p \in Pairs : tries'[p] = tries[p] \/ p = q
    BY <1>2, <2>1 DEF Deliver
  <2>2. Redeliver \/ UNCHANGED tries
    BY DEF Next, Handle, Create, Delete, Happen, Alter, Lose, Reject, Act, Skip, Finish, Crash,
           deliveryVars, handlerVars, vars
  <2> QED BY <2>1, <2>2 DEF Redeliver
<1>5. \A m \in net' : (\E n \in net : m.to = n.to) \/ m.to \in pending
  <2>1. ASSUME NEW n \in net, Alter(n)
        PROVE  \A m \in net' : (\E l \in net : m.to = l.to) \/ m.to \in pending
    <3>1. net' = (net \ {n}) \cup {[n EXCEPT !.intact = FALSE]}
      BY <2>1 DEF Alter
    <3>2. [n EXCEPT !.intact = FALSE].to = n.to
      BY DEF TypeOK, Deliveries
    <3> QED BY <3>1, <3>2
  <2>2. ASSUME NEW q \in pending, Deliver(q)
        PROVE  \A m \in net' : (\E l \in net : m.to = l.to) \/ m.to \in pending
    <3>1. net' = net \cup {[to |-> q, id |-> tries'[q], intact |-> TRUE]}
      BY <2>2 DEF Deliver
    <3>2. [to |-> q, id |-> tries'[q], intact |-> TRUE].to = q
      OBVIOUS
    <3> QED BY <3>1, <3>2
  <2>3. Redeliver \/ (\E n \in net : Alter(n)) \/ net' \subseteq net
    BY DEF Next, Handle, Create, Delete, Happen, Lose, Reject, Act, Skip, Finish, Crash,
           deliveryVars, handlerVars, vars
  <2>4. CASE net' \subseteq net
    BY <2>4
  <2> QED BY <2>1, <2>2, <2>3, <2>4 DEF Redeliver
<1>6. \A p \in Pairs : tries'[p] > 0 => Existing(p)'
  BY <1>1, <1>3, <1>4 DEF SentInv
<1>7. (\A m \in net : Existing(m.to))'
  BY <1>1, <1>3, <1>5 DEF SentInv
<1>8. (\A i \in DOMAIN acted : Existing(acted[i].to))'
  <2> SUFFICES ASSUME NEW i \in DOMAIN acted' PROVE Existing(acted[i].to)'
    OBVIOUS
  <2>1. CASE i \in DOMAIN acted /\ acted'[i] = acted[i]
    BY <1>1, <2>1 DEF SentInv
  <2>2. CASE \E m \in net : Act(m) /\ acted'[i] = m
    BY <1>1, <2>2 DEF SentInv
  <2> QED BY <2>1, <2>2, OnlyPassesAct
<1> QED BY <1>6, <1>7, <1>8 DEF SentInv

LEMMA SeenStep == ASSUME TypeOK, SeenInv, [Next]_vars PROVE SeenInv'
<1>1. \A p : Acted(p) => Acted(p)'
  BY HistoryGrows DEF Acted
<1>2. ASSUME NEW m \in net, Act(m) PROVE SeenInv'
  <2>1. seen' = seen /\ work' = work \cup {m}
    BY <1>2 DEF Act
  <2>2. Acted(m.to)'
    BY <1>2, HandledIsActed
  <2> QED BY <1>1, <2>1, <2>2 DEF SeenInv
<1>3. ASSUME NEW m \in work, Finish(m) PROVE SeenInv'
  <2>1. seen' = seen \cup {<<m.to, m.id>>} /\ work' \subseteq work
    BY <1>3 DEF Finish
  <2> QED BY <1>1, <2>1 DEF SeenInv
<1>4. \/ \E m \in net : Act(m)
      \/ \E m \in work : Finish(m)
      \/ seen' = seen /\ work' \subseteq work
  BY DEF Next, Handle, Redeliver, Create, Delete, Happen, Deliver, Alter, Lose, Reject, Skip,
         Crash, deliveryVars, handlerVars, vars
<1>5. CASE seen' = seen /\ work' \subseteq work
  BY <1>1, <1>5 DEF SeenInv
<1> QED BY <1>2, <1>3, <1>4, <1>5

-----------------------------------------------------------------------------
\* What an event may lack and be acted on is never a time, a currency or a refund.
LEMMA NeverZeroIsNeeded ==
  \A type \in DOMAIN Needs : NeverZero \cap Carries[type] \subseteq Needs[type]
BY DEF Needs, Carries, NeverZero

\* A key is only forgotten with its subscription.
LEMMA KeysAreKept ==
  ASSUME TypeOK, [Next]_vars,
         NEW s \in DOMAIN subs, s \in known \/ subs[s] = "none"
  PROVE  s \in known' \/ subs'[s] = "none"
<1>1. subs[s] = "none" => subs'[s] = "none"
  BY HistoryGrows
<1>2. ASSUME NEW t \in Triggers, Create(t) PROVE known \subseteq known'
  BY <1>2 DEF Create
<1>3. ASSUME NEW d \in DOMAIN subs, Delete(d)
      PROVE  known' = known \ {d} /\ subs'[d] = "none"
  <2>1. subs \in Seq(Triggers \cup {"none"})
    BY DEF TypeOK
  <2> QED BY <1>3, <2>1 DEF Delete
<1>4. \/ \E t \in Triggers : Create(t)
      \/ \E d \in DOMAIN subs : Delete(d)
      \/ UNCHANGED known
  BY DEF Next, Handle, Redeliver, Happen, Deliver, Alter, Lose, Reject, Act, Skip, Finish, Crash, vars
<1> QED BY <1>1, <1>2, <1>3, <1>4

LEMMA ActedIsSentStep ==
  ASSUME TypeOK, SentInv, ActedIsSent, [Next]_vars
  PROVE  ActedIsSent'
<1> SUFFICES ASSUME NEW i \in DOMAIN acted'
             PROVE  LET e == events'[acted'[i].to[2]]
                    IN  /\ acted'[i].intact /\ e.dated
                        /\ acted'[i].to[1] \in known' \/ subs'[acted'[i].to[1]] = "none"
                        /\ e.type \in DOMAIN Needs => e.spoils = {} /\ e.lacks \cap NeverZero = {}
  BY DEF ActedIsSent
<1>1. CASE i \in DOMAIN acted /\ acted'[i] = acted[i]
  <2>1. acted[i].to[1] \in DOMAIN subs /\ acted[i].to[2] \in DOMAIN events
    BY <1>1 DEF SentInv, Existing
  <2>2. events'[acted'[i].to[2]] = events[acted[i].to[2]]
    BY <1>1, <2>1, HistoryGrows
  <2>3. acted'[i].to[1] \in known' \/ subs'[acted'[i].to[1]] = "none"
    <3>1. acted[i].to[1] \in known \/ subs[acted[i].to[1]] = "none"
      BY <1>1 DEF ActedIsSent
    <3> QED BY <1>1, <2>1, <3>1, KeysAreKept
  <2> QED BY <1>1, <2>2, <2>3 DEF ActedIsSent
<1>2. ASSUME NEW m \in net, Act(m), acted'[i] = m
      PROVE  LET e == events'[acted'[i].to[2]]
             IN  /\ acted'[i].intact /\ e.dated
                 /\ acted'[i].to[1] \in known' \/ subs'[acted'[i].to[1]] = "none"
                 /\ e.type \in DOMAIN Needs => e.spoils = {} /\ e.lacks \cap NeverZero = {}
  <2> DEFINE e == events[m.to[2]]
  <2>1. events'[acted'[i].to[2]] = e
    BY <1>2 DEF Act
  <2>2. m.intact /\ e.dated
    BY <1>2 DEF Act, Passes, VerifyWebhookSignature, ParseWebhookEvent
  <2>3. e.type \in DOMAIN Needs => e.spoils = {} /\ Needs[e.type] \subseteq Carries[e.type] \ e.lacks
    BY <1>2 DEF Act, Passes, Dispatch, Decodes
  <2>4. e.lacks \subseteq Carries[e.type]
    <3>1. m.to[2] \in DOMAIN events /\ events \in Seq(Envelopes)
      BY DEF SentInv, Existing, TypeOK
    <3>2. e \in Envelopes
      BY <3>1
    <3> QED BY <3>2 DEF Envelopes
  <2>5. acted'[i].to[1] \in known'
    BY <1>2 DEF Act, Passes, VerifyWebhookSignature
  <2> HIDE DEF e
  <2>6. e.type \in DOMAIN Needs => e.spoils = {} /\ e.lacks \cap NeverZero = {}
    BY <2>3, <2>4, NeverZeroIsNeeded
  <2> QED BY <1>2, <2>1, <2>2, <2>5, <2>6
<1> QED BY <1>1, <1>2, OnlyPassesAct

-----------------------------------------------------------------------------
\* The inductive invariant holds in every reachable state.
THEOREM WebhooksInvariant == Spec => []IInv
<1>1. Init => IInv
  BY BoundsAssumption
     DEF Init, IInv, TypeOK, Pairs, SentInv, SeenInv, ActedIsSent
<1>2. IInv /\ [Next]_vars => IInv'
  BY TypeStep, SentStep, SeenStep, ActedIsSentStep DEF IInv
<1> QED BY <1>1, <1>2, PTL DEF Spec

\* Every variable keeps to its type, whatever the subscriptions, events and faults.
THEOREM TypeCorrect == Spec => []TypeOK
<1>1. IInv => TypeOK
  BY DEF IInv
<1> QED BY <1>1, WebhooksInvariant, PTL

\* What the handler acts on was sent and signed as it came, holds no field that
\* makes no sense, and no time, currency or refund that the sender left out.
THEOREM OnlySentIsActedOn == Spec => []ActedIsSent
<1>1. IInv => ActedIsSent
  BY DEF IInv
<1> QED BY <1>1, WebhooksInvariant, PTL
-----------------------------------------------------------------------------
(***************************************************************************)
(* Why a complete event is acted on: an attempt whose delivery is no       *)
(* longer under way unaltered has cost a fault, since the handler rejects  *)
(* no other delivery of a complete event of a subscription it knows.  So   *)
(* fewer faults than attempts leave one.  (That it is made and handled is  *)
(* the fairness of Spec, which TLC adds in EventsAreActedOn.)              *)
(***************************************************************************)

\* Complete events of subscriptions the consumer knows, not acted on so far.
Awaited(p) == p \in pending /\ p[1] \in known /\ Complete(events[p[2]]) /\ ~Acted(p)

UnderWay(p, k) == [to |-> p, id |-> k, intact |-> TRUE] \in net

\* The attempts that came to nothing.
Failed(p) == {k \in 1..tries[p] : ~UnderWay(p, k)}

FaultInv == \A p \in pending : Awaited(p) => Cardinality(Failed(p)) <= faults

\* As long as fewer deliveries go wrong than Wise makes, what is awaited has an
\* attempt to come, or one under way that verifies, parses and decodes.
NothingIsGivenUp ==
  MaxFaults < MaxAttempts =>
    \A p \in pending : Awaited(p) =>
      tries[p] < MaxAttempts \/ \E m \in net : m.to = p /\ Passes(m)

LEMMA PartsAreFinite ==
  ASSUME NEW n \in Nat, NEW S \in SUBSET (1..n)
  PROVE  IsFiniteSet(S) /\ Cardinality(S) \in Nat /\ Cardinality(S) <= n
<1>1. IsFiniteSet(1..n) /\ Cardinality(1..n) = n
  BY FS_Interval
<1>2. IsFiniteSet(S) /\ Cardinality(S) <= n
  BY <1>1, FS_Subset
<1> QED BY <1>2, FS_CardinalityType

\* A complete event has everything its accessor asks for.
LEMMA CompletePasses ==
  ASSUME NEW m, VerifyWebhookSignature(m), Complete(events[m.to[2]]),
         events[m.to[2]] \in Envelopes
  PROVE  Passes(m)
<1>1. \A type \in DOMAIN Needs : Needs[type] \subseteq Carries[type]
  BY DEF Needs, Carries
<1> QED BY <1>1 DEF Complete, Passes, ParseWebhookEvent, Dispatch, Decodes

\* What was awaited before is awaited, if it is now: a subscription whose key the
\* consumer was not told of at once is one it never gets the key of.
LEMMA AwaitedBefore ==
  ASSUME TypeOK, [Next]_vars, NEW p \in pending, Awaited(p)'
  PROVE  Awaited(p)
<1>1. p[1] \in DOMAIN subs /\ p[2] \in DOMAIN events
  BY DEF TypeOK
<1>2. p[1] \in known
  <2>1. ASSUME NEW t \in Triggers, Create(t) PROVE p[1] \in known
    <3>1. Len(subs') > Len(subs)
      <4>1. subs \in Seq(Triggers \cup {"none"}) /\ Len(subs) \in Nat
        BY DEF TypeOK
      <4>2. subs' = Append(subs, t) => Len(subs') = Len(subs) + 1
        BY <4>1
      <4>3. subs' = subs \o <<t, t>> => Len(subs') = Len(subs) + 2
        BY <4>1
      <4> QED BY <2>1, <4>1, <4>2, <4>3 DEF Create
    <3>2. known' \subseteq known \cup {Len(subs')}
      BY <2>1 DEF Create
    <3>3. p[1] # Len(subs')
      BY <1>1, <3>1 DEF TypeOK
    <3> QED BY <3>2, <3>3 DEF Awaited
  <2>2. (\E t \in Triggers : Create(t)) \/ known' \subseteq known
    BY DEF Next, Handle, Redeliver, Delete, Happen, Deliver, Alter, Lose, Reject, Act, Skip,
           Finish, Crash, vars
  <2> QED BY <2>1, <2>2 DEF Awaited
<1>3. events'[p[2]] = events[p[2]]
  BY <1>1, HistoryGrows
<1>4. Acted(p) => Acted(p)'
  BY HistoryGrows DEF Acted
<1> QED BY <1>2, <1>3, <1>4 DEF Awaited

\* A step takes an attempt from under way only with a fault, or by handling it.
LEMMA FailuresCost ==
  ASSUME TypeOK, SeenInv, [Next]_vars, NEW p \in pending, Awaited(p), Awaited(p)'
  PROVE  \/ Failed(p)' \subseteq Failed(p) /\ faults' >= faults
         \/ faults' = faults + 1 /\ \E k : Failed(p)' \subseteq Failed(p) \cup {k}
<1>1. /\ p \in Pairs /\ p[2] \in DOMAIN events
      /\ tries \in [Pairs -> 0..MaxAttempts] /\ tries[p] \in Nat
      /\ net \subseteq Deliveries /\ faults \in Nat
      /\ events[p[2]] \in Envelopes
  BY BoundsAssumption DEF TypeOK, Pairs
<1>2. ASSUME NEW q \in pending, Deliver(q) PROVE Failed(p)' \subseteq Failed(p) /\ faults' >= faults
  <2>1. /\ tries' = [tries EXCEPT ![q] = tries[q] + 1]
        /\ net' = net \cup {[to |-> q, id |-> tries'[q], intact |-> TRUE]}
        /\ faults' = faults
    BY <1>2 DEF Deliver
  <2>2. CASE q = p
    <3>1. tries'[p] = tries[p] + 1 /\ \A k : k = tries'[p] => UnderWay(p, k)'
      BY <1>1, <2>1, <2>2 DEF UnderWay
    <3>2. \A k \in 1..tries'[p] : k \in 1..tries[p] \/ k = tries'[p]
      BY <1>1, <3>1
    <3>3. \A k : UnderWay(p, k) => UnderWay(p, k)'
      BY <2>1 DEF UnderWay
    <3> QED BY <1>1, <2>1, <3>1, <3>2, <3>3 DEF Failed
  <2>3. CASE q # p
    <3>1. tries'[p] = tries[p]
      BY <1>1, <2>1, <2>3
    <3>2. \A k : UnderWay(p, k) => UnderWay(p, k)'
      BY <2>1 DEF UnderWay
    <3> QED BY <1>1, <2>1, <3>1, <3>2 DEF Failed
  <2> QED BY <2>2, <2>3
<1>3. ASSUME NEW m \in net, Alter(m) \/ Lose(m)
      PROVE  faults' = faults + 1 /\ Failed(p)' \subseteq Failed(p) \cup {m.id}
  <2>1. faults' = faults + 1 /\ tries' = tries /\ net \ {m} \subseteq net'
    BY <1>3 DEF Alter, Lose, Fault
  <2>2. \A k : UnderWay(p, k) => UnderWay(p, k)' \/ k = m.id
    BY <2>1 DEF UnderWay
  <2> QED BY <2>1, <2>2 DEF Failed
<1>4. ASSUME NEW m \in net, Reject(m) PROVE Failed(p)' \subseteq Failed(p) /\ faults' >= faults
  <2>1. faults' = faults /\ tries' = tries /\ net' = net \ {m}
    BY <1>4 DEF Reject
  <2>2. ~(m.to = p /\ m.intact)
    <3> SUFFICES ASSUME m.to = p, m.intact PROVE FALSE
      OBVIOUS
    <3>1. VerifyWebhookSignature(m)
      BY DEF VerifyWebhookSignature, Awaited
    <3>2. Passes(m)
      BY <1>1, <3>1, CompletePasses DEF Awaited
    <3> QED BY <1>4, <3>2 DEF Reject
  <2>3. \A k : UnderWay(p, k) => UnderWay(p, k)'
    <3> SUFFICES ASSUME NEW k, UnderWay(p, k) PROVE UnderWay(p, k)'
      OBVIOUS
    <3>1. [to |-> p, id |-> k, intact |-> TRUE] # m
      BY <2>2
    <3> QED BY <2>1, <3>1 DEF UnderWay
  <2> QED BY <1>1, <2>1, <2>3 DEF Failed
<1>5. ASSUME NEW m \in net, Act(m) \/ Skip(m) PROVE Failed(p)' \subseteq Failed(p) /\ faults' >= faults
  <2>1. tries' = tries /\ net \ {m} \subseteq net' /\ faults' >= faults
    BY <1>1, <1>5 DEF Act, Skip, Acknowledge, Fault
  <2>2. m.to # p
    BY <1>5, HandledIsActed DEF Awaited
  <2>3. \A k : UnderWay(p, k) => UnderWay(p, k)'
    <3> SUFFICES ASSUME NEW k, UnderWay(p, k) PROVE UnderWay(p, k)'
      OBVIOUS
    <3>1. [to |-> p, id |-> k, intact |-> TRUE] # m
      BY <2>2
    <3> QED BY <2>1, <3>1 DEF UnderWay
  <2> QED BY <2>1, <2>3 DEF Failed
<1>6. ASSUME UNCHANGED <<tries, net>>, faults' \in {faults, faults + 1}
      PROVE  Failed(p)' \subseteq Failed(p) /\ faults' >= faults
  BY <1>1, <1>6 DEF Failed, UnderWay
<1>7. \/ \E q \in pending : Deliver(q)
      \/ \E m \in net : Alter(m) \/ Lose(m) \/ Reject(m) \/ Act(m) \/ Skip(m)
      \/ UNCHANGED <<tries, net>> /\ faults' \in {faults, faults + 1}
  BY DEF Next, Handle, Redeliver, Create, Delete, Happen, Finish, Acknowledge, Crash, Fault,
         deliveryVars, handlerVars, vars
<1> QED BY <1>2, <1>3, <1>4, <1>5, <1>6, <1>7

LEMMA FaultStep == ASSUME IInv, FaultInv, [Next]_vars PROVE FaultInv'
<1> USE DEF IInv
<1> SUFFICES ASSUME NEW p \in pending', Awaited(p)'
             PROVE  Cardinality(Failed(p)') <= faults'
  BY DEF FaultInv
<1>1. TypeOK'
  BY TypeStep
<1>2. p \in Pairs /\ faults \in Nat /\ faults' \in Nat
  BY <1>1, BoundsAssumption DEF TypeOK, Pairs
<1>3. CASE p \in pending
  <2>1. Awaited(p)
    BY <1>3, AwaitedBefore
  <2>2. Cardinality(Failed(p)) <= faults
    BY <1>3, <2>1 DEF FaultInv
  <2>3. /\ IsFiniteSet(Failed(p)) /\ Cardinality(Failed(p)) \in Nat
        /\ IsFiniteSet(Failed(p)') /\ Cardinality(Failed(p)') \in Nat
    <3>1. tries[p] \in Nat /\ tries'[p] \in Nat
      BY <1>1, <1>2, BoundsAssumption DEF TypeOK
    <3>2. Failed(p) \in SUBSET (1..tries[p]) /\ Failed(p)' \in SUBSET (1..tries'[p])
      BY DEF Failed
    <3> HIDE DEF IInv
    <3> QED BY <3>1, <3>2, PartsAreFinite
  <2>4. CASE Failed(p)' \subseteq Failed(p) /\ faults' >= faults
    <3>1. Cardinality(Failed(p)') <= Cardinality(Failed(p))
      BY <2>3, <2>4, FS_Subset
    <3> QED BY <1>2, <2>2, <2>3, <2>4, <3>1
  <2>5. ASSUME NEW k, faults' = faults + 1, Failed(p)' \subseteq Failed(p) \cup {k}
        PROVE  Cardinality(Failed(p)') <= faults'
    <3>0. /\ IsFiniteSet(Failed(p) \cup {k})
          /\ Cardinality(Failed(p) \cup {k}) \in {Cardinality(Failed(p)), Cardinality(Failed(p)) + 1}
      BY <2>3, FS_AddElement, Zenon
    <3>1. /\ IsFiniteSet(Failed(p) \cup {k})
          /\ Cardinality(Failed(p) \cup {k}) <= Cardinality(Failed(p)) + 1
      BY <2>3, <3>0
    <3>2. Cardinality(Failed(p)') <= Cardinality(Failed(p) \cup {k})
      BY <2>5, <3>1, FS_Subset
    <3>3. Cardinality(Failed(p) \cup {k}) \in Nat
      BY <3>1, FS_CardinalityType
    <3> QED BY <1>2, <2>2, <2>3, <2>5, <3>1, <3>2, <3>3
  <2> QED BY <1>3, <2>1, <2>4, <2>5, FailuresCost
<1>4. CASE p \notin pending
  <2>1. PICK e : Happen(e)
    <3>1. (\E e : Happen(e)) \/ pending' \subseteq pending
      BY DEF Next, Handle, Redeliver, Create, Delete, Deliver, Alter, Lose, Reject, Act, Skip,
             Finish, Acknowledge, Crash, deliveryVars, handlerVars, vars
    <3> QED BY <1>4, <3>1
  <2>2. /\ p[2] = Len(events') /\ Len(events') = Len(events) + 1
        /\ tries' = tries
    <3>1. events \in Seq(Envelopes) /\ p[2] = Len(events') /\ tries' = tries
      BY <1>4, <2>1 DEF Happen, TypeOK
    <3>2. Len(events') = Len(events) + 1
      BY <2>1, <3>1 DEF Happen
    <3> QED BY <3>1, <3>2
  <2>3. ~Existing(p)
    <3>1. events \in Seq(Envelopes)
      BY DEF TypeOK
    <3> QED BY <2>2, <3>1 DEF Existing
  <2>4. tries'[p] = 0
    BY <1>2, <2>2, <2>3, BoundsAssumption DEF SentInv, TypeOK
  <2>5. Failed(p)' = {}
    BY <2>4 DEF Failed
  <2> QED BY <1>2, <2>5, FS_EmptySet
<1> QED BY <1>3, <1>4

\* Fewer faults than attempts leave one for every complete event of a known
\* subscription that was not acted on: the code rejects nothing else, so that its
\* rejections use up no attempt of Wise's which was not spoilt on its way
\* (VerifyWebhookSignature, ParseWebhookEvent and the accessors).
THEOREM AttemptsOutlastFaults == Spec => []NothingIsGivenUp
<1>1. Init => FaultInv
  BY DEF Init, FaultInv
<1>2. IInv /\ FaultInv /\ [Next]_vars => FaultInv'
  BY FaultStep
<1>3. IInv /\ FaultInv => NothingIsGivenUp
  <2> SUFFICES ASSUME IInv, FaultInv, MaxFaults < MaxAttempts,
                      NEW p \in pending, Awaited(p), ~(tries[p] < MaxAttempts)
               PROVE  \E m \in net : m.to = p /\ Passes(m)
    BY DEF NothingIsGivenUp
  <2>1. /\ TypeOK /\ p \in Pairs /\ tries[p] = MaxAttempts
        /\ events[p[2]] \in Envelopes
        /\ MaxAttempts \in Nat /\ faults \in 0..MaxFaults /\ MaxFaults \in Nat
    <3>1. /\ TypeOK
          /\ {MaxSubs, MaxEvents, MaxFlaws, MaxAttempts, MaxFaults} \subseteq Nat
      BY BoundsAssumption DEF IInv
    <3>2. /\ subs \in Seq(Triggers \cup {"none"}) /\ Len(subs) \in Nat /\ Len(subs) <= MaxSubs
          /\ events \in Seq(Envelopes) /\ Len(events) \in Nat /\ Len(events) <= MaxEvents
          /\ p \in (DOMAIN subs) \X (DOMAIN events)
          /\ tries \in [Pairs -> 0..MaxAttempts]
          /\ faults \in 0..MaxFaults
      BY <3>1 DEF TypeOK
    <3>3. p \in Pairs /\ events[p[2]] \in Envelopes
      BY <3>1, <3>2 DEF Pairs
    <3> QED BY <3>1, <3>2, <3>3
  <2>2. Cardinality(1..tries[p]) = MaxAttempts
    BY <2>1, FS_Interval
  <2>3. Cardinality(Failed(p)) < MaxAttempts
    <3>1. Failed(p) \in SUBSET (1..tries[p])
      BY DEF Failed
    <3>2. Cardinality(Failed(p)) \in Nat
      BY <2>1, <3>1, PartsAreFinite
    <3> QED BY <2>1, <3>2 DEF FaultInv
  <2>4. PICK k \in 1..tries[p] : UnderWay(p, k)
    <3>1. Failed(p) # 1..tries[p]
      BY <2>1, <2>2, <2>3
    <3> QED BY <3>1 DEF Failed
  <2> DEFINE m == [to |-> p, id |-> k, intact |-> TRUE]
  <2>5. m \in net /\ m.to = p /\ VerifyWebhookSignature(m)
    BY <2>4 DEF UnderWay, VerifyWebhookSignature, Awaited
  <2>6. Passes(m)
    <3> HIDE DEF m
    <3> QED BY <2>1, <2>5, CompletePasses DEF Awaited
  <2> HIDE DEF m
  <2> QED BY <2>5, <2>6
<1> QED BY <1>1, <1>2, <1>3, WebhooksInvariant, PTL DEF Spec
=============================================================================
