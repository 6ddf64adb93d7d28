---------------------------- MODULE WritesProofs ----------------------------
(***************************************************************************)
(* What TLAPS proves of Writes, for any tasks, any ladder and any number   *)
(* of calls.  The argument: every request of a task carries the key its    *)
(* operation prescribes, the server keeps one effect per key, and as long  *)
(* as nothing is in doubt at most the current attempt is under way.        *)
(***************************************************************************)
EXTENDS Writes, FiniteSetTheorems, TLAPS

\* The key a request of the given kind, call and attempt carries.
KeyOf(k, t, c, n) ==
  [task |-> t, call |-> IF k \in CallerKeyed THEN 0 ELSE c,
   attempt |-> IF k \in CallerKeyed \cup {"balance"} THEN 0 ELSE n]

\* Requests and effects carry the keys their operations prescribe.
KeyInv ==
  /\ \A r \in wire : r.key = KeyOf(kind[r.task], r.task, r.call, r.attempt)
  /\ \A e \in effects :
       /\ e.key.task = e.task
       /\ kind[e.task] \in CallerKeyed => e.key = KeptKey(e.task)
       /\ kind[e.task] = "balance" => e.key.attempt = 0

\* Wise keeps one effect per key.
UniqueInv == \A e, f \in effects : e.key = f.key => e = f

\* Message m, a request or an answer, belongs to an attempt already made.
Past(m) ==
  LET t == m.task IN
    \/ m.call < call[t]
    \/ m.call = call[t] /\ m.attempt < attempt[t]
    \/ m.call = call[t] /\ m.attempt = attempt[t] /\ pc[t] # "ready"

PastInv == \A m \in wire \cup answers : Past(m)

Current(m) == m.call = call[m.task] /\ m.attempt = attempt[m.task] /\ pc[m.task] = "inflight"

EffectsOf(t) == {e \in effects : e.task = t}

\* With nothing in doubt, only the current attempt is under way, and what was
\* done is either on its way to the client or known to it.
Orderly(t) ==
  /\ \A r \in wire : r.task = t => Current(r)
  /\ \A r \in wire : r.task = t => EffectsOf(t) = {}
  /\ \A r \in wire, a \in answers : r.task = t /\ a.task = t => ~Current(a)
  /\ \A e, f \in EffectsOf(t) : e = f
  /\ EffectsOf(t) # {} =>
       \/ pc[t] = "idle" /\ result[t].kind = "value"
       \/ /\ pc[t] = "inflight"
          /\ \A a \in answers : a.task = t /\ Current(a) => a.value.kind = "value"

OrderInv == \A t \in Tasks : ~doubt[t] => Orderly(t)

\* A value that is under way or was returned names an effect of its own task.
Names(t, v) == v.kind = "value" => \E e \in effects : e.task = t /\ e.id = v.effect

NamesInv ==
  /\ \A a \in answers : Names(a.task, a.value)
  /\ \A t \in Tasks : Names(t, result[t])

IInv ==
  /\ TypeOK
  /\ IsFiniteSet(effects)
  /\ KeyInv
  /\ UniqueInv
  /\ NamesInv
  /\ PastInv
  /\ OrderInv

-----------------------------------------------------------------------------
\* Each operation's key is the one KeyOf describes.
LEMMA KeyShape ==
  ASSUME TypeOK, NEW t \in Tasks
  PROVE  Key(t) = KeyOf(kind[t], t, call[t], attempt[t])
<1>1. kind[t] \in AllKinds
  BY KindsAssumption DEF TypeOK
<1> QED BY <1>1 DEF Key, KeyOf, AllKinds, CallerKeyed, CreateTransfer,
  CreateThirdPartyTransfer, CreateBalance, CreateRecipient, CreateQuote,
  CreateProfileWebhookSubscription, FundTransfer, CancelTransfer,
  DeleteProfileWebhookSubscription, KeptKey, CallKey, NoKey

\* A request is a request, whatever its kind.
LEMMA RequestType ==
  ASSUME TypeOK, NEW t \in Tasks
  PROVE  Request(t) \in [task : Tasks, call : 0..MaxCalls, attempt : 0..MaxAttempts, key : Keys]
<1>1. call[t] \in 0..MaxCalls /\ attempt[t] \in 0..MaxAttempts
  BY DEF TypeOK
<1>2. Key(t) \in Keys
  BY <1>1, KeyShape, LadderAssumption DEF KeyOf, Keys
<1> QED BY <1>1, <1>2 DEF Request

-----------------------------------------------------------------------------
\* A step of the client keeps the types.
LEMMA TypeStep ==
  ASSUME TypeOK, IsFiniteSet(effects), [Next]_vars
  PROVE  TypeOK' /\ IsFiniteSet(effects')
<1>1. CASE UNCHANGED vars
  BY <1>1 DEF TypeOK, vars
<1>2. ASSUME NEW t \in Tasks, Call(t) \/ Forget(t) \/ Send(t) \/ TimeOut(t)
                             \/ Received(t) \/ Unmapped(t) \/ Refused(t)
      PROVE  TypeOK' /\ IsFiniteSet(effects')
  <2>1. UNCHANGED <<kind, answers, effects>>
    BY <1>2 DEF Call, Forget, Send, TimeOut, Received, Unmapped, Refused
  <2>2. (call \in [Tasks -> 0..MaxCalls])'
    <3>1. call \in [Tasks -> 0..MaxCalls]
      BY DEF TypeOK
    <3>2. \/ call' = call
          \/ call' = [call EXCEPT ![t] = call[t] + 1] /\ call[t] < MaxCalls
      BY <1>2 DEF Call, Forget, Send, TimeOut, Received, Unmapped, Refused
    <3> QED BY <3>1, <3>2, LadderAssumption
  <2>3. (attempt \in [Tasks -> 0..MaxAttempts])'
    <3>1. attempt \in [Tasks -> 0..MaxAttempts]
      BY DEF TypeOK
    <3>2. \/ attempt' = attempt
          \/ attempt' = [attempt EXCEPT ![t] = 1]
          \/ attempt' = [attempt EXCEPT ![t] = attempt[t] + 1] /\ attempt[t] < MaxAttempts
      BY <1>2 DEF Call, Forget, Send, TimeOut, Received, Unmapped, Refused, Retry
    <3> QED BY <3>1, <3>2, LadderAssumption
  <2>4. (wire \subseteq [task : Tasks, call : 0..MaxCalls, attempt : 0..MaxAttempts,
                         key : Keys])'
    <3>1. wire' \in {wire, wire \cup {Request(t)}}
      BY <1>2 DEF Call, Forget, Send, TimeOut, Received, Unmapped, Refused
    <3> QED BY <3>1, RequestType DEF TypeOK, Keys
  <2>5. (pc \in [Tasks -> {"idle", "ready", "inflight"}])' /\ (doubt \in [Tasks -> BOOLEAN])'
    BY <1>2 DEF TypeOK, Call, Forget, Send, TimeOut, Received, Unmapped, Refused, Retry,
      Return, Goto, Doubt
  <2>6. (result \in [Tasks -> Results])'
    <3>1. result \in [Tasks -> Results] /\ Failed \in Results /\ Rejected \in Results
      BY DEF TypeOK, Results, Failed, Rejected
    <3>2. \A a \in answers : a.value \in Results
      BY DEF TypeOK
    <3>3. result' = result \/ \E v \in Results : result' = [result EXCEPT ![t] = v]
      BY <1>2, <3>1, <3>2 DEF Call, Forget, Send, TimeOut, Received, Unmapped, Refused,
        Retry, Return, AnswerTo
    <3> QED BY <3>1, <3>3 DEF Results
  <2> QED BY <2>1, <2>2, <2>3, <2>4, <2>5, <2>6 DEF TypeOK, Keys, Results, Failed, Rejected
<1>3. ASSUME NEW r \in wire, Handle(r) \/ Drop(r)
      PROVE  TypeOK' /\ IsFiniteSet(effects')
  <2>1. UNCHANGED <<kind, pc, call, attempt, result, doubt>> /\ wire' \subseteq wire
    BY <1>3 DEF Handle, Drop
  <2>2. /\ r.task \in Tasks /\ r.call \in 0..MaxCalls /\ r.attempt \in 0..MaxAttempts
        /\ r.key \in Keys
    BY DEF TypeOK
  <2>3. Cardinality(effects) + 1 \in Nat
    BY FS_CardinalityType
  <2>4. /\ (effects \subseteq [task : Tasks, key : Keys, id : Nat])'
        /\ IsFiniteSet(effects')
    <3>1. \/ effects' = effects
          \/ effects' = effects \cup
               {[task |-> r.task, key |-> r.key, id |-> Cardinality(effects) + 1]}
      BY <1>3 DEF Handle, Drop, Perform, Repeat, Decline
    <3>2. IsFiniteSet(effects')
      <4>1. CASE effects' = effects
        BY <4>1
      <4>2. ASSUME NEW x, effects' = effects \cup {x}
            PROVE  IsFiniteSet(effects')
        BY <4>2, FS_AddElement
      <4> QED BY <3>1, <4>1, <4>2
    <3>3. effects \subseteq [task : Tasks, key : Keys, id : Nat]
      BY DEF TypeOK
    <3>4. Keys' = Keys
      BY DEF Keys
    <3> QED BY <2>2, <2>3, <3>1, <3>2, <3>3, <3>4
  <2>5. (answers \subseteq [task : Tasks, call : 0..MaxCalls, attempt : 0..MaxAttempts,
                            value : Results])'
    <3>1. \A e \in effects : e.id \in Nat
      BY DEF TypeOK
    <3>2. answers' = answers \/ \E v \in Results : Answer(r, v)
      <4>1. Rejected \in Results /\ \A n \in Nat : Value(n) \in Results
        BY DEF Results, Rejected, Value
      <4>2. CASE Drop(r) \/ Decline(r)
        BY <1>3, <4>1, <4>2 DEF Drop, Decline
      <4>3. CASE Perform(r)
        BY <2>3, <4>1, <4>3 DEF Perform
      <4>4. CASE Repeat(r)
        <5>1. PICK e \in Done(r) :
                Answer(r, IF kind[r.task] \in Idempotent THEN Value(e.id) ELSE Rejected)
          BY <4>4 DEF Repeat
        <5>2. e.id \in Nat
          BY <3>1 DEF Done
        <5> QED BY <4>1, <5>1, <5>2
      <4> QED BY <1>3, <4>2, <4>3, <4>4 DEF Handle
    <3> QED BY <2>2, <3>2 DEF TypeOK, Answer, Results, Failed, Rejected
  <2> QED BY <2>1, <2>4, <2>5 DEF TypeOK, Keys, Results, Failed, Rejected
<1> QED BY <1>1, <1>2, <1>3 DEF Next

-----------------------------------------------------------------------------
\* What the client's actions leave alone, and what they may put on the wire.
LEMMA ClientFrame ==
  ASSUME NEW t \in Tasks, Call(t) \/ Forget(t) \/ Send(t) \/ TimeOut(t)
                         \/ Received(t) \/ Unmapped(t) \/ Refused(t)
  PROVE  /\ UNCHANGED <<kind, answers, effects>>
         /\ wire' \in {wire, wire \cup {Request(t)}}
BY DEF Call, Forget, Send, TimeOut, Received, Unmapped, Refused

\* What the server and the network leave alone, and what they may do.
LEMMA ServerFrame ==
  ASSUME NEW r \in wire, Handle(r) \/ Drop(r)
  PROVE  /\ UNCHANGED <<kind, pc, call, attempt, result, doubt>>
         /\ wire' = wire \ {r}
         /\ \/ effects' = effects
            \/ /\ Done(r) = {}
               /\ effects' = effects \cup
                    {[task |-> r.task, key |-> r.key, id |-> Cardinality(effects) + 1]}
BY DEF Handle, Drop, Perform, Repeat, Decline

\* What the three ways of keying have in common, and where they differ.
LEMMA KeyOfTask ==
  ASSUME NEW k, NEW t, NEW c, NEW n
  PROVE  /\ KeyOf(k, t, c, n).task = t
         /\ k \in CallerKeyed => KeyOf(k, t, c, n) = KeptKey(t)
         /\ k = "balance" => KeyOf(k, t, c, n).attempt = 0
<1>1. KeyOf(k, t, c, n).task = t
  BY DEF KeyOf
<1>2. k \in CallerKeyed => KeyOf(k, t, c, n) = KeptKey(t)
  BY DEF KeyOf, KeptKey
<1>3. k = "balance" => KeyOf(k, t, c, n).attempt = 0
  BY DEF KeyOf
<1> QED BY <1>1, <1>2, <1>3

\* Every step keeps requests and effects to the keys of their operations.
LEMMA KeyStep ==
  ASSUME TypeOK, KeyInv, [Next]_vars
  PROVE  KeyInv'
<1>1. CASE UNCHANGED vars
  BY <1>1 DEF KeyInv, vars
<1>2. ASSUME NEW t \in Tasks, Call(t) \/ Forget(t) \/ Send(t) \/ TimeOut(t)
                             \/ Received(t) \/ Unmapped(t) \/ Refused(t)
      PROVE  KeyInv'
  <2>1. /\ UNCHANGED <<kind, answers, effects>>
        /\ wire' \in {wire, wire \cup {Request(t)}}
    BY <1>2, ClientFrame
  <2>2. Request(t).key = KeyOf(kind[t], t, call[t], attempt[t])
    BY KeyShape DEF Request
  <2>3. Request(t).task = t /\ Request(t).call = call[t] /\ Request(t).attempt = attempt[t]
    BY DEF Request
  <2> QED BY <2>1, <2>2, <2>3 DEF KeyInv
<1>3. ASSUME NEW r \in wire, Handle(r) \/ Drop(r)
      PROVE  KeyInv'
  <2>1. kind' = kind /\ wire' \subseteq wire
    BY <1>3, ServerFrame
  <2>2. r.key = KeyOf(kind[r.task], r.task, r.call, r.attempt)
    BY DEF KeyInv
  <2>3. /\ r.key.task = r.task
        /\ kind[r.task] \in CallerKeyed => r.key = KeptKey(r.task)
        /\ kind[r.task] = "balance" => r.key.attempt = 0
    BY KeyOfTask, <2>2
  <2>4. \/ effects' = effects
        \/ effects' = effects \cup
             {[task |-> r.task, key |-> r.key, id |-> Cardinality(effects) + 1]}
    BY <1>3, ServerFrame
  <2> QED BY <2>1, <2>3, <2>4 DEF KeyInv
<1> QED BY <1>1, <1>2, <1>3 DEF Next

\* The server never does what has the key of something it did.
LEMMA UniqueStep ==
  ASSUME TypeOK, UniqueInv, [Next]_vars
  PROVE  UniqueInv'
<1>1. CASE UNCHANGED vars
  BY <1>1 DEF UniqueInv, vars
<1>2. ASSUME NEW t \in Tasks, Call(t) \/ Forget(t) \/ Send(t) \/ TimeOut(t)
                             \/ Received(t) \/ Unmapped(t) \/ Refused(t)
      PROVE  UniqueInv'
  BY <1>2, ClientFrame DEF UniqueInv
<1>3. ASSUME NEW r \in wire, Handle(r) \/ Drop(r)
      PROVE  UniqueInv'
  BY <1>3, ServerFrame DEF UniqueInv, Done
<1> QED BY <1>1, <1>2, <1>3 DEF Next

\* Answers name effects of their own task, and so does what is returned.
LEMMA NamesStep ==
  ASSUME TypeOK, KeyInv, NamesInv, [Next]_vars
  PROVE  NamesInv'
<1>1. CASE UNCHANGED vars
  BY <1>1 DEF NamesInv, Names, vars
<1>2. ASSUME NEW t \in Tasks, Call(t) \/ Forget(t) \/ Send(t) \/ TimeOut(t)
                             \/ Received(t) \/ Unmapped(t) \/ Refused(t)
      PROVE  NamesInv'
  <2>1. UNCHANGED <<answers, effects>>
    BY <1>2, ClientFrame
  <2>2. \E v : Names(t, v) /\ result' \in {result, [result EXCEPT ![t] = v]}
    <3>1. Names(t, Failed) /\ Names(t, Rejected)
      BY DEF Names, Failed, Rejected
    <3>2. \A a \in answers : AnswerTo(t, a) => Names(t, a.value)
      BY DEF NamesInv, AnswerTo
    <3> QED BY <1>2, <3>1, <3>2 DEF Call, Forget, Send, TimeOut, Received, Unmapped,
      Refused, Retry, Return
  <2>3. PICK v : Names(t, v) /\ result' \in {result, [result EXCEPT ![t] = v]}
    BY <2>2
  <2>4. ASSUME NEW s \in Tasks
        PROVE  Names(s, result'[s])
    <3>1. result'[s] = result[s] \/ (s = t /\ result'[s] = v)
      BY <2>3 DEF TypeOK
    <3> QED BY <2>3, <3>1 DEF NamesInv, Names
  <2> QED BY <2>1, <2>4 DEF NamesInv, Names
<1>3. ASSUME NEW r \in wire, Handle(r) \/ Drop(r)
      PROVE  NamesInv'
  <2>1. result' = result /\ effects \subseteq effects'
    BY <1>3, ServerFrame
  <2>2. \A s, v : Names(s, v) => Names(s, v)'
    BY <2>1 DEF Names
  <2>3. answers' = answers \/ \E v : Answer(r, v) /\ Names(r.task, v)'
    <3>1. CASE Drop(r) \/ Decline(r)
      BY <1>3, <3>1 DEF Drop, Decline, Names, Rejected
    <3>2. CASE Perform(r)
      <4>1. \E n : /\ [task |-> r.task, key |-> r.key, id |-> n] \in effects'
                   /\ Answer(r, Value(n))
        BY <3>2 DEF Perform
      <4>2. PICK n : /\ [task |-> r.task, key |-> r.key, id |-> n] \in effects'
                     /\ Answer(r, Value(n))
        BY <4>1
      <4>3. Names(r.task, Value(n))'
        BY <4>2 DEF Names, Value
      <4> QED BY <4>2, <4>3
    <3>3. CASE Repeat(r)
      <4>1. PICK e \in Done(r) :
              Answer(r, IF kind[r.task] \in Idempotent THEN Value(e.id) ELSE Rejected)
        BY <3>3 DEF Repeat
      <4>2. e \in effects /\ e.task = r.task
        BY KeyOfTask DEF Done, KeyInv
      <4>3. Names(r.task, Value(e.id))' /\ Names(r.task, Rejected)'
        BY <2>1, <4>2 DEF Names, Value, Rejected
      <4> QED BY <4>1, <4>3
    <3> QED BY <1>3, <3>1, <3>2, <3>3 DEF Handle
  <2>4. \A a \in answers' : Names(a.task, a.value)'
    BY <2>2, <2>3 DEF NamesInv, Answer
  <2> QED BY <2>1, <2>2, <2>4 DEF NamesInv
<1> QED BY <1>1, <1>2, <1>3 DEF Next

-----------------------------------------------------------------------------
\* The client's actions count calls and attempts upwards.
LEMMA ClientCounts ==
  ASSUME NEW t \in Tasks, Call(t) \/ Forget(t) \/ Send(t) \/ TimeOut(t)
                         \/ Received(t) \/ Unmapped(t) \/ Refused(t)
  PROVE  \/ /\ call' = [call EXCEPT ![t] = call[t] + 1]
            /\ attempt' = [attempt EXCEPT ![t] = 1]
            /\ pc' = [pc EXCEPT ![t] = "ready"]
         \/ /\ call' = call
            /\ attempt' = [attempt EXCEPT ![t] = attempt[t] + 1]
            /\ pc' = [pc EXCEPT ![t] = "ready"]
         \/ /\ call' = call
            /\ attempt' = attempt
            /\ pc' \in {[pc EXCEPT ![t] = "idle"], [pc EXCEPT ![t] = "inflight"]}
BY DEF Call, Forget, Send, TimeOut, Received, Unmapped, Refused, Retry, Return, Goto

\* What belongs to an attempt already made stays in the past.
LEMMA PastStays ==
  ASSUME TypeOK, [Next]_vars, NEW m, m.task \in Tasks, m.call \in Nat, m.attempt \in Nat,
         Past(m)
  PROVE  Past(m)'
<1> DEFINE s == m.task
<1>1. /\ \A c \in Tasks : call[c] \in Nat /\ attempt[c] \in Nat
      /\ call = [c \in Tasks |-> call[c]] /\ attempt = [c \in Tasks |-> attempt[c]]
      /\ pc = [c \in Tasks |-> pc[c]]
  BY LadderAssumption DEF TypeOK
<1>2. CASE UNCHANGED vars
  BY <1>2 DEF Past, vars
<1>3. ASSUME NEW t \in Tasks, Call(t) \/ Forget(t) \/ Send(t) \/ TimeOut(t)
                             \/ Received(t) \/ Unmapped(t) \/ Refused(t)
      PROVE  Past(m)'
  <2>1. CASE s # t
    <3>1. call'[s] = call[s] /\ attempt'[s] = attempt[s] /\ pc'[s] = pc[s]
      BY <1>1, <1>3, <2>1, ClientCounts
    <3> QED BY <3>1 DEF Past
  <2>2. CASE s = t
    <3>1. \/ call'[s] = call[s] + 1
          \/ call'[s] = call[s] /\ attempt'[s] = attempt[s] + 1
          \/ /\ call'[s] = call[s] /\ attempt'[s] = attempt[s]
             /\ pc'[s] \in {"idle", "inflight"}
      BY <1>1, <1>3, <2>2, ClientCounts
    <3>2. m.call < call[s] \/ (m.call = call[s] /\ m.attempt <= attempt[s])
      BY <1>1 DEF Past
    <3>3. call[s] \in Nat /\ attempt[s] \in Nat
      BY <1>1
    <3>4. m.call < call'[s] \/ (m.call = call'[s] /\ m.attempt < attempt'[s])
            \/ (m.call = call'[s] /\ m.attempt = attempt'[s] /\ pc'[s] # "ready")
      BY <3>1, <3>2, <3>3
    <3> QED BY <3>4 DEF Past
  <2> QED BY <2>1, <2>2
<1>4. ASSUME NEW r \in wire, Handle(r) \/ Drop(r)
      PROVE  Past(m)'
  BY <1>4, ServerFrame DEF Past
<1> QED BY <1>2, <1>3, <1>4 DEF Next

\* No message belongs to an attempt that was not made.
LEMMA PastStep ==
  ASSUME TypeOK, PastInv, [Next]_vars
  PROVE  PastInv'
<1>1. \A m \in wire \cup answers : m.task \in Tasks /\ m.call \in Nat /\ m.attempt \in Nat
  BY LadderAssumption DEF TypeOK
<1>2. \A m \in wire \cup answers : Past(m)'
  BY <1>1, PastStays DEF PastInv
<1>3. CASE UNCHANGED vars
  BY <1>2, <1>3 DEF PastInv, vars
<1>4. ASSUME NEW t \in Tasks, Call(t) \/ Forget(t) \/ Send(t) \/ TimeOut(t)
                             \/ Received(t) \/ Unmapped(t) \/ Refused(t)
      PROVE  PastInv'
  <2>1. CASE Send(t)
    <3>1. answers' = answers /\ wire' = wire \cup {Request(t)}
      BY <2>1 DEF Send
    <3>2. call' = call /\ attempt' = attempt /\ pc'[t] = "inflight"
      BY <2>1 DEF Send, Goto, TypeOK
    <3>3. PICK m : m = Request(t)
      OBVIOUS
    <3>4. Past(m)'
      <4>1. m.task = t /\ m.call = call[t] /\ m.attempt = attempt[t]
        BY <3>3 DEF Request
      <4> QED BY <3>2, <4>1 DEF Past
    <3>5. wire' = wire \cup {m}
      BY <3>1, <3>3
    <3> QED BY <1>2, <3>1, <3>4, <3>5 DEF PastInv
  <2>2. CASE ~Send(t)
    <3>1. answers' = answers /\ wire' = wire
      BY <1>4, <2>2 DEF Call, Forget, TimeOut, Received, Unmapped, Refused
    <3> QED BY <1>2, <3>1 DEF PastInv
  <2> QED BY <2>1, <2>2
<1>5. ASSUME NEW r \in wire, Handle(r) \/ Drop(r)
      PROVE  PastInv'
  <2>1. wire' \subseteq wire
    BY <1>5, ServerFrame
  <2>2. \A a \in answers' : a \in answers \/
          (a.task = r.task /\ a.call = r.call /\ a.attempt = r.attempt)
    BY <1>5 DEF Handle, Drop, Perform, Repeat, Decline, Answer
  <2>3. \A a : a.task = r.task /\ a.call = r.call /\ a.attempt = r.attempt => Past(a)'
    BY <1>2 DEF Past
  <2> QED BY <1>2, <2>1, <2>2, <2>3 DEF PastInv
<1> QED BY <1>3, <1>4, <1>5 DEF Next

-----------------------------------------------------------------------------
\* A step of one task's client leaves the order of the others alone.
LEMMA OrderOfOthers ==
  ASSUME TypeOK, OrderInv,
         NEW t \in Tasks, Call(t) \/ Forget(t) \/ Send(t) \/ TimeOut(t)
                         \/ Received(t) \/ Unmapped(t) \/ Refused(t),
         NEW s \in Tasks, s # t, ~doubt'[s]
  PROVE  Orderly(s)'
<1>1. /\ call'[s] = call[s] /\ attempt'[s] = attempt[s] /\ pc'[s] = pc[s]
  BY ClientCounts DEF TypeOK
<1>2. /\ result' = result \/ \E v : result' = [result EXCEPT ![t] = v]
      /\ doubt' = doubt \/ doubt' = [doubt EXCEPT ![t] = TRUE]
  BY DEF Call, Forget, Send, TimeOut, Received, Unmapped, Refused, Retry, Return, Doubt
<1>3. result'[s] = result[s] /\ doubt'[s] = doubt[s]
  BY <1>2 DEF TypeOK
<1>4. answers' = answers /\ effects' = effects
  BY ClientFrame
<1>5. \A r \in wire' : r.task = s => r \in wire
  BY ClientFrame DEF Request
<1>6. Orderly(s)
  BY <1>3 DEF OrderInv
<1>7. \A m : m.task = s => (Current(m)' <=> Current(m))
  BY <1>1 DEF Current
<1>8. EffectsOf(s)' = EffectsOf(s)
  BY <1>4 DEF EffectsOf
<1> QED BY <1>1, <1>3, <1>4, <1>5, <1>6, <1>7, <1>8 DEF Orderly

\* A step of a task's own client keeps its order, unless it leaves doubt.
LEMMA OrderOfOwn ==
  ASSUME TypeOK, PastInv, OrderInv,
         NEW t \in Tasks, Call(t) \/ Forget(t) \/ Send(t) \/ TimeOut(t)
                         \/ Received(t) \/ Unmapped(t) \/ Refused(t),
         ~doubt'[t]
  PROVE  Orderly(t)'
<1>1. answers' = answers /\ effects' = effects /\ EffectsOf(t)' = EffectsOf(t)
  BY ClientFrame DEF EffectsOf
<1>2. ~Forget(t) /\ ~TimeOut(t) /\ ~Unmapped(t)
  BY DEF Forget, TimeOut, Unmapped, Doubt, TypeOK
<1>3. doubt' = doubt /\ Orderly(t)
  BY <1>2 DEF OrderInv, Call, Send, Received, Refused
<1>4. CASE Call(t)
  <2>1. pc[t] = "idle" /\ result[t].kind # "value" /\ wire' = wire
    BY <1>4 DEF Call, Goto
  <2>2. EffectsOf(t) = {} /\ \A r \in wire : r.task # t
    BY <1>3, <2>1 DEF Orderly, Current
  <2> QED BY <1>1, <2>1, <2>2 DEF Orderly
<1>5. CASE Send(t)
  <2>1. /\ pc[t] = "ready" /\ pc'[t] = "inflight" /\ call' = call /\ attempt' = attempt
        /\ wire' = wire \cup {Request(t)}
    BY <1>5 DEF Send, Goto, TypeOK
  <2>2. EffectsOf(t) = {} /\ \A r \in wire : r.task # t
    BY <1>3, <2>1 DEF Orderly, Current
  <2>3. PICK m : m = Request(t)
    OBVIOUS
  <2>4. m.task = t /\ m.call = call[t] /\ m.attempt = attempt[t]
    BY <2>3 DEF Request
  <2>5. \A r \in wire' : r.task = t => r = m
    BY <2>1, <2>2, <2>3
  <2>6. Current(m)'
    BY <2>1, <2>4 DEF Current
  <2>7. \A a \in answers : a.task = t => ~(Current(a)')
    <3>1. SUFFICES ASSUME NEW a \in answers, a.task = t
                   PROVE  ~(a.call = call[t] /\ a.attempt = attempt[t])
      BY <2>1 DEF Current
    <3>2. call[t] \in Int /\ attempt[t] \in Int
      BY LadderAssumption DEF TypeOK
    <3>3. a.call < call[t] \/ (a.call = call[t] /\ a.attempt < attempt[t])
      BY <2>1, <3>1 DEF PastInv, Past
    <3> QED BY <3>2, <3>3
  <2> QED BY <1>1, <2>2, <2>5, <2>6, <2>7 DEF Orderly
<1>6. CASE Received(t)
  <2>1. PICK a \in answers : /\ AnswerTo(t, a) /\ a.value.kind = "value"
                             /\ Return(t, "inflight", a.value)
    BY <1>6 DEF Received
  <2>2. /\ pc[t] = "inflight" /\ pc'[t] = "idle" /\ result'[t].kind = "value"
        /\ wire' = wire
    BY <1>6, <2>1 DEF Received, Return, Goto, TypeOK
  <2>3. \A r \in wire : r.task # t
    BY <1>3, <2>1, <2>2 DEF Orderly, Current, AnswerTo
  <2> QED BY <1>1, <1>3, <2>2, <2>3 DEF Orderly
<1>7. CASE Refused(t)
  <2>1. PICK a \in answers : AnswerTo(t, a) /\ a.value = Rejected
    BY <1>7 DEF Refused
  <2>2. pc[t] = "inflight" /\ wire' = wire
    BY <1>7 DEF Refused, Retry, Return, Goto
  <2>3. Current(a) /\ a.task = t /\ a.value.kind # "value"
    BY <2>1, <2>2 DEF Current, AnswerTo, Rejected
  <2>4. EffectsOf(t) = {} /\ \A r \in wire : r.task # t
    BY <1>3, <2>2, <2>3 DEF Orderly
  <2> QED BY <1>1, <2>2, <2>4 DEF Orderly
<1> QED BY <1>2, <1>4, <1>5, <1>6, <1>7

\* A step of the server or of the network keeps the order of every task.
LEMMA OrderOfServer ==
  ASSUME TypeOK, KeyInv, OrderInv, NEW r \in wire, Handle(r) \/ Drop(r),
         NEW s \in Tasks, ~doubt'[s]
  PROVE  Orderly(s)'
<1>1. UNCHANGED <<kind, pc, call, attempt, result, doubt>> /\ wire' = wire \ {r}
  BY ServerFrame
<1>2. Orderly(s)
  BY <1>1 DEF OrderInv
<1>3. \A m : Current(m)' <=> Current(m)
  BY <1>1 DEF Current
<1>4. CASE r.task # s
  <2>1. EffectsOf(s)' = EffectsOf(s)
    BY <1>4, ServerFrame DEF EffectsOf
  <2>2. \A a \in answers' : a.task = s => a \in answers
    BY <1>4 DEF Handle, Drop, Perform, Repeat, Decline, Answer
  <2> QED BY <1>1, <1>2, <1>3, <2>1, <2>2 DEF Orderly
<1>5. CASE r.task = s
  <2>1. Current(r) /\ EffectsOf(s) = {}
    BY <1>2, <1>5 DEF Orderly
  <2>2. \A q \in wire' : q.task # s
    <3>1. SUFFICES ASSUME NEW q \in wire, q.task = s
                   PROVE  q = r
      BY <1>1
    <3>2. Current(q) /\ q.key = r.key
      BY <1>2, <1>5, <2>1, <3>1 DEF Orderly, KeyInv, Current
    <3>3. q.call = r.call /\ q.attempt = r.attempt
      BY <1>5, <2>1, <3>1, <3>2 DEF Current
    <3>4. /\ q = [task |-> q.task, call |-> q.call, attempt |-> q.attempt, key |-> q.key]
          /\ r = [task |-> r.task, call |-> r.call, attempt |-> r.attempt, key |-> r.key]
      BY DEF TypeOK
    <3> QED BY <1>5, <3>1, <3>2, <3>3, <3>4
  <2>3. \A a \in answers : a.task = s => ~Current(a)
    BY <1>2, <1>5 DEF Orderly
  <2>4. Done(r) = {}
    <3>1. r.key.task = s
      BY <1>5, KeyOfTask DEF KeyInv
    <3> QED BY <2>1, <3>1 DEF Done, EffectsOf, KeyInv
  <2>5. CASE effects' = effects
    <3>1. EffectsOf(s)' = {}
      BY <2>1, <2>5 DEF EffectsOf
    <3> QED BY <2>2, <3>1 DEF Orderly
  <2>6. CASE Handle(r) /\ Perform(r)
    <3>1. PICK e, v : /\ effects' = effects \cup {e}
                      /\ v.kind = "value" /\ Answer(r, v)
      BY <2>6 DEF Perform, Value
    <3>2. \A f \in EffectsOf(s)' : f = e
      BY <2>1, <3>1 DEF EffectsOf
    <3>3. pc'[s] = "inflight"
      BY <1>1, <1>5, <2>1 DEF Current
    <3>4. \A a \in answers' : a.task = s /\ Current(a)' => a.value.kind = "value"
      BY <1>3, <2>3, <3>1 DEF Answer
    <3> QED BY <2>2, <3>2, <3>3, <3>4 DEF Orderly
  <2> QED BY <2>4, <2>5, <2>6 DEF Handle, Drop, Repeat, Decline
<1> QED BY <1>4, <1>5

\* Every step keeps the order.
LEMMA OrderStep ==
  ASSUME TypeOK, KeyInv, PastInv, OrderInv, [Next]_vars
  PROVE  OrderInv'
<1>1. CASE UNCHANGED vars
  BY <1>1 DEF OrderInv, Orderly, Current, EffectsOf, vars
<1>2. CASE \E t \in Tasks : \/ Call(t) \/ Forget(t) \/ Send(t) \/ TimeOut(t)
                            \/ Received(t) \/ Unmapped(t) \/ Refused(t)
  BY <1>2, OrderOfOthers, OrderOfOwn DEF OrderInv
<1>3. CASE \E r \in wire : Handle(r) \/ Drop(r)
  BY <1>3, OrderOfServer DEF OrderInv
<1> QED BY <1>1, <1>2, <1>3 DEF Next

-----------------------------------------------------------------------------
\* The inductive invariant holds in every reachable state.
THEOREM WritesInvariant == Spec => []IInv
<1>1. Init => IInv
  <2>1. SUFFICES ASSUME Init PROVE IInv
    OBVIOUS
  <2>2. TypeOK
    BY <2>1, LadderAssumption DEF Init, TypeOK, Results
  <2>3. IsFiniteSet(effects)
    BY <2>1, FS_EmptySet DEF Init
  <2> QED BY <2>1, <2>2, <2>3 DEF Init, IInv, KeyInv, UniqueInv, NamesInv, Names, PastInv,
    OrderInv, Orderly, EffectsOf
<1>2. IInv /\ [Next]_vars => IInv'
  BY TypeStep, KeyStep, UniqueStep, NamesStep, PastStep, OrderStep DEF IInv
<1> QED BY <1>1, <1>2, PTL DEF Spec

\* Every variable keeps to its type, for any ladder and any number of calls.
THEOREM TypeCorrect == Spec => []TypeOK
<1>1. IInv => TypeOK
  BY DEF IInv
<1> QED BY <1>1, WritesInvariant, PTL

\* What carries the caller's key is done at most once, whatever is lost, late,
\* repeated or forgotten: all its requests carry one key, and Wise keeps one
\* effect per key.
THEOREM CallerKeysWork == Spec => []OncePerCallerKey
<1>1. IInv => OncePerCallerKey
  BY DEF IInv, OncePerCallerKey, KeyInv, UniqueInv
<1> QED BY <1>1, WritesInvariant, PTL

\* A call of CreateBalance without a caller's key opens at most one balance.
THEOREM GeneratedKeysWork == Spec => []OncePerCall
<1>1. IInv => OncePerCall
  <2>1. SUFFICES ASSUME IInv, NEW e \in effects, NEW f \in effects, e.task = f.task,
                        kind[e.task] = "balance", e.key.call = f.key.call
                 PROVE  e = f
    BY DEF OncePerCall
  <2>2. e.key \in Keys /\ f.key \in Keys
    BY <2>1 DEF IInv, TypeOK
  <2>3. /\ e.key.task = e.task /\ e.key.attempt = 0
        /\ f.key.task = f.task /\ f.key.attempt = 0
    BY <2>1 DEF IInv, KeyInv
  <2>4. e.key = f.key
    BY <2>1, <2>2, <2>3 DEF Keys
  <2> QED BY <2>1, <2>4 DEF IInv, UniqueInv
<1> QED BY <1>1, WritesInvariant, PTL

\* As long as every attempt and call for a task ended with a usable answer, the
\* ladder has done the write at most once, even when it carries no key.
THEOREM OrderlyRunsDoNotRepeat == Spec => []RepetitionNeedsDoubt
<1>1. IInv => RepetitionNeedsDoubt
  <2>1. SUFFICES ASSUME IInv, NEW t \in Tasks, ~doubt[t],
                        NEW e \in effects, NEW f \in effects, e.task = t, f.task = t
                 PROVE  e = f
    BY DEF RepetitionNeedsDoubt
  <2>2. \A g, h \in EffectsOf(t) : g = h
    BY <2>1 DEF IInv, OrderInv, Orderly
  <2> QED BY <2>1, <2>2 DEF EffectsOf
<1> QED BY <1>1, WritesInvariant, PTL

\* A call returns the id of an effect of its own task.
THEOREM ValuesAreOwn == Spec => []ValueIsOwn
<1>1. IInv => ValueIsOwn
  BY DEF IInv, NamesInv, Names, ValueIsOwn
<1> QED BY <1>1, WritesInvariant, PTL

\* As long as nothing is in doubt, what was rejected was not done.
THEOREM RejectionsAreHonest == Spec => []RejectionIsHonest
<1>1. IInv => RejectionIsHonest
  <2>1. SUFFICES ASSUME IInv, NEW t \in Tasks, pc[t] = "idle", result[t] = Rejected,
                        NEW e \in effects, e.task = t, ~doubt[t]
                 PROVE  FALSE
    BY DEF RejectionIsHonest, IInv, TypeOK
  <2>2. Orderly(t) /\ e \in EffectsOf(t)
    BY <2>1 DEF IInv, OrderInv, EffectsOf
  <2>3. result[t].kind = "value"
    BY <2>1, <2>2 DEF Orderly
  <2> QED BY <2>1, <2>3 DEF Rejected
<1> QED BY <1>1, WritesInvariant, PTL
=============================================================================
