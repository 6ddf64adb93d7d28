-------------------------- MODULE ScaClearingProofs -------------------------
(***************************************************************************)
(* What TLAPS proves of ScaClearing, for any number of clearings, any      *)
(* channels, any challenge lists, any number of rounds and attempts.       *)
(*                                                                         *)
(* The argument: a clearing only ever knows challenges the server passed,  *)
(* and passing is for good, so what it takes for cleared is cleared; each  *)
(* round of the loop triggers once and submits once, and what NewRound saw *)
(* of the challenge it triggers for stays so until the trigger.            *)
(***************************************************************************)
EXTENDS ScaClearing, WellFoundedInduction, TLAPS

\* What a clearing knows as passed, the server has passed.
Informed == \A c \in Clearers : seen[c] \subseteq passed

\* Success is only reported from a status with nothing left to pass.
Justified == \A c \in Clearers : result[c] = "cleared" => Cleared(seen[c])

\* In a round under way the trigger is one ahead of the rounds completed.
Paced ==
  \A c \in Clearers :
    /\ pc[c] \in {"idle", "status", "loop", "trigger"} =>
         triggered[c] = round[c] /\ submitted[c] = triggered[c]
    /\ pc[c] = "prompt" =>
         triggered[c] = round[c] + 1 /\ submitted[c] = round[c]
    /\ pc[c] = "verify" =>
         triggered[c] = round[c] + 1 /\ submitted[c] = triggered[c]
    /\ pc[c] = "idle" => round[c] = 0
    /\ pc[c] # "done" => result[c] = "none"
    /\ pc[c] \in {"trigger", "prompt", "verify"} => round[c] < ClearRounds

\* A clearing of a token that was already cleared only looks at its status.
Spared ==
  \A c \in Clearers :
    doneBefore[c] =>
      /\ ServerCleared
      /\ pc[c] \in {"status", "loop", "done"}
      /\ pc[c] = "loop" => \A i \in Slots : offer[i].required => i \in seen[c]
      /\ triggered[c] = 0

\* A clearing that is about to trigger knows a required challenge as open that its
\* channel can pass.
Aimed ==
  \A c \in Clearers :
    pc[c] = "trigger" =>
      /\ IsPhoneChannel(Channel[c])
      /\ \E i \in PendingRequired(seen[c]) : Supports(offer[i], Channel[c])

Pacing == Paced /\ CodesAnswerTriggers /\ PromptsAreBounded

IInv == TypeOK /\ Informed /\ Justified /\ Pacing /\ Spared /\ Aimed

\* What the endpoints may do to the server.
LEMMA ServerSteps ==
  ASSUME TypeOK, NEW c \in Clearers, ServerHandles(c)
  PROVE  /\ offer' = offer /\ alive' = alive
         /\ passed \subseteq passed' /\ passed' \subseteq Slots /\ live' \subseteq Clearers
BY DEF TypeOK, ServerHandles, ServerReports, ServerTriggers, ServerVerifies, Slots

\* Passed challenges stay passed, the offer does not change (src/ relies on it).
LEMMA ServerMonotone ==
  ASSUME TypeOK, Next
  PROVE  /\ offer' = offer
         /\ passed \subseteq passed' /\ passed' \subseteq Slots
         /\ live' \subseteq Clearers
         /\ alive' \in BOOLEAN
<1>1. CASE PassElsewhere
  BY <1>1 DEF PassElsewhere, TypeOK, Slots
<1>2. CASE Expire
  BY <1>2 DEF Expire, TypeOK, Slots
<1>3. ASSUME NEW c \in Clearers, Call(c) \/ Step(c)
      PROVE  /\ offer' = offer
             /\ passed \subseteq passed' /\ passed' \subseteq Slots
             /\ live' \subseteq Clearers
             /\ alive' \in BOOLEAN
  <2>1. CASE ServerHandles(c)
    BY <2>1, ServerSteps DEF TypeOK
  <2>2. CASE UNCHANGED server
    BY <2>2 DEF server, TypeOK, Slots
  <2> QED BY <1>3, <2>1, <2>2
    DEF Step, GetOTTStatus, TriggerOTT, VerifyOTT, Answer, Lose, Refuse, Garble, Call,
      AllPassed, CannotClear, NewRound, GiveUp, AskForCode
<1> QED BY <1>1, <1>2, <1>3 DEF Next

-----------------------------------------------------------------------------
(***************************************************************************)
(* What one step of a clearing does to its own variables.                  *)
(***************************************************************************)

\* The counters only ever grow by one, and only those of the clearing that
\* takes the step; attempts never reach past the ladder.
LEMMA Counting ==
  ASSUME NEW c \in Clearers, Call(c) \/ Step(c)
  PROVE  /\ round' \in {round, [round EXCEPT ![c] = round[c] + 1]}
         /\ triggered' \in {triggered, [triggered EXCEPT ![c] = triggered[c] + 1]}
         /\ submitted' \in {submitted, [submitted EXCEPT ![c] = submitted[c] + 1]}
         /\ \/ attempt' = attempt
            \/ attempt' = [attempt EXCEPT ![c] = 0]
            \/ /\ attempt[c] + 1 < MaxAttempts
               /\ attempt' = [attempt EXCEPT ![c] = attempt[c] + 1]
<1> USE DEF Call, Step, GetOTTStatus, AllPassed, CannotClear, NewRound, GiveUp, TriggerOTT,
      AskForCode, VerifyOTT, Answer, Lose, Refuse, Garble, Return, Goto,
      ClientKeeps
<1>1. round' \in {round, [round EXCEPT ![c] = round[c] + 1]}
  OBVIOUS
<1>2. triggered' \in {triggered, [triggered EXCEPT ![c] = triggered[c] + 1]}
  OBVIOUS
<1>3. submitted' \in {submitted, [submitted EXCEPT ![c] = submitted[c] + 1]}
  OBVIOUS
<1>4. \/ attempt' = attempt
      \/ attempt' = [attempt EXCEPT ![c] = 0]
      \/ /\ attempt[c] + 1 < MaxAttempts
         /\ attempt' = [attempt EXCEPT ![c] = attempt[c] + 1]
  OBVIOUS
<1> QED BY <1>1, <1>2, <1>3, <1>4

\* An endpoint call of a clearing ends in one of three ways: the next stop of
\* the loop, the same endpoint once more, or the end of the clearing.
LEMMA EndpointSteps ==
  ASSUME NEW c \in Clearers
  PROVE  /\ GetOTTStatus(c) =>
              /\ pc[c] = "status" /\ pc' = [pc EXCEPT ![c] = "loop"]
              /\ seen' = [seen EXCEPT ![c] = passed']
              /\ UNCHANGED <<result, round, triggered, submitted, doneBefore>>
         /\ TriggerOTT(c) =>
              /\ pc[c] = "trigger" /\ pc' = [pc EXCEPT ![c] = "prompt"]
              /\ triggered' = [triggered EXCEPT ![c] = triggered[c] + 1]
              /\ UNCHANGED <<result, round, submitted, seen, doneBefore>>
         /\ VerifyOTT(c) =>
              /\ pc[c] = "verify" /\ pc' = [pc EXCEPT ![c] = "loop"]
              /\ seen' = [seen EXCEPT ![c] = passed']
              /\ round' = [round EXCEPT ![c] = round[c] + 1]
              /\ UNCHANGED <<result, triggered, submitted, doneBefore>>
         /\ Lose(c) \/ Refuse(c) \/ Garble(c) =>
              /\ pc[c] \in Endpoints
              /\ UNCHANGED <<seen, round, triggered, submitted, doneBefore>>
              /\ \/ pc' = pc /\ result' = result
                 \/ /\ pc' = [pc EXCEPT ![c] = "done"]
                    /\ \E r \in {"failed", "corruption"} : result' = [result EXCEPT ![c] = r]
BY DEF GetOTTStatus, TriggerOTT, VerifyOTT, Answer, Lose, Refuse, Garble, Return, Goto,
   ClientKeeps

-----------------------------------------------------------------------------
\* A step keeps every variable in its type.
LEMMA TypeStep == ASSUME TypeOK, Pacing, [Next]_vars PROVE TypeOK'
<1>1. CASE UNCHANGED vars
  BY <1>1 DEF TypeOK, vars, server, client, Slots
<1>2. CASE Next
  <2>0. /\ Slots' = Slots /\ (offer \in Offers)' /\ (passed \subseteq Slots)'
        /\ (live \subseteq Clearers)' /\ (alive \in BOOLEAN)'
    BY <1>2, ServerMonotone DEF TypeOK, Slots
  <2>1. CASE PassElsewhere \/ Expire
    BY <2>0, <2>1 DEF PassElsewhere, Expire, client, TypeOK
  <2>2. ASSUME NEW c \in Clearers, Call(c) \/ Step(c) PROVE TypeOK'
    <3>1. /\ triggered \in [Clearers -> Nat] /\ submitted \in [Clearers -> Nat]
          /\ round \in [Clearers -> 0..ClearRounds]
          /\ attempt \in [Clearers -> 0..MaxAttempts - 1]
      BY DEF TypeOK
    <3>2. (triggered \in [Clearers -> Nat])' /\ (submitted \in [Clearers -> Nat])'
          /\ (attempt \in [Clearers -> 0..MaxAttempts - 1])'
      BY <2>2, <3>1, Counting, RoundsAssumption
    <3>3. (round \in [Clearers -> 0..ClearRounds])'
      <4>1. CASE VerifyOTT(c)
        <5>1. round[c] < ClearRounds
          BY <4>1, EndpointSteps DEF Pacing, Paced
        <5> QED BY <3>1, <4>1, <5>1, EndpointSteps, RoundsAssumption
      <4>2. CASE ~VerifyOTT(c)
        <5>1. round' = round
          BY <2>2, <4>2, EndpointSteps DEF Call, Step, AllPassed, CannotClear, NewRound, GiveUp,
            AskForCode, ClientKeeps
        <5> QED BY <3>1, <5>1
      <4> QED BY <4>1, <4>2
    <3> USE DEF Call, Step, GetOTTStatus, AllPassed, CannotClear, NewRound, GiveUp,
          TriggerOTT, AskForCode, VerifyOTT, Answer, Lose, Refuse, Garble,
          Return, Goto, ClientKeeps
    <3>4. (pc \in [Clearers -> {"idle", "status", "loop", "trigger", "prompt",
                                "verify", "done"}])'
      BY <2>2 DEF TypeOK
    <3>5. (result \in [Clearers -> Results])'
      BY <2>2 DEF TypeOK, Results
    <3>6. (seen \in [Clearers -> SUBSET Slots])'
      <4> seen \in [Clearers -> SUBSET Slots]
        BY DEF TypeOK
      <4> QED BY <2>0, <2>2
    <3>7. (otp \in [Clearers -> {"none", "right", "wrong"}])'
      BY <2>2 DEF TypeOK
    <3>8. (doneBefore \in [Clearers -> BOOLEAN])'
      BY <2>2 DEF TypeOK, ServerCleared
    <3> QED BY <2>0, <3>2, <3>3, <3>4, <3>5, <3>6, <3>7, <3>8 DEF TypeOK
  <2> QED BY <1>2, <2>1, <2>2 DEF Next
<1> QED BY <1>1, <1>2

\* The steps of the loop between two endpoint calls, in the same short form.
LEMMA LoopSteps ==
  ASSUME NEW c \in Clearers
  PROVE  /\ Call(c) =>
              /\ pc[c] = "idle" /\ UNCHANGED <<server, seen, round, triggered, submitted>>
              /\ doneBefore' = [doneBefore EXCEPT ![c] = ServerCleared]
              /\ \/ pc' = [pc EXCEPT ![c] = "status"] /\ result' = result
                 \/ /\ pc' = [pc EXCEPT ![c] = "done"]
                    /\ result' = [result EXCEPT ![c] = "invalid"]
         /\ AllPassed(c) \/ CannotClear(c) \/ NewRound(c) \/ GiveUp(c) =>
              /\ pc[c] = "loop" /\ UNCHANGED <<server, seen, round, triggered, submitted>>
              /\ doneBefore' = doneBefore
              /\ \/ /\ pc' = [pc EXCEPT ![c] = "trigger"] /\ result' = result
                    /\ round[c] < ClearRounds /\ ~Cleared(seen[c])
                 \/ /\ pc' = [pc EXCEPT ![c] = "done"]
                    /\ \E r \in {"invalid", "unsupported", "uncleared"} :
                         result' = [result EXCEPT ![c] = r]
                 \/ /\ pc' = [pc EXCEPT ![c] = "done"] /\ Cleared(seen[c])
                    /\ result' = [result EXCEPT ![c] = "cleared"]
         /\ AskForCode(c) =>
              /\ pc[c] = "prompt" /\ UNCHANGED <<server, seen, round, triggered, doneBefore>>
              /\ \/ /\ pc' = [pc EXCEPT ![c] = "verify"] /\ result' = result
                    /\ submitted' = [submitted EXCEPT ![c] = submitted[c] + 1]
                 \/ /\ pc' = [pc EXCEPT ![c] = "done"] /\ submitted' = submitted
                    /\ \E r \in {"no code", "invalid"} : result' = [result EXCEPT ![c] = r]
BY DEF Call, AllPassed, CannotClear, NewRound, GiveUp, AskForCode, RoundsLeft, Return, Goto,
   ClientKeeps

\* The pace of the loop: one trigger and one code per round.
LEMMA PacingStep == ASSUME TypeOK, Pacing, [Next]_vars PROVE Pacing'
<1>1. CASE UNCHANGED vars
  BY <1>1 DEF Pacing, Paced, CodesAnswerTriggers, PromptsAreBounded, vars, client
<1>2. CASE PassElsewhere \/ Expire
  BY <1>2 DEF PassElsewhere, Expire, client, Pacing, Paced, CodesAnswerTriggers,
    PromptsAreBounded
<1>3. ASSUME NEW c \in Clearers, Call(c) \/ Step(c) PROVE Pacing'
  <2>1. /\ \A d \in Clearers : /\ triggered[d] \in Nat /\ submitted[d] \in Nat
                               /\ round[d] \in Nat /\ round[d] <= ClearRounds
        /\ DOMAIN pc = Clearers /\ DOMAIN triggered = Clearers /\ DOMAIN submitted = Clearers
        /\ DOMAIN round = Clearers /\ DOMAIN result = Clearers
    BY RoundsAssumption DEF TypeOK
  <2> SUFFICES ASSUME NEW d \in Clearers
               PROVE  /\ Paced!(d)' /\ CodesAnswerTriggers!(d)' /\ PromptsAreBounded!(d)'
    BY DEF Pacing, Paced, CodesAnswerTriggers, PromptsAreBounded
  <2> USE RoundsAssumption DEF Pacing, Paced, CodesAnswerTriggers, PromptsAreBounded
  <2>2. CASE GetOTTStatus(c)
    BY <2>1, <2>2, EndpointSteps
  <2>3. CASE TriggerOTT(c)
    BY <2>1, <2>3, EndpointSteps
  <2>4. CASE VerifyOTT(c)
    BY <2>1, <2>4, EndpointSteps
  <2>8. CASE Lose(c) \/ Refuse(c) \/ Garble(c)
    BY <2>1, <2>8, EndpointSteps DEF Endpoints
  <2>5. CASE Call(c)
    <3>1. /\ pc[c] = "idle" /\ UNCHANGED <<round, triggered, submitted>>
          /\ \/ pc' = [pc EXCEPT ![c] = "status"] /\ result' = result
             \/ /\ pc' = [pc EXCEPT ![c] = "done"]
                /\ result' = [result EXCEPT ![c] = "invalid"]
      BY <2>5, LoopSteps
    <3> QED BY <2>1, <3>1
  <2>6. CASE AllPassed(c) \/ CannotClear(c) \/ NewRound(c) \/ GiveUp(c)
    <3>1. /\ pc[c] = "loop" /\ UNCHANGED <<round, triggered, submitted>>
          /\ \/ /\ pc' = [pc EXCEPT ![c] = "trigger"] /\ result' = result
                /\ round[c] < ClearRounds
             \/ /\ pc' = [pc EXCEPT ![c] = "done"]
                /\ \E r \in Results \ {"none"} : result' = [result EXCEPT ![c] = r]
      BY <2>6, LoopSteps DEF Results
    <3> QED BY <2>1, <3>1 DEF Results
  <2>7. CASE AskForCode(c)
    <3>1. /\ pc[c] = "prompt" /\ UNCHANGED <<round, triggered>>
          /\ \/ /\ pc' = [pc EXCEPT ![c] = "verify"] /\ result' = result
                /\ submitted' = [submitted EXCEPT ![c] = submitted[c] + 1]
             \/ /\ pc' = [pc EXCEPT ![c] = "done"] /\ submitted' = submitted
                /\ \E r \in {"no code", "invalid"} : result' = [result EXCEPT ![c] = r]
      BY <2>7, LoopSteps
    <3>2. CASE pc' = [pc EXCEPT ![c] = "verify"]
      <4>1. result' = result /\ submitted' = [submitted EXCEPT ![c] = submitted[c] + 1]
        BY <2>1, <3>1, <3>2
      <4>2. CASE d = c
        BY <2>1, <3>1, <3>2, <4>1, <4>2
      <4>3. CASE d # c
        BY <2>1, <3>1, <3>2, <4>1, <4>3
      <4> QED BY <4>2, <4>3
    <3>3. CASE pc' = [pc EXCEPT ![c] = "done"]
      <4>1. PICK r \in {"no code", "invalid"} : result' = [result EXCEPT ![c] = r]
        BY <2>1, <3>1, <3>3
      <4>2. submitted' = submitted
        BY <2>1, <3>1, <3>3
      <4> QED BY <2>1, <3>1, <3>3, <4>1, <4>2
    <3> QED BY <3>1, <3>2, <3>3
  <2> QED BY <1>3, <2>2, <2>3, <2>4, <2>5, <2>6, <2>7, <2>8 DEF Step
<1> QED BY <1>1, <1>2, <1>3 DEF Next

\* The offer is the same after a step, and nothing passed is lost.
LEMMA ClearedKept ==
  ASSUME TypeOK, [Next]_vars
  PROVE  offer' = offer /\ passed \subseteq passed'
<1>1. CASE UNCHANGED vars
  BY <1>1 DEF vars, server
<1>2. CASE Next
  BY <1>2, ServerMonotone
<1> QED BY <1>1, <1>2

\* A clearing learns nothing the server does not know, and forgets nothing.
LEMMA InformedStep == ASSUME TypeOK, Informed, [Next]_vars PROVE Informed'
<1>1. CASE UNCHANGED client
  BY <1>1, ClearedKept DEF client, Informed
<1>2. ASSUME NEW c \in Clearers, Call(c) \/ Step(c) PROVE Informed'
  <2>1. passed \subseteq passed' /\ DOMAIN seen = Clearers
    BY ClearedKept DEF TypeOK
  <2>2. seen' \in {seen, [seen EXCEPT ![c] = passed']}
    BY <1>2, EndpointSteps, LoopSteps DEF Step
  <2> QED BY <2>1, <2>2 DEF Informed
<1> QED BY <1>1, <1>2 DEF Next, PassElsewhere, Expire, vars

\* Success is reported by AllPassed alone.
LEMMA JustifiedStep == ASSUME TypeOK, Pacing, Justified, [Next]_vars PROVE Justified'
<1>1. CASE UNCHANGED <<seen, result>>
  BY <1>1, ClearedKept DEF Justified, Cleared, PendingRequired, Slots
<1>2. ASSUME NEW c \in Clearers, Call(c) \/ Step(c) PROVE Justified'
  <2>1. offer' = offer /\ DOMAIN seen = Clearers /\ DOMAIN result = Clearers
    BY ClearedKept DEF TypeOK
  <2>2. pc[c] # "done" /\ result[c] = "none"
    BY <1>2, EndpointSteps, LoopSteps DEF Step, Pacing, Paced, Endpoints
  <2>3. \/ result' = result
        \/ \E r \in Results \ {"cleared"} : result' = [result EXCEPT ![c] = r]
        \/ result' = [result EXCEPT ![c] = "cleared"] /\ Cleared(seen[c]) /\ seen' = seen
    BY <1>2, EndpointSteps, LoopSteps DEF Step, Results
  <2>4. seen' \in {seen, [seen EXCEPT ![c] = passed']}
    BY <1>2, EndpointSteps, LoopSteps DEF Step
  <2>5. \A d \in Clearers : result'[d] = "cleared" => Cleared(seen'[d])
    BY <2>1, <2>2, <2>3, <2>4 DEF Justified
  <2> QED BY <2>1, <2>5 DEF Justified, Cleared, PendingRequired, Slots
<1> QED BY <1>1, <1>2 DEF Next, PassElsewhere, Expire, vars, client

\* A clearing of a cleared token never gets to the trigger.
LEMMA SparedStep == ASSUME TypeOK, Pacing, Informed, Spared, [Next]_vars PROVE Spared'
<1>1. offer' = offer /\ passed \subseteq passed'
  BY ClearedKept
<1>2. Slots' = Slots /\ (ServerCleared => ServerCleared')
  BY <1>1 DEF ServerCleared, Slots
<1>3. CASE UNCHANGED client
  BY <1>1, <1>2, <1>3 DEF client, Spared
<1>4. ASSUME NEW c \in Clearers, Call(c) \/ Step(c) PROVE Spared'
  <2>1. /\ DOMAIN pc = Clearers /\ DOMAIN seen = Clearers /\ DOMAIN triggered = Clearers
        /\ DOMAIN doneBefore = Clearers
    BY DEF TypeOK
  <2>2. doneBefore' = IF pc[c] = "idle" THEN [doneBefore EXCEPT ![c] = ServerCleared]
                      ELSE doneBefore
    <3>1. CASE Call(c)
      BY <3>1, LoopSteps
    <3>2. CASE \/ GetOTTStatus(c) \/ TriggerOTT(c) \/ VerifyOTT(c)
               \/ Lose(c) \/ Refuse(c) \/ Garble(c)
      BY <3>2, EndpointSteps DEF Endpoints
    <3>3. CASE AllPassed(c) \/ CannotClear(c) \/ NewRound(c) \/ GiveUp(c) \/ AskForCode(c)
      BY <3>3, LoopSteps
    <3> QED BY <1>4, <3>1, <3>2, <3>3 DEF Step
  <2>3. CASE Call(c)
    <3>1. pc[c] = "idle" /\ triggered[c] = 0
      BY <2>3, LoopSteps DEF Pacing, Paced
    <3>2. /\ UNCHANGED <<passed, seen, triggered>> /\ pc'[c] \in {"status", "done"}
          /\ \A d \in Clearers \ {c} : pc'[d] = pc[d]
      BY <2>1, <2>3, LoopSteps DEF server
    <3> QED BY <1>1, <1>2, <2>1, <2>2, <3>1, <3>2 DEF Spared
  <2>4. CASE GetOTTStatus(c)
    BY <1>1, <1>2, <2>1, <2>2, <2>4, EndpointSteps DEF Spared, ServerCleared
  <2>5. CASE AllPassed(c) \/ CannotClear(c) \/ NewRound(c) \/ GiveUp(c)
    BY <1>1, <1>2, <2>1, <2>2, <2>5, LoopSteps DEF Spared, Cleared, PendingRequired
  <2>6. CASE TriggerOTT(c) \/ AskForCode(c) \/ VerifyOTT(c)
    <3>1. pc[c] \in {"trigger", "prompt", "verify"} /\ ~doneBefore[c]
      BY <2>6, EndpointSteps, LoopSteps DEF Spared
    <3>2. \A d \in Clearers \ {c} : /\ pc'[d] = pc[d] /\ seen'[d] = seen[d]
                                    /\ triggered'[d] = triggered[d]
      BY <2>1, <2>6, EndpointSteps, LoopSteps
    <3> QED BY <1>2, <1>1, <2>1, <2>2, <3>1, <3>2 DEF Spared
  <2>7. CASE Lose(c) \/ Refuse(c) \/ Garble(c)
    BY <1>1, <1>2, <2>1, <2>2, <2>7, EndpointSteps DEF Spared, Endpoints
  <2> QED BY <1>4, <2>3, <2>4, <2>5, <2>6, <2>7 DEF Step
<1> QED BY <1>3, <1>4 DEF Next, PassElsewhere, Expire, vars

\* pending[0] is one of the pending challenges: the positions of a list have a first.
LEMMA FirstIsPending ==
  ASSUME TypeOK, NEW known, ~Cleared(known)
  PROVE  FirstPending(known) \in PendingRequired(known)
<1> DEFINE S == PendingRequired(known)
           less == {ss \in Nat \X Nat : ss[1] < ss[2]}
<1>1. S \subseteq Nat /\ S # {}
  <2>1. Slots = 1..Len(offer)
    BY OffersAssumption DEF TypeOK, Slots
  <2> QED BY <2>1 DEF PendingRequired, Cleared
<1>2. IsWellFoundedOn(less, Nat)
  BY NatLessThanWellFounded DEF OpToRel
<1>3. PICK x \in S : \A y \in S : ~(<<y, x>> \in less)
  <2> HIDE DEF S, less
  <2> QED BY <1>1, <1>2, WFMin
<1>4. ASSUME NEW y \in S PROVE x <= y
  <2> HIDE DEF S
  <2>1. x \in Nat /\ y \in Nat /\ <<y, x>> \in Nat \X Nat
    BY <1>1
  <2>2. <<y, x>>[1] = y /\ <<y, x>>[2] = x
    OBVIOUS
  <2>3. ~(y < x)
    BY Zenon, <1>3, <2>1, <2>2
  <2> QED BY <2>1, <2>3
<1> QED BY <1>3, <1>4 DEF FirstPending

\* Only NewRound goes to the trigger, and what it has looked at stays as it is
\* until the trigger has been made.
LEMMA AimedStep == ASSUME TypeOK, Aimed, [Next]_vars PROVE Aimed'
<1>1. offer' = offer
  BY ClearedKept
<1>2. CASE UNCHANGED client
  BY <1>1, <1>2 DEF client, Aimed, PendingRequired, Slots, Supports
<1>3. ASSUME NEW c \in Clearers, Call(c) \/ Step(c) PROVE Aimed'
  <2>1. DOMAIN pc = Clearers /\ DOMAIN seen = Clearers
    BY DEF TypeOK
  <2>2. \A d \in Clearers \ {c} : pc'[d] = pc[d] /\ seen'[d] = seen[d]
    BY <1>3, <2>1, EndpointSteps, LoopSteps DEF Step
  <2>3. CASE NewRound(c)
    <3>1. FirstPending(seen[c]) \in PendingRequired(seen[c])
      BY <2>3, FirstIsPending DEF NewRound
    <3>2. seen' = seen /\ (pc'[c] = "trigger" => IsPhoneChannel(Channel[c]))
      BY <2>1, <2>3 DEF NewRound, Goto, Return
    <3>3. Supports(offer[FirstPending(seen[c])], Channel[c])
      BY <2>3 DEF NewRound
    <3> QED BY <1>1, <2>1, <2>2, <3>1, <3>2, <3>3
      DEF Aimed, PendingRequired, Slots, Supports
  <2>4. CASE ~NewRound(c)
    <3>1. pc'[c] = "trigger" => pc[c] = "trigger" /\ seen' = seen
      <4>1. CASE Call(c) \/ AskForCode(c)
        BY <2>1, <4>1, LoopSteps
      <4>2. CASE AllPassed(c) \/ CannotClear(c) \/ GiveUp(c)
        BY <2>1, <4>2 DEF AllPassed, CannotClear, GiveUp, Return, Goto
      <4>3. CASE GetOTTStatus(c) \/ TriggerOTT(c) \/ VerifyOTT(c)
        BY <2>1, <4>3, EndpointSteps
      <4>4. CASE Lose(c) \/ Refuse(c) \/ Garble(c)
        BY <2>1, <4>4, EndpointSteps
      <4> QED BY <1>3, <2>4, <4>1, <4>2, <4>3, <4>4 DEF Step
    <3> QED BY <1>1, <2>1, <2>2, <3>1 DEF Aimed, PendingRequired, Slots, Supports
  <2> QED BY <2>3, <2>4
<1> QED BY <1>2, <1>3 DEF Next, PassElsewhere, Expire, vars

-----------------------------------------------------------------------------
(***************************************************************************)
(* The theorems.                                                           *)
(***************************************************************************)

\* The inductive invariant: types, what is known, what is reported, the pace of
\* the loop and the sparing of cleared tokens support each other.
THEOREM ClearingInvariant == Spec => []IInv
<1>1. Init => IInv
  BY RoundsAssumption DEF Init, IInv, TypeOK, Informed, Justified, Pacing, Paced,
    CodesAnswerTriggers, PromptsAreBounded, Spared, Aimed, Results, Slots
<1>2. IInv /\ [Next]_vars => IInv'
  BY TypeStep, InformedStep, JustifiedStep, PacingStep, SparedStep, AimedStep
  DEF IInv
<1> QED BY <1>1, <1>2, PTL DEF Spec

\* Every variable of a clearing keeps to the values of its counterpart.
THEOREM TypeCorrect == Spec => []TypeOK
BY ClearingInvariant, PTL DEF IInv

\* A clearing reports success only when the server has passed every required
\* challenge, for any number of clearings and any token (ott.go:335-337).
THEOREM SuccessIsTrue == Spec => []ClearedIsTrue
<1>1. IInv => ClearedIsTrue
  BY DEF IInv, Informed, Justified, ClearedIsTrue, ServerCleared, Cleared, PendingRequired
<1> QED BY <1>1, ClearingInvariant, PTL

\* The loop triggers at most maxOTTClearRounds times, whatever the server
\* answers (ott.go:333-364).
THEOREM RoundsAreBounded == Spec => []PromptsAreBounded
<1>1. IInv => PromptsAreBounded
  BY DEF IInv, Pacing
<1> QED BY <1>1, ClearingInvariant, PTL

\* Every code submitted has a trigger of its own before it (ott.go:333-364).
THEOREM CodesFollowTriggers == Spec => []CodesAnswerTriggers
<1>1. IInv => CodesAnswerTriggers
  BY DEF IInv, Pacing
<1> QED BY <1>1, ClearingInvariant, PTL

\* A token with nothing left to pass makes no phone ring (ott.go:333-337).
THEOREM ClearedTokensAreSpared == Spec => []NoNeedlessTrigger
<1>1. IInv => NoNeedlessTrigger
  BY DEF IInv, Spared, NoNeedlessTrigger
<1> QED BY <1>1, ClearingInvariant, PTL

\* Whoever's phone rings has something to pass with it: at the moment of the trigger
\* a required challenge known as open offers the channel (ott.go:136-149, 339-342).
THEOREM PhonesRingForAReason == Spec => TriggersAreUseful
<1>1. IInv /\ [Next]_vars =>
        \A c \in Clearers :
          triggered'[c] > triggered[c] =>
            /\ Channel[c] \in PhoneChannels
            /\ \E i \in Slots \ seen[c] :
                 /\ offer[i].required
                 /\ \/ offer[i].primary = ChallengeType(Channel[c])
                    \/ ChallengeType(Channel[c]) \in offer[i].alternatives
  <2> SUFFICES ASSUME IInv, [Next]_vars, NEW c \in Clearers, triggered'[c] > triggered[c]
               PROVE  /\ Channel[c] \in PhoneChannels
                      /\ \E i \in Slots \ seen[c] :
                           /\ offer[i].required
                           /\ \/ offer[i].primary = ChallengeType(Channel[c])
                              \/ ChallengeType(Channel[c]) \in offer[i].alternatives
    OBVIOUS
  <2>1. triggered \in [Clearers -> Nat]
    BY DEF IInv, TypeOK
  <2>2. pc[c] = "trigger"
    <3>1. CASE UNCHANGED client
      BY <2>1, <3>1 DEF client
    <3>2. ASSUME NEW d \in Clearers, Call(d) \/ Step(d) PROVE pc[c] = "trigger"
      <4>1. TriggerOTT(d) \/ triggered' = triggered
        BY <3>2, EndpointSteps, LoopSteps DEF Step
      <4> QED BY <2>1, <4>1, EndpointSteps
    <3> QED BY <3>1, <3>2 DEF Next, PassElsewhere, Expire, vars
  <2> QED BY <2>2 DEF IInv, Aimed, IsPhoneChannel, PendingRequired, Supports
<1> QED BY <1>1, ClearingInvariant, PTL DEF Spec, TriggersAreUseful
-----------------------------------------------------------------------------
(***************************************************************************)
(* Why every clearing returns: each step of its own brings it nearer to    *)
(* the end, and nothing else moves it.  (That it takes those steps is the  *)
(* fairness of FairSpec, which TLC adds in ClearingReturns.)               *)
(***************************************************************************)
Stage ==
  [status |-> 5, loop |-> 4, trigger |-> 3, prompt |-> 2, verify |-> 1, done |-> 0]

\* The stops a clearing has left at most, and the steps: a ladder of attempts each.
Stops(c) == 5 * (ClearRounds - round[c]) + Stage[pc[c]]
Rank(c) == MaxAttempts * Stops(c) + (MaxAttempts - 1 - attempt[c])

\* A clearing under way is run down by its own steps and by no others, whatever the
\* server reports: the loop counts rounds, not progress (ott.go:209-212, 326-371).
ClearingsRunDown ==
  [][\A c \in Clearers :
       pc[c] # "idle" =>
         /\ Rank(c) \in Nat
         /\ IF Step(c) THEN Rank(c)' < Rank(c) ELSE Rank(c)' = Rank(c)]_vars

\* A step of a clearing is another attempt, a later stage or another round.
LEMMA StepMoves ==
  ASSUME NEW c \in Clearers, Step(c)
  PROVE  \/ /\ attempt' = [attempt EXCEPT ![c] = attempt[c] + 1]
            /\ pc' = pc /\ round' = round
         \/ /\ attempt' = attempt \/ attempt' = [attempt EXCEPT ![c] = 0]
            /\ round' = round
            /\ \E to \in DOMAIN Stage :
                 pc' = [pc EXCEPT ![c] = to] /\ Stage[to] < Stage[pc[c]]
         \/ /\ attempt' = [attempt EXCEPT ![c] = 0]
            /\ round' = [round EXCEPT ![c] = round[c] + 1]
            /\ pc[c] = "verify" /\ pc' = [pc EXCEPT ![c] = "loop"]
<1> USE DEF Goto, Return, Stage, ClientKeeps
<1>1. CASE GetOTTStatus(c) \/ TriggerOTT(c) \/ VerifyOTT(c)
  BY <1>1 DEF GetOTTStatus, TriggerOTT, VerifyOTT, Answer
<1>2. CASE Lose(c)
  BY <1>2 DEF Lose, Endpoints
<1>3. CASE Refuse(c) \/ Garble(c)
  BY <1>3 DEF Refuse, Garble, Endpoints
<1>4. CASE AllPassed(c) \/ CannotClear(c) \/ NewRound(c) \/ GiveUp(c)
  BY <1>4 DEF AllPassed, CannotClear, NewRound, GiveUp
<1>5. CASE AskForCode(c)
  <2>1. attempt' = attempt /\ round' = round /\ pc[c] = "prompt"
    BY <1>5 DEF AskForCode
  <2>2. PICK to \in {"verify", "done"} : pc' = [pc EXCEPT ![c] = to]
    BY <1>5 DEF AskForCode
  <2>3. to \in DOMAIN Stage /\ Stage[to] < Stage["prompt"]
    OBVIOUS
  <2> HIDE DEF Stage
  <2> QED BY <2>1, <2>2, <2>3
<1> QED BY <1>1, <1>2, <1>3, <1>4, <1>5 DEF Step

\* Nobody else moves a clearing that was called.
LEMMA OthersStay ==
  ASSUME TypeOK, [Next]_vars, NEW c \in Clearers, pc[c] # "idle", ~Step(c)
  PROVE  pc'[c] = pc[c] /\ attempt'[c] = attempt[c] /\ round'[c] = round[c]
<1>1. DOMAIN pc = Clearers /\ DOMAIN attempt = Clearers /\ DOMAIN round = Clearers
  BY DEF TypeOK
<1>2. CASE UNCHANGED client
  BY <1>2 DEF client
<1>3. ASSUME NEW d \in Clearers, Call(d)
      PROVE  pc'[c] = pc[c] /\ attempt'[c] = attempt[c] /\ round'[c] = round[c]
  BY <1>1, <1>3 DEF Call, Goto, Return
<1>4. ASSUME NEW d \in Clearers, Step(d), d # c
      PROVE  pc'[c] = pc[c] /\ attempt'[c] = attempt[c] /\ round'[c] = round[c]
  BY <1>1, <1>4, StepMoves
<1> QED BY <1>2, <1>3, <1>4 DEF Next, PassElsewhere, Expire, vars

\* A higher product leaves room for any remainder.
LEMMA Lower ==
  ASSUME NEW n \in Nat \ {0}, NEW x \in Nat, NEW y \in Nat, y < x,
         NEW a \in 0..n - 1, NEW b \in 0..n - 1
  PROVE  n * y + (n - 1 - b) < n * x + (n - 1 - a)
<1>1. n * (x - y - 1) \in Nat /\ n * x = n * y + n * (x - y - 1) + n
  OBVIOUS
<1>2. n * x \in Nat /\ n * y \in Nat
  OBVIOUS
<1> QED BY <1>1, <1>2

\* For any number of clearings, rounds and attempts, each step a clearing takes is one
\* of the few it has left.
THEOREM ClearingsComeToAnEnd == Spec => ClearingsRunDown
<1>1. ASSUME IInv, IInv', [Next]_vars, NEW c \in Clearers, pc[c] # "idle"
      PROVE  /\ Rank(c) \in Nat
             /\ IF Step(c) THEN Rank(c)' < Rank(c) ELSE Rank(c)' = Rank(c)
  <2> USE RoundsAssumption
  <2>1. \A s \in DOMAIN Stage : Stage[s] \in 0..5
    BY DEF Stage
  <2>2. /\ pc[c] \in DOMAIN Stage /\ DOMAIN pc = Clearers
        /\ DOMAIN round = Clearers /\ DOMAIN attempt = Clearers
        /\ round[c] \in 0..ClearRounds /\ attempt[c] \in 0..MaxAttempts - 1
    <3>1. pc[c] \in DOMAIN Stage
      BY <1>1 DEF IInv, TypeOK, Stage
    <3> QED BY <1>1, <3>1 DEF IInv, TypeOK
  <2>3. Stops(c) \in Nat
    BY <2>1, <2>2 DEF Stops
  <2>4. MaxAttempts * Stops(c) \in Nat
    BY <2>3
  <2>5. Rank(c) \in Nat
    BY <2>2, <2>4 DEF Rank
  <2>6. attempt'[c] \in 0..MaxAttempts - 1 /\ round'[c] \in 0..ClearRounds
    BY <1>1 DEF IInv, TypeOK
  <2>7. ASSUME Stops(c)' \in Nat, Stops(c)' < Stops(c) PROVE Rank(c)' < Rank(c)
    <3> DEFINE x == Stops(c)
               y == Stops(c)'
    <3>1. x \in Nat /\ y \in Nat /\ y < x
      BY <2>3, <2>7
    <3>2. Rank(c) = MaxAttempts * x + (MaxAttempts - 1 - attempt[c])
      BY DEF Rank
    <3>3. Rank(c)' = MaxAttempts * y + (MaxAttempts - 1 - attempt'[c])
      BY DEF Rank
    <3> HIDE DEF x, y
    <3> QED BY <2>2, <2>6, <3>1, <3>2, <3>3, Lower
  <2>8. CASE Step(c)
    <3>1. CASE /\ attempt' = [attempt EXCEPT ![c] = attempt[c] + 1]
               /\ pc' = pc /\ round' = round
      <4>1. attempt'[c] = attempt[c] + 1 /\ Stops(c)' = Stops(c)
        BY <2>2, <3>1 DEF Stops
      <4> QED BY <2>2, <2>4, <2>8, <2>5, <4>1 DEF Rank
    <3>2. CASE /\ round' = round
               /\ \E to \in DOMAIN Stage :
                    pc' = [pc EXCEPT ![c] = to] /\ Stage[to] < Stage[pc[c]]
      <4>1. /\ round'[c] = round[c] /\ pc'[c] \in DOMAIN Stage
            /\ Stage[pc'[c]] < Stage[pc[c]]
        BY <2>2, <3>2
      <4>2. Stops(c)' \in Nat /\ Stops(c)' < Stops(c)
        BY <2>1, <2>2, <4>1 DEF Stops
      <4> QED BY <2>5, <2>7, <2>8, <4>2
    <3>3. CASE /\ round' = [round EXCEPT ![c] = round[c] + 1]
               /\ pc[c] = "verify" /\ pc' = [pc EXCEPT ![c] = "loop"]
      <4>1. round'[c] = round[c] + 1 /\ pc'[c] = "loop"
        BY <2>2, <3>3
      <4>2. Stage["verify"] = 1 /\ Stage["loop"] = 4
        BY DEF Stage
      <4>3. Stops(c)' \in Nat /\ Stops(c)' < Stops(c)
        BY <2>2, <2>6, <3>3, <4>1, <4>2 DEF Stops
      <4> QED BY <2>5, <2>7, <2>8, <4>3
    <3> QED BY <2>8, <3>1, <3>2, <3>3, StepMoves
  <2>9. CASE ~Step(c)
    <3>1. pc'[c] = pc[c] /\ attempt'[c] = attempt[c] /\ round'[c] = round[c]
      BY <1>1, <2>9, OthersStay DEF IInv
    <3> QED BY <2>5, <2>9, <3>1 DEF Rank, Stops
  <2> QED BY <2>8, <2>9
<1>2. IInv /\ IInv' /\ [Next]_vars =>
        [\A c \in Clearers :
           pc[c] # "idle" =>
             /\ Rank(c) \in Nat
             /\ IF Step(c) THEN Rank(c)' < Rank(c) ELSE Rank(c)' = Rank(c)]_vars
  BY <1>1
<1> QED BY <1>2, ClearingInvariant, PTL DEF Spec, ClearingsRunDown
=============================================================================
