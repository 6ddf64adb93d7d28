----------------------------- MODULE ScaClearing ----------------------------
(***************************************************************************)
(* ClearSCAChallenge (ott.go): the loop that passes the challenges of one  *)
(* one-time token (OTT) over a phone channel: status, then per round       *)
(* trigger, ask the user for the code, verify.  Several clearings of the   *)
(* same token may run at once, the user may pass a challenge in the Wise   *)
(* web app meanwhile, the token may expire, and each endpoint call is a    *)
(* retry ladder of its own, so that the server may handle one request      *)
(* several times and the last answer may never arrive.                     *)
(*                                                                         *)
(* The server and the user are external: passed, live and alive are what   *)
(* src/ relies on them to keep.                                            *)
(***************************************************************************)
EXTENDS Integers, Sequences, FiniteSets

CONSTANTS
  Clearers,      \* concurrent activations of ClearSCAChallenge
  Channel,       \* the channel each of them is given
  Offers,        \* the challenge lists a token may come with
  ClearRounds,   \* maxOTTClearRounds, 5 in the code
  MaxAttempts    \* the retry ladder of one endpoint call

ASSUME RoundsAssumption == ClearRounds \in Nat /\ MaxAttempts \in Nat \ {0}
ASSUME OffersAssumption == \A o \in Offers : DOMAIN o = 1..Len(o)

VARIABLES
  offer,      \* the token's challenges
  passed,     \* those the server counts as passed
  live,       \* clearings whose last triggered code the server still accepts
  alive,      \* the token has not expired
  pc,         \* where each clearing is
  seen,       \* the challenges passed, in the clearing's latest OTTStatus
  round,      \* completed rounds of the loop
  attempt,    \* attempts made in the current endpoint call
  otp,        \* what the code provider returned for this round
  triggered,  \* trigger calls that succeeded
  submitted,  \* verify calls begun
  result,     \* what ClearSCAChallenge returned
  doneBefore  \* the token was cleared when the clearing was called

server == <<offer, passed, live, alive>>
client == <<pc, seen, round, attempt, otp, triggered, submitted, result, doneBefore>>
vars == <<server, client>>

PhoneChannels == {"sms", "whatsapp", "voice"}
IsPhoneChannel(ch) == ch \in PhoneChannels

\* A value that is no phone channel maps to the challenge type it spells.
ChallengeType(ch) ==
  CASE ch = "sms" -> "SMS" [] ch = "whatsapp" -> "WHATSAPP"
    [] ch = "voice" -> "VOICE" [] OTHER -> ch

Slots == DOMAIN offer

Supports(challenge, ch) ==
  ChallengeType(ch) \in {challenge.primary} \cup challenge.alternatives

\* Mutants: an optional challenge is pending too; any pass is enough.
PendingRequiredAll(known) == {i \in Slots : i \notin known}
PendingRequiredAny(known) ==
  {i \in Slots : offer[i].required /\ known = {}}

\* What an OTTStatus that reports known as passed leaves to pass.
PendingRequired(known) == {i \in Slots : offer[i].required /\ i \notin known}
Cleared(known) == PendingRequired(known) = {}

\* pending[0]: the list keeps the order of the wire.
FirstPending(known) ==
  CHOOSE i \in PendingRequired(known) : \A j \in PendingRequired(known) : i <= j

Init ==
  /\ offer \in Offers
  /\ passed = {}
  /\ live = {}
  /\ alive = TRUE
  /\ pc = [c \in Clearers |-> "idle"]
  /\ seen = [c \in Clearers |-> {}]
  /\ round = [c \in Clearers |-> 0]
  /\ attempt = [c \in Clearers |-> 0]
  /\ otp = [c \in Clearers |-> "none"]
  /\ triggered = [c \in Clearers |-> 0]
  /\ submitted = [c \in Clearers |-> 0]
  /\ result = [c \in Clearers |-> "none"]
  /\ doneBefore = [c \in Clearers |-> FALSE]

Goto(c, from, to) == pc[c] = from /\ pc' = [pc EXCEPT ![c] = to]

Return(c, from, value) ==
  /\ Goto(c, from, "done")
  /\ result' = [result EXCEPT ![c] = value]

(***************************************************************************)
(* The server.                                                             *)
(***************************************************************************)

\* A trigger sends a fresh code; it may or may not void the codes before it.
ServerTriggers(c) ==
  /\ \E rest \in SUBSET (live \ {c}) : live' = rest \cup {c}
  /\ UNCHANGED passed

\* The right code, once: it passes what the server decides it passes, perhaps
\* nothing, among the challenges the channel can pass.
ServerVerifies(c) ==
  /\ otp[c] = "right"
  /\ c \in live
  /\ live' = live \ {c}
  /\ \E more \in SUBSET {i \in Slots : Supports(offer[i], Channel[c])} :
       passed' = passed \cup more

\* The server would let the token pass.
ServerCleared == \A i \in Slots : offer[i].required => i \in passed

ServerReports(c) == UNCHANGED <<passed, live>>

\* The user passes a challenge elsewhere; the validity runs out.
PassElsewhere ==
  /\ alive
  /\ \E i \in Slots \ passed : passed' = passed \cup {i}
  /\ UNCHANGED <<offer, live, alive, client>>

Expire ==
  /\ alive
  /\ alive' = FALSE
  /\ UNCHANGED <<offer, passed, live, client>>

(***************************************************************************)
(* One attempt of the endpoint call clearing c is in.  The answer arrives, *)
(* arrives unusable, is lost (or 5xx, 429, 400: tried again while attempts *)
(* last) or is a terminal refusal.  A lost one may have been handled.      *)
(***************************************************************************)
Endpoints == {"status", "trigger", "verify"}

ServerHandles(c) ==
  /\ alive
  /\ \/ pc[c] = "status" /\ ServerReports(c)
     \/ pc[c] = "trigger" /\ ServerTriggers(c)
     \/ pc[c] = "verify" /\ ServerVerifies(c)
  /\ UNCHANGED <<offer, alive>>

ClientKeeps == <<round, otp, triggered, submitted, doneBefore>>

\* Another attempt, or the end: the ladder is exhausted or ctx has ended.
Lose(c) ==
  /\ pc[c] \in Endpoints
  /\ ServerHandles(c) \/ UNCHANGED server
  /\ \/ /\ attempt[c] + 1 < MaxAttempts
        /\ attempt' = [attempt EXCEPT ![c] = @ + 1]
        /\ UNCHANGED <<pc, result>>
     \/ Return(c, pc[c], "failed") /\ UNCHANGED attempt
  /\ UNCHANGED <<seen, ClientKeeps>>

Refuse(c) ==
  /\ pc[c] \in Endpoints
  /\ Return(c, pc[c], "failed")
  /\ UNCHANGED <<server, seen, attempt, ClientKeeps>>

\* 2xx with a body, or alternatives in it, of no known shape.
Garble(c) ==
  /\ pc[c] \in Endpoints
  /\ ServerHandles(c)
  /\ Return(c, pc[c], "corruption")
  /\ UNCHANGED <<seen, attempt, ClientKeeps>>

\* 2xx with a body the client understands.
Answer(c, from, to) ==
  /\ ServerHandles(c)
  /\ Goto(c, from, to)
  /\ attempt' = [attempt EXCEPT ![c] = 0]
  /\ UNCHANGED <<result, otp, submitted, doneBefore>>

(***************************************************************************)
(* ClearSCAChallenge.                                                      *)
(***************************************************************************)

\* No provider, or a zero token, ends the call before any request.
Call(c) ==
  /\ \/ Goto(c, "idle", "status") /\ UNCHANGED result
     \/ Return(c, "idle", "invalid")
  /\ doneBefore' = [doneBefore EXCEPT ![c] = ServerCleared]
  /\ UNCHANGED <<server, seen, round, attempt, otp, triggered, submitted>>

GetOTTStatus(c) ==
  /\ Answer(c, "status", "loop")
  /\ seen' = [seen EXCEPT ![c] = passed']
  /\ UNCHANGED <<round, triggered>>

\* Mutant: the last round is not noticed.
OutOfRoundsLater(c) == round[c] > ClearRounds

RoundsLeft(c) == round[c] < ClearRounds
OutOfRounds(c) == round[c] >= ClearRounds

\* The head of the loop: return, refuse, or go for another round.
AllPassed(c) ==
  /\ RoundsLeft(c)
  /\ Cleared(seen[c])
  /\ Return(c, "loop", "cleared")
  /\ UNCHANGED <<server, seen, attempt, ClientKeeps>>

CannotClear(c) ==
  /\ RoundsLeft(c)
  /\ ~Cleared(seen[c])
  /\ ~Supports(offer[FirstPending(seen[c])], Channel[c])
  /\ Return(c, "loop", "unsupported")
  /\ UNCHANGED <<server, seen, attempt, ClientKeeps>>

\* Mutants: a later round trusts the first round's code; a channel is tried
\* whatever the challenge offers.
NewRoundNoTrigger(c) ==
  /\ RoundsLeft(c)
  /\ ~Cleared(seen[c])
  /\ Supports(offer[FirstPending(seen[c])], Channel[c])
  /\ Goto(c, "loop", IF round[c] = 0 THEN "trigger" ELSE "prompt")
  /\ UNCHANGED <<server, seen, attempt, result, ClientKeeps>>
NewRoundUnchecked(c) ==
  /\ RoundsLeft(c)
  /\ ~Cleared(seen[c])
  /\ Goto(c, "loop", "trigger")
  /\ UNCHANGED <<server, seen, attempt, result, ClientKeeps>>

NewRound(c) ==
  /\ RoundsLeft(c)
  /\ ~Cleared(seen[c])
  /\ Supports(offer[FirstPending(seen[c])], Channel[c])
  /\ IF IsPhoneChannel(Channel[c])
     THEN Goto(c, "loop", "trigger") /\ UNCHANGED result
     ELSE Return(c, "loop", "invalid")
  /\ UNCHANGED <<server, seen, attempt, ClientKeeps>>

\* The status of the last verify is not looked at again.
GiveUp(c) ==
  /\ OutOfRounds(c)
  /\ Return(c, "loop", "uncleared")
  /\ UNCHANGED <<server, seen, attempt, ClientKeeps>>

TriggerOTT(c) ==
  /\ Answer(c, "trigger", "prompt")
  /\ triggered' = [triggered EXCEPT ![c] = @ + 1]
  /\ UNCHANGED <<seen, round>>

\* The provider asks the user, who may mistype, give up or send nothing.  An
\* empty code is refused by VerifyOTT before any request.
AskForCode(c) ==
  /\ \/ /\ Goto(c, "prompt", "verify")
        /\ \E answer \in {"right", "wrong"} : otp' = [otp EXCEPT ![c] = answer]
        /\ submitted' = [submitted EXCEPT ![c] = @ + 1]
        /\ UNCHANGED result
     \/ /\ \E value \in {"no code", "invalid"} : Return(c, "prompt", value)
        /\ UNCHANGED <<otp, submitted>>
  /\ UNCHANGED <<server, seen, round, attempt, triggered, doneBefore>>

VerifyOTT(c) ==
  /\ Answer(c, "verify", "loop")
  /\ seen' = [seen EXCEPT ![c] = passed']
  /\ round' = [round EXCEPT ![c] = @ + 1]
  /\ UNCHANGED triggered

Step(c) ==
  \/ GetOTTStatus(c) \/ TriggerOTT(c) \/ VerifyOTT(c)
  \/ Lose(c) \/ Refuse(c) \/ Garble(c)
  \/ AllPassed(c) \/ CannotClear(c) \/ NewRound(c) \/ GiveUp(c) \/ AskForCode(c)

Next == PassElsewhere \/ Expire \/ \E c \in Clearers : Call(c) \/ Step(c)

Spec == Init /\ [][Next]_vars

\* Each endpoint call ends (EveryCallReturns of RetryLadder) and the provider
\* returns: ctx, which it is given, is its bound.
FairSpec == Spec /\ \A c \in Clearers : WF_vars(Step(c))

-----------------------------------------------------------------------------
Results == {"none", "invalid", "failed", "corruption", "unsupported",
            "no code", "uncleared", "cleared"}

\* Every variable keeps to the values of its counterpart, and the loop counter
\* to its bound.
TypeOK ==
  /\ offer \in Offers
  /\ passed \subseteq Slots
  /\ live \subseteq Clearers
  /\ alive \in BOOLEAN
  /\ pc \in [Clearers -> {"idle", "status", "loop", "trigger", "prompt",
                          "verify", "done"}]
  /\ seen \in [Clearers -> SUBSET Slots]
  /\ round \in [Clearers -> 0..ClearRounds]
  /\ attempt \in [Clearers -> 0..MaxAttempts - 1]
  /\ otp \in [Clearers -> {"none", "right", "wrong"}]
  /\ triggered \in [Clearers -> Nat]
  /\ submitted \in [Clearers -> Nat]
  /\ result \in [Clearers -> Results]
  /\ doneBefore \in [Clearers -> BOOLEAN]

\* A clearing that reports success is right, whatever other clearings, the web
\* app and lost answers did meanwhile: the server has passed every required
\* challenge (ott.go:186-190, 338-341).
ClearedIsTrue ==
  \A c \in Clearers : result[c] = "cleared" => ServerCleared

\* A token with nothing left to pass costs the user nothing: no code is sent
\* to the phone and none is asked for (ott.go:337-341).
NoNeedlessTrigger == \A c \in Clearers : doneBefore[c] => triggered[c] = 0

\* Every code submitted answers a trigger of its own, every trigger but an
\* abandoned one is followed by its code (ott.go:348-366), and the rejection of
\* an unsupported challenge leaves no code behind that nobody asked the user for.
CodesAnswerTriggers ==
  \A c \in Clearers :
    /\ submitted[c] <= triggered[c]
    /\ triggered[c] <= submitted[c] + 1
    /\ result[c] \in {"unsupported", "cleared", "uncleared"} =>
         triggered[c] = submitted[c]

\* The user is asked at most maxOTTClearRounds times (ott.go:209-212).
PromptsAreBounded ==
  \A c \in Clearers : triggered[c] <= ClearRounds

\* Only a challenge the channel can pass makes the phone ring: when it does, a
\* required challenge the client knows as open offers that very channel, as its
\* primary or as an alternative (ott.go:136-149, 343-346).
TriggersAreUseful ==
  [][\A c \in Clearers :
       triggered'[c] > triggered[c] =>
         /\ Channel[c] \in PhoneChannels
         /\ \E i \in Slots \ seen[c] :
              /\ offer[i].required
              /\ \/ offer[i].primary = ChallengeType(Channel[c])
                 \/ ChallengeType(Channel[c]) \in offer[i].alternatives]_vars

\* Every clearing comes to an end, also over a token the server never clears
\* (ott.go:209-212).
ClearingReturns == \A c \in Clearers : pc[c] # "idle" ~> pc[c] = "done"

\* ott.go:369-371 says of a clearing that gave up that the token "still has
\* required challenges"; the last verify may have passed them all.
UnclearedIsTrue ==
  \A c \in Clearers : result[c] = "uncleared" => ~Cleared(seen[c])
=============================================================================
