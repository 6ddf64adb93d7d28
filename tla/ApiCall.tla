------------------------------- MODULE ApiCall ------------------------------
(***************************************************************************)
(* What a method of the Client promises its caller, with no word of        *)
(* attempts, bodies, logs and delays: a call sends a bounded number of     *)
(* requests, sends another one only while the answers so far allow it,     *)
(* returns once, returns what the last answer says, and does return.       *)
(***************************************************************************)
EXTENDS Integers

CONSTANTS
  Calls,   \* the calls made on the client
  Limit    \* how many requests each of them may send

VARIABLES
  phase,   \* where the caller sees the call
  sends,   \* requests sent for it
  answer,  \* what the last answer to it allows
  verdict  \* what it returned

vars == <<phase, sends, answer, verdict>>

Answers == {"accepted", "again", "refused"}

Init ==
  /\ phase = [c \in Calls |-> "idle"]
  /\ sends = [c \in Calls |-> 0]
  /\ answer = [c \in Calls |-> "none"]
  /\ verdict = [c \in Calls |-> "none"]

Start(c) ==
  /\ phase[c] = "idle"
  /\ phase' = [phase EXCEPT ![c] = "running"]
  /\ UNCHANGED <<sends, answer, verdict>>

Send(c) ==
  /\ phase[c] = "running"
  /\ sends[c] < Limit[c]
  /\ answer[c] \in {"none", "again"}
  /\ phase' = [phase EXCEPT ![c] = "awaiting"]
  /\ sends' = [sends EXCEPT ![c] = @ + 1]
  /\ answer' = [answer EXCEPT ![c] = "none"]
  /\ UNCHANGED verdict

Receive(c) ==
  /\ phase[c] = "awaiting"
  /\ phase' = [phase EXCEPT ![c] = "running"]
  /\ \E a \in Answers : answer' = [answer EXCEPT ![c] = a]
  /\ UNCHANGED <<sends, verdict>>

\* The verdicts an answer allows.  A request that was never sent can only fail.
Verdicts(a) ==
  CASE a = "accepted" -> {"value", "unreadable"}
    [] a = "refused" -> {"rejected"}
    [] OTHER -> {"failed"}

Return(c) ==
  /\ phase[c] = "running"
  /\ phase' = [phase EXCEPT ![c] = "returned"]
  /\ \E v \in Verdicts(answer[c]) : verdict' = [verdict EXCEPT ![c] = v]
  /\ UNCHANGED <<sends, answer>>

Advance(c) == Send(c) \/ Receive(c) \/ Return(c)

Next == \E c \in Calls : Start(c) \/ Advance(c)

Spec == Init /\ [][Next]_vars

Returns == \A c \in Calls : phase[c] # "idle" ~> phase[c] = "returned"

FairSpec == Spec /\ Returns
=============================================================================
