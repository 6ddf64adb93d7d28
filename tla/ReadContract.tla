---------------------------- MODULE ReadContract ----------------------------
(***************************************************************************)
(* What a method that answers with a parsed result promises, whatever the  *)
(* order it looks at things in: of a decoded answer the caller gets        *)
(* exactly the rows it is entitled to, all of them well formed, or a       *)
(* failure, and a failure only if one of those rows is malformed.          *)
(***************************************************************************)
EXTENDS WireTypes

VARIABLES
  endpoint,  \* the method called
  answer,    \* the decoded body
  outcome,   \* of the call
  got        \* the rows of the answer the result is made of

vars == <<endpoint, answer, outcome, got>>

\* The rows of an answer its caller is entitled to.  A listing of balances
\* leaves some out, a rate is one of the rates: the first for the pair, or else
\* the first of all.
Wanted(a) == {i \in DOMAIN a : a[i].wanted}

Due(e, a) ==
  CASE e = "ListBalances" -> Wanted(a)
    [] e = "GetExchangeRate" /\ Wanted(a) # {} -> {Min(Wanted(a))}
    [] e = "GetExchangeRate" /\ Wanted(a) = {} -> DOMAIN a \cap {1}
    [] OTHER -> DOMAIN a

Failures == {"corruption", "plain"}
Ends == {"value", "rejection", "unanswered"} \cup Failures

(***************************************************************************)
(* The promise.                                                            *)
(***************************************************************************)
Init == endpoint = "none" /\ answer = <<>> /\ outcome = "idle" /\ got = {}

Begin ==
  /\ outcome = "idle"
  /\ endpoint' # "none"
  /\ outcome' \in {"waiting", "rejection"}
  /\ UNCHANGED <<answer, got>>

\* No answer, or one that is no JSON of the right shape.
NoAnswer ==
  /\ outcome = "waiting"
  /\ outcome' \in {"unanswered"} \cup Failures
  /\ UNCHANGED <<endpoint, answer, got>>

Arrive ==
  /\ outcome = "waiting"
  /\ outcome' = "mapping"
  /\ UNCHANGED <<endpoint, got>>

Succeed ==
  /\ outcome = "mapping"
  /\ endpoint = "GetExchangeRate" => answer # <<>>
  /\ \A i \in Due(endpoint, answer) : WellFormed(answer[i])
  /\ outcome' = "value"
  /\ got' = Due(endpoint, answer)
  /\ UNCHANGED <<endpoint, answer>>

Fail ==
  /\ outcome = "mapping"
  /\ \/ \E i \in Due(endpoint, answer) : ~WellFormed(answer[i])
     \/ endpoint = "GetExchangeRate" /\ answer = <<>>
  /\ outcome' \in Failures
  /\ UNCHANGED <<endpoint, answer, got>>

Forget ==
  /\ outcome \in Ends
  /\ endpoint' = "none" /\ answer' = <<>> /\ outcome' = "idle" /\ got' = {}

Next == Begin \/ NoAnswer \/ Arrive \/ Succeed \/ Fail \/ Forget

Spec == Init /\ [][Next]_vars /\ WF_vars(Succeed \/ Fail)
=============================================================================
