---------------------------- MODULE MCRetryLadder ---------------------------
(***************************************************************************)
(* Small instances of RetryLadder for TLC.                                 *)
(***************************************************************************)
EXTENDS RetryLadder

CONSTANTS a, b

Answered(status, hint) ==
  [status |-> status, twoFAResult |-> FALSE, twoFAToken |-> FALSE,
   retryAfter |-> hint]
Challenge(result, token) ==
  [status |-> 403, twoFAResult |-> result, twoFAToken |-> token, retryAfter |-> -1]

\* One answer of every class, hints below, at and above the ceiling, and none.
EveryReply ==
  {Answered(s, -1) : s \in {200, 400, 401, 403, 404, 422, 500}}
    \cup {Answered(429, h) : h \in {-1, 0, 2, 9}}
    \cup {Challenge(TRUE, FALSE), Challenge(FALSE, TRUE)}

\* One that ends a call well and one that ends it badly; the lost connections, of
\* which there are always some, are what is tried again.
FewReplies == {Answered(200, -1), Answered(401, -1)}
=============================================================================
