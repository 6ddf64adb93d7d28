----------------------------- MODULE WiseErrors -----------------------------
(***************************************************************************)
(* The typed error surface of the SDK: how one HTTP answer of the Wise API *)
(* becomes an error value (errors.go), what that value says of itself, and *)
(* what the retry executor's predicate makes of it (client.go).            *)
(*                                                                         *)
(* An error value is the name of its concrete Go type.  errors.AsType[*T]  *)
(* finds an error whose concrete type is *T and nothing else: the typed    *)
(* errors embed APIError by value and define no Unwrap or As, so none of   *)
(* them is found under another one's name, nor as *APIError.               *)
(***************************************************************************)
EXTENDS Integers

(***************************************************************************)
(* An HTTP answer, as far as the client looks at it: the status, whether   *)
(* each of the two SCA headers is present and the Retry-After header, in   *)
(* seconds (negative when it is absent, unparseable or a past date).       *)
(***************************************************************************)
Status == 200..599
Reply == [status : Status, twoFAResult : BOOLEAN, twoFAToken : BOOLEAN,
          retryAfter : Int]

APIErrorTypes == {"RateLimitError", "SCAChallengeError", "AuthError",
                  "BadRequestError", "NotFoundError", "ServerError", "APIError"}

\* A failure with no answer to type: a transport error, a request that could
\* not be built, or no failure yet.
Untyped == "untyped"
NoError == "none"

ErrorTypes == APIErrorTypes \cup {Untyped, NoError}

IsSuccess(status) == status >= 200 /\ status < 300

IsSCAChallenge(r) == r.status = 403 /\ (r.twoFAResult \/ r.twoFAToken)

\* Mutant: the lower bound of the server errors is off by one.
ClassifyAPIErrorOffByOne(r) ==
  CASE r.status = 429                                -> "RateLimitError"
    [] IsSCAChallenge(r)                             -> "SCAChallengeError"
    [] r.status \in {401, 403} /\ ~IsSCAChallenge(r) -> "AuthError"
    [] r.status = 400                                -> "BadRequestError"
    [] r.status = 404                                -> "NotFoundError"
    [] r.status > 500                                -> "ServerError"
    [] OTHER                                         -> "APIError"

\* The status alone drives the type, the two-factor headers of a 403 excepted.
ClassifyAPIError(r) ==
  CASE r.status = 429                                -> "RateLimitError"
    [] IsSCAChallenge(r)                             -> "SCAChallengeError"
    [] r.status \in {401, 403} /\ ~IsSCAChallenge(r) -> "AuthError"
    [] r.status = 400                                -> "BadRequestError"
    [] r.status = 404                                -> "NotFoundError"
    [] r.status >= 500                               -> "ServerError"
    [] OTHER                                         -> "APIError"

AsType(err, type) == err = type

\* Mutant: a 404 is not among the settled types.
IsRetryableErrorNo404(err) ==
  \/ AsType(err, "RateLimitError")
  \/ AsType(err, "ServerError")
  \/ ~ \/ AsType(err, "AuthError")
       \/ AsType(err, "SCAChallengeError")
       \/ AsType(err, "APIError")

\* The predicate handed to the retry executor: the types it names are settled,
\* every other error is retried.
IsRetryableError(err) ==
  \/ AsType(err, "RateLimitError")
  \/ AsType(err, "ServerError")
  \/ ~ \/ AsType(err, "AuthError")
       \/ AsType(err, "NotFoundError")
       \/ AsType(err, "SCAChallengeError")
       \/ AsType(err, "APIError")

\* What the error value answers to a consumer that asks it: only the two types
\* that override APIError's Rejection family are Transient.
ErrorFamily(err) ==
  IF err \in {"RateLimitError", "ServerError"} THEN "Transient" ELSE "Rejection"

(***************************************************************************)
(* Wise's own codes: an error body may carry several, in an order of       *)
(* Wise's choosing.  Details stands for the sequence of them.              *)
(***************************************************************************)
CodeSentinels ==
  [ErrNotValid |-> "not.valid", ErrInvalidValue |-> "invalid_value",
   ErrParameterMissing |-> "parameter_missing",
   ErrParameterInvalid |-> "parameter_invalid",
   ErrInvalidRequest |-> "invalid_request", ErrUnauthorized |-> "unauthorized",
   ErrForbidden |-> "forbidden", ErrResourceNotFound |-> "resource_not_found",
   ErrOperationNotSupported |-> "operation_not_supported",
   ErrRateLimitExceeded |-> "rate_limit_exceeded",
   ErrSystemError |-> "system_error"]

\* Mutant: the first entry alone, which is what ErrorContext reports.
HasCodeFirst(details, code) == DOMAIN details # {} /\ details[1] = code

HasCode(details, code) == \E i \in DOMAIN details : details[i] = code

\* errors.Is against a curated sentinel, through any wrap and any typed error
\* that embeds APIError; any other target is matched by nothing here.
Is(details, target) ==
  target \in DOMAIN CodeSentinels /\ HasCode(details, CodeSentinels[target])

\* Seconds used when Retry-After is missing or unusable.
DefaultRetryAfter == 1

\* Mutant: no fallback for a header that cannot be used.
ParseRetryAfterRaw(header) == header

ParseRetryAfter(header) == IF header >= 0 THEN header ELSE DefaultRetryAfter
=============================================================================
