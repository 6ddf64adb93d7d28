---------------------------- MODULE TransferFlow ----------------------------
(***************************************************************************)
(* One payment from a quote to its end, across the methods of the SDK:     *)
(* CreateTransfer, FundTransfer, CancelTransfer and GetTransfer, each of   *)
(* them a ladder of attempts, with the errors they return, the token that  *)
(* answers a challenge, and the client that carries it.                    *)
(*                                                                         *)
(* The consumer follows the recipes of the README and keeps a record that  *)
(* survives a crash.  Wise expires quotes, asks for authentication, and    *)
(* handles a request that was given up whenever it arrives.  Both, and the *)
(* network between them, are external.                                     *)
(***************************************************************************)
EXTENDS WiseErrors, Configuration, FiniteSets

CONSTANTS
  OptionLists,  \* the option lists the consumer's client may be made with
  OperationID,  \* the correlation ID of the consumer's context
  MaxQuotes,    \* quotes made for the payment; the last one does not expire
  MaxTokens,    \* one-time tokens Wise has; the last one is issued again
  MaxFaults     \* lost requests, lost or unusable answers and crashes

ASSUME BoundsAssumption ==
  MaxQuotes \in Nat \ {0} /\ MaxTokens \in Nat \ {0} /\ MaxFaults \in Nat
ASSUME OptionsAssumption ==
  \A list \in OptionLists : list \in Seq({list[i] : i \in DOMAIN list})
ASSUME OperationAssumption == OperationID # ""

VARIABLES
  options,    \* what the client was made with
  client,     \* the client in use, which carries a token once one is cleared
  record,     \* what the consumer has kept: its quote, its transfer, its wish
  told,       \* what it has reported of the payment
  todo,       \* what it does next, forgotten in a crash
  call,       \* the SDK call that is running
  reply,      \* the answer to the call's last request
  wire,       \* requests that have left and reached nobody yet
  status,     \* the transfers at Wise
  quotes,     \* how many quotes there are
  live,       \* those that have not expired
  short,      \* the balance does not hold the amount
  protected,  \* funding asks for strong authentication
  issued,     \* the last one-time token
  cleared,    \* tokens that are cleared and not yet used
  faults

wise == <<status, quotes, live, short, protected, issued, cleared>>
consumer == <<options, client, record, told, todo>>
vars == <<consumer, call, reply, wire, wise, faults>>

Quotes == 1..MaxQuotes
NoQuote == 0
Keys == 0..MaxFaults

\* The customerTransactionId, which the consumer chose before anything else.
CustomerTransactionID == 0

\* A key and a quote have one transfer (the target account is always the same).
Transfers == [key : Keys, quote : Quotes]
NoTransfer == [key |-> CustomerTransactionID, quote |-> NoQuote]

NoCall == [op |-> "none", on |-> NoTransfer, attempt |-> 0]
Go == [do |-> "go", token |-> NoToken]

(***************************************************************************)
(* Answers.  A body parses or does not; a refusal has codes.               *)
(***************************************************************************)
Body(st, code) == [parses |-> TRUE, status |-> st, code |-> code]
NoBody == [parses |-> FALSE, status |-> "none", code |-> "none"]
Answer(st, result, token, codes, body) ==
  [status |-> st, twoFAResult |-> result, twoFAToken |-> token # NoToken,
   token |-> token, codes |-> codes, body |-> body]

NoReply == Answer(0, FALSE, NoToken, << >>, NoBody)
Ok(body) == Answer(200, FALSE, NoToken, << >>, body)
Refusal(st, codes) == Answer(st, FALSE, NoToken, codes, NoBody)
Challenge(token) == Answer(403, TRUE, token, << >>, NoBody)

Init ==
  /\ options \in OptionLists
  /\ client = New(options)
  /\ record = [quote |-> NoQuote, transfer |-> NoTransfer, abandon |-> FALSE]
  /\ told = "open"
  /\ todo = Go
  /\ call = NoCall
  /\ reply = NoReply
  /\ wire = {}
  /\ status = [t \in Transfers |-> "none"]
  /\ quotes = 0
  /\ live = {}
  /\ short \in BOOLEAN
  /\ protected \in BOOLEAN
  /\ issued = NoToken
  /\ cleared = {}
  /\ faults = 0

(***************************************************************************)
(* Requests.  The number of faults so far tells equal requests apart: what *)
(* was given up has an earlier one.                                        *)
(***************************************************************************)
Request(op, on, id) ==
  [op |-> op, on |-> on, id |-> id, headers |-> SetHeaders(client, OperationID)]

Idle == told = "open" /\ call = NoCall
Running(op) == call.op = op /\ reply # NoReply
Awaiting == call # NoCall /\ reply = NoReply

Begin(op, on) ==
  /\ Idle
  /\ call' = [op |-> op, on |-> on, attempt |-> 1]
  /\ wire' = wire \cup {Request(op, on, faults)}
  /\ UNCHANGED <<consumer, reply, wise, faults>>

\* Mutant: the idempotency key is made up in the call.
CreateTransferFreshKey ==
  /\ record.quote # NoQuote
  /\ record.transfer = NoTransfer
  /\ Begin("create", [key |-> faults, quote |-> record.quote])

CreateTransfer ==
  /\ record.quote # NoQuote
  /\ record.transfer = NoTransfer
  /\ Begin("create", [key |-> CustomerTransactionID, quote |-> record.quote])

FundTransfer ==
  /\ record.transfer # NoTransfer
  /\ ~record.abandon
  /\ todo = Go
  /\ Begin("fund", record.transfer)

CancelTransfer ==
  /\ record.transfer # NoTransfer
  /\ record.abandon
  /\ todo = Go
  /\ Begin("cancel", record.transfer)

GetTransfer ==
  /\ todo.do = "check"
  /\ Begin("get", record.transfer)

(***************************************************************************)
(* The ladder: an attempt that has an answer to try again on, or none in   *)
(* time, is followed by another one while there is one.                    *)
(***************************************************************************)
AttemptsLeft == call.attempt < client.maxAttempts

Error == ClassifyAPIError(reply)
Succeeded == IsSuccess(reply.status)
Retried == ~Succeeded /\ IsRetryableError(Error) /\ AttemptsLeft

Repeat(id) ==
  /\ call' = [call EXCEPT !.attempt = @ + 1]
  /\ wire' = wire \cup {Request(call.op, call.on, id)}

Retry ==
  /\ call # NoCall
  /\ reply # NoReply
  /\ Retried
  /\ Repeat(faults)
  /\ reply' = NoReply
  /\ UNCHANGED <<consumer, wise, faults>>

\* The request stays under way.
TimeOut ==
  /\ Awaiting
  /\ faults < MaxFaults
  /\ faults' = faults + 1
  /\ \/ AttemptsLeft /\ Repeat(faults + 1)
     \/ ~AttemptsLeft /\ call' = NoCall /\ UNCHANGED wire
  /\ UNCHANGED <<consumer, reply, wise>>

(***************************************************************************)
(* What a call returns.  A 2xx body is mapped, and the mapping may fail.   *)
(***************************************************************************)
FundingStatuses == {"CREATED", "COMPLETED", "REJECTED"}

MapTransfer(body) == IF body.parses THEN body ELSE NoBody

\* Mutant: a status that is not COMPLETED passes for it.
MapFundTransferResultLax(body) ==
  IF body.status \in FundingStatuses THEN [body EXCEPT !.status = "COMPLETED"] ELSE NoBody

\* The status has to be one of the table; the code passes through.
MapFundTransferResult(body) ==
  IF body.status \in FundingStatuses THEN body ELSE NoBody

TwoFAApprovalToken == reply.token

Returns(op, result) == Running(op) /\ Succeeded /\ result
Fails(op) == Running(op) /\ ~Succeeded /\ ~Retried

EndCall == call' = NoCall /\ reply' = NoReply /\ UNCHANGED <<wire, wise, faults>>

\* The consumer keeps the transfer it was given.
Created ==
  /\ Returns("create", MapTransfer(reply.body) # NoBody)
  /\ record' = [record EXCEPT !.transfer = call.on]
  /\ UNCHANGED <<options, client, told, todo>>
  /\ EndCall

\* errors.Is(err, ErrResourceNotFound): the quote is gone, and a new one is made.
CreateRefused ==
  /\ Fails("create")
  /\ Is(reply.codes, "ErrResourceNotFound")
  /\ record' = [record EXCEPT !.quote = NoQuote]
  /\ UNCHANGED <<options, client, told, todo>>
  /\ EndCall

\* A value that could not be mapped, and an error the recipe does not know, say
\* nothing of what was done: the call is made again.
Unclear ==
  /\ \/ Returns("create", MapTransfer(reply.body) = NoBody)
     \/ Returns("fund", MapFundTransferResult(reply.body) = NoBody)
     \/ Returns("cancel", MapTransfer(reply.body) = NoBody)
     \/ Returns("get", MapTransfer(reply.body) = NoBody)
     \/ Fails("create") /\ ~Is(reply.codes, "ErrResourceNotFound")
  /\ UNCHANGED consumer
  /\ EndCall

\* Rejected with payment.exists is paid by an earlier request.
Funded ==
  /\ Returns("fund", \/ MapFundTransferResult(reply.body).status = "COMPLETED"
                     \/ MapFundTransferResult(reply.body).code = "payment.exists")
  /\ told' = "paid"
  /\ UNCHANGED <<options, client, record, todo>>
  /\ EndCall

\* Wise has taken the funding on, and the transfer is looked at until it is done.
Accepted ==
  /\ Returns("fund", MapFundTransferResult(reply.body).status = "CREATED")
  /\ todo' = [do |-> "check", token |-> NoToken]
  /\ UNCHANGED <<options, client, record, told>>
  /\ EndCall

Rejected ==
  /\ Returns("fund", MapFundTransferResult(reply.body).status = "REJECTED")
  /\ LET code == MapFundTransferResult(reply.body).code IN
       /\ code # "payment.exists"
       /\ todo' = [do |-> IF code = "balance.insufficient-funds" THEN "top up" ELSE "check",
                   token |-> NoToken]
  /\ UNCHANGED <<options, client, record, told>>
  /\ EndCall

Challenged ==
  /\ Fails("fund")
  /\ AsType(Error, "SCAChallengeError")
  /\ todo' = [do |-> "clear", token |-> TwoFAApprovalToken]
  /\ UNCHANGED <<options, client, record, told>>
  /\ EndCall

Cancelled ==
  /\ Returns("cancel", MapTransfer(reply.body) # NoBody)
  /\ told' = "abandoned"
  /\ UNCHANGED <<options, client, record, todo>>
  /\ EndCall

\* A refusal of a request that names the transfer: the transfer is looked at.
Refused ==
  /\ Fails("cancel") \/ (Fails("fund") /\ ~AsType(Error, "SCAChallengeError"))
  /\ todo' = [do |-> "check", token |-> NoToken]
  /\ UNCHANGED <<options, client, record, told>>
  /\ EndCall

Checked ==
  /\ Returns("get", MapTransfer(reply.body) # NoBody)
  /\ told' = CASE reply.body.status = "funded" -> "paid"
               [] reply.body.status = "cancelled" -> "abandoned"
               [] OTHER -> told
  /\ todo' = Go
  /\ UNCHANGED <<options, client, record>>
  /\ EndCall

(***************************************************************************)
(* The consumer, between calls.                                            *)
(***************************************************************************)
CreateQuote ==
  /\ Idle
  /\ record.quote = NoQuote
  /\ quotes < MaxQuotes
  /\ quotes' = quotes + 1
  /\ live' = live \cup {quotes + 1}
  /\ record' = [record EXCEPT !.quote = quotes + 1]
  /\ UNCHANGED <<options, client, told, todo, call, reply, wire, status, short,
                 protected, issued, cleared, faults>>

\* A payment is abandoned by cancelling its transfer, and by nothing else.
Abandon ==
  /\ Idle
  /\ record.transfer # NoTransfer
  /\ ~record.abandon
  /\ record' = [record EXCEPT !.abandon = TRUE]
  /\ todo' = Go
  /\ UNCHANGED <<options, client, told, call, reply, wire, wise, faults>>

TopUp ==
  /\ Idle
  /\ todo.do = "top up"
  /\ short' = FALSE
  /\ todo' = Go
  /\ UNCHANGED <<options, client, record, told, call, reply, wire, status, quotes,
                 live, protected, issued, cleared, faults>>

\* The token beside the options of the first client.  (The example of the README
\* makes the client of the token alone, and so for another host than theirs.)
ReplayClient(token) == New(Append(options, WithSCAApprovalToken(token)))

\* ClearSCAChallenge passes everything required of the token, and a client that
\* carries it replays the call.
Clear ==
  /\ Idle
  /\ todo.do = "clear"
  /\ todo.token # NoToken
  /\ cleared' = cleared \cup {todo.token}
  /\ client' = ReplayClient(todo.token)
  /\ todo' = Go
  /\ UNCHANGED <<options, record, told, call, reply, wire, status, quotes, live,
                 short, protected, issued, faults>>

\* A challenge without a token: the user views a statement on wise.com.
ViewStatement ==
  /\ Idle
  /\ todo.do = "clear"
  /\ todo.token = NoToken
  /\ protected' = FALSE
  /\ todo' = Go
  /\ UNCHANGED <<options, client, record, told, call, reply, wire, status, quotes,
                 live, short, issued, cleared, faults>>

\* The process ends and starts again from its record.
Crash ==
  /\ told = "open"
  /\ call # NoCall \/ todo # Go
  /\ faults < MaxFaults
  /\ faults' = faults + 1
  /\ client' = New(options)
  /\ todo' = Go
  /\ call' = NoCall
  /\ reply' = NoReply
  /\ UNCHANGED <<options, record, told, wire, wise>>

(***************************************************************************)
(* Wise.  An answer to a request that was given up has no reader, and one  *)
(* that is read may have a body of which nothing can be made.              *)
(***************************************************************************)
Say(r, answer) ==
  /\ wire' = wire \ {r}
  /\ IF r.id # faults
     THEN UNCHANGED <<reply, faults>>
     ELSE \/ reply' = answer /\ UNCHANGED faults
          \/ /\ answer.body.parses \/ answer.codes # << >>
             /\ faults < MaxFaults
             /\ faults' = faults + 1
             /\ reply' = [answer EXCEPT !.body = NoBody, !.codes = << >>]

Become(t, from, to) == status[t] = from /\ status' = [status EXCEPT ![t] = to]
NewAccount == UNCHANGED <<short, protected>>

ResourceNotFound == {<<"resource_not_found">>, <<"parameter_invalid", "resource_not_found">>}

HandleCreate(r) ==
  /\ r.op = "create"
  /\ \/ /\ Become(r.on, "none", "waiting")
        /\ r.on.quote \in live
        /\ Say(r, Ok(Body("waiting", "")))
     \/ /\ status[r.on] # "none"
        /\ Say(r, Ok(Body(status[r.on], "")))
        /\ UNCHANGED status
     \/ /\ status[r.on] = "none"
        /\ r.on.quote \notin live
        /\ \E codes \in ResourceNotFound : Say(r, Refusal(404, codes))
        /\ UNCHANGED status
  /\ UNCHANGED <<quotes, live, short, protected, issued, cleared>>

Unapproved(r) == protected /\ r.headers.approval \notin cleared

HandleUnapproved(r) ==
  /\ r.op = "fund"
  /\ Unapproved(r)
  /\ \/ LET token == IF issued < MaxTokens THEN issued + 1 ELSE MaxTokens IN
          /\ issued' = token
          /\ cleared' = cleared \ {token}
          /\ Say(r, Challenge(token))
     \/ /\ UNCHANGED <<issued, cleared>>
        /\ Say(r, Challenge(NoToken))
  /\ UNCHANGED <<status, quotes, live, short, protected>>

\* A token is good for one request.  The balance is debited at once, or the funding
\* is taken on and the balance is debited when it is settled.
HandleFund(r) ==
  /\ r.op = "fund"
  /\ ~Unapproved(r)
  /\ \/ /\ ~short
        /\ Become(r.on, "waiting", "funded")
        /\ Say(r, Ok(Body("COMPLETED", "")))
     \/ /\ ~short
        /\ Become(r.on, "waiting", "accepted")
        /\ Say(r, Ok(Body("CREATED", "")))
     \/ /\ status[r.on] = "accepted"
        /\ Say(r, Ok(Body("CREATED", "")))
        /\ UNCHANGED status
     \/ /\ short
        /\ status[r.on] = "waiting"
        /\ Say(r, Ok(Body("REJECTED", "balance.insufficient-funds")))
        /\ UNCHANGED status
     \/ /\ status[r.on] = "funded"
        /\ Say(r, Ok(Body("REJECTED", "payment.exists")))
        /\ UNCHANGED status
     \/ /\ status[r.on] = "cancelled"
        /\ \/ Say(r, Ok(Body("REJECTED", "transfer.invalid-state")))
           \/ Say(r, Refusal(409, << >>))
        /\ UNCHANGED status
  /\ cleared' = cleared \ {r.headers.approval}
  /\ UNCHANGED <<quotes, live, short, protected, issued>>

HandleCancel(r) ==
  /\ r.op = "cancel"
  /\ \/ /\ Become(r.on, "waiting", "cancelled")
        /\ Say(r, Ok(Body("cancelled", "")))
     \/ /\ status[r.on] # "waiting"
        /\ \E st \in {400, 409} : Say(r, Refusal(st, << >>))
        /\ UNCHANGED status
  /\ UNCHANGED <<quotes, live, short, protected, issued, cleared>>

HandleGet(r) ==
  /\ r.op = "get"
  /\ Say(r, Ok(Body(status[r.on], "")))
  /\ UNCHANGED wise

Handle(r) ==
  /\ HandleCreate(r) \/ HandleUnapproved(r) \/ HandleFund(r) \/ HandleCancel(r) \/ HandleGet(r)
  /\ UNCHANGED <<consumer, call>>

Settle ==
  /\ \E t \in Transfers : Become(t, "accepted", "funded")
  /\ UNCHANGED <<consumer, call, reply, wire, quotes, live, short, protected, issued,
                 cleared, faults>>

\* Only what was given up is lost without the caller's knowing.
Lose(r) ==
  /\ r.id # faults
  /\ wire' = wire \ {r}
  /\ UNCHANGED <<consumer, call, reply, wise, faults>>

Expire ==
  /\ \E q \in live \ {MaxQuotes} : live' = live \ {q}
  /\ UNCHANGED <<consumer, call, reply, wire, status, quotes, short, protected,
                 issued, cleared, faults>>

-----------------------------------------------------------------------------
\* What the program does when it can: it makes its calls and reads their answers.
Proceed ==
  \/ CreateQuote \/ CreateTransfer \/ FundTransfer \/ CancelTransfer \/ GetTransfer
  \/ Retry \/ Created \/ CreateRefused \/ Unclear \/ Funded \/ Accepted \/ Rejected
  \/ Challenged \/ Cancelled \/ Refused \/ Checked \/ TopUp \/ Clear \/ ViewStatement

\* Wise answers the request a caller waits for.
Attend == \E r \in wire : r.id = faults /\ Handle(r)

Next ==
  \/ Proceed
  \/ Abandon
  \/ TimeOut
  \/ Crash
  \/ \E r \in wire : Handle(r) \/ Lose(r)
  \/ Settle
  \/ Expire

Spec == Init /\ [][Next]_vars
FairSpec == Spec /\ WF_vars(Proceed) /\ WF_vars(Attend) /\ WF_vars(Settle)

-----------------------------------------------------------------------------
Ops == {"create", "fund", "cancel", "get"}
Tokens == 0..MaxTokens
Clients == {New(options)} \cup {ReplayClient(t) : t \in Tokens}
Requests == [op : Ops, on : Transfers, id : 0..MaxFaults,
             headers : {SetHeaders(c, OperationID) : c \in Clients}]

Records == [quote : Quotes \cup {NoQuote}, transfer : Transfers \cup {NoTransfer},
            abandon : BOOLEAN]
ToDos == [do : {"go", "check", "clear", "top up"}, token : Tokens]

ConsumerOK ==
  /\ options \in OptionLists /\ client \in Clients
  /\ record \in Records
  /\ told \in {"open", "paid", "abandoned"}
  /\ todo \in ToDos

CallOK ==
  /\ call \in [op : Ops, on : Transfers, attempt : Nat] \cup {NoCall}
  /\ reply.token \in Tokens
  /\ wire \subseteq Requests
  /\ faults \in 0..MaxFaults

WiseOK ==
  /\ status \in [Transfers -> {"none", "waiting", "accepted", "funded", "cancelled"}]
  /\ quotes \in 0..MaxQuotes /\ live \subseteq 1..quotes
  /\ short \in BOOLEAN /\ protected \in BOOLEAN
  /\ issued \in Tokens /\ cleared \subseteq Tokens

\* Every variable keeps to its type, and a call is on a transfer that may be.
TypeOK == ConsumerOK /\ CallOK /\ WiseOK

Debits == Cardinality({t \in Transfers : status[t] = "funded"})

\* The methods, used as the README shows, are a Payment: through repeated,
\* late and lost requests, expired quotes, challenges and crashes the balance is
\* debited at most once, never after the payment was said to be abandoned, and
\* what is said is true (transfers.go:213-218, 248-281; types.go:288-293).
AbstractPayment == INSTANCE Payment WITH debits <- Debits
ImplementsPayment == AbstractPayment!Spec

\* Once the consumer has reported the end of a payment, no transfer of it waits
\* for funds at Wise or for its funding to be settled, and no request under way can
\* make one: neither a late create call nor one with another quote leaves a second
\* transfer behind (transfers.go:213-218, README.md:1071-1073).
NothingIsLeftOver ==
  told # "open" =>
    /\ \A t \in Transfers : status[t] \notin {"waiting", "accepted"}
    /\ \A r \in wire : r.op = "create" => status[r.on] # "none" \/ r.on.quote \notin live

\* The host of the last option that names one, unless it names the empty one.
ChosenHost ==
  LET naming == {i \in DOMAIN options : "baseURL" \in DOMAIN options[i]}
      named == options[CHOOSE i \in naming : \A j \in naming : j <= i].baseURL
  IN  IF naming = {} \/ named = "" THEN ProductionURL ELSE named

\* All requests of one operation, through every repetition, crash and challenge, and
\* those of a client that replays a challenged call included, carry the correlation
\* ID of the context, whatever the client-wide one is; and those of the consumer's
\* own client go to the host its options chose last.  Nothing is said of the host of
\* a replay, which is up to how the consumer makes its second client
\* (options.go:71-83, 113-139, client.go:460-478, README.md:1120-1121, 1148-1149).
OneTrail ==
  \A r \in wire :
    /\ r.headers.correlationID = OperationID
    /\ r.headers.approval = NoToken => r.headers.baseURL = ChosenHost

\* Whatever fails on the way, within the bounds on faults and quotes, a payment
\* comes to its end and the consumer learns which: challenges are answered by a
\* token that is sent, an expired quote is recognised by its code wherever that
\* stands, and a repetition refused for what was done is looked into.
EveryPaymentSettles == <>(told # "open")
=============================================================================
