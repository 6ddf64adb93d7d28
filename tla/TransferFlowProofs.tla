------------------------- MODULE TransferFlowProofs -------------------------
(***************************************************************************)
(* What TLAPS proves of TransferFlow, for any options and bounds: whatever *)
(* is lost, late or repeated, a flow is a Payment and leaves nothing       *)
(* behind.  The argument: the only transfer there can be is that of the    *)
(* recorded quote under the consumer's key, since a quote is given up only *)
(* when it is dead and has none; what is answered of a transfer that has   *)
(* come to its end stays true.                                             *)
(***************************************************************************)
EXTENDS TransferFlow, FiniteSetTheorems, WellFoundedInduction, TLAPS

\* The transfer of the recorded quote: the only one there can be.
Own == [key |-> CustomerTransactionID, quote |-> record.quote]

\* A quote that is not, or no more, the recorded one is dead; creations name the
\* consumer's key and a quote there is.
QuoteInv ==
  /\ record.quote \in {NoQuote, quotes}
  /\ live \subseteq {record.quote}
  /\ \A t \in Transfers : status[t] # "none" => t = Own
  /\ \A r \in wire : r.op = "create" => r.on.key = CustomerTransactionID

\* The recorded transfer is the one of the recorded quote, and exists.
RecordInv ==
  /\ record.transfer # NoTransfer => record.transfer = Own /\ status[Own] # "none"
  /\ todo.do # "go" => record.transfer # NoTransfer

\* A call is about what is recorded, and the request whose answer it awaits is
\* the only one that left since the last fault.
CallInv ==
  /\ call = NoCall => reply = NoReply
  /\ call # NoCall =>
       IF call.op = "create"
       THEN record.quote # NoQuote /\ record.transfer = NoTransfer /\ call.on = Own
       ELSE record.transfer # NoTransfer /\ call.on = record.transfer
  /\ \A r \in wire :
       /\ r.id <= faults
       /\ r.id = faults => Awaiting /\ r = Request(call.op, call.on, faults)

\* What an answer tells is still so when it is read.
ReplyInv ==
  /\ Is(reply.codes, "ErrResourceNotFound") =>
       call.op = "create" /\ status[call.on] = "none" /\ call.on.quote \notin live
  /\ call.op = "create" /\ Succeeded /\ reply.body.parses => status[call.on] # "none"
  /\ call.op = "fund" /\ (reply.body.status = "COMPLETED" \/ reply.body.code = "payment.exists")
       => status[call.on] = "funded"
  /\ call.op = "cancel" /\ Succeeded /\ reply.body.parses => status[call.on] = "cancelled"
  /\ call.op = "get" /\ reply.body.status \in {"funded", "cancelled"}
       => status[call.on] = reply.body.status

\* What was said of the payment stays true, and nothing is done after it.
ToldInv ==
  /\ told # "open" => call = NoCall
  /\ told = "paid" => record.transfer # NoTransfer /\ status[record.transfer] = "funded"
  /\ told = "abandoned" => record.transfer # NoTransfer /\ status[record.transfer] = "cancelled"

IInv == TypeOK /\ QuoteInv /\ RecordInv /\ CallInv /\ ReplyInv /\ ToldInv
-----------------------------------------------------------------------------
LEMMA Constants ==
  /\ Keys \subseteq Nat /\ 0 \in Keys /\ CustomerTransactionID = 0
  /\ Quotes \subseteq Nat \ {0} /\ NoQuote = 0 /\ NoTransfer \notin Transfers
  /\ Tokens \subseteq Nat /\ NoToken \in Tokens
BY BoundsAssumption DEF Keys, Quotes, NoQuote, NoTransfer, Transfers, Tokens, NoToken,
  CustomerTransactionID

\* What reaches the caller is the answer, or its status and token alone.
Said(r, st, token, codes, body) ==
  /\ wire' = wire \ {r}
  /\ r.id # faults => reply' = reply /\ faults' = faults
  /\ r.id = faults =>
       /\ faults' \in {faults, faults + 1} /\ faults' \in 0..MaxFaults
       /\ reply'.status = st /\ reply'.token = token
       /\ reply'.codes \in {codes, << >>} /\ reply'.body \in {body, NoBody}

LEMMA Saying ==
  ASSUME TypeOK, NEW r \in wire, NEW st, NEW result, NEW token, NEW codes, NEW body,
         Say(r, Answer(st, result, token, codes, body))
  PROVE  Said(r, st, token, codes, body)
<1> DEFINE answer == Answer(st, result, token, codes, body)
<1>1. faults \in 0..MaxFaults /\ MaxFaults \in Nat
  BY BoundsAssumption DEF TypeOK, ConsumerOK, CallOK, WiseOK
<1>2. /\ answer.status = st /\ answer.token = token
      /\ answer.codes = codes /\ answer.body = body
  BY DEF Answer
<1>3. LET spoilt == [answer EXCEPT !.body = NoBody, !.codes = << >>] IN
        /\ spoilt.status = st /\ spoilt.token = token
        /\ spoilt.codes = << >> /\ spoilt.body = NoBody
  BY DEF Answer
<1>4. CASE r.id # faults
  BY <1>4 DEF Say, Said
<1>5. CASE r.id = faults
  <2>1. CASE reply' = answer /\ faults' = faults
    BY <1>1, <1>2, <1>5, <2>1 DEF Say, Said
  <2>2. CASE /\ faults < MaxFaults /\ faults' = faults + 1
             /\ reply' = [answer EXCEPT !.body = NoBody, !.codes = << >>]
    BY <1>1, <1>3, <1>5, <2>2 DEF Say, Said
  <2> QED BY <1>5, <2>1, <2>2 DEF Say
<1> QED BY <1>4, <1>5 DEF Said

LEMMA SayingOk ==
  ASSUME TypeOK, NEW r \in wire, NEW body, Say(r, Ok(body))
  PROVE  Said(r, 200, NoToken, << >>, body)
BY Saying DEF Ok

LEMMA SayingRefusal ==
  ASSUME TypeOK, NEW r \in wire, NEW st, NEW codes, Say(r, Refusal(st, codes))
  PROVE  Said(r, st, NoToken, codes, NoBody)
BY Saying DEF Refusal

LEMMA SayingChallenge ==
  ASSUME TypeOK, NEW r \in wire, NEW token, Say(r, Challenge(token))
  PROVE  Said(r, 403, token, << >>, NoBody)
BY Saying DEF Challenge

\* What Wise does with a request: it moves the only transfer there can be forwards,
\* uses up or issues a token, and nothing else.
LEMMA Handling ==
  ASSUME TypeOK, QuoteInv, NEW r \in wire, Handle(r)
  PROVE  /\ UNCHANGED <<consumer, call, quotes, live, short, protected>>
         /\ wire' = wire \ {r}
         /\ \/ status' = status
            \/ /\ Own \in Transfers /\ record.quote \in live /\ status[Own] = "none"
               /\ status' = [status EXCEPT ![Own] = "waiting"]
            \/ /\ Own \in Transfers /\ status[Own] = "waiting"
               /\ \E to \in {"accepted", "funded", "cancelled"} : status' = [status EXCEPT ![Own] = to]
         /\ issued' \in Tokens /\ cleared' \subseteq Tokens
         /\ r.id # faults => reply' = reply /\ faults' = faults
         /\ r.id = faults =>
              faults' \in {faults, faults + 1} /\ faults' \in 0..MaxFaults /\ reply'.token \in Tokens
<1>1. /\ r.on \in Transfers /\ issued \in Tokens /\ cleared \subseteq Tokens
      /\ NoToken \in Tokens
      /\ r.op = "create" => r.on.key = CustomerTransactionID
      /\ \A t \in Transfers : status[t] # "none" => t = Own
  BY Constants DEF TypeOK, ConsumerOK, CallOK, WiseOK, Requests, QuoteInv
<1>2. r.op = "create" /\ r.on.quote \in live => r.on = Own /\ record.quote \in live
  BY <1>1 DEF QuoteInv, Own, Transfers
<1>3. /\ wire' = wire \ {r}
      /\ r.id # faults => reply' = reply /\ faults' = faults
      /\ r.id = faults =>
           faults' \in {faults, faults + 1} /\ faults' \in 0..MaxFaults /\ reply'.token \in Tokens
  <2>1. CASE \E body : Say(r, Ok(body))
    <3>1. PICK body : Say(r, Ok(body))
      BY <2>1
    <3>2. Said(r, 200, NoToken, << >>, body)
      BY <3>1, SayingOk
    <3> QED BY <1>1, <3>2 DEF Said
  <2>2. CASE \E st, codes : Say(r, Refusal(st, codes))
    <3>1. PICK st, codes : Say(r, Refusal(st, codes))
      BY <2>2
    <3>2. Said(r, st, NoToken, codes, NoBody)
      BY <3>1, SayingRefusal
    <3> QED BY <1>1, <3>2 DEF Said
  <2>3. CASE \E token \in Tokens : Say(r, Challenge(token))
    <3>1. PICK token \in Tokens : Say(r, Challenge(token))
      BY <2>3
    <3>2. Said(r, 403, token, << >>, NoBody)
      BY <3>1, SayingChallenge
    <3> QED BY <3>2 DEF Said
  <2>4. HandleCreate(r) => (\E body : Say(r, Ok(body))) \/ (\E st, codes : Say(r, Refusal(st, codes)))
    BY Zenon DEF HandleCreate
  <2>5. HandleFund(r) => (\E body : Say(r, Ok(body))) \/ (\E st, codes : Say(r, Refusal(st, codes)))
    <3>1. HandleFund(r) => \/ Say(r, Ok(Body("COMPLETED", "")))
                           \/ Say(r, Ok(Body("CREATED", "")))
                           \/ Say(r, Ok(Body("REJECTED", "balance.insufficient-funds")))
                           \/ Say(r, Ok(Body("REJECTED", "payment.exists")))
                           \/ Say(r, Ok(Body("REJECTED", "transfer.invalid-state")))
                           \/ Say(r, Refusal(409, << >>))
      BY DEF HandleFund
    <3> QED BY <3>1, Zenon
  <2>6. HandleCancel(r) => (\E body : Say(r, Ok(body))) \/ (\E st, codes : Say(r, Refusal(st, codes)))
    <3>1. HandleCancel(r) => \/ Say(r, Ok(Body("cancelled", "")))
                             \/ \E st \in {400, 409} : Say(r, Refusal(st, << >>))
      BY DEF HandleCancel
    <3> QED BY <3>1, Zenon
  <2>7. HandleGet(r) => \E body : Say(r, Ok(body))
    BY Zenon DEF HandleGet
  <2>8. HandleUnapproved(r) => \E token \in Tokens : Say(r, Challenge(token))
    <3>1. (IF issued < MaxTokens THEN issued + 1 ELSE MaxTokens) \in Tokens
      BY <1>1, BoundsAssumption DEF Tokens
    <3> QED BY <1>1, <3>1, Zenon DEF HandleUnapproved
  <2> QED BY <2>1, <2>2, <2>3, <2>4, <2>5, <2>6, <2>7, <2>8 DEF Handle
<1>4. /\ UNCHANGED <<consumer, call, quotes, live, short, protected>>
      /\ issued' \in Tokens /\ cleared' \subseteq Tokens
      /\ \/ status' = status
         \/ /\ Own \in Transfers /\ record.quote \in live /\ status[Own] = "none"
            /\ status' = [status EXCEPT ![Own] = "waiting"]
         \/ /\ Own \in Transfers /\ status[Own] = "waiting"
            /\ \E to \in {"accepted", "funded", "cancelled"} : status' = [status EXCEPT ![Own] = to]
  <2>1. CASE HandleCreate(r)
    BY <1>1, <1>2, <2>1 DEF Handle, HandleCreate, Become
  <2>2. CASE HandleUnapproved(r)
    <3>1. (IF issued < MaxTokens THEN issued + 1 ELSE MaxTokens) \in Tokens
      BY <1>1, BoundsAssumption DEF Tokens
    <3> QED BY <1>1, <2>2, <3>1 DEF Handle, HandleUnapproved
  <2>3. CASE HandleFund(r)
    BY <1>1, <2>3 DEF Handle, HandleFund, Become
  <2>4. CASE HandleCancel(r)
    BY <1>1, <2>4 DEF Handle, HandleCancel, Become
  <2>5. CASE HandleGet(r)
    BY <1>1, <2>5 DEF Handle, HandleGet, wise
  <2> QED BY <2>1, <2>2, <2>3, <2>4, <2>5 DEF Handle
<1> QED BY <1>3, <1>4
-----------------------------------------------------------------------------
LEMMA InitIsTyped == Init => TypeOK
<1> SUFFICES ASSUME Init PROVE TypeOK
  OBVIOUS
<1>1. client \in Clients
  BY DEF Init, Clients
<1>2. NoReply.token = NoToken
  BY DEF NoReply, Answer
<1>3. ConsumerOK
  BY <1>1, Constants DEF Init, ConsumerOK, Records, ToDos, Go
<1>4. CallOK
  BY <1>2, Constants, BoundsAssumption DEF Init, CallOK
<1>5. WiseOK
  BY Constants, BoundsAssumption DEF Init, WiseOK
<1> QED BY <1>3, <1>4, <1>5 DEF TypeOK

\* What leaves alone one part of the state keeps its type.
LEMMA Unmoved ==
  ASSUME TypeOK
  PROVE  /\ UNCHANGED consumer => ConsumerOK'
         /\ UNCHANGED <<options, client, call, reply, wire, faults>> => CallOK'
         /\ UNCHANGED wise => WiseOK'
<1>1. UNCHANGED <<options, client>> => UNCHANGED Clients
  BY DEF Clients, ReplayClient
<1>2. UNCHANGED Clients => UNCHANGED Requests
  BY DEF Requests
<1>3. UNCHANGED consumer => ConsumerOK'
  BY <1>1 DEF TypeOK, ConsumerOK, consumer
<1>4. UNCHANGED <<options, client, call, reply, wire, faults>> => CallOK'
  BY <1>1, <1>2 DEF TypeOK, CallOK
<1>5. UNCHANGED wise => WiseOK'
  BY DEF TypeOK, WiseOK, wise
<1> QED BY <1>3, <1>4, <1>5

\* A call that ends leaves nothing behind but its record.
LEMMA EndIsTyped ==
  ASSUME TypeOK, EndCall, options' = options
  PROVE  CallOK' /\ WiseOK'
<1>1. UNCHANGED <<Clients, Requests>>
  BY DEF Clients, ReplayClient, Requests
<1>2. NoReply.token \in Tokens
  BY Constants DEF NoReply, Answer
<1>3. CallOK'
  BY <1>1, <1>2 DEF EndCall, TypeOK, CallOK
<1> QED BY <1>3, Unmoved DEF EndCall

LEMMA StepIsTyped == TypeOK /\ QuoteInv /\ RecordInv /\ CallInv /\ [Next]_vars => TypeOK'
<1> SUFFICES ASSUME TypeOK, QuoteInv, RecordInv, CallInv, [Next]_vars PROVE TypeOK'
  OBVIOUS
<1>0. /\ MaxQuotes \in Nat \ {0} /\ MaxTokens \in Nat \ {0} /\ MaxFaults \in Nat
      /\ quotes \in 0..MaxQuotes /\ faults \in 0..MaxFaults /\ live \subseteq 1..quotes
  BY BoundsAssumption DEF TypeOK, CallOK, WiseOK
<1>1. ASSUME NEW op \in Ops, NEW on \in Transfers, NEW id \in 0..MaxFaults
      PROVE  Request(op, on, id) \in Requests
  BY DEF Request, Requests, TypeOK, ConsumerOK
<1>2. NoReply.token \in Tokens /\ NoToken \in Tokens
  BY Constants DEF NoReply, Answer
<1>3. /\ record.transfer # NoTransfer => record.transfer \in Transfers
      /\ call # NoCall => call.op \in Ops /\ call.on \in Transfers /\ call.attempt \in Nat
  BY DEF TypeOK, ConsumerOK, Records, CallOK
<1>30. \A do \in {"go", "check", "clear", "top up"}, token \in Tokens : [do |-> do, token |-> token] \in ToDos
  BY DEF ToDos
<1>31. ASSUME UNCHANGED options PROVE UNCHANGED <<Clients, Requests>>
  BY <1>31 DEF Clients, ReplayClient, Requests
<1>4. ASSUME NEW op \in Ops, NEW on \in Transfers, Begin(op, on) PROVE TypeOK'
  <2>1. Request(op, on, faults) \in Requests
    BY <1>0, <1>1
  <2>2. CallOK'
    BY <1>4, <1>31, <2>1 DEF TypeOK, CallOK, Begin, consumer
  <2> QED BY <1>4, <2>2, Unmoved DEF TypeOK, Begin
<1>5. CASE CreateTransfer
  <2>1. [key |-> CustomerTransactionID, quote |-> record.quote] \in Transfers
    BY <1>5, Constants DEF CreateTransfer, TypeOK, ConsumerOK, Records, Transfers
  <2> QED BY <1>4, <1>5, <2>1 DEF CreateTransfer, Ops
<1>6. CASE FundTransfer
  BY <1>3, <1>4, <1>6 DEF FundTransfer, Ops
<1>7. CASE CancelTransfer
  BY <1>3, <1>4, <1>7 DEF CancelTransfer, Ops
<1>8. CASE GetTransfer
  BY <1>3, <1>4, <1>8 DEF GetTransfer, Ops, RecordInv
<1>9. ASSUME NEW id \in 0..MaxFaults, call # NoCall, Repeat(id), UNCHANGED consumer
      PROVE  /\ call' \in [op : Ops, on : Transfers, attempt : Nat] \cup {NoCall}
             /\ wire' \subseteq Requests'
  <2>1. Request(call.op, call.on, id) \in Requests
    BY <1>1, <1>3, <1>9
  <2>2. call \in [op : Ops, on : Transfers, attempt : Nat]
    BY <1>9 DEF TypeOK, CallOK
  <2> QED BY <1>9, <1>31, <2>1, <2>2 DEF Repeat, TypeOK, CallOK, consumer
<1>10. CASE Retry
  <2>1. CallOK'
    BY <1>0, <1>2, <1>9, <1>10 DEF Retry, CallOK
  <2> QED BY <1>10, <2>1, Unmoved DEF Retry, TypeOK
<1>11. CASE TimeOut
  <2>1. faults + 1 \in 0..MaxFaults /\ faults' = faults + 1 /\ call # NoCall /\ reply' = reply
        /\ UNCHANGED <<consumer, wise>>
    BY <1>0, <1>11 DEF TimeOut, Awaiting
  <2>2. CASE Repeat(faults + 1)
    <3>1. CallOK'
      BY <1>9, <2>1, <2>2 DEF TypeOK, CallOK
    <3> QED BY <2>1, <3>1, Unmoved DEF TypeOK
  <2>3. CASE call' = NoCall /\ UNCHANGED wire
    <3>1. CallOK'
      BY <1>31, <2>1, <2>3 DEF TypeOK, CallOK, consumer
    <3> QED BY <2>1, <3>1, Unmoved DEF TypeOK
  <2> QED BY <1>11, <2>2, <2>3 DEF TimeOut
<1>12. ASSUME EndCall, UNCHANGED options, ConsumerOK' PROVE TypeOK'
  BY <1>12, EndIsTyped DEF TypeOK
<1>13. CASE Created
  <2>1. call.on \in Transfers
    BY <1>3, <1>13 DEF Created, Returns, Running, NoCall
  <2> QED BY <1>12, <1>13, <1>31, <2>1 DEF Created, TypeOK, ConsumerOK, Records
<1>14. CASE CreateRefused
  BY <1>12, <1>14, <1>31 DEF CreateRefused, TypeOK, ConsumerOK, Records
<1>15. CASE Unclear
  BY <1>12, <1>15, Unmoved DEF Unclear, consumer
<1>16. CASE Funded \/ Cancelled
  <2>1. EndCall /\ UNCHANGED <<options, client, record, todo>> /\ told' \in {"paid", "abandoned"}
    BY <1>16 DEF Funded, Cancelled
  <2> QED BY <1>12, <1>31, <2>1 DEF TypeOK, ConsumerOK
<1>17. CASE Accepted \/ Rejected \/ Refused
  <2>1. EndCall /\ UNCHANGED <<options, client, record, told>> /\ todo' \in ToDos
    BY <1>2, <1>17, <1>30 DEF Accepted, Rejected, Refused
  <2> QED BY <1>12, <1>31, <2>1 DEF TypeOK, ConsumerOK
<1>18. CASE Challenged
  BY <1>12, <1>18, <1>30, <1>31 DEF Challenged, TwoFAApprovalToken, TypeOK, ConsumerOK, CallOK
<1>19. CASE Checked
  BY <1>2, <1>12, <1>19, <1>30, <1>31 DEF Checked, TypeOK, ConsumerOK, Go
<1>20. CASE CreateQuote
  <2>1. quotes + 1 \in Quotes /\ quotes' = quotes + 1 /\ live' \subseteq 1..quotes'
    BY <1>0, <1>20 DEF CreateQuote, Quotes
  <2>2. ConsumerOK'
    BY <1>20, <1>31, <2>1 DEF CreateQuote, TypeOK, ConsumerOK, Records
  <2>3. WiseOK'
    BY <1>0, <1>20, <2>1 DEF CreateQuote, TypeOK, WiseOK
  <2> QED BY <1>20, <2>2, <2>3, Unmoved DEF CreateQuote, TypeOK
<1>21. ASSUME UNCHANGED <<options, call, reply, wire, faults>> PROVE CallOK'
  BY <1>21, <1>31 DEF TypeOK, CallOK
<1>22. CASE Abandon
  <2>1. ConsumerOK'
    BY <1>2, <1>22, <1>30, <1>31 DEF Abandon, Go, TypeOK, ConsumerOK, Records
  <2> QED BY <1>21, <1>22, <2>1, Unmoved DEF Abandon, TypeOK
<1>23. CASE TopUp \/ ViewStatement
  <2>1. ConsumerOK'
    BY <1>2, <1>23, <1>30, <1>31 DEF TopUp, ViewStatement, Go, TypeOK, ConsumerOK
  <2>2. WiseOK'
    BY <1>23 DEF TopUp, ViewStatement, TypeOK, WiseOK
  <2> QED BY <1>21, <1>23, <2>1, <2>2 DEF TopUp, ViewStatement, TypeOK
<1>24. CASE Clear
  <2>1. ReplayClient(todo.token) \in Clients /\ todo.token \in Tokens
    BY DEF TypeOK, ConsumerOK, ToDos, Clients
  <2>2. ConsumerOK'
    BY <1>2, <1>24, <1>30, <1>31, <2>1 DEF Clear, Go, TypeOK, ConsumerOK
  <2>3. WiseOK'
    BY <1>24, <2>1 DEF Clear, TypeOK, WiseOK
  <2> QED BY <1>21, <1>24, <2>2, <2>3 DEF Clear, TypeOK
<1>25. CASE Crash
  <2>1. New(options) \in Clients
    BY DEF Clients
  <2>2. ConsumerOK'
    BY <1>2, <1>25, <1>30, <1>31, <2>1 DEF Crash, Go, TypeOK, ConsumerOK
  <2>3. CallOK'
    BY <1>0, <1>2, <1>25, <1>31 DEF Crash, TypeOK, CallOK
  <2> QED BY <1>25, <2>2, <2>3, Unmoved DEF Crash, TypeOK
<1>26. ASSUME NEW r \in wire, Handle(r) PROVE TypeOK'
  <2>1. UNCHANGED <<consumer, call, quotes, live, short, protected>>
    BY <1>26, Handling
  <2>2. status' \in [Transfers -> {"none", "waiting", "accepted", "funded", "cancelled"}]
    BY <1>26, Handling DEF TypeOK, WiseOK
  <2>3. WiseOK'
    BY <1>26, <2>1, <2>2, Handling DEF TypeOK, WiseOK
  <2>4. CallOK'
    <3>1. reply'.token \in Tokens /\ faults' \in 0..MaxFaults /\ wire' = wire \ {r}
      BY <1>26, Handling DEF TypeOK, CallOK
    <3> QED BY <1>31, <2>1, <3>1 DEF TypeOK, CallOK, consumer
  <2> QED BY <2>1, <2>3, <2>4, Unmoved DEF TypeOK
<1>27. CASE \E r \in wire : Lose(r)
  <2>1. CallOK'
    BY <1>27, <1>31 DEF Lose, TypeOK, CallOK, consumer
  <2> QED BY <1>27, <2>1, Unmoved DEF Lose, TypeOK
<1>28. CASE Expire
  <2>1. WiseOK'
    BY <1>28 DEF Expire, TypeOK, WiseOK
  <2> QED BY <1>21, <1>28, <2>1, Unmoved DEF Expire, TypeOK, consumer
<1>29. CASE UNCHANGED vars
  BY <1>21, <1>29, Unmoved DEF vars, consumer, TypeOK
<1>32. CASE Settle
  <2>1. WiseOK'
    BY <1>32 DEF Settle, Become, TypeOK, WiseOK
  <2> QED BY <1>21, <1>32, <2>1, Unmoved DEF Settle, TypeOK, consumer
<1> QED BY <1>5, <1>6, <1>7, <1>8, <1>10, <1>11, <1>13, <1>14, <1>15, <1>16, <1>17, <1>18,
  <1>19, <1>20, <1>22, <1>23, <1>24, <1>25, <1>26, <1>27, <1>28, <1>29, <1>32 DEF Next, Proceed
-----------------------------------------------------------------------------
LEMMA InitIsInvariant == Init => IInv
<1> SUFFICES ASSUME Init PROVE IInv
  OBVIOUS
<1>1. TypeOK
  BY InitIsTyped
<1>2. NoReply.codes = << >> /\ NoReply.status = 0 /\ NoReply.body.parses = FALSE
      /\ NoReply.body.status = "none" /\ NoReply.body.code = "none"
  BY DEF NoReply, Answer, NoBody
<1>3. ~Is(NoReply.codes, "ErrResourceNotFound")
  BY <1>2 DEF Is, HasCode
<1>4. QuoteInv /\ RecordInv /\ CallInv /\ ToldInv
  BY DEF Init, QuoteInv, RecordInv, CallInv, ToldInv, Go
<1>5. ReplyInv
  BY <1>2, <1>3 DEF Init, ReplyInv, NoCall
<1> QED BY <1>1, <1>4, <1>5 DEF IInv

\* Only Wise moves a transfer, and not one that has come to its end.
LEMMA Moving ==
  ASSUME TypeOK, QuoteInv, NEW r \in wire, Handle(r), NEW t \in Transfers
  PROVE  /\ status[t] # "none" => status'[t] # "none"
         /\ status[t] \in {"funded", "cancelled"} => status'[t] = status[t]
         /\ status'[t] # "none" => t = Own
         /\ t.quote \notin live /\ status'[t] # "none" => status[t] # "none"
<1>1. status \in [Transfers -> {"none", "waiting", "accepted", "funded", "cancelled"}]
  BY DEF TypeOK, WiseOK
<1>2. status[t] # "none" => t = Own
  BY DEF QuoteInv
<1>3. Own.quote = record.quote
  BY DEF Own
<1>4. CASE status' = status
  BY <1>2, <1>4
<1>5. CASE /\ Own \in Transfers /\ record.quote \in live /\ status[Own] = "none"
           /\ status' = [status EXCEPT ![Own] = "waiting"]
  BY <1>1, <1>2, <1>3, <1>5
<1>6. CASE /\ Own \in Transfers /\ status[Own] = "waiting"
           /\ \E to \in {"accepted", "funded", "cancelled"} : status' = [status EXCEPT ![Own] = to]
  BY <1>1, <1>2, <1>3, <1>6
<1> QED BY <1>4, <1>5, <1>6, Handling

\* A funding that is settled moves the only transfer there can be to its end.
LEMMA Settling ==
  ASSUME TypeOK, QuoteInv, Settle, NEW t \in Transfers
  PROVE  /\ UNCHANGED <<consumer, call, reply, wire, live, quotes, faults, Own>>
         /\ status[t] = "none" <=> status'[t] = "none"
         /\ status[t] \in {"funded", "cancelled"} => status'[t] = status[t]
<1>1. status \in [Transfers -> {"none", "waiting", "accepted", "funded", "cancelled"}]
  BY DEF TypeOK, WiseOK
<1>2. PICK u \in Transfers : status[u] = "accepted" /\ status' = [status EXCEPT ![u] = "funded"]
  BY DEF Settle, Become
<1>3. UNCHANGED <<consumer, call, reply, wire, live, quotes, faults>>
  BY DEF Settle
<1>4. UNCHANGED Own
  BY <1>3 DEF Own, consumer
<1> QED BY <1>1, <1>2, <1>3, <1>4

LEMMA QuoteStep == IInv /\ [Next]_vars => QuoteInv'
<1> SUFFICES ASSUME IInv, [Next]_vars PROVE QuoteInv'
  OBVIOUS
<1> USE DEF IInv
<1>1. UNCHANGED <<record, quotes, live, status>> => UNCHANGED Own
  BY DEF Own
<1>2. ASSUME UNCHANGED <<record, quotes, status>>, live' \subseteq live,
             \A r \in wire' : r \in wire \/ (r.op = "create" => r.on.key = CustomerTransactionID)
      PROVE  QuoteInv'
  BY <1>2 DEF QuoteInv, Own
<1>3. ASSUME NEW op, NEW on, Begin(op, on), op = "create" => on.key = CustomerTransactionID
      PROVE  QuoteInv'
  BY <1>2, <1>3 DEF Begin, Request, consumer, wise
<1>4. CASE CreateTransfer
  BY <1>3, <1>4 DEF CreateTransfer
<1>5. CASE FundTransfer \/ CancelTransfer \/ GetTransfer
  BY <1>3, <1>5 DEF FundTransfer, CancelTransfer, GetTransfer
<1>6. CASE Retry \/ TimeOut
  <2>1. call.op = "create" /\ call # NoCall => call.on.key = CustomerTransactionID
    BY DEF CallInv, Own
  <2> QED BY <1>2, <1>6, <2>1 DEF Retry, TimeOut, Repeat, Request, Awaiting, consumer, wise
<1>7. CASE CreateRefused
  <2>1. /\ call.op = "create" /\ call # NoCall /\ status[call.on] = "none"
        /\ call.on.quote \notin live
    BY <1>7 DEF CreateRefused, Fails, Running, ReplyInv, NoCall
  <2>2. call.on = Own /\ Own.quote = record.quote
    BY <2>1 DEF CallInv, Own
  <2>3. \A t \in Transfers : status[t] = "none"
    BY <2>1, <2>2 DEF QuoteInv
  <2>4. live = {}
    BY <2>1, <2>2 DEF QuoteInv
  <2>5. record'.quote = NoQuote
    BY <1>7 DEF CreateRefused, TypeOK, ConsumerOK, Records
  <2> QED BY <1>7, <2>3, <2>4, <2>5 DEF CreateRefused, EndCall, wise, QuoteInv
<1>8. CASE Created \/ Abandon
  <2>1. /\ record'.quote = record.quote
        /\ UNCHANGED <<wire, quotes, live, status>>
    BY <1>8 DEF Created, Abandon, EndCall, wise, TypeOK, ConsumerOK, Records
  <2>2. UNCHANGED Own
    BY <2>1 DEF Own
  <2> QED BY <2>1, <2>2 DEF QuoteInv
<1>9. CASE Unclear \/ Funded \/ Accepted \/ Rejected \/ Challenged \/ Cancelled \/ Refused \/ Checked
  BY <1>2, <1>9 DEF Unclear, Funded, Accepted, Rejected, Challenged, Cancelled, Refused, Checked, EndCall,
    consumer, wise
<1>10. CASE CreateQuote
  <2>1. /\ live = {} /\ record'.quote = quotes' /\ live' = {quotes'} /\ UNCHANGED <<status, wire>>
    BY <1>10 DEF CreateQuote, QuoteInv, TypeOK, ConsumerOK, WiseOK, Records, NoQuote
  <2>2. Own \notin Transfers
    BY <1>10, Constants DEF CreateQuote, Own, Transfers
  <2> QED BY <2>1, <2>2 DEF QuoteInv
<1>11. CASE TopUp \/ Clear \/ ViewStatement \/ Crash \/ Expire
  BY <1>2, <1>11 DEF TopUp, Clear, ViewStatement, Crash, Expire, consumer, wise
<1>12. ASSUME NEW r \in wire, Handle(r) PROVE QuoteInv'
  <2>1. /\ UNCHANGED <<record, quotes, live>> /\ wire' \subseteq wire
    BY <1>12, Handling DEF consumer
  <2>2. \A t \in Transfers : status'[t] # "none" => t = Own
    BY <1>12, Moving
  <2>3. UNCHANGED Own
    BY <2>1 DEF Own
  <2> QED BY <2>1, <2>2, <2>3 DEF QuoteInv
<1>13. CASE \E r \in wire : Lose(r)
  BY <1>2, <1>13 DEF Lose, consumer, wise
<1>14. CASE UNCHANGED vars
  BY <1>2, <1>14 DEF vars, consumer, wise
<1>15. CASE Settle
  <2>1. UNCHANGED <<record, quotes, live, wire>>
    BY <1>15 DEF Settle, consumer
  <2>2. UNCHANGED Own
    BY <2>1 DEF Own
  <2>3. \A t \in Transfers : status'[t] # "none" => t = Own
    BY <1>15, Settling DEF QuoteInv
  <2> QED BY <2>1, <2>2, <2>3 DEF QuoteInv
<1> QED BY <1>4, <1>5, <1>6, <1>7, <1>8, <1>9, <1>10, <1>11, <1>12, <1>13, <1>14, <1>15
  DEF Next, Proceed

LEMMA RecordStep == IInv /\ [Next]_vars => RecordInv'
<1> SUFFICES ASSUME IInv, [Next]_vars PROVE RecordInv'
  OBVIOUS
<1> USE DEF IInv
<1>1. record.transfer # NoTransfer => Own \in Transfers
  BY DEF RecordInv, TypeOK, ConsumerOK, Records
<1>2. ASSUME UNCHANGED <<record, status>>,
             todo' = todo \/ todo' = Go \/ record.transfer # NoTransfer
      PROVE  RecordInv'
  BY <1>2 DEF RecordInv, Own, Go
<1>3. CASE CreateTransfer \/ FundTransfer \/ CancelTransfer \/ GetTransfer
  BY <1>2, <1>3 DEF CreateTransfer, FundTransfer, CancelTransfer, GetTransfer, Begin, consumer, wise
<1>4. CASE Retry \/ TimeOut
  BY <1>2, <1>4 DEF Retry, TimeOut, consumer, wise
<1>5. CASE Created
  <2>1. call.op = "create" /\ call # NoCall /\ status[call.on] # "none"
    BY <1>5 DEF Created, Returns, Running, ReplyInv, NoCall, MapTransfer, NoBody
  <2>2. call.on = Own
    BY <2>1 DEF CallInv
  <2>3. record'.quote = record.quote /\ record'.transfer = Own /\ UNCHANGED <<status, todo>>
    BY <1>5, <2>2 DEF Created, EndCall, wise, TypeOK, ConsumerOK, Records
  <2>4. UNCHANGED Own
    BY <2>3 DEF Own
  <2>5. Own # NoTransfer
    BY <2>1, <2>2, Constants DEF CallInv, TypeOK, CallOK
  <2> QED BY <2>1, <2>2, <2>3, <2>4, <2>5 DEF RecordInv
<1>6. CASE CreateRefused
  <2>1. record.transfer = NoTransfer
    BY <1>6 DEF CreateRefused, Fails, Running, CallInv, NoCall
  <2>2. record'.transfer = NoTransfer /\ UNCHANGED todo
    BY <1>6, <2>1 DEF CreateRefused, TypeOK, ConsumerOK, Records
  <2> QED BY <2>1, <2>2 DEF RecordInv
<1>7. CASE Unclear \/ Funded \/ Cancelled \/ Checked
  BY <1>2, <1>7 DEF Unclear, Funded, Cancelled, Checked, EndCall, consumer, wise
<1>8. CASE Accepted \/ Rejected \/ Challenged \/ Refused
  <2>1. call.op = "fund" \/ call.op = "cancel"
    <3>1. Running("fund") \/ Running("cancel")
      BY <1>8 DEF Accepted, Rejected, Challenged, Refused, Returns, Fails
    <3> QED BY <3>1 DEF Running
  <2>2. record.transfer # NoTransfer
    BY <2>1 DEF CallInv, NoCall
  <2> QED BY <1>2, <1>8, <2>2 DEF Accepted, Rejected, Challenged, Refused, EndCall, wise
<1>9. CASE CreateQuote
  <2>1. record.transfer = NoTransfer
    BY <1>1, <1>9, Constants DEF CreateQuote, Own, Transfers
  <2>2. record'.transfer = NoTransfer /\ UNCHANGED todo
    BY <1>9, <2>1 DEF CreateQuote, TypeOK, ConsumerOK, Records
  <2> QED BY <2>1, <2>2 DEF RecordInv
<1>10. CASE Abandon
  <2>1. /\ record'.quote = record.quote /\ record'.transfer = record.transfer
        /\ UNCHANGED status /\ todo'.do = "go"
    BY <1>10 DEF Abandon, Go, wise, TypeOK, ConsumerOK, Records
  <2>2. UNCHANGED Own
    BY <2>1 DEF Own
  <2> QED BY <2>1, <2>2 DEF RecordInv
<1>11. CASE TopUp \/ Clear \/ ViewStatement \/ Crash \/ Expire
  BY <1>2, <1>11 DEF TopUp, Clear, ViewStatement, Crash, Expire, consumer, wise
<1>12. ASSUME NEW r \in wire, Handle(r) PROVE RecordInv'
  <2>1. UNCHANGED <<record, todo>>
    BY <1>12, Handling DEF consumer
  <2>2. UNCHANGED Own
    BY <2>1 DEF Own
  <2>3. record.transfer # NoTransfer => status'[Own] # "none"
    BY <1>1, <1>12, Moving DEF RecordInv
  <2> QED BY <2>1, <2>2, <2>3 DEF RecordInv
<1>13. CASE \E r \in wire : Lose(r)
  BY <1>2, <1>13 DEF Lose, consumer, wise
<1>14. CASE UNCHANGED vars
  BY <1>2, <1>14 DEF vars, consumer, wise
<1>15. CASE Settle
  <2>1. UNCHANGED <<record, todo>>
    BY <1>15 DEF Settle, consumer
  <2>2. UNCHANGED Own
    BY <2>1 DEF Own
  <2>3. record.transfer # NoTransfer => status'[Own] # "none"
    BY <1>1, <1>15, Settling DEF RecordInv
  <2> QED BY <2>1, <2>2, <2>3 DEF RecordInv
<1> QED BY <1>3, <1>4, <1>5, <1>6, <1>7, <1>8, <1>9, <1>10, <1>11, <1>12, <1>13, <1>14, <1>15
  DEF Next, Proceed

\* A call is about what is recorded.
CallIsRecorded ==
  call # NoCall =>
    IF call.op = "create"
    THEN record.quote # NoQuote /\ record.transfer = NoTransfer /\ call.on = Own
    ELSE record.transfer # NoTransfer /\ call.on = record.transfer

LEMMA CallStep == IInv /\ [Next]_vars => CallInv'
<1> SUFFICES ASSUME IInv, [Next]_vars PROVE CallInv'
  OBVIOUS
<1> USE DEF IInv
<1>1. /\ faults \in Nat /\ \A r \in wire : r.id \in Nat /\ r.id <= faults
      /\ call # NoCall => call.op \in Ops /\ call.op # "none"
      /\ call = NoCall => reply = NoReply
      /\ CallIsRecorded
  BY BoundsAssumption DEF TypeOK, CallOK, Requests, CallInv, CallIsRecorded, Ops
<1>2. ~Awaiting => \A r \in wire : r.id # faults
  BY DEF CallInv
<1>3. UNCHANGED <<call, record>> => UNCHANGED CallIsRecorded
  BY DEF CallIsRecorded, Own
<1>4. ASSUME UNCHANGED <<call, reply, wire, faults, client, record>> PROVE CallInv'
  BY <1>4 DEF CallInv, Awaiting, Request, Own
<1>5. ASSUME UNCHANGED <<call, reply, wire, faults>>, call = NoCall PROVE CallInv'
  BY <1>1, <1>2, <1>5 DEF CallInv, Awaiting
<1>6. ASSUME EndCall, reply # NoReply, faults' = faults PROVE CallInv'
  BY <1>1, <1>2, <1>6 DEF CallInv, Awaiting, EndCall
<1>7. ASSUME NEW op \in Ops, NEW on, Begin(op, on),
             IF op = "create"
             THEN record.quote # NoQuote /\ record.transfer = NoTransfer /\ on = Own
             ELSE record.transfer # NoTransfer /\ on = record.transfer
      PROVE  CallInv'
  <2>1. /\ call = NoCall /\ reply' = NoReply /\ UNCHANGED <<faults, client, record>>
        /\ call'.op = op /\ call'.on = on /\ call' # NoCall
        /\ wire' = wire \cup {Request(op, on, faults)}
    BY <1>1, <1>7 DEF Begin, Idle, NoCall, consumer
  <2>2. Request(op, on, faults)' = Request(op, on, faults) /\ Request(op, on, faults).id = faults
    BY <2>1 DEF Request
  <2>3. Request(call.op, call.on, faults)' = Request(op, on, faults)
    BY <2>1 DEF Request
  <2> QED BY <1>1, <1>2, <1>7, <2>1, <2>2, <2>3 DEF CallInv, Awaiting, Own
<1>8. CASE CreateTransfer
  BY <1>7, <1>8 DEF CreateTransfer, Own, Ops
<1>9. CASE FundTransfer \/ CancelTransfer
  BY <1>7, <1>9 DEF FundTransfer, CancelTransfer, Ops
<1>10. CASE GetTransfer
  BY <1>7, <1>10 DEF GetTransfer, RecordInv, Ops
<1>11. ASSUME NEW id \in Nat, call # NoCall, reply' = NoReply, Repeat(id), UNCHANGED <<client, record>>,
              id = faults', \A r \in wire : r.id < id
       PROVE  CallInv'
  <2>1. /\ call'.op = call.op /\ call'.on = call.on /\ call' # NoCall
        /\ wire' = wire \cup {Request(call.op, call.on, id)}
    BY <1>1, <1>11 DEF Repeat, NoCall, TypeOK, CallOK
  <2>2. Request(call.op, call.on, id).id = id
    BY DEF Request
  <2>3. Request(call.op, call.on, faults)' = Request(call.op, call.on, id)
    BY <1>11, <2>1 DEF Request
  <2>4. UNCHANGED Own
    BY <1>11 DEF Own
  <2>5. \A r \in wire' : r.id <= faults' /\ (r.id = faults' => r = Request(call.op, call.on, faults)')
    BY <1>1, <1>11, <2>1, <2>2, <2>3
  <2> QED BY <1>1, <1>11, <2>1, <2>4, <2>5 DEF CallInv, CallIsRecorded, Awaiting
<1>12. CASE Retry
  <2>1. \A r \in wire : r.id < faults
    BY <1>1, <1>2, <1>12 DEF Retry, Awaiting
  <2> QED BY <1>1, <1>11, <1>12, <2>1 DEF Retry, consumer
<1>13. CASE TimeOut
  <2>1. /\ reply' = NoReply /\ faults' = faults + 1 /\ call # NoCall
        /\ UNCHANGED <<client, record>>
    BY <1>13 DEF TimeOut, Awaiting, consumer
  <2>2. \A r \in wire : r.id < faults + 1
    BY <1>1
  <2>3. CASE Repeat(faults + 1)
    BY <1>1, <1>11, <2>1, <2>2, <2>3
  <2>4. CASE call' = NoCall /\ UNCHANGED wire
    BY <1>1, <2>1, <2>2, <2>4 DEF CallInv
  <2> QED BY <1>13, <2>3, <2>4 DEF TimeOut
<1>14. CASE Created \/ CreateRefused \/ Unclear
  <2>1. EndCall /\ reply # NoReply
    BY <1>14 DEF Created, CreateRefused, Unclear, Returns, Fails, Running
  <2> QED BY <1>6, <2>1 DEF EndCall
<1>15. CASE Funded \/ Accepted \/ Rejected \/ Challenged \/ Cancelled \/ Refused \/ Checked
  <2>1. EndCall /\ reply # NoReply
    BY <1>15 DEF Funded, Accepted, Rejected, Challenged, Cancelled, Refused, Checked, Returns, Fails, Running
  <2> QED BY <1>6, <2>1 DEF EndCall
<1>16. CASE CreateQuote \/ Abandon \/ TopUp \/ Clear \/ ViewStatement
  BY <1>5, <1>16 DEF CreateQuote, Abandon, TopUp, Clear, ViewStatement, Idle
<1>17. CASE Crash
  BY <1>1, <1>17 DEF Crash, CallInv
<1>18. ASSUME NEW r \in wire, Handle(r) PROVE CallInv'
  <2>1. UNCHANGED <<call, record, client>> /\ wire' = wire \ {r}
    BY <1>18, Handling DEF consumer
  <2>2. CASE r.id # faults
    <3>1. UNCHANGED <<reply, faults>>
      BY <1>18, <2>2, Handling
    <3> QED BY <2>1, <3>1 DEF CallInv, Awaiting, Request, Own
  <2>3. CASE r.id = faults
    <3>1. call # NoCall /\ \A q \in wire' : q.id # faults
      BY <2>1, <2>3 DEF CallInv, Awaiting
    <3>2. faults' \in {faults, faults + 1}
      BY <1>18, <2>3, Handling
    <3>3. \A q \in wire' : q.id <= faults' /\ q.id # faults'
      BY <1>1, <2>1, <3>1, <3>2
    <3> QED BY <1>1, <1>3, <2>1, <3>1, <3>3 DEF CallInv, CallIsRecorded
  <2> QED BY <2>2, <2>3
<1>19. CASE \E r \in wire : Lose(r)
  BY <1>19 DEF Lose, CallInv, Awaiting, Request, Own, consumer
<1>20. CASE Expire \/ Settle
  BY <1>4, <1>20 DEF Expire, Settle, consumer
<1>21. CASE UNCHANGED vars
  BY <1>4, <1>21 DEF vars, consumer
<1> QED BY <1>8, <1>9, <1>10, <1>12, <1>13, <1>14, <1>15, <1>16, <1>17, <1>18, <1>19, <1>20, <1>21
  DEF Next, Proceed
LEMMA NothingTold ==
  /\ ~Is(<< >>, "ErrResourceNotFound")
  /\ NoReply.codes = << >> /\ NoReply.body = NoBody
  /\ ~NoBody.parses /\ NoBody.status = "none" /\ NoBody.code = "none"
BY DEF Is, HasCode, NoReply, Answer, NoBody

\* What an answer says of the call is so once it is given.
IsSo(st, codes, body) ==
  /\ Is(codes, "ErrResourceNotFound") =>
       call.op = "create" /\ status'[call.on] = "none" /\ call.on.quote \notin live'
  /\ call.op = "create" /\ IsSuccess(st) /\ body.parses => status'[call.on] # "none"
  /\ call.op = "fund" /\ (body.status = "COMPLETED" \/ body.code = "payment.exists")
       => status'[call.on] = "funded"
  /\ call.op = "cancel" /\ IsSuccess(st) /\ body.parses => status'[call.on] = "cancelled"
  /\ call.op = "get" /\ body.status \in {"funded", "cancelled"}
       => status'[call.on] = body.status

LEMMA Telling ==
  ASSUME NEW r \in wire, NEW st, NEW token, NEW codes, NEW body,
         Said(r, st, token, codes, body), r.id = faults, UNCHANGED call, IsSo(st, codes, body)
  PROVE  ReplyInv'
<1>1. /\ reply'.status = st /\ reply'.codes \in {codes, << >>} /\ reply'.body \in {body, NoBody}
  BY DEF Said
<1>2. CASE reply'.body = body
  BY <1>1, <1>2, NothingTold DEF IsSo, ReplyInv, Succeeded
<1>3. CASE reply'.body = NoBody
  BY <1>1, <1>3, NothingTold DEF IsSo, ReplyInv, Succeeded
<1> QED BY <1>1, <1>2, <1>3

LEMMA HandledTruly ==
  ASSUME IInv, NEW r \in wire, Handle(r), r.id = faults
  PROVE  ReplyInv'
<1> USE DEF IInv
<1>1. /\ r.op = call.op /\ r.on = call.on /\ r.on \in Transfers
      /\ UNCHANGED <<call, live>>
      /\ status \in [Transfers -> {"none", "waiting", "accepted", "funded", "cancelled"}]
  <2>1. r = Request(call.op, call.on, faults)
    BY DEF CallInv
  <2>2. r.op = call.op /\ r.on = call.on
    BY <2>1 DEF Request
  <2> QED BY <2>2, Handling DEF TypeOK, CallOK, WiseOK, Requests
<1>2. /\ ~IsSuccess(400) /\ ~IsSuccess(403) /\ ~IsSuccess(404) /\ ~IsSuccess(409)
  BY DEF IsSuccess
<1>3. CASE HandleCreate(r)
  <2>1. CASE Become(r.on, "none", "waiting") /\ r.on.quote \in live /\ Say(r, Ok(Body("waiting", "")))
    <3>1. status'[call.on] = "waiting"
      BY <1>1, <2>1 DEF Become
    <3>2. Said(r, 200, NoToken, << >>, Body("waiting", ""))
      BY <2>1, SayingOk
    <3>3. IsSo(200, << >>, Body("waiting", ""))
      BY <1>1, <1>3, <3>1, NothingTold DEF HandleCreate, IsSo
    <3> QED BY <1>1, <3>2, <3>3, Telling
  <2>2. CASE status[r.on] # "none" /\ Say(r, Ok(Body(status[r.on], ""))) /\ UNCHANGED status
    <3>1. Said(r, 200, NoToken, << >>, Body(status[r.on], ""))
      BY <2>2, SayingOk
    <3>2. IsSo(200, << >>, Body(status[r.on], ""))
      BY <1>1, <1>3, <2>2, NothingTold DEF HandleCreate, IsSo
    <3> QED BY <1>1, <3>1, <3>2, Telling
  <2>3. CASE /\ status[r.on] = "none" /\ r.on.quote \notin live /\ UNCHANGED status
             /\ \E codes \in ResourceNotFound : Say(r, Refusal(404, codes))
    <3>1. PICK codes : Say(r, Refusal(404, codes))
      BY <2>3
    <3>2. Said(r, 404, NoToken, codes, NoBody)
      BY <3>1, SayingRefusal
    <3>3. IsSo(404, codes, NoBody)
      BY <1>1, <1>2, <1>3, <2>3 DEF HandleCreate, IsSo
    <3> QED BY <1>1, <3>2, <3>3, Telling
  <2> QED BY <1>3, <2>1, <2>2, <2>3 DEF HandleCreate
<1>4. ASSUME call.op \in {"fund", "cancel"}, NEW st, ~IsSuccess(st), NEW token,
             Said(r, st, token, << >>, NoBody)
      PROVE  ReplyInv'
  <2>1. IsSo(st, << >>, NoBody)
    BY <1>4, NothingTold DEF IsSo
  <2> QED BY <1>1, <1>4, <2>1, Telling
<1>5. CASE HandleUnapproved(r)
  <2>1. PICK token : Say(r, Challenge(token))
    BY <1>5, Zenon DEF HandleUnapproved
  <2>2. Said(r, 403, token, << >>, NoBody)
    BY <2>1, SayingChallenge
  <2> QED BY <1>1, <1>2, <1>4, <1>5, <2>2 DEF HandleUnapproved
<1>6. CASE HandleFund(r)
  <2>1. ASSUME NEW st, NEW code, Say(r, Ok(Body(st, code))),
               st = "COMPLETED" \/ code = "payment.exists" => status'[call.on] = "funded"
        PROVE  ReplyInv'
    <3>1. Said(r, 200, NoToken, << >>, Body(st, code))
      BY <2>1, SayingOk
    <3>2. Body(st, code).status = st /\ Body(st, code).code = code
      BY DEF Body
    <3>3. IsSo(200, << >>, Body(st, code))
      BY <1>1, <1>6, <2>1, <3>2, NothingTold DEF HandleFund, IsSo
    <3> QED BY <1>1, <3>1, <3>3, Telling
  <2>2. CASE Become(r.on, "waiting", "funded") /\ Say(r, Ok(Body("COMPLETED", "")))
    BY <1>1, <2>1, <2>2 DEF Become
  <2>3. CASE Say(r, Ok(Body("REJECTED", "balance.insufficient-funds")))
    BY <2>1, <2>3
  <2>4. CASE status[r.on] = "funded" /\ Say(r, Ok(Body("REJECTED", "payment.exists"))) /\ UNCHANGED status
    BY <1>1, <2>1, <2>4
  <2>5. CASE Say(r, Ok(Body("REJECTED", "transfer.invalid-state")))
    BY <2>1, <2>5
  <2>6. CASE Say(r, Refusal(409, << >>))
    BY <1>1, <1>2, <1>4, <1>6, <2>6, SayingRefusal DEF HandleFund
  <2>7. CASE Say(r, Ok(Body("CREATED", "")))
    BY <2>1, <2>7
  <2> QED BY <1>6, <2>2, <2>3, <2>4, <2>5, <2>6, <2>7 DEF HandleFund
<1>7. CASE HandleCancel(r)
  <2>1. CASE Become(r.on, "waiting", "cancelled") /\ Say(r, Ok(Body("cancelled", "")))
    <3>1. status'[call.on] = "cancelled"
      BY <1>1, <2>1 DEF Become
    <3>2. Said(r, 200, NoToken, << >>, Body("cancelled", ""))
      BY <2>1, SayingOk
    <3>3. IsSo(200, << >>, Body("cancelled", ""))
      BY <1>1, <1>7, <3>1, NothingTold DEF HandleCancel, IsSo
    <3> QED BY <1>1, <3>2, <3>3, Telling
  <2>2. CASE \E st \in {400, 409} : Say(r, Refusal(st, << >>))
    <3>1. PICK st \in {400, 409} : Say(r, Refusal(st, << >>))
      BY <2>2
    <3>2. Said(r, st, NoToken, << >>, NoBody)
      BY <3>1, SayingRefusal
    <3>3. call.op = "cancel"
      BY <1>1, <1>7 DEF HandleCancel
    <3>4. ~IsSuccess(st)
      BY <3>1 DEF IsSuccess
    <3> QED BY <1>4, <3>2, <3>3, <3>4
  <2> QED BY <1>7, <2>1, <2>2 DEF HandleCancel
<1>8. CASE HandleGet(r)
  <2>1. /\ Said(r, 200, NoToken, << >>, Body(status[r.on], ""))
        /\ status' = status
    BY <1>8, SayingOk DEF HandleGet, wise
  <2>2. Body(status[r.on], "").status = status[r.on]
    BY DEF Body
  <2>3. IsSo(200, << >>, Body(status[r.on], ""))
    BY <1>1, <1>8, <2>1, <2>2, NothingTold DEF HandleGet, IsSo
  <2> QED BY <1>1, <2>1, <2>3, Telling
<1> QED BY <1>3, <1>5, <1>6, <1>7, <1>8 DEF Handle

LEMMA ReplyStep == IInv /\ [Next]_vars => ReplyInv'
<1> SUFFICES ASSUME IInv, [Next]_vars PROVE ReplyInv'
  OBVIOUS
<1> USE DEF IInv
<1>1. ASSUME reply' = NoReply PROVE ReplyInv'
  BY <1>1, NothingTold DEF ReplyInv
<1>2. call = NoCall => reply = NoReply
  BY DEF CallInv
<1>3. ASSUME UNCHANGED <<call, reply, status>>, live' \subseteq live PROVE ReplyInv'
  BY <1>3 DEF ReplyInv, Succeeded
<1>4. CASE CreateTransfer \/ FundTransfer \/ CancelTransfer \/ GetTransfer
  <2>1. reply' = NoReply
    BY <1>2, <1>4 DEF CreateTransfer, FundTransfer, CancelTransfer, GetTransfer, Begin, Idle
  <2> QED BY <1>1, <2>1
<1>5. CASE Retry \/ TimeOut \/ Crash
  <2>1. reply' = NoReply
    BY <1>5 DEF Retry, TimeOut, Crash, Awaiting
  <2> QED BY <1>1, <2>1
<1>6. CASE Created \/ CreateRefused \/ Unclear \/ Funded \/ Accepted \/ Rejected \/ Challenged \/ Cancelled
           \/ Refused \/ Checked
  <2>1. reply' = NoReply
    BY <1>6 DEF Created, CreateRefused, Unclear, Funded, Accepted, Rejected, Challenged, Cancelled, Refused,
      Checked, EndCall
  <2> QED BY <1>1, <2>1
<1>7. CASE CreateQuote \/ Abandon \/ TopUp \/ Clear \/ ViewStatement
  <2>1. reply' = NoReply
    BY <1>2, <1>7 DEF CreateQuote, Abandon, TopUp, Clear, ViewStatement, Idle
  <2> QED BY <1>1, <2>1
<1>8. ASSUME NEW r \in wire, Handle(r) PROVE ReplyInv'
  <2>1. CASE r.id = faults
    BY <1>8, <2>1, HandledTruly
  <2>2. CASE r.id # faults
    <3>1. UNCHANGED <<call, reply, live>>
      BY <1>8, <2>2, Handling
    <3>2. CASE call = NoCall
      BY <1>1, <1>2, <3>1, <3>2
    <3>3. CASE call # NoCall
      <4>1. call.on \in Transfers
        BY <3>3 DEF TypeOK, CallOK
      <4>2. /\ status[call.on] # "none" => status'[call.on] # "none"
            /\ status[call.on] \in {"funded", "cancelled"} => status'[call.on] = status[call.on]
            /\ call.on.quote \notin live /\ status'[call.on] # "none" => status[call.on] # "none"
        BY <1>8, <4>1, Moving
      <4> QED BY <3>1, <4>2 DEF ReplyInv, Succeeded
    <3> QED BY <3>2, <3>3
  <2> QED BY <2>1, <2>2
<1>9. CASE \E r \in wire : Lose(r)
  BY <1>3, <1>9 DEF Lose, wise
<1>10. CASE Expire
  BY <1>3, <1>10 DEF Expire
<1>11. CASE UNCHANGED vars
  BY <1>3, <1>11 DEF vars, wise
<1>12. CASE Settle
  <2>1. UNCHANGED <<call, reply, live>>
    BY <1>12 DEF Settle
  <2>2. CASE call = NoCall
    BY <1>1, <1>2, <2>1, <2>2
  <2>3. CASE call # NoCall
    <3>1. call.on \in Transfers
      BY <2>3 DEF TypeOK, CallOK
    <3>2. /\ status[call.on] = "none" <=> status'[call.on] = "none"
          /\ status[call.on] \in {"funded", "cancelled"} => status'[call.on] = status[call.on]
      BY <1>12, <3>1, Settling
    <3> QED BY <2>1, <3>2 DEF ReplyInv, Succeeded
  <2> QED BY <2>2, <2>3
<1> QED BY <1>4, <1>5, <1>6, <1>7, <1>8, <1>9, <1>10, <1>11, <1>12 DEF Next, Proceed

LEMMA ToldStep == IInv /\ [Next]_vars => ToldInv'
<1> SUFFICES ASSUME IInv, [Next]_vars PROVE ToldInv'
  OBVIOUS
<1> USE DEF IInv
<1>1. ASSUME UNCHANGED <<record, told, status>>, told = "open" \/ call' = call PROVE ToldInv'
  BY <1>1 DEF ToldInv
<1>2. call = NoCall => reply = NoReply
  BY DEF CallInv
<1>3. CASE CreateTransfer \/ FundTransfer \/ CancelTransfer \/ GetTransfer
  BY <1>1, <1>3 DEF CreateTransfer, FundTransfer, CancelTransfer, GetTransfer, Begin, Idle,
    consumer, wise
<1>4. CASE Retry \/ TimeOut
  <2>1. call # NoCall /\ UNCHANGED <<consumer, wise>>
    BY <1>4 DEF Retry, TimeOut, Awaiting
  <2> QED BY <1>1, <2>1 DEF ToldInv, consumer, wise
<1>5. reply # NoReply => told = "open"
  BY <1>2 DEF ToldInv
<1>6. CASE Created \/ CreateRefused \/ Unclear \/ Accepted \/ Rejected \/ Challenged \/ Refused
  <2>1. reply # NoReply /\ told' = told
    BY <1>6 DEF Created, CreateRefused, Unclear, Accepted, Rejected, Challenged, Refused, Returns, Fails,
      Running, consumer
  <2> QED BY <1>5, <2>1 DEF ToldInv
<1>7. ASSUME reply # NoReply, call.op # "create", EndCall, record' = record,
             told' = "paid" => status[call.on] = "funded",
             told' = "abandoned" => status[call.on] = "cancelled"
      PROVE  ToldInv'
  <2>1. record.transfer # NoTransfer /\ call.on = record.transfer
    BY <1>2, <1>7 DEF CallInv
  <2> QED BY <1>7, <2>1 DEF ToldInv, EndCall, wise
<1>8. CASE Funded
  <2>1. /\ reply # NoReply /\ call.op = "fund"
        /\ LET result == MapFundTransferResult(reply.body) IN
             result.status = "COMPLETED" \/ result.code = "payment.exists"
        /\ EndCall /\ told' = "paid" /\ record' = record
    BY <1>8 DEF Funded, Returns, Running
  <2>2. reply.body.status = "COMPLETED" \/ reply.body.code = "payment.exists"
    BY <2>1, NothingTold DEF MapFundTransferResult
  <2> QED BY <1>7, <2>1, <2>2 DEF ReplyInv
<1>9. CASE Cancelled
  <2>1. /\ reply # NoReply /\ call.op = "cancel" /\ Succeeded
        /\ MapTransfer(reply.body) # NoBody
        /\ EndCall /\ told' = "abandoned" /\ record' = record
    BY <1>9 DEF Cancelled, Returns, Running
  <2>2. reply.body.parses
    BY <2>1 DEF MapTransfer
  <2> QED BY <1>7, <2>1, <2>2 DEF ReplyInv
<1>10. CASE Checked
  <2>1. /\ reply # NoReply /\ call.op = "get" /\ EndCall /\ record' = record
        /\ told' = CASE reply.body.status = "funded" -> "paid"
                     [] reply.body.status = "cancelled" -> "abandoned"
                     [] OTHER -> told
    BY <1>10 DEF Checked, Returns, Running
  <2>2. /\ told' = "paid" => reply.body.status = "funded"
        /\ told' = "abandoned" => reply.body.status = "cancelled"
    BY <1>5, <2>1
  <2> QED BY <1>7, <2>1, <2>2 DEF ReplyInv
<1>11. CASE CreateQuote \/ Abandon
  BY <1>11 DEF CreateQuote, Abandon, Idle, ToldInv
<1>12. CASE TopUp \/ Clear \/ ViewStatement
  BY <1>1, <1>12 DEF TopUp, Clear, ViewStatement
<1>13. CASE Crash \/ Expire
  BY <1>1, <1>13 DEF Crash, Expire, consumer, wise
<1>14. ASSUME NEW r \in wire, Handle(r) PROVE ToldInv'
  <2>1. UNCHANGED <<told, record, call>>
    BY <1>14, Handling DEF consumer
  <2>2. record.transfer # NoTransfer =>
          /\ record.transfer \in Transfers
          /\ status[record.transfer] \in {"funded", "cancelled"}
               => status'[record.transfer] = status[record.transfer]
    BY <1>14, Moving DEF TypeOK, ConsumerOK, Records
  <2> QED BY <2>1, <2>2 DEF ToldInv
<1>15. CASE \E r \in wire : Lose(r)
  BY <1>1, <1>15 DEF Lose, consumer, wise
<1>16. CASE UNCHANGED vars
  BY <1>1, <1>16 DEF vars, consumer, wise
<1>17. CASE Settle
  <2>1. UNCHANGED <<told, record, call>>
    BY <1>17 DEF Settle, consumer
  <2>2. record.transfer # NoTransfer =>
          /\ record.transfer \in Transfers
          /\ status[record.transfer] \in {"funded", "cancelled"}
               => status'[record.transfer] = status[record.transfer]
    BY <1>17, Settling DEF TypeOK, ConsumerOK, Records
  <2> QED BY <2>1, <2>2 DEF ToldInv
<1> QED BY <1>3, <1>4, <1>6, <1>8, <1>9, <1>10, <1>11, <1>12, <1>13, <1>14, <1>15, <1>16, <1>17
  DEF Next, Proceed

-----------------------------------------------------------------------------
THEOREM Invariance == Spec => []IInv
<1>1. Init => IInv
  BY InitIsInvariant
<1>2. IInv /\ [Next]_vars => IInv'
  BY StepIsTyped, QuoteStep, RecordStep, CallStep, ReplyStep, ToldStep DEF IInv
<1> QED BY <1>1, <1>2, PTL DEF Spec

\* Every variable keeps to its type, whatever the options and bounds.
THEOREM TypeCorrect == Spec => []TypeOK
<1>1. IInv => TypeOK
  BY DEF IInv
<1> QED BY <1>1, Invariance, PTL

\* When the end of a payment is reported, no transfer of it waits for funds and no
\* request under way can make one, for any number of quotes, faults and tokens
\* (transfers.go:213-218, README.md:1071-1073).
THEOREM LeavesNothingOver == Spec => []NothingIsLeftOver
<1>1. IInv => NothingIsLeftOver
  <2> SUFFICES ASSUME IInv, told # "open" PROVE NothingIsLeftOver
    BY DEF NothingIsLeftOver
  <2>1. /\ record.transfer = Own /\ status[Own] \in {"funded", "cancelled"}
    BY DEF IInv, TypeOK, ConsumerOK, ToldInv, RecordInv
  <2>2. \A t \in Transfers : status[t] \notin {"waiting", "accepted"}
    BY <2>1 DEF IInv, QuoteInv
  <2>3. ASSUME NEW r \in wire, r.op = "create", r.on.quote \in live PROVE status[r.on] # "none"
    <3>1. r.on = Own
      BY <2>3 DEF IInv, QuoteInv, TypeOK, CallOK, Requests, Transfers, Own
    <3> QED BY <2>1, <3>1
  <2> QED BY <2>2, <2>3 DEF NothingIsLeftOver
<1> QED BY <1>1, Invariance, PTL

-----------------------------------------------------------------------------
(***************************************************************************)
(* Options.  What a list of them leaves of the host is an induction over   *)
(* the list, made through the set of the lengths it holds for.             *)
(***************************************************************************)

\* A set that holds zero and with each number the next holds them all.
LEMMA Induction ==
  ASSUME NEW S, 0 \in S, \A n \in Nat : n \in S => n + 1 \in S
  PROVE  Nat \subseteq S
<1> DEFINE Less == {ss \in Nat \X Nat : ss[1] < ss[2]}
<1> SUFFICES ASSUME Nat \ S # {} PROVE FALSE
  OBVIOUS
<1>1. IsWellFoundedOn(Less, Nat)
  BY NatLessThanWellFounded DEF OpToRel
<1>2. PICK x \in Nat \ S : \A y \in Nat \ S : ~(<<y, x>> \in Less)
  <2> HIDE DEF Less
  <2> QED BY <1>1, WFMin
<1>3. x # 0 /\ x - 1 \in Nat \ S /\ <<x - 1, x>> \in Nat \X Nat
  <2>1. x # 0 /\ x - 1 \in Nat /\ (x - 1) + 1 = x
    OBVIOUS
  <2> QED BY <2>1
<1>4. <<x - 1, x>>[1] = x - 1 /\ <<x - 1, x>>[2] = x /\ x - 1 < x
  OBVIOUS
<1> QED BY Zenon, <1>2, <1>3, <1>4

\* The recursion of After is one: there is a function it describes.
LEMMA AfterIsDefined ==
  ASSUME NEW list, Len(list) \in Nat
  PROVE  After(list) =
           [n \in 0..Len(list) |->
              IF n = 0 THEN DefaultConfig ELSE Apply(After(list)[n - 1], list[n])]
<1> DEFINE F(f, m) == f = [n \in 0..m |-> IF n = 0 THEN DefaultConfig ELSE Apply(f[n - 1], list[n])]
           S == {m \in Nat : \E f : F(f, m)}
<1>1. 0 \in S
  <2>1. F([n \in 0..0 |-> DefaultConfig], 0)
    OBVIOUS
  <2> QED BY <2>1
<1>2. ASSUME NEW m \in Nat, m \in S PROVE m + 1 \in S
  <2>1. PICK f : F(f, m)
    BY <1>2
  <2> DEFINE g == [n \in 0..m + 1 |-> IF n = 0 THEN DefaultConfig ELSE Apply(f[n - 1], list[n])]
  <2>2. ASSUME NEW n \in 0..m PROVE g[n] = f[n]
    <3>1. f[n] = IF n = 0 THEN DefaultConfig ELSE Apply(f[n - 1], list[n])
      BY <2>1
    <3> QED BY <3>1
  <2>3. ASSUME NEW n \in 0..m + 1, n # 0 PROVE f[n - 1] = g[n - 1]
    <3>1. n - 1 \in 0..m
      BY <2>3
    <3> HIDE DEF g
    <3> QED BY <2>2, <3>1
  <2>4. ASSUME NEW n \in 0..m + 1
        PROVE  g[n] = IF n = 0 THEN DefaultConfig ELSE Apply(g[n - 1], list[n])
    <3>1. g[n] = IF n = 0 THEN DefaultConfig ELSE Apply(f[n - 1], list[n])
      OBVIOUS
    <3> HIDE DEF g
    <3> QED BY <2>3, <3>1
  <2>5. g = [n \in 0..m + 1 |-> g[n]]
    OBVIOUS
  <2>6. F(g, m + 1)
    <3> HIDE DEF g
    <3> QED BY <2>4, <2>5
  <2> HIDE DEF F, g
  <2> QED BY <2>6
<1>3. \E f : F(f, Len(list))
  <2> HIDE DEF F
  <2> QED BY <1>1, <1>2, Induction
<1> QED BY <1>3 DEF After

\* The host a list of options has named by its n-th, "" for none.
Named(list, n, host) ==
  \/ host = "" /\ \A i \in 1..n : "baseURL" \notin DOMAIN list[i]
  \/ \E i \in 1..n :
       /\ "baseURL" \in DOMAIN list[i] /\ host = list[i].baseURL
       /\ \A j \in 1..n : "baseURL" \in DOMAIN list[j] => j <= i

\* Each option overwrites what it names and nothing else, so the last one stays.
LEMMA LastHostStays ==
  ASSUME NEW list, Len(list) \in Nat
  PROVE  /\ DOMAIN After(list)[Len(list)] = DOMAIN DefaultConfig
         /\ Named(list, Len(list), After(list)[Len(list)].baseURL)
<1> DEFINE Holds(n) == /\ DOMAIN After(list)[n] = DOMAIN DefaultConfig
                       /\ Named(list, n, After(list)[n].baseURL)
           S == {n \in Nat : n <= Len(list) => Holds(n)}
<1>1. 0 \in S
  <2>1. After(list)[0] = DefaultConfig
    BY AfterIsDefined
  <2>2. DefaultConfig.baseURL = ""
    BY DEF DefaultConfig
  <2>3. Named(list, 0, "")
    BY DEF Named
  <2>4. Holds(0)
    <3> HIDE DEF Named
    <3> QED BY <2>1, <2>2, <2>3
  <2> HIDE DEF Holds
  <2> QED BY <2>4
<1>2. ASSUME NEW n \in Nat, n \in S PROVE n + 1 \in S
  <2> SUFFICES ASSUME n + 1 <= Len(list) PROVE Holds(n + 1)
    OBVIOUS
  <2> DEFINE before == After(list)[n]
             o == list[n + 1]
  <2>1. Holds(n)
    BY <1>2
  <2>2. After(list)[n + 1] = Apply(before, o)
    <3>1. n + 1 \in 0..Len(list) /\ n + 1 # 0 /\ (n + 1) - 1 = n
      OBVIOUS
    <3> QED BY <3>1, AfterIsDefined
  <2>3. "baseURL" \in DOMAIN before
    BY <2>1 DEF DefaultConfig
  <2>4. DOMAIN Apply(before, o) = DOMAIN DefaultConfig
    BY <2>1 DEF Apply
  <2>5. Apply(before, o).baseURL = IF "baseURL" \in DOMAIN o THEN o.baseURL ELSE before.baseURL
    BY <2>3 DEF Apply
  <2> HIDE DEF before
  <2>6. Named(list, n + 1, Apply(before, o).baseURL)
    <3>0. Named(list, n, before.baseURL)
      BY <2>1 DEF before
    <3>1. 1..n + 1 = 1..n \cup {n + 1} /\ \A i \in 1..n : i <= n + 1
      OBVIOUS
    <3>2. CASE "baseURL" \in DOMAIN o
      <4> DEFINE host == Apply(before, o).baseURL
      <4>1. n + 1 \in 1..n + 1 /\ host = list[n + 1].baseURL
        BY <2>5, <3>2
      <4>2. \A j \in 1..n + 1 : j <= n + 1
        OBVIOUS
      <4> HIDE DEF host
      <4>3. Named(list, n + 1, host)
        BY <3>2, <4>1, <4>2 DEF Named
      <4> QED BY <4>3 DEF host
    <3>3. CASE "baseURL" \notin DOMAIN o
      BY <2>5, <3>0, <3>1, <3>3 DEF Named
    <3> QED BY <3>2, <3>3
  <2> QED BY <2>2, <2>4, <2>6
<1>3. Len(list) \in S
  <2> HIDE DEF S
  <2> QED BY <1>1, <1>2, Induction
<1> QED BY <1>3

\* The last position of a set is the one none is after.
LEMMA LastPosition ==
  ASSUME NEW S, S \subseteq Int, NEW i \in S, \A j \in S : j <= i
  PROVE  (CHOOSE k \in S : \A j \in S : j <= k) = i
<1>1. \A k \in S : (\A j \in S : j <= k) => k = i
  OBVIOUS
<1> QED BY <1>1

\* A client of the consumer's options goes to the chosen host, also with a token.
LEMMA ClientsKeepTheHost ==
  ASSUME TypeOK, NEW c \in Clients
  PROVE  c.baseURL = ChosenHost
<1>1. options \in Seq({options[i] : i \in DOMAIN options})
  BY OptionsAssumption DEF TypeOK, ConsumerOK
<1>2. Len(options) \in Nat /\ DOMAIN options = 1..Len(options)
  BY <1>1
<1> DEFINE naming == {i \in DOMAIN options : "baseURL" \in DOMAIN options[i]}
           last == CHOOSE i \in naming : \A j \in naming : j <= i
           Host(host) == IF host = "" THEN ProductionURL ELSE host
<1>3. ASSUME NEW host, Named(options, Len(options), host) PROVE Host(host) = ChosenHost
  <2>1. CASE host = "" /\ \A i \in 1..Len(options) : "baseURL" \notin DOMAIN options[i]
    BY <1>2, <2>1 DEF ChosenHost
  <2>2. ASSUME NEW i \in 1..Len(options),
               /\ "baseURL" \in DOMAIN options[i] /\ host = options[i].baseURL
               /\ \A j \in 1..Len(options) : "baseURL" \in DOMAIN options[j] => j <= i
        PROVE  Host(host) = ChosenHost
    <3>1. i \in naming /\ naming \subseteq Int /\ \A j \in naming : j <= i
      BY <1>2, <2>2
    <3>2. last = i
      <4> HIDE DEF naming
      <4> QED BY <3>1, LastPosition
    <3> QED BY <2>2, <3>1, <3>2 DEF ChosenHost
  <2> QED BY <1>3, <2>1, <2>2 DEF Named
<1>4. New(options).baseURL = ChosenHost
  <2>1. Named(options, Len(options), After(options)[Len(options)].baseURL)
    BY <1>2, LastHostStays
  <2> QED BY <1>3, <2>1 DEF New
<1>5. ASSUME NEW t \in Tokens PROVE ReplayClient(t).baseURL = ChosenHost
  <2> DEFINE list == Append(options, WithSCAApprovalToken(t))
             host == After(list)[Len(list)].baseURL
  <2>1. /\ Len(list) = Len(options) + 1 /\ list[Len(options) + 1] = WithSCAApprovalToken(t)
        /\ \A i \in 1..Len(options) : list[i] = options[i]
    BY <1>1
  <2>2. "baseURL" \notin DOMAIN WithSCAApprovalToken(t)
    BY DEF WithSCAApprovalToken
  <2>3. Named(list, Len(list), host)
    <3>1. Len(list) \in Nat
      BY <1>2, <2>1
    <3> HIDE DEF list
    <3> QED BY <3>1, LastHostStays
  <2> HIDE DEF list, host
  <2>4. Named(options, Len(options), host)
    <3>1. 1..Len(list) = 1..Len(options) \cup {Len(options) + 1}
      BY <1>2, <2>1
    <3> QED BY <1>2, <2>1, <2>2, <2>3, <3>1 DEF Named
  <2>5. Host(host) = ChosenHost
    BY <1>3, <2>4
  <2> QED BY <2>5 DEF ReplayClient, New, list, host
<1> QED BY <1>4, <1>5 DEF Clients

\* Whatever the options, every request of an operation carries its correlation ID, a
\* replaying client's too, and those of the consumer's own client go to the host the
\* options chose last (options.go:113-139, client.go:460-478).
THEOREM RequestsKeepTheTrail == Spec => []OneTrail
<1>1. TypeOK => OneTrail
  <2> SUFFICES ASSUME TypeOK, NEW r \in wire
               PROVE  /\ r.headers.correlationID = OperationID
                      /\ r.headers.approval = NoToken => r.headers.baseURL = ChosenHost
    BY DEF OneTrail
  <2>1. PICK c \in Clients : r.headers = SetHeaders(c, OperationID)
    BY DEF TypeOK, CallOK, Requests
  <2>2. c.baseURL = ChosenHost
    BY ClientsKeepTheHost
  <2>3. SetHeaders(c, OperationID).correlationID = OperationID
    BY OperationAssumption DEF SetHeaders
  <2>4. SetHeaders(c, OperationID).baseURL = c.baseURL
    BY DEF SetHeaders
  <2> QED BY <2>1, <2>2, <2>3, <2>4
<1> QED BY <1>1, TypeCorrect, PTL

-----------------------------------------------------------------------------
LEMMA OneAtMost ==
  ASSUME NEW f, NEW own, \A t \in Transfers : f[t] # "none" => t = own
  PROVE  Cardinality({t \in Transfers : f[t] = "funded"}) =
           IF own \in Transfers /\ f[own] = "funded" THEN 1 ELSE 0
<1>1. CASE own \in Transfers /\ f[own] = "funded"
  <2>1. {t \in Transfers : f[t] = "funded"} = {own}
    BY <1>1
  <2>2. Cardinality({own}) = 1
    BY FS_Singleton, Zenon
  <2> QED BY <1>1, <2>1, <2>2
<1>2. CASE ~(own \in Transfers /\ f[own] = "funded")
  <2>1. {t \in Transfers : f[t] = "funded"} = {}
    BY <1>2
  <2>2. Cardinality({}) = 0
    BY FS_EmptySet, Zenon
  <2> QED BY <1>2, <2>1, <2>2
<1> QED BY <1>1, <1>2

\* The one transfer there can be is paid, and the debits are those of it.
OwnIsFunded == Own \in Transfers /\ status[Own] = "funded"

LEMMA DebitsOfOwn == IInv => Debits = IF OwnIsFunded THEN 1 ELSE 0
BY OneAtMost DEF IInv, QuoteInv, Debits, OwnIsFunded

\* What is reported is true, and reported of what is still open.
LEMMA Reporting ==
  ASSUME IInv, [Next]_vars, told' # told
  PROVE  /\ told = "open" /\ UNCHANGED <<record, status>>
         /\ \/ told' = "paid" /\ OwnIsFunded
            \/ told' = "abandoned" /\ ~OwnIsFunded
<1> DEFINE Open == told = "open" /\ UNCHANGED <<record, status>>
<1>1. ToldInv'
  BY ToldStep
<1>2. /\ record.transfer # NoTransfer => record.transfer = Own /\ Own \in Transfers
      /\ reply # NoReply => told = "open"
  BY DEF IInv, RecordInv, ToldInv, CallInv, TypeOK, ConsumerOK, Records
<1>3. CASE Funded \/ Cancelled \/ Checked
  <2>1. Open /\ told' \in {"paid", "abandoned"}
    BY <1>2, <1>3 DEF Funded, Cancelled, Checked, Returns, Running, EndCall, wise
  <2> QED BY <1>1, <1>2, <2>1 DEF ToldInv, OwnIsFunded
<1>4. CASE CreateQuote \/ CreateTransfer \/ FundTransfer \/ CancelTransfer \/ GetTransfer \/ Retry
  BY <1>4 DEF CreateQuote, CreateTransfer, FundTransfer, CancelTransfer, GetTransfer, Begin, Retry,
    consumer
<1>5. CASE Created \/ CreateRefused \/ Unclear \/ Accepted \/ Rejected \/ Challenged \/ Refused
  BY <1>5 DEF Created, CreateRefused, Unclear, Accepted, Rejected, Challenged, Refused, consumer
<1>6. CASE TopUp \/ Clear \/ ViewStatement \/ Abandon \/ TimeOut \/ Crash \/ Expire \/ Settle
           \/ UNCHANGED vars
  BY <1>6 DEF TopUp, Clear, ViewStatement, Abandon, TimeOut, Crash, Expire, Settle, vars, consumer
<1>7. CASE \E r \in wire : Handle(r) \/ Lose(r)
  BY <1>7 DEF Handle, Lose, consumer
<1> QED BY <1>3, <1>4, <1>5, <1>6, <1>7 DEF Next, Proceed

\* The only transfer is paid at most once, and not when the payment has come to its end.
LEMMA Paying ==
  ASSUME IInv, [Next]_vars
  PROVE  \/ OwnIsFunded' = OwnIsFunded
         \/ ~OwnIsFunded /\ OwnIsFunded' /\ told = "open" /\ told' = told
<1> DEFINE Same == UNCHANGED <<record, status>>
<1>1. Same => OwnIsFunded' = OwnIsFunded
  BY DEF OwnIsFunded, Own
<1>2. CASE CreateTransfer \/ FundTransfer \/ CancelTransfer \/ GetTransfer \/ Retry \/ TimeOut
  <2>1. Same
    BY <1>2 DEF CreateTransfer, FundTransfer, CancelTransfer, GetTransfer, Begin, Retry, TimeOut,
      consumer, wise
  <2> QED BY <1>1, <2>1
<1>3. CASE Unclear \/ Funded \/ Accepted \/ Rejected \/ Challenged \/ Cancelled \/ Refused \/ Checked
  <2>1. Same
    BY <1>3 DEF Unclear, Funded, Accepted, Rejected, Challenged, Cancelled, Refused, Checked, EndCall,
      consumer, wise
  <2> QED BY <1>1, <2>1
<1>4. CASE TopUp \/ Clear \/ ViewStatement \/ Crash \/ Expire \/ UNCHANGED vars
  <2>1. Same
    BY <1>4 DEF TopUp, Clear, ViewStatement, Crash, Expire, vars, consumer, wise
  <2> QED BY <1>1, <2>1
<1>5. CASE Created \/ Abandon
  <2>1. record'.quote = record.quote /\ status' = status
    BY <1>5 DEF Created, Abandon, EndCall, wise, IInv, TypeOK, ConsumerOK, Records
  <2> QED BY <2>1 DEF OwnIsFunded, Own
<1>6. CASE CreateRefused \/ CreateQuote
  <2>1. status' = status /\ \A t \in Transfers : status[t] = "none"
    <3>1. CASE CreateRefused
      <4>1. call.op = "create" /\ call # NoCall /\ status[call.on] = "none"
        BY <3>1 DEF CreateRefused, Fails, Running, IInv, ReplyInv, NoCall
      <4> QED BY <3>1, <4>1 DEF CreateRefused, EndCall, wise, IInv, CallInv, QuoteInv
    <3>2. CASE CreateQuote
      <4>1. Own \notin Transfers
        BY <3>2, Constants DEF CreateQuote, Own, Transfers
      <4> QED BY <3>2, <4>1 DEF CreateQuote, IInv, QuoteInv
    <3> QED BY <1>6, <3>1, <3>2
  <2> QED BY <2>1 DEF OwnIsFunded
<1>7. CASE \E r \in wire : Handle(r)
  <2>1. PICK r \in wire : Handle(r)
    BY <1>7
  <2>2. UNCHANGED <<record, told>>
    BY <2>1, Handling DEF IInv, consumer
  <2>3. UNCHANGED Own
    BY <2>2 DEF Own
  <2>4. CASE OwnIsFunded' = OwnIsFunded
    BY <2>4
  <2>5. CASE OwnIsFunded' # OwnIsFunded
    <3>1. Own \in Transfers /\ ~OwnIsFunded /\ OwnIsFunded'
      BY <2>1, <2>3, <2>5, Moving DEF IInv, OwnIsFunded
    <3>2. told # "open" => status[Own] \in {"funded", "cancelled"}
      BY DEF IInv, ToldInv, RecordInv, TypeOK, ConsumerOK
    <3>3. told = "open"
      BY <2>1, <2>3, <3>1, <3>2, Moving DEF IInv, OwnIsFunded
    <3> QED BY <2>2, <3>1, <3>3
  <2> QED BY <2>4, <2>5
<1>8. CASE \E r \in wire : Lose(r)
  BY <1>1, <1>8 DEF Lose, consumer, wise
<1>9. CASE Settle
  <2>1. UNCHANGED <<record, told>> /\ UNCHANGED Own
    BY <1>9 DEF Settle, consumer, Own
  <2>2. CASE OwnIsFunded' = OwnIsFunded
    BY <2>2
  <2>3. CASE OwnIsFunded' # OwnIsFunded
    <3>1. Own \in Transfers /\ ~OwnIsFunded /\ OwnIsFunded'
      BY <1>9, <2>1, <2>3, Settling DEF IInv, OwnIsFunded
    <3>2. told # "open" => status[Own] \in {"funded", "cancelled"}
      BY DEF IInv, ToldInv, RecordInv, TypeOK, ConsumerOK
    <3>3. told = "open"
      BY <1>9, <2>1, <3>1, <3>2, Settling DEF IInv, OwnIsFunded
    <3> QED BY <2>1, <3>1, <3>3
  <2> QED BY <2>2, <2>3
<1> QED BY <1>2, <1>3, <1>4, <1>5, <1>6, <1>7, <1>8, <1>9 DEF Next, Proceed

\* The methods, used as the README shows, are a Payment for any options, quotes,
\* tokens and faults: the balance is debited at most once and not after the payment
\* was said to be abandoned, and what is said is true.
THEOREM Implementation == Spec => ImplementsPayment
<1> DEFINE Count == Debits = IF OwnIsFunded THEN 1 ELSE 0
<1>1. Init => AbstractPayment!Init
  <2> SUFFICES ASSUME Init PROVE Debits = 0 /\ told = "open"
    BY DEF AbstractPayment!Init
  <2>1. ~OwnIsFunded
    BY DEF Init, OwnIsFunded
  <2> QED BY <2>1, DebitsOfOwn, InitIsInvariant DEF Init
<1>2. ASSUME IInv, [Next]_vars, Count, Count' PROVE [AbstractPayment!Next]_<<Debits, told>>
  <2>1. CASE told' # told
    <3>1. UNCHANGED OwnIsFunded
      BY <1>2, <2>1, Reporting DEF OwnIsFunded, Own
    <3>2. Debits' = Debits
      BY <1>2, <3>1
    <3>3. \/ told = "open" /\ told' = "paid" /\ Debits = 1
          \/ told = "open" /\ told' = "abandoned" /\ Debits = 0
      BY <1>2, <2>1, Reporting
    <3> QED BY <3>2, <3>3 DEF AbstractPayment!Next, AbstractPayment!TellPaid, AbstractPayment!TellAbandoned
  <2>2. CASE told' = told /\ OwnIsFunded' = OwnIsFunded
    <3>1. Debits' = Debits
      BY <1>2, <2>2
    <3> QED BY <2>2, <3>1
  <2>3. CASE told' = told /\ ~OwnIsFunded /\ OwnIsFunded' /\ told = "open"
    <3>1. Debits = 0 /\ Debits' = 1
      BY <1>2, <2>3
    <3> QED BY <2>3, <3>1 DEF AbstractPayment!Next, AbstractPayment!Debit
  <2> QED BY <1>2, <2>1, <2>2, <2>3, Paying
<1>3. IInv => Count
  BY DebitsOfOwn
<1> HIDE DEF Count
<1>4. IInv /\ IInv' /\ [Next]_vars => [AbstractPayment!Next]_<<Debits, told>>
  <2>1. IInv' => Count'
    BY <1>3, PTL
  <2> QED BY <1>2, <1>3, <2>1
<1>5. Init /\ []IInv /\ [][Next]_vars
        => AbstractPayment!Init /\ [][AbstractPayment!Next]_<<Debits, told>>
  BY <1>1, <1>4, PTL
<1> QED BY <1>5, Invariance, PTL DEF Spec, ImplementsPayment, AbstractPayment!Spec, AbstractPayment!vars
=============================================================================
