----------------------------- MODULE Responses ------------------------------
(***************************************************************************)
(* From the body of an answer to the result of a method: every public      *)
(* method that parses what Wise sends, with the mapper it calls, row by    *)
(* row and field by field, in the order of the code.  A mapper stops at    *)
(* the first field it cannot parse and takes the whole call with it.       *)
(* ReadContract says what the caller may rely on.                          *)
(***************************************************************************)
EXTENDS WireTypes

VARIABLES
  endpoint,  \* the method called
  answer,    \* the decoded body
  outcome,   \* of the call
  got,       \* the rows mapped so far
  row,       \* the row being mapped
  col        \* the next check of its mapper

callVars == <<endpoint, answer, outcome, got>>
vars == <<callVars, row, col>>

(***************************************************************************)
(* The mappers: the fields in the order they are parsed.  A field may be   *)
(* tested for absence first, and its failure is classified as corruption,  *)
(* by the mapper or by toMoney, or left a plain error.                     *)
(***************************************************************************)
Must(f) == [field |-> f, mayBeAbsent |-> FALSE, fails |-> "corruption"]
May(f) == [Must(f) EXCEPT !.mayBeAbsent = TRUE]
Plainly(f) == [Must(f) EXCEPT !.fails = "plain"]

mapProfile == <<Must("createdAt"), Must("type")>>
mapUser == <<May("dateOfBirth")>>
mapBalance ==
  <<Must("creationTime"), Must("type"), Must("currency"), Must("amount"), Must("reservedAmount")>>
mapTotalFunds == <<Must("totalWorth"), Must("totalAvailable")>>
mapMultiCurrencyAccount == <<Must("creationTime"), Must("modificationTime")>>
mapAccountDetails == <<Must("accountIdentification")>>
mapCurrency == <<>>

\* Mutant: a transaction without exchange details does not parse.
mapTransactionExchanged ==
  <<Must("date"), Must("amount"), Must("totalFees"), Must("runningBalance"),
    Must("exchangeDetails")>>

mapTransaction ==
  <<Must("date"), Must("amount"), Must("totalFees"), Must("runningBalance"),
    May("exchangeDetails")>>
mapStatement == <<Must("endOfStatementBalance")>>
mapExchangeRate == <<Must("time"), Must("source"), Must("target")>>
mapRecipient == <<Must("currency")>>
mapQuote ==
  <<Must("createdTime"), Must("expirationTime"), Must("sourceCurrency"), Must("targetCurrency")>>
mapQuotePaymentOptions ==
  <<Must("estimatedDelivery"), Must("sourceCurrency"), Must("targetCurrency")>>
parseQuoteRateExpiration == <<May("rateExpirationTime")>>
mapTransferPayment == <<Must("timeCreated"), Must("timeUpdated"), Must("currency")>>
mapDeliveryEstimate == <<Must("estimatedDeliveryDate")>>
mapTransfer == <<Plainly("created"), Must("source"), Must("target")>>
mapFundTransferResult == <<Must("type"), Must("status")>>
toThirdPartyTransfer == <<Must("created"), Must("sourceCurrency"), Must("targetCurrency")>>
toWebhookSubscription == <<Must("createdAt")>>

Mapper ==
  [profile |-> mapProfile, user |-> mapUser, balance |-> mapBalance, funds |-> mapTotalFunds,
   account |-> mapMultiCurrencyAccount, details |-> mapAccountDetails, currency |-> mapCurrency,
   transaction |-> mapTransaction, statement |-> mapStatement, rate |-> mapExchangeRate,
   recipient |-> mapRecipient, quote |-> mapQuote, option |-> mapQuotePaymentOptions,
   quoteEnd |-> parseQuoteRateExpiration, payment |-> mapTransferPayment,
   estimate |-> mapDeliveryEstimate, transfer |-> mapTransfer,
   funding |-> mapFundTransferResult, thirdParty |-> toThirdPartyTransfer,
   subscription |-> toWebhookSubscription]

(***************************************************************************)
(* The methods: whether they check their arguments before they ask, what   *)
(* comes before, in and after a listing, and whether the failure of a      *)
(* row's mapper is wrapped as corruption once more.                        *)
(***************************************************************************)
One(type) ==
  [checks |-> TRUE, before |-> <<type>>, each |-> {}, after |-> <<>>, wraps |-> FALSE]
Listing(type) == [One(type) EXCEPT !.before = <<>>, !.each = {type}]
Unchecked(e) == [e EXCEPT !.checks = FALSE]
Wrapping(e) == [e EXCEPT !.wraps = TRUE]

GetProfile == One("profile")
ListProfiles == Unchecked(Listing("profile"))
GetMe == Unchecked(One("user"))
GetUser == One("user")
ListBalances == Unchecked(Listing("balance"))
GetBalance == One("balance")
CreateBalance == One("balance")
GetTotalFunds == One("funds")
GetMultiCurrencyAccount == One("account")
GetBankAccountDetails == One("details")
ListCurrencies == Unchecked(Listing("currency"))
ListTransactions == [Listing("transaction") EXCEPT !.after = <<"statement">>]
GetExchangeRate == Listing("rate")
ListRecipients == Wrapping(Listing("recipient"))
GetRecipient == One("recipient")
CreateRecipient == One("recipient")
QuoteCall == [One("quote") EXCEPT !.each = {"option"}, !.after = <<"quoteEnd">>]

\* Mutant: the page leaves the classification to the mapper.
ListTransfersUnwrapped == Unchecked(Listing("transfer"))

ListTransfers == Wrapping(Unchecked(Listing("transfer")))
GetTransfer == One("transfer")
CreateTransfer == One("transfer")
CancelTransfer == One("transfer")
FundTransfer == One("funding")
ListTransferPayments == Listing("payment")
GetDeliveryEstimate == One("estimate")
CreateThirdPartyTransfer == One("thirdParty")
GetThirdPartyTransfer == One("thirdParty")
CreateProfileWebhookSubscription == One("subscription")
GetProfileWebhookSubscription == One("subscription")
ListProfileWebhookSubscriptions == Listing("subscription")

Methods ==
  [GetProfile |-> GetProfile, ListProfiles |-> ListProfiles, GetMe |-> GetMe,
   GetUser |-> GetUser, ListBalances |-> ListBalances, GetBalance |-> GetBalance,
   CreateBalance |-> CreateBalance, GetTotalFunds |-> GetTotalFunds,
   GetMultiCurrencyAccount |-> GetMultiCurrencyAccount,
   GetBankAccountDetails |-> GetBankAccountDetails, ListCurrencies |-> ListCurrencies,
   ListTransactions |-> ListTransactions, GetExchangeRate |-> GetExchangeRate,
   ListRecipients |-> ListRecipients, GetRecipient |-> GetRecipient,
   CreateRecipient |-> CreateRecipient, CreateUnauthenticatedQuote |-> QuoteCall,
   CreateQuote |-> QuoteCall, GetQuote |-> QuoteCall, ListTransfers |-> ListTransfers,
   GetTransfer |-> GetTransfer, CreateTransfer |-> CreateTransfer,
   CancelTransfer |-> CancelTransfer, FundTransfer |-> FundTransfer,
   ListTransferPayments |-> ListTransferPayments, GetDeliveryEstimate |-> GetDeliveryEstimate,
   CreateThirdPartyTransfer |-> CreateThirdPartyTransfer,
   GetThirdPartyTransfer |-> GetThirdPartyTransfer,
   CreateProfileWebhookSubscription |-> CreateProfileWebhookSubscription,
   GetProfileWebhookSubscription |-> GetProfileWebhookSubscription,
   ListProfileWebhookSubscriptions |-> ListProfileWebhookSubscriptions]

Layouts(m) ==
  {m.before \o rows \o m.after : rows \in UNION {[1..n -> m.each] : n \in 0..MaxRows}}

(***************************************************************************)
(* The call.                                                               *)
(***************************************************************************)
Init ==
  /\ endpoint = "none" /\ answer = <<>> /\ outcome = "idle" /\ got = {}
  /\ row = 0 /\ col = 0

\* Arguments that do not pass the method's checks never leave the client; a
\* method without checks sends them.
Request(e) ==
  /\ outcome = "idle"
  /\ endpoint' = e
  /\ \E valid \in BOOLEAN :
       outcome' = IF Methods[e].checks /\ ~valid THEN "rejection" ELSE "waiting"
  /\ UNCHANGED <<answer, got, row, col>>

\* The request fails, with an error of client.go.
Unanswered ==
  /\ outcome = "waiting"
  /\ outcome' = "unanswered"
  /\ UNCHANGED <<endpoint, answer, got, row, col>>

\* A body that is no JSON, or JSON of another shape; of GetExchangeRate the client
\* captures any JSON, and the shape is looked at afterwards.
Undecodable ==
  /\ outcome = "waiting"
  /\ outcome' \in {"corruption"} \cup (IF endpoint = "GetExchangeRate" THEN {"plain"} ELSE {})
  /\ UNCHANGED <<endpoint, answer, got, row, col>>

\* Which row of the rates is mapped.
ChosenRate(a) ==
  LET pair == {i \in DOMAIN a : a[i].wanted}
  IN  IF pair # {} THEN Min(pair) ELSE 1

Decoded ==
  /\ outcome = "waiting"
  /\ \E layout \in Layouts(Methods[endpoint]) : answer' \in Answers(layout)
  /\ outcome' = "mapping"
  /\ row' = IF endpoint = "GetExchangeRate" THEN ChosenRate(answer') ELSE 1
  /\ col' = 1
  /\ UNCHANGED <<endpoint, got>>

\* No rates at all.
EmptyRateList ==
  /\ outcome = "mapping"
  /\ endpoint = "GetExchangeRate"
  /\ answer = <<>>
  /\ outcome' = "corruption"
  /\ UNCHANGED <<endpoint, answer, got, row, col>>

More == outcome = "mapping" /\ row \in DOMAIN answer

\* Mutant: the filter comes after the mapper.
SkipsNone(r) == FALSE

Skips(r) == endpoint = "ListBalances" /\ ~r.wanted

SkipRow ==
  /\ More
  /\ col = 1 /\ Skips(answer[row])
  /\ row' = row + 1
  /\ UNCHANGED <<callVars, col>>

Checks == Mapper[answer[row].type]

Parses(check, cell) == cell = "good" \/ (cell = "absent" /\ check.mayBeAbsent)

MapField ==
  /\ More /\ ~Skips(answer[row])
  /\ col \in DOMAIN Checks
  /\ Parses(Checks[col], answer[row].cells[Checks[col].field])
  /\ col' = col + 1
  /\ UNCHANGED <<callVars, row>>

\* The rows mapped so far are dropped with the error.
MapFails ==
  /\ More /\ ~Skips(answer[row])
  /\ col \in DOMAIN Checks
  /\ ~Parses(Checks[col], answer[row].cells[Checks[col].field])
  /\ outcome' = IF Methods[endpoint].wraps THEN "corruption" ELSE Checks[col].fails
  /\ got' = {}
  /\ UNCHANGED <<endpoint, answer, row, col>>

\* One rate is enough.
AppendRow ==
  /\ More /\ ~Skips(answer[row])
  /\ col > Len(Checks)
  /\ got' = got \cup {row}
  /\ row' = IF endpoint = "GetExchangeRate" THEN Len(answer) + 1 ELSE row + 1
  /\ col' = 1
  /\ UNCHANGED <<endpoint, answer, outcome>>

Return ==
  /\ outcome = "mapping"
  /\ row > Len(answer)
  /\ endpoint = "GetExchangeRate" => answer # <<>>
  /\ outcome' = "value"
  /\ UNCHANGED <<endpoint, answer, got, row, col>>

\* The caller is done with the result.
Clear ==
  /\ outcome \in {"value", "rejection", "unanswered", "corruption", "plain"}
  /\ endpoint' = "none" /\ answer' = <<>> /\ outcome' = "idle" /\ got' = {}
  /\ row' = 0 /\ col' = 0

Mapping == EmptyRateList \/ SkipRow \/ MapField \/ MapFails \/ AppendRow \/ Return

Next ==
  \/ \E e \in DOMAIN Methods : Request(e)
  \/ Unanswered \/ Undecodable \/ Decoded
  \/ Mapping
  \/ Clear

\* Mapping is a loop of one goroutine over an answer it holds.
Spec == Init /\ [][Next]_vars /\ WF_vars(Mapping)

(***************************************************************************)
(* Properties.                                                             *)
(***************************************************************************)

\* What the caller sees of a call under way.
Contract == INSTANCE ReadContract WITH got <- IF outcome = "value" THEN got ELSE {}

\* Every method keeps its promise: a value is made of exactly the rows the caller
\* is entitled to, each of them well formed in every field of its wire type, a
\* failure has a malformed row behind it, never one that is left out (a hidden
\* balance, a rate for another pair), and a call that is answered ends.
KeepsItsPromise == Contract!Spec

\* A failed mapping has stopped at a malformed row of those the caller is entitled
\* to, and all the earlier ones are well formed: one bad row hides the good rows
\* behind it, and no row is ever reported in place of an earlier one.
FirstFlawDecides ==
  outcome \in {"corruption", "plain"} /\ answer # <<>> =>
    /\ row \in Contract!Due(endpoint, answer)
    /\ ~WellFormed(answer[row])
    /\ \A i \in Contract!Due(endpoint, answer) : i < row => WellFormed(answer[i])

\* The only malformed row that is not classified as corruption is a transfer
\* whose creation time does not parse, from a method that returns one transfer.
\* The same transfer is corruption when ListTransfers meets it (mapTransfer).  A
\* body of another shape, which is plain of GetExchangeRate (rates.go:88-92), has no row.
PlainFailuresAreTransfers ==
  outcome = "plain" /\ answer # <<>> =>
    /\ answer[row].type = "transfer"
    /\ answer[row].cells.created # "good"
    /\ endpoint \in {"GetTransfer", "CreateTransfer", "CancelTransfer"}
=============================================================================
