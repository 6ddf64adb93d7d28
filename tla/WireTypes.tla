----------------------------- MODULE WireTypes ------------------------------
(***************************************************************************)
(* The wire types of internal/raw as schemas: the fields a result is built *)
(* from, with what each has to hold, and the answers made of them.  Names, *)
(* flags and free texts are left out; a field is good, bad or absent.      *)
(* Amounts that are read without a check are left to module Money.         *)
(***************************************************************************)
EXTENDS Naturals, Sequences, FiniteSetsExt

CONSTANTS
  MaxRows,   \* bound: rows of a listing
  MaxFlaws   \* bound: fields of one answer that are not good

ASSUME BoundsAssumption == MaxRows \in Nat /\ MaxFlaws \in Nat

(***************************************************************************)
(* The wire types.                                                         *)
(***************************************************************************)
Profile == [createdAt |-> "time", type |-> "enum"]
User == [dateOfBirth |-> "optional date"]
Balance ==
  [creationTime |-> "time", type |-> "enum", currency |-> "currency",
   amount |-> "money", reservedAmount |-> "money"]
TotalFunds == [totalWorth |-> "money", totalAvailable |-> "money"]
MultiCurrencyAccount == [creationTime |-> "time", modificationTime |-> "time"]
AccountDetails == [accountIdentification |-> "exactly one"]
CurrencyInfo == [code |-> "free text"]
StatementTransaction ==
  [date |-> "time", amount |-> "money", totalFees |-> "money", runningBalance |-> "money",
   exchangeDetails |-> "optional money"]
Statement == [endOfStatementBalance |-> "money"]
ExchangeRate == [time |-> "time", source |-> "currency", target |-> "currency"]
Recipient == [currency |-> "currency"]
Quote ==
  [createdTime |-> "time", expirationTime |-> "time",
   sourceCurrency |-> "currency", targetCurrency |-> "currency"]
QuotePaymentOption ==
  [estimatedDelivery |-> "time", sourceCurrency |-> "currency", targetCurrency |-> "currency"]
QuoteEnd == [rateExpirationTime |-> "optional time"]
TransferPayment == [timeCreated |-> "time", timeUpdated |-> "time", currency |-> "currency"]
DeliveryEstimate == [estimatedDeliveryDate |-> "time"]
Transfer == [created |-> "time", source |-> "money", target |-> "money"]
FundingResponse == [type |-> "enum", status |-> "enum"]
ThirdPartyTransfer ==
  [created |-> "time", sourceCurrency |-> "currency", targetCurrency |-> "currency"]
Subscription == [createdAt |-> "time"]

\* A quote's last field comes after its payment options and a statement's
\* balance after its transactions: they are rows of their own.
Schema ==
  [profile |-> Profile, user |-> User, balance |-> Balance, funds |-> TotalFunds,
   account |-> MultiCurrencyAccount, details |-> AccountDetails, currency |-> CurrencyInfo,
   transaction |-> StatementTransaction, statement |-> Statement, rate |-> ExchangeRate,
   recipient |-> Recipient, quote |-> Quote, option |-> QuotePaymentOption,
   quoteEnd |-> QuoteEnd, payment |-> TransferPayment, estimate |-> DeliveryEstimate,
   transfer |-> Transfer, funding |-> FundingResponse, thirdParty |-> ThirdPartyTransfer,
   subscription |-> Subscription]

Holds(type, cell) ==
  \/ cell = "good"
  \/ cell = "absent" /\ type \in {"optional time", "optional date", "optional money"}
  \/ type = "free text"

WellFormed(r) == \A f \in DOMAIN r.cells : Holds(Schema[r.type][f], r.cells[f])

(***************************************************************************)
(* The answers.  A balance is wanted when it is visible and not invested,  *)
(* a rate when it is for the requested pair.                               *)
(***************************************************************************)
Sites(layout) == UNION {{i} \X DOMAIN Schema[layout[i]] : i \in DOMAIN layout}

Flaws(layout) ==
  UNION {[sites -> {"bad", "absent"}] : sites \in UNION {kSubset(n, Sites(layout)) : n \in 0..MaxFlaws}}

Body(layout, spare, flaw) ==
  [i \in DOMAIN layout |->
     [type |-> layout[i], wanted |-> i \notin spare,
      cells |-> [f \in DOMAIN Schema[layout[i]] |->
                   IF <<i, f>> \in DOMAIN flaw THEN flaw[<<i, f>>] ELSE "good"]]]

Answers(layout) ==
  {Body(layout, spare, flaw) :
     spare \in SUBSET {i \in DOMAIN layout : layout[i] \in {"balance", "rate"}},
     flaw \in Flaws(layout)}
=============================================================================
