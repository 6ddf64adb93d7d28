------------------------------- MODULE Money --------------------------------
(***************************************************************************)
(* Amounts: integer cents in the program, binary floating point numbers of *)
(* major units on the wire.  Balances, transactions and transfers are read *)
(* with toMoney, which rounds and refuses what has no cents in an int64;   *)
(* quotes, payment options, transfer payments and third-party transfers    *)
(* are read with majorToCents, which does neither.  The numbers are those  *)
(* of IEEE 754 with a shorter significand, and an int of fewer bits; a     *)
(* float is written as a multiple of 2^-Fraction.                          *)
(***************************************************************************)
EXTENDS Integers, Sequences

CONSTANTS
  Precision,   \* bits of a significand (53 in float64)
  Fraction,    \* the smallest amounts are multiples of 2^-Fraction
  Width,       \* bits of an integer (64)
  MaxUnits,    \* maxRepresentableUnits (9.2e16)
  Amounts,     \* the cents a consumer asks for, and Wise books
  HugeAmounts, \* cents Wise reports that are out of the range of toMoney
  MaxQuotes    \* bound: quotes in a row

ASSUME BitsAssumption ==
  /\ Precision \in Nat \ {0} /\ Fraction \in Nat /\ Width \in Nat \ {0}
  /\ MaxUnits \in Nat /\ MaxQuotes \in Nat \ {0}

\* 2^k, as far as the bits go.
PowerOfTwo[k \in 0..Precision + Fraction + Width] ==
  IF k = 0 THEN 1 ELSE 2 * PowerOfTwo[k - 1]

Significands == PowerOfTwo[Precision]
Scale == PowerOfTwo[Fraction]
MinInt == -PowerOfTwo[Width - 1]
MaxInt == PowerOfTwo[Width - 1] - 1

Magnitude(x) == IF x < 0 THEN -x ELSE x
SameSign(x, magnitude) == IF x < 0 THEN -magnitude ELSE magnitude

\* The smallest amounts are finer than half a cent, and every amount below a quarter
\* of 2^Precision has a float of its own.  All that toMoney lets through fits an
\* integer, also when its hundredfold is rounded up: 9.2e18 < 2^63.
ASSUME ScaleAssumption == Scale > 200
ASSUME PrecisionAssumption == \A c \in Amounts : c \in 1..MaxInt /\ 4 * c < Significands
ASSUME RangeAssumption == 100 * MaxUnits * (Significands + 1) <= MaxInt * Significands
ASSUME HugeAssumption ==
  \A c \in HugeAmounts :
    c \in Int /\ Magnitude(c) \in (100 * MaxUnits + 1)..PowerOfTwo[Width]

VARIABLES
  first,     \* the amount of the first quote, cents
  asked,     \* of the last one
  quotes,    \* how many there were
  quote,     \* Quote.Source as the consumer sees it
  booked,    \* the same at Wise
  transfer,  \* Transfer.Source
  payment,   \* TransferPayment.Amount
  entry      \* a row of the statement: what was booked, Total, Amount and Type

moneyVars == <<first, asked, quotes, quote, booked, transfer, payment, entry>>

Unread == [read |-> FALSE]
Read(c) == [read |-> TRUE, cents |-> c]

MoneyInit ==
  /\ first = 0 /\ asked = 0 /\ quotes = 0 /\ booked = 0
  /\ quote = Unread /\ transfer = Unread /\ payment = Unread /\ entry = Unread

(***************************************************************************)
(* Floating point.                                                         *)
(***************************************************************************)
\* The unit in the last place of a significand as large as q.
Ulp(q) ==
  LET Fits(k) == q \div PowerOfTwo[k] < Significands
  IN  PowerOfTwo[CHOOSE k \in 0..Fraction + Width : Fits(k) /\ (k = 0 \/ ~Fits(k - 1))]

HalfToEven(n, d) ==
  LET q == n \div d
      r == n % d
  IN  IF 2 * r < d \/ (2 * r = d /\ q % 2 = 0) THEN q ELSE q + 1

\* The float nearest to n/d.
Nearest(n, d) ==
  LET ulp == Ulp(Magnitude(n) \div d)
  IN  SameSign(n, ulp * HalfToEven(Magnitude(n), d * ulp))

\* int64(f) of a float without a fraction; out of range it is whatever the machine
\* makes of it: the least integer, or the nearest.
ToInt(n) ==
  IF n \in MinInt..MaxInt THEN {n} ELSE {MinInt, IF n < 0 THEN MinInt ELSE MaxInt}

(***************************************************************************)
(* The conversions of the code.                                            *)
(***************************************************************************)
TimesHundred(x) == Nearest(x * 100, 1)

centsToMajor(cents) == Nearest(cents * Scale, 100)

\* Mutant: the units are converted and multiplied.
majorToCentsUnits(major) == ToInt(100 * SameSign(major, Magnitude(major) \div Scale))

majorToCents(major) ==
  LET product == TimesHundred(major)
  IN  ToInt(SameSign(product, Magnitude(product) \div Scale))

\* Mutant: truncated.
CentsTruncated(value) == majorToCents(value)

\* math.Round: half away from zero.
Cents(value) ==
  LET product == TimesHundred(value)
  IN  ToInt(SameSign(product, (2 * Magnitude(product) + Scale) \div (2 * Scale)))

\* Mutant: without the range check.
toMoneyUnchecked(value) == Cents(value)

\* Nothing, when the amount is corruption.
toMoney(value) == IF Magnitude(value) > MaxUnits * Scale THEN {} ELSE Cents(value)

\* -n, in an integer of Width bits.
Negated(n) == IF n = MinInt THEN MinInt ELSE -n

(***************************************************************************)
(* The calls.  Wise reads the decimal the client sends, and answers with   *)
(* decimals that the client reads as the nearest floats.                   *)
(***************************************************************************)
WiseReads(value) == CHOOSE c \in Amounts : centsToMajor(c) = value

\* A quote, for a new amount or for the amount the last quote came back with.
CreateQuote(cents) ==
  /\ quotes < MaxQuotes
  /\ quotes' = quotes + 1
  /\ first' = IF quotes = 0 THEN cents ELSE first
  /\ asked' = cents
  /\ booked' = WiseReads(centsToMajor(cents))
  /\ \E c \in majorToCents(centsToMajor(booked')) : quote' = Read(c)
  /\ transfer' = Unread /\ payment' = Unread
  /\ UNCHANGED entry

FirstQuote == quotes = 0 /\ ~entry.read /\ \E c \in Amounts : CreateQuote(c)
QuoteAgain == quote.read /\ quote.cents \in Amounts /\ CreateQuote(quote.cents)

\* A quote Wise made of an amount of its own, in another currency or of another
\* profile, read with GetQuote.
ReadQuote ==
  /\ quotes = 0 /\ ~entry.read
  /\ \E b \in HugeAmounts :
       /\ booked' = b
       /\ \E c \in majorToCents(centsToMajor(b)) : quote' = Read(c)
  /\ quotes' = MaxQuotes
  /\ UNCHANGED <<first, asked, transfer, payment, entry>>

GetTransfer ==
  /\ quote.read /\ ~transfer.read
  /\ \E c \in toMoney(centsToMajor(booked)) : transfer' = Read(c)
  /\ UNCHANGED <<first, asked, quotes, quote, booked, payment, entry>>

ListTransferPayments ==
  /\ transfer.read /\ ~payment.read
  /\ \E c \in majorToCents(centsToMajor(booked)) : payment' = Read(c)
  /\ UNCHANGED <<first, asked, quotes, quote, booked, transfer, entry>>

creditOrDebit(cents) == IF cents > 0 THEN "credit" ELSE "debit"

\* details.type: the classes the code tells apart, any other value among the last.
DetailTypes == {"CARD", "CARD_REFUND", "TRANSFER", "PAYMENT", "CONVERSION", "FEE", "other"}

classifyTransactionType(detail, cents) ==
  CASE detail = "CARD" -> "card"
    [] detail = "CARD_REFUND" -> IF cents > 0 THEN "refund" ELSE "card"
    [] detail = "TRANSFER" -> "transfer"
    [] detail = "PAYMENT" -> "payment"
    [] detail = "CONVERSION" -> "exchange"
    [] detail = "FEE" -> "fee"
    [] OTHER -> creditOrDebit(cents)

\* Mutant: the sign is that of the units.
StringOfUnits(cents) ==
  LET units == SameSign(cents, Magnitude(cents) \div 100)
  IN  [sign |-> IF units < 0 THEN "-" ELSE "", major |-> Magnitude(units), minor |-> Magnitude(cents) % 100]

\* Money.String as its parts: the sign, the units and the cents of the text.  The
\* quotients of the code are truncated, and so keep the sign of what is divided.
String(cents) ==
  LET abs == IF cents < 0 THEN Negated(cents) ELSE cents
  IN  [sign  |-> IF cents < 0 THEN "-" ELSE "",
       major |-> SameSign(abs, Magnitude(abs) \div 100),
       minor |-> SameSign(abs, Magnitude(abs) % 100)]

\* A row of the statement: any booking, also one that is no transfer, so it is
\* looked at on its own; the type is taken from the cents before toMoney has
\* looked at them.
ListTransactions ==
  /\ ~entry.read /\ quotes = 0
  /\ \E b \in Amounts \cup {-c : c \in Amounts} \cup HugeAmounts :
       \E detail \in DetailTypes, c \in Cents(centsToMajor(b)),
          total \in toMoney(centsToMajor(b)) :
         entry' = [read |-> TRUE, booked |-> b, total |-> total,
                   type |-> classifyTransactionType(detail, c),
                   amount |-> IF total < 0 THEN Negated(total) ELSE total]
  /\ UNCHANGED <<first, asked, quotes, quote, booked, transfer, payment>>

MoneyNext ==
  \/ FirstQuote \/ QuoteAgain \/ ReadQuote
  \/ GetTransfer \/ ListTransferPayments \/ ListTransactions

MoneySpec == MoneyInit /\ [][MoneyNext]_moneyVars

(***************************************************************************)
(* Properties.                                                             *)
(***************************************************************************)

\* What toMoney returns is what Wise booked, to the cent, for every amount the
\* precision can tell apart: the two roundings on the way cancel out.
MoneyIsExact ==
  /\ transfer.read /\ booked \in Amounts => transfer.cents = booked
  /\ entry.read /\ Magnitude(entry.booked) \in Amounts => entry.total = entry.booked

\* Amount is the magnitude of Total, never negative, and where the type says a
\* direction it is Total's, although it was taken from the cents before the range
\* check: a credit or a refund came in, a debit did not (mapTransaction).
EntriesAreSigned ==
  entry.read =>
    /\ entry.amount >= 0
    /\ entry.amount \in {entry.total, -entry.total}
    /\ entry.type \in {"credit", "refund"} => entry.total > 0
    /\ entry.type = "debit" => entry.total <= 0

\* The text of an amount is the amount: sign, units, and cents in two digits.
Shows(cents) ==
  LET text == String(cents)
      magnitude == 100 * text.major + text.minor
  IN  /\ text.major >= 0 /\ text.minor \in 0..99
      /\ cents = IF text.sign = "-" THEN -magnitude ELSE magnitude

\* The text of every amount that was read is that amount: its sign is shown on
\* fractions of a unit too, its cents have two digits of their own.  Only the least
\* integer, which has no magnitude, reads otherwise, and none of what toMoney checked
\* is that (types.go:70-86).
TextIsTheAmount ==
  /\ quote.read /\ quote.cents # MinInt => Shows(quote.cents)
  /\ transfer.read => Shows(transfer.cents)
  /\ entry.read => Shows(entry.total) /\ Shows(entry.amount)

\* A truncated amount is the booked one or a cent less, and so is the payment of a
\* transfer beside the transfer.
TruncationLosesOneCent ==
  booked \in Amounts =>
    /\ quote.read => booked - quote.cents \in {0, 1}
    /\ payment.read => transfer.cents - payment.cents \in {0, 1}

\* Quoting again and again what the last quote said loses at most a cent a time,
\* and never gains one.
DriftIsBounded ==
  quotes > 0 /\ first > 0 => first - asked \in 0..(quotes - 1)
=============================================================================
