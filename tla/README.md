# A TLA+ verification of wise-go

wise-go is a Go SDK for the Wise API. A program holds one `Client`, shared by any
number of goroutines. Every method of it validates its arguments, builds a request,
sends it through a retry executor, classifies the answer into typed errors and maps
the body to domain values. The SDK keeps no state beyond an immutable
configuration; what makes it hard is what happens around a call: concurrency,
retries of requests whose fate is unknown, tokens and collections that change
between two calls, numbers that are floats on the wire, and a consumer who has to
put calls together in the right order.

This directory holds TLA+ modules of those parts, TLC configurations that check them
on small instances, and TLAPS proofs for every instance. `PROJECT.json` lists the
parts, the runs, the mutants that show each property can fail, the source lines of
every definition, the hazards and the theorems.

## Inventory

| Part (source) | State | Operations | Interacts with | What is hard |
|---|---|---|---|---|
| Retry ladder (`client.go`) | the retry configuration of the client; per call: attempt, open body, last error, context | `New`, `request`, `getRaw`, `doRequest`, `executeWithLogging`, `VerifyCredentials`, `Authenticate`, `Health` | go-retry, `http.Client`, the `Logger` | calls interleave on one configuration; cancellation and deadlines at any step; `Retry-After`; closing bodies on every path |
| Error classification (`errors.go`, `client.go`) | none | `checkError`, `newAPIError`, `classifyAPIError`, `isRetryableError`, `parseRetryAfter` | decides what the ladder repeats | the order of the tests, and types that embed types |
| SCA clearing (`ott.go`) | a one-time token at Wise: challenges, which are passed, codes sent; the loop: last status, round | `GetOTTStatus`, `TriggerOTT`, `VerifyOTT`, `ClearSCAChallenge` | three ladders per round, the code provider (a user), the web app | a stale status, lost answers, codes used up or voided, a bounded loop |
| Writes (`transfers.go`, `balances.go`, `third_party_transfers.go`, `recipients.go`, `quotes.go`, `webhooks.go`) | none in the SDK; what Wise has done; requests under way | ten kinds of create, fund, cancel and delete calls | the ladder repeats them; the consumer repeats them after errors and crashes | late, lost and repeated requests; who chooses the key Wise deduplicates on |
| Offset pagination (`transfers.go`, `recipients.go`) | offset, rows so far | `ListTransfers`, `ListRecipients` | one ladder per page; the collection at Wise | the collection changes between pages; exactly full pages |
| Transfer requirements (`transfer_requirements.go`, `transfers.go`, `recipients.go`) | the consumer's draft and the last form | `ValidateTransferRequirements`, `MissingTransferDetails`, the quote's account requirements, `CreateTransfer`, `CreateRecipient` | Wise's rules, the consumer's fill-in loop | a form that is stale, keys that are spelled in three places |
| Response mappers (all endpoint files, `internal/raw`) | per call: position in the answer | 31 methods that parse a body | what the ladder hands over | which row fails the call, with what class of error; what is skipped |
| Options and headers (`options.go`, `client.go`) | the immutable configuration | the options, `New`, `setHeaders`, `WithRequestCorrelationID` | every request | options that contradict each other, defaults, a client built again for a replay |
| Transfer flow (`transfers.go`, `types.go`, `errors.go`) | the consumer's record: quote, transfer, wish; the transfers, quotes and tokens at Wise | `CreateTransfer`, `FundTransfer`, `CancelTransfer`, `GetTransfer` with the errors and results a consumer decides on | the ladder, the challenge and its token, the consumer's recipe | expiry, cancellation, late requests and crashes between the calls of one payment |
| Money (`helpers.go`, `quotes.go`, `transactions.go`, `types.go`, `internal/raw/types.go`) | none | `toMoney`, `majorToCents`, `centsToMajor`, `Cents`, `classifyTransactionType`, `Money.String` | quotes, transfers, payments and statements of one amount | binary floating point, truncation, the edge of the integers |
| Webhooks (`webhooks.go`) | subscriptions at Wise, their keys, deliveries under way; the handler's record | create, delete, verify, parse, five typed accessors | Wise's redelivery, a consumer's handler | lost, altered, doubled and repeated deliveries; stray subscriptions |
| Validation, originators, documents, identifiers, domain types, scripts | none | - | - | see "What is not modelled" |

### What makes each part correct

* **Ladder**: a call sends at most as many requests as its own ladder allows,
  whatever runs beside it; no request follows a terminal answer or an accepted one;
  bodies are closed; the log and the outcome agree with what happened; every call
  returns, within a bound that `Health` documents.
* **SCA clearing**: success is true, no phone rings for nothing, each code answers a
  trigger of its own, the loop ends.
* **Writes**: a caller's key makes a write happen once through any failure; a write
  without a key is repeated only when an attempt ended in doubt; a rejection is the
  truth unless something was in doubt.
* **Pagination**: a quiet collection is listed exactly; each removal hides at most one
  row, each creation repeats at most one; the listing ends.
* **Requirements**: a consumer who follows the flow sends every detail required of that
  very call, and is not stopped for nothing.
* **Transfer flow**: one payment debits the balance at most once and never after it was
  called off; what is reported is true; no second transfer is left behind; every
  request carries one correlation ID, and those of the consumer's own client go to one
  host; the payment comes to its end.
* **Mappers**: a value is made of exactly the rows the caller is entitled to, all well
  formed; a failure has a malformed row of those behind it, the first one.
* **Money**: rounding gives back the cent that was booked; truncation loses at most
  one, once per quote.
* **Webhooks**: what is acted on was sent, unaltered, by a subscription the consumer
  knows, and without a time, a currency or a refund made up for one that is absent;
  complete events are acted on.

## Modules

```
WiseErrors ── RetryLadder ── implements ApiCall          (PROPERTY of a run)
                 │
                 ├ ScaClearing    three endpoint calls per round, each a ladder
                 ├ Writes         a ladder that repeats requests, and a consumer
                 ├ Pagination     one ladder per page
                 ├ Webhooks       create and delete calls, and the deliveries
                 └ TransferFlow   the calls of one payment; implements Payment
                      │                                  (PROPERTY of a run)
Configuration ────────┘
WireTypes ── Responses ── implements ReadContract        (PROPERTY of a run)
          └─ ReadContract
Requirements      Money
```

The modules above a ladder do not instantiate `RetryLadder`; they use what `ApiCall`
promises of it. A call made there sends up to `MaxAttempts` requests, another one
only after an answer that leaves it open, and ends with a value, a refusal or a
failure. That `RetryLadder` implements `ApiCall` is what makes this abstraction of
it sound.

Each component `M` has a module `M.tla`, an `MCM.tla` with the values for TLC, and, where
it has theorems, an `MProofs.tla`; `Requirements` and `Money`, which share nothing but that
they are about data, share `FormsAndMoneyProofs.tla`.

### WiseErrors, RetryLadder

`WiseErrors` translates the classification: a reply is a status, the two headers of a
strong-authentication challenge and a `Retry-After`; the result is one of the error
types. `IsRetryableError` follows the chain of `errors.As` tests, including what it
does not see: `BadRequestError` embeds `APIError` by value and is found by none.

`RetryLadder` has one record of variables per call, and one action per step a
goroutine takes: `DoRequest`/`VerifyCredentials` enter the executor, `BuildFails`,
`DoRefused`, `Do`, `DoAnswers`, `DoFails` are an attempt, `AttemptSucceeds` and
`AttemptFails` its classification, `HonorRetryAfter`, `BackOff`, `NextAttempt`,
`WaitAborted`, `GiveUp` the executor, `LeaveRequest`, `BodyUsed`, `BodyBroken` the
return path; `CtxEnds` may happen at any time. `maxAttempts` is the client's shared
field; an executor reads it once, when the call starts.

### ApiCall

A call as its caller sees it: `Send` within a limit and only after an answer that
allows another, `Return` with a verdict that the last answer allows, and it does
return.

### ScaClearing

`offer`, `passed`, `live` and `alive` are the token at Wise, everything else is one
`ClearSCAChallenge` per member of `Clearers`. The three endpoint calls are ladders: an
attempt is handled or not, its answer arrives, arrives unusable, is lost or is a
refusal (`Answer`, `Garble`, `Lose`, `Refuse`), and a lost one is tried again while
attempts last, so the server may handle one request twice. `AllPassed`, `CannotClear`,
`NewRound`, `GiveUp` are the head of the loop, `AskForCode` the provider.

### Writes

A task is something the consumer wants done once; the consumer calls again after an
error or a crash (`Forget`) with the same request value. `Send` puts a request on the
wire, where it stays until Wise handles it or it is lost, perhaps after the call
has returned. The code's contribution is `Key`: what makes two requests the same to
Wise - a key the caller keeps, one generated per call, or nothing.

### Pagination

`store` is the collection at Wise, newest first; `Create` and `Remove` change it between
pages, `FullPage` and `LastPage` are one round of the loop each, `PageFails` the early
return. The two methods differ in their page size and in what a row is, and share the
module.

### Requirements

`Rules` are the trees of dependent fields a corridor may have; `Ask` fetches a form for the
draft as it is, `Populate` fills something in and makes the form stale where it is,
`Create` is the consumer's create call after `MissingTransferDetails` reported nothing of a
fresh form. `ToWire`, `DetailsWire` and `TransferRequestDetailValue` are the three
spellings of the keys in the code.

### Configuration, TransferFlow, Payment

An option is the part of the config it overwrites, and `New` applies them in their order (`After`);
`SetHeaders` says where a request goes and what it carries. `WiseErrors` has, besides the
types, the codes of an error and `HasCode` and `Is` over them.

`TransferFlow` is one payment by a consumer whose `record` (quote, transfer, wish) survives a
crash while everything else (`todo`, the running `call`, the `client` built for a replay) does
not. `CreateTransfer`, `FundTransfer`, `CancelTransfer`, `GetTransfer` put a request on the wire;
`Retry` and `TimeOut` are the ladder's next attempt, after an answer or without one;
`Created` to `Checked` are what the methods return and what the README's recipes make of it:
another quote when the error is `ErrResourceNotFound`, a replay with the cleared token
on an `SCAChallengeError`, a top-up on `balance.insufficient-funds`, a look at the transfer
after another rejection or a funding that is only `CREATED`, and the end of the payment.
A request that was given up stays
on the wire (`id` tells it from the present one) and is handled any time later, or never. Wise (`Handle`),
its quotes (`Expire`) and the network (`Lose`) are external: creation is deduplicated on key and
quote before the quote's expiry is looked at, a token serves one request, what is funded
or cancelled stays so. A funding is done at once (`COMPLETED`) or taken on (`CREATED`,
`types.go:318`) and done later (`Settle`); that a second request for one that is taken on is
answered `CREATED` again, and that such a transfer cannot be cancelled, are choices of the model, of
which the repository says nothing. `Clear` stands for a `ClearSCAChallenge` that succeeds:
what may happen in one is `ScaClearing`'s.

`Payment` is what all this promises: a debit, once; a report, once, and true. The
refinement maps `debits` to the number of funded transfers.

### WireTypes, Responses, ReadContract

`WireTypes` says what each field of a wire type has to hold; `Responses` has the
mappers as the sequences of their checks, in the code's order, and walks through an
answer field by field. `ReadContract` knows no order: a value of exactly the rows
that are due, or a failure with a malformed due row behind it. `Responses` implements
it (`got <- IF outcome = "value" THEN got ELSE {}`), liveness included.

### Money

Floats are multiples of `2^-Fraction` with `Precision` significant bits, products are
rounded to nearest, ties to even, and integers have `Width` bits with an
implementation-defined conversion of what does not fit. `centsToMajor`, `majorToCents`,
`Cents`, `toMoney` are the code's conversions over them; `classifyTransactionType` makes a
class of Wise's detail type and the sign, and `String` is the text as its sign, units and cents.
`MoneyInit`, `MoneyNext` and `MoneySpec` take one amount through a quote, a transfer, a payment, a
statement and further quotes. The assumptions say that the smallest floats are finer than half a
cent, that the amounts have floats of their own, and that what `toMoney` lets through fits an
integer, as is so of a significand of 53 bits, integers of 64 and 9.2e18.

### Webhooks

Wise (`subs`, `events`, `pending`, `tries`), the network (`net`) and the handler that the
README of the package describes (`acted`, `work`, `seen`) are external; `VerifyWebhookSignature`,
`ParseWebhookEvent` and the accessors (`Needs`, `Decodes`) are the code. `Create`
includes the ladder's repetition: two subscriptions, or one nobody was told of. An
event (`Envelopes`) may lack fields and have some that make no sense; `Needs` says which an
accessor misses. Those of the amounts of a credit it does not: it reads them as zero.

The handler verifies, parses, dispatches on the event's own type, acts (`Act`), then records the
delivery ID and acknowledges (`Finish`), or is stopped between the two (`Crash`). What
`README.md:1212-1216` and `1261-1271` leave open is settled so: an accessor's error is answered
as `ParseWebhookEvent`'s is, and recording comes last. A handler that records first, crashes and
gets the same delivery twice would acknowledge what it never acted on.

## Runs

| Run | Bounds | Shows |
|---|---|---|
| `ladder_single` | one call, 2 retries, ceiling of 2 s, timeout of 1 s, one answer of every class, hints 0, 2 and 9 s | `LogTellsTheLadder`, `OutcomeMatchesLog`, `TimeBudget`, `BodyDiscipline`, `NoRequestAfterVerdict`, `EveryCallReturns` |
| `ladder_shared` | an ordinary call and a credential check at once, no number of retries configured: the default of three | `ExhaustionIsEarned`, and that both are an `ApiCall`, liveness included |
| `ladder_bad_request` | one call | violation: a 400 is tried again |
| `sca` | two clearings of one token, five rounds, two attempts per endpoint call, five lists of challenges, a phone channel and one that is none | `ClearedIsTrue`, `NoNeedlessTrigger`, `CodesAnswerTriggers`, `TriggersAreUseful`, `ClearingReturns` |
| `sca_fifth_round` | one clearing of three challenges | violation: cleared in the last round, reported as not cleared |
| `writes` | one task of any of the ten kinds, two calls of two attempts | `OncePerCallerKey`, `OncePerCall`, `RepetitionNeedsDoubt`, `RejectionIsHonest` |
| `pages` | pages of 3, up to 7 rows, 2 creations, 2 removals | `QuietListingIsExact`, `MissesAreRemovals`, `RepeatsAreCreations`, `PagesAreBounded` |
| `requirements` | three keys, one without a field in the create request, two values, some hundred corridors | `CreatedIsComplete`, `NoFalseAlarm` |
| `responses` | all 31 methods, up to 2 listed rows, up to 2 malformed or missing fields | `KeepsItsPromise`, `FirstFlawDecides`, `PlainFailuresAreTransfers` |
| `money` | 10 bits of significand, integers of 12, all amounts of 1 to 255 cents, 9 out of range, 4 quotes in a row | `MoneyIsExact`, `EntriesAreSigned`, `TruncationLosesOneCent`, `DriftIsBounded`, `TextIsTheAmount` |
| `payment` | 2 quotes, 2 tokens, 2 faults of any kind (a timeout, an unreadable answer, a crash), three clients: one that overwrites its host twice and has a short ladder, one that unsets it, one with a correlation ID of its own | `NothingIsLeftOver`, `OneTrail`, `EveryPaymentSettles`, and that the flow is a `Payment` |
| `webhooks` | 2 subscriptions, 1 event, a credit, a refund or of an unknown type, whole or with a field absent or spoilt, 2 deliveries each, 1 fault of any kind (a reply, a delivery or an acknowledgement lost, altered or doubled, a crash) | `ActedIsSent`, `EventsAreActedOn` |

`ladder_single` and `requirements` list `TypeOK` as well. Of the other modules with proofs the
type invariant is a theorem, `TypeCorrect`.

### Why these bounds

* Two retries give a first, a middle and a last attempt, which is all the ladder tells
  apart; hints at, below and above the ceiling are its three cases. Two calls are
  enough for one to disturb another, since calls share one field.
* Five rounds are the code's own number. The lists of challenges put an optional one
  first, an unsupported one first and second, and the same challenge in both forms.
* Two calls of two attempts have every kind of repetition: of the ladder, of the
  consumer, and of a request that arrives after its call has returned.
* Seven rows in pages of three have two full pages and a short one, and with six or
  three rows an exactly full last page; two changes either way meet both boundaries.
* The rows of an answer do not depend on each other, so two rows show which one fails
  a call, and two flaws which of two decides.
* 255 cents below a ten-bit significand have, like a double's cents, floats that are
  a little below and a little above them; 12 bits put the range check where it is
  in the code, just inside the largest integer.
* Two quotes are one that expires and its successor; the last one does not expire, or no
  payment need end. Two faults are a request given up and what goes wrong while it is
  still under way: a second one, a crash, an unreadable answer. Three faults were
  run once, with the same result, and take minutes.
* Of two clearings of one token both over a phone channel has some ten times the states, and
  takes longer than a run may; so one is over a value that is none. That one's trigger voids the
  other's code, which `ServerTriggers` allows, is therefore only in the proofs; what it leads to, a
  verify that is refused, is in the run.
* A credit and a refund are the accessor that reads what is absent as zero and the one that
  does not; one flaw per event shows each of their fields.
* `MaxFaults` below `MaxAttempts` is the hypothesis of `EventsAreActedOn`, and not only a
  bound: if all deliveries of an event go wrong, the event is lost.

`MaxCalls`, `MaxAttempts` (of Webhooks), `MaxChanges`, `MaxItems`, `MaxRows`, `MaxFlaws`, `MaxQuotes`, `MaxTokens`,
`MaxSubs`, `MaxEvents` and `MaxFaults` bound the model and nothing in the code. `CHECK_DEADLOCK FALSE`
stands where every call has returned, or the bounds are used up, and nothing is
left to do.

### Fairness

* `RetryLadder`: weak fairness of each call's own step. A goroutine that can run does;
  `Do` returns because the client has a timeout or its context ends; timers fire.
  Nothing is assumed of the server's answers, nor that a context ends.
* `ScaClearing`: weak fairness of each clearing's step: its endpoint calls return, which is
  `EveryCallReturns`, and the code provider, which is given the context, does too. The
  server may pass nothing for ever.
* `Responses`: weak fairness of the mapping, a loop of one goroutine over data in memory.
* `TransferFlow`: weak fairness of what the program does when it can (`Proceed`) and of Wise's
  handling the request a caller waits for (`Attend`); a `TimeOut` may still come before it, while
  faults last. Also of `Settle`: Wise does what it has taken on. Nothing is
  assumed of abandoning, expiry, crashes, or requests given up.
  What Wise must be trusted with stands in its actions: the envelope of a 404 carries
  `resource_not_found`, a rejection of what is funded carries `payment.exists` or shows in the
  transfer. Of the user: challenges are cleared, and the balance is topped up.
* `Webhooks`: weak fairness of the handler and of each pending delivery's next attempt,
  which is what redelivery means. Faults, losses included, are not fair and bounded.

## Mutants

Each property of a passing run has a mutant in `PROJECT.json`: a definition with a
plausible bug (a shared client changed in place, a key generated per attempt, a
filter after the mapper, an unchecked signature), under which TLC finds the property
violated in the run's own configuration. They stand before the definitions they
replace.

## Proofs

TLC's results hold for the bounds above, the theorems for every value of the constants
(the named `ASSUME`s of the modelling modules are all they assume; no `Proofs` module adds one).

* **RetryLadderProofs.** `IInv` adds to `TypeOK` what ties a call's counters together:
  `ConfigInv` (the shared field never changes; an executor's budget is the one of its
  kind of call), `AttemptInv` (requests sent, attempt number and budget at each step),
  `RetryInv` (a call that may go on has a retryable error) and `EarnedInv`. From it follow
  `ExhaustionIsEarned`, `BodyDiscipline`, `NoRequestAfterVerdict`, `BudgetIsolation` (at most
  one request of a credential check, at most `RetryMax + 1` of another) and
  `NoRequestAfterCtxEnd`. `TimeBudget` needs an invariant of its own, `ClockInv`: the time spent
  is at most that of the finished attempts and waits. `LogInv` ties the entries of a call to
  its counters (its last entry is that of its last answer), and gives `LogTellsTheLadder` and
  `OutcomeMatchesLog`. With `AnswerInv` (what a call knows is what it was last answered) each step
  is a step of `ApiCall` or a stutter: `LadderIsAnApiCall`, the refinement without its fairness.
  `CallsRunDown` gives every call a measure, attempts left and then the stage of the present one,
  that its own steps lower and nothing else touches.
* **ScaClearingProofs.** `Informed` (what a clearing has seen passed is passed), `Justified` (a
  clearing that has reported success saw everything required), `Pacing` (triggers and
  codes against rounds) and `Spared` (a clearing called on a cleared token never gets
  beyond its first look). With it `ClearedIsTrue`, `NoNeedlessTrigger`, `CodesAnswerTriggers` and
  the bound on the rounds, for any number of clearings. `Aimed` (who is about to trigger knows
  a required challenge as open that offers the phone channel) gives `TriggersAreUseful`, and
  `ClearingsRunDown` a measure as above: rounds left, the stage of the round, attempts left.
* **WritesProofs.** `UniqueInv` (Wise does a key once), `KeyInv` (an effect's key is the one its kind
  has), `PastInv` (what is under way was sent by a call that has been made) and `OrderInv` (a task
  that is not in doubt has at most its present request under way and nothing done
  twice). All five safety properties of `writes` follow, and `ValueIsOwn`: the id a call
  returns is that of its own task's effect, for any number of tasks on one client.
* **PaginationProofs.** `QuietInv` (an untouched listing is the prefix of the collection up to its
  offset) and `AheadInv` (while rows only appear, those not yet seen are ahead). For
  every page size and length: `QuietListingIsExact`, `PagesAreBounded`, and that nothing is missed
  while rows only appear. `MissStep` and `RepeatStep` count, by cardinalities: a removal pulls at most
  one unseen row over the page boundary, a creation pushes at most one seen row back over it.
* **FormsAndMoneyProofs.** Of `Requirements`: `FreshInv` (a form that is not stale is the form for the
  draft) and the fact that a form depends only on the parents' values. `CreatedIsComplete` and
  `NoFalseAlarm` hold for any keys, values and trees of fields.
  Of `Money`: a conversion is off by at most half a unit in the last place (`NearestFacts`), which is
  half of `2^-Fraction` or a `2^-Precision` part of the amount. Dividing by 100 and multiplying
  again is therefore off by less than half a cent: rounding finds the cent that was booked
  (`CentsComeBack`), truncation that one or the one below (`TruncatedByACent`), and the range check
  of `toMoney` keeps what it lets through within the integers (`ChecksFit`). `MoneyInv` says how each
  amount of a payment came from the one before. `MoneyIsExact`, `EntriesAreSigned`,
  `TruncationLosesOneCent`, `DriftIsBounded` and `TextIsTheAmount` follow, for any precision, width
  and amounts. Of powers of two it needs that they are defined and positive, and that
  `2^(a+b)` is `2^a` times `2^b`; each is an induction over a set of exponents (`Induction`, from
  `WFMin`), since the library's induction theorems cannot be used.
* **WebhooksProofs.** `SentInv` (what was sent, is under way or was acted on is about a subscription
  and an event there are) and `SeenInv` (a recorded delivery ID is that of a delivery acted on).
  `ActedIsSent` follows, for any event types, flaws and bounds.
  `FaultInv` (of an event that is complete, known and not acted on, no more attempts have come to
  nothing than things went wrong) gives `NothingIsGivenUp`: fewer faults than attempts leave a try.

* **TransferFlowProofs.** The heart is `QuoteInv`: there is at most one transfer, that of the recorded
  quote under the consumer's key. It holds because a quote is given up only on an
  answer that says it is dead and has no transfer, and a late request for it finds it
  dead still. To know that the answer was about that quote needs `CallInv` (the request
  whose answer is awaited is the only one since the last fault), and to rely on an
  answer read later needs `ReplyInv` (what was said of a transfer is still so). With `RecordInv`
  and `ToldInv` follow `NothingIsLeftOver` and, by the lemmas `Reporting` and `Paying`, the refinement
  `Implementation`: a flow is a `Payment`, for any options, quotes, tokens and faults. `OneTrail`, for
  any lists of options, needs that the last option that names a host decides (`LastHostStays`).
  `Settling` says of a funding that is settled what `Handling` and `Moving` say of a request.
* **ResponsesProofs.** `MappersCover`: the checks of each of the twenty mappers are of exactly the
  fields of its schema that can be wrong, and let absent what the schema does. So a row is well
  formed exactly if it passes its checks (`ChecksDecide`). `MapInv` says that the due rows before the
  present one are mapped and well formed; `FirstFlawDecides`, `PlainFailuresAreTransfers` and
  `PromiseIsKept`, the refinement of `ReadContract` without its fairness, follow for listings of
  any length with any number of flaws.

`BudgetIsolation`, `NoRequestAfterCtxEnd`, `CallsRunDown`, `PromptsAreBounded`, `ClearingsRunDown`, `NothingIsMissed`,
`UnmodelledStops`, `NothingIsGivenUp` and `ValueIsOwn` are stated and proved for all constants, and have no
run of their own.

### What is only model-checked

Every safety property of a passing run is a theorem. Liveness is not: `EveryCallReturns`,
`ClearingReturns`, `EventsAreActedOn`, `EveryPaymentSettles`, and the fair parts of `ImplementsApiCall` and
`KeepsItsPromise` rest on fairness, which is out of the prover's reach. What there is to prove of
the first three without it is proved: `CallsRunDown`, `ClearingsRunDown` (a measure in the natural
numbers that each step lowers) and `NothingIsGivenUp` (an attempt is left as long as one is needed).
A mapping is a loop over a finite answer, so that no measure of it says anything. A payment has none:
it may wait for a user, and fetch another quote, as often as the bounds of the model allow.

## Where the code and its documents differ

Two runs end in a counterexample, as `PROJECT.json` says under `findings`:

* A 400 is retried (`client.go:157`): `BadRequestError` is none of the types the predicate
  asks for, although `README.md:954` lists it as not retryable.
* `ClearSCAChallenge` looks at a status only at the head of a round (`ott.go:369`): a token that
  the fifth verify clears is reported as still having required challenges.

Others that the models contain, without a run:

* A quote's amounts are truncated (`quotes.go:554`): 0.29 comes back as 28 cents, against
  `README.md:70`. `TruncationLosesOneCent` and `DriftIsBounded` say how much is lost.
* `WithBaseURL` "overrides production/sandbox" (`options.go:78`), yet a `WithSandbox` that comes after
  it wins. `ChosenHost`, in `OneTrail`, is the last option that names a host.
* The replay recipe of the README makes a client of the key and the token alone, which
  drops the options of the first: a challenge met in the sandbox is replayed in
  production (`README.md:1150`). `ReplayClient` appends the token to the options the client was
  made with, and `OneTrail` says nothing of the host of a replay.
* The README's funding recipe (`README.md:1087-1093`) looks for `balance.insufficient-funds` alone;
  `payment.exists`, which `types.go:288-293` describes as already funded, is what a lost reply
  leads to. `Funded` follows the comment.
* `WithRetry(0, ...)` makes up to four attempts: zero means "not set" (`client.go:87`), where
  `options.go:102` speaks of the maximum number of retries. `RetryMax` is that default.
* A listing is not the "complete result set" of `transfers.go:32-34` when a row leaves it between two
  pages: the page boundary moves and hides a row. `MissesAreRemovals` says how many.
* A transfer read alone with an unparseable creation time fails with a plain error
  (`transfers.go:378`), against `README.md:962-964`. `PlainFailuresAreTransfers` says that this is the
  only such row. A body of the wrong shape, for which no row is to blame, is corruption
  to the ladder (`client.go:351-358`) and a plain error to `GetExchangeRate`, which decodes its own
  (`rates.go:88-92`). `Undecodable` has both, and the property leaves it out.
* The code of a listed currency is not validated (`currencies.go:32`), where `README.md:962` speaks of
  invalid currency codes in a response. In `WireTypes` it is free text.
* A credit without an amount or a balance is decoded, as one of zero (`webhooks.go:425-436`;
  `internal/raw/webhooks.go:93-95` has plain floats), where a refund without one is refused
  (`webhooks.go:477`) and `README.md:1275-1277` says that malformed payloads are corruption. `Needs` is
  as the code is, and `ActedIsSent` leaves these two fields out.
* Without a rate for the pair, `GetExchangeRate` returns the first rate of the answer
  (`rates.go:107`), where `rates.go:80-81` says it picks the pair's. `ReadContract` has this as the
  row that is due.
* An accessor does not look at the event type (`webhooks.go:384`), where its comment says another
  type fails. `Decodes` takes any accessor for any event.
* Recording the delivery ID does not keep a handler from acting twice on one event
  (`webhooks.go:26-30`, `README.md:1212-1216`): each attempt has an ID of its own.

## What is not modelled

* Request validation (`validate` methods): pure field checks before anything is sent. Calls start
  where they have passed; `Responses` has their rejection as an outcome.
* `GetStatement`, receipts and letters: the bytes of a body, which is `getRaw` in `RetryLadder`. The
  469-day limit is one comparison.
* `Error()` and `ErrorContext`; the text of anything but an amount. That a body is an error
  envelope, and its codes, is a choice of the answer.
* The API key, the user agent, the Logger and the HTTP client given as options.
* RSA and PEM (`ParseWebhookPublicKey`): a signature is right or wrong.
* Branded identifiers, and the domain types but for money and funding: the compiler's business.
* Durations have no width, so the overflow of a `Retry-After` of centuries is left out.
* Scripts, Nix files and CI.

## Plan

Done, in this order: the ladder, its errors and `ApiCall`; SCA clearing; writes; pagination;
requirements; mappers; money; webhooks; configuration and the transfer flow, with challenges
replayed; the proofs above, last those of money, of the options and of the measures. What stays
open is in "What is only model-checked" and "What is not modelled".
