--------------------------- MODULE ResponsesProofs --------------------------
(***************************************************************************)
(* What TLAPS proves of Responses, for answers with any number of rows and *)
(* of flaws.  The argument: the checks of a mapper cover the fields of its *)
(* schema, so a row that passes them all is well formed and one that fails *)
(* is not, and the rows behind the one being mapped are well formed.       *)
(***************************************************************************)
EXTENDS Responses, SequenceTheorems, WellFoundedInduction, TLAPS

Types == DOMAIN Schema

Optional == {"optional time", "optional date", "optional money"}

-----------------------------------------------------------------------------
\* The checks are of exactly these fields; these may be absent, and the failure of
\* these stays a plain error.
Checked(checks, fields, optional, plain) ==
  /\ Len(checks) \in Nat /\ DOMAIN checks = 1..Len(checks)
  /\ \A k \in DOMAIN checks :
       /\ checks[k].field \in fields
       /\ checks[k].mayBeAbsent <=> checks[k].field \in optional
       /\ checks[k].fails = IF checks[k].field \in plain THEN "plain" ELSE "corruption"
  /\ \A f \in fields : \E k \in DOMAIN checks : checks[k].field = f

\* The fields of a schema that can be wrong are these, of which these are optional.
Asks(schema, fields, optional) ==
  /\ fields \subseteq DOMAIN schema
  /\ \A f \in DOMAIN schema :
       /\ f \in fields <=> schema[f] # "free text"
       /\ f \in optional <=> schema[f] \in Optional

-----------------------------------------------------------------------------
LEMMA CheckFields ==
  ASSUME NEW f
  PROVE  /\ Must(f).field = f /\ ~Must(f).mayBeAbsent /\ Must(f).fails = "corruption"
         /\ May(f).field = f /\ May(f).mayBeAbsent /\ May(f).fails = "corruption"
         /\ Plainly(f).field = f /\ ~Plainly(f).mayBeAbsent /\ Plainly(f).fails = "plain"
<1>1. Must(f).field = f /\ ~Must(f).mayBeAbsent /\ Must(f).fails = "corruption"
  BY DEF Must
<1>2. May(f).field = f /\ May(f).mayBeAbsent /\ May(f).fails = "corruption"
  BY DEF May, Must
<1>3. Plainly(f).field = f /\ ~Plainly(f).mayBeAbsent /\ Plainly(f).fails = "plain"
  BY DEF Plainly, Must
<1> QED BY <1>1, <1>2, <1>3

\* Each mapper checks what the schema of its rows asks for, and only the creation
\* time of a transfer fails plainly.
LEMMA MappersCover ==
  ASSUME NEW t \in Types
  PROVE  \E fields, optional, plain :
           /\ Checked(Mapper[t], fields, optional, plain)
           /\ Asks(Schema[t], fields, optional)
           /\ plain = {} \/ (t = "transfer" /\ plain = {"created"})
<1> USE CheckFields
<1> DEFINE Covered(m, s, fields, optional, plain) ==
      Checked(m, fields, optional, plain) /\ Asks(s, fields, optional)
<1>1. Covered(mapProfile, Profile,
      {"createdAt", "type"},
      {}, {})
  <2>1. Checked(mapProfile, {"createdAt", "type"}, {}, {})
    BY DEF Checked, mapProfile
  <2>2. /\ DOMAIN Profile = {"createdAt", "type"}
        /\ \A f \in DOMAIN Profile : Profile[f] \in {"time", "enum"}
    BY DEF Profile
  <2> QED BY <2>1, <2>2 DEF Asks, Optional
<1>2. Covered(mapUser, User,
      {"dateOfBirth"},
      {"dateOfBirth"}, {})
  <2>1. Checked(mapUser, {"dateOfBirth"}, {"dateOfBirth"}, {})
    BY DEF Checked, mapUser
  <2>2. DOMAIN User = {"dateOfBirth"} /\ User["dateOfBirth"] = "optional date"
    BY DEF User
  <2> QED BY <2>1, <2>2 DEF Asks, Optional
<1>3. Covered(mapBalance, Balance,
      {"creationTime", "type", "currency", "amount", "reservedAmount"},
      {}, {})
  <2>1. Checked(mapBalance, {"creationTime", "type", "currency", "amount", "reservedAmount"},
                {}, {})
    BY DEF Checked, mapBalance
  <2>2. /\ DOMAIN Balance = {"creationTime", "type", "currency", "amount", "reservedAmount"}
        /\ \A f \in DOMAIN Balance : Balance[f] \in {"time", "enum", "currency", "money"}
    BY DEF Balance
  <2> QED BY <2>1, <2>2 DEF Asks, Optional
<1>4. Covered(mapTotalFunds, TotalFunds,
      {"totalWorth", "totalAvailable"},
      {}, {})
  <2>1. Checked(mapTotalFunds, {"totalWorth", "totalAvailable"}, {}, {})
    BY DEF Checked, mapTotalFunds
  <2>2. /\ DOMAIN TotalFunds = {"totalWorth", "totalAvailable"}
        /\ \A f \in DOMAIN TotalFunds : TotalFunds[f] \in {"money"}
    BY DEF TotalFunds
  <2> QED BY <2>1, <2>2 DEF Asks, Optional
<1>5. Covered(mapMultiCurrencyAccount, MultiCurrencyAccount,
      {"creationTime", "modificationTime"},
      {}, {})
  <2>1. Checked(mapMultiCurrencyAccount, {"creationTime", "modificationTime"}, {}, {})
    BY DEF Checked, mapMultiCurrencyAccount
  <2>2. /\ DOMAIN MultiCurrencyAccount = {"creationTime", "modificationTime"}
        /\ \A f \in DOMAIN MultiCurrencyAccount : MultiCurrencyAccount[f] \in {"time"}
    BY DEF MultiCurrencyAccount
  <2> QED BY <2>1, <2>2 DEF Asks, Optional
<1>6. Covered(mapAccountDetails, AccountDetails,
      {"accountIdentification"},
      {}, {})
  <2>1. Checked(mapAccountDetails, {"accountIdentification"}, {}, {})
    BY DEF Checked, mapAccountDetails
  <2>2. /\ DOMAIN AccountDetails = {"accountIdentification"}
        /\ AccountDetails["accountIdentification"] = "exactly one"
    BY DEF AccountDetails
  <2> QED BY <2>1, <2>2 DEF Asks, Optional
<1>7. Covered(mapCurrency, CurrencyInfo,
      {},
      {}, {})
  <2>1. Checked(mapCurrency, {}, {}, {})
    BY DEF Checked, mapCurrency
  <2>2. DOMAIN CurrencyInfo = {"code"} /\ CurrencyInfo["code"] = "free text"
    BY DEF CurrencyInfo
  <2> QED BY <2>1, <2>2 DEF Asks, Optional
<1>8. Covered(mapTransaction, StatementTransaction,
      {"date", "amount", "totalFees", "runningBalance", "exchangeDetails"},
      {"exchangeDetails"}, {})
  <2>1. Checked(mapTransaction, {"date", "amount", "totalFees", "runningBalance", "exchangeDetails"},
                {"exchangeDetails"}, {})
    BY DEF Checked, mapTransaction
  <2>2. /\ DOMAIN StatementTransaction =
             {"date", "amount", "totalFees", "runningBalance", "exchangeDetails"}
        /\ StatementTransaction["date"] = "time"
        /\ StatementTransaction["amount"] = "money"
        /\ StatementTransaction["totalFees"] = "money"
        /\ StatementTransaction["runningBalance"] = "money"
        /\ StatementTransaction["exchangeDetails"] = "optional money"
    BY DEF StatementTransaction
  <2> QED BY <2>1, <2>2 DEF Asks, Optional
<1>9. Covered(mapStatement, Statement,
      {"endOfStatementBalance"},
      {}, {})
  <2>1. Checked(mapStatement, {"endOfStatementBalance"}, {}, {})
    BY DEF Checked, mapStatement
  <2>2. /\ DOMAIN Statement = {"endOfStatementBalance"}
        /\ \A f \in DOMAIN Statement : Statement[f] \in {"money"}
    BY DEF Statement
  <2> QED BY <2>1, <2>2 DEF Asks, Optional
<1>10. Covered(mapExchangeRate, ExchangeRate,
      {"time", "source", "target"},
      {}, {})
  <2>1. Checked(mapExchangeRate, {"time", "source", "target"}, {}, {})
    BY DEF Checked, mapExchangeRate
  <2>2. /\ DOMAIN ExchangeRate = {"time", "source", "target"}
        /\ \A f \in DOMAIN ExchangeRate : ExchangeRate[f] \in {"time", "currency"}
    BY DEF ExchangeRate
  <2> QED BY <2>1, <2>2 DEF Asks, Optional
<1>11. Covered(mapRecipient, Recipient,
      {"currency"},
      {}, {})
  <2>1. Checked(mapRecipient, {"currency"}, {}, {})
    BY DEF Checked, mapRecipient
  <2>2. /\ DOMAIN Recipient = {"currency"}
        /\ \A f \in DOMAIN Recipient : Recipient[f] \in {"currency"}
    BY DEF Recipient
  <2> QED BY <2>1, <2>2 DEF Asks, Optional
<1>12. Covered(mapQuote, Quote,
      {"createdTime", "expirationTime", "sourceCurrency", "targetCurrency"},
      {}, {})
  <2>1. Checked(mapQuote, {"createdTime", "expirationTime", "sourceCurrency", "targetCurrency"},
                {}, {})
    BY DEF Checked, mapQuote
  <2>2. /\ DOMAIN Quote = {"createdTime", "expirationTime", "sourceCurrency", "targetCurrency"}
        /\ \A f \in DOMAIN Quote : Quote[f] \in {"time", "currency"}
    BY DEF Quote
  <2> QED BY <2>1, <2>2 DEF Asks, Optional
<1>13. Covered(mapQuotePaymentOptions, QuotePaymentOption,
      {"estimatedDelivery", "sourceCurrency", "targetCurrency"},
      {}, {})
  <2>1. Checked(mapQuotePaymentOptions, {"estimatedDelivery", "sourceCurrency", "targetCurrency"},
                {}, {})
    BY DEF Checked, mapQuotePaymentOptions
  <2>2. /\ DOMAIN QuotePaymentOption = {"estimatedDelivery", "sourceCurrency", "targetCurrency"}
        /\ \A f \in DOMAIN QuotePaymentOption : QuotePaymentOption[f] \in {"time", "currency"}
    BY DEF QuotePaymentOption
  <2> QED BY <2>1, <2>2 DEF Asks, Optional
<1>14. Covered(parseQuoteRateExpiration, QuoteEnd,
      {"rateExpirationTime"},
      {"rateExpirationTime"}, {})
  <2>1. Checked(parseQuoteRateExpiration, {"rateExpirationTime"}, {"rateExpirationTime"}, {})
    BY DEF Checked, parseQuoteRateExpiration
  <2>2. DOMAIN QuoteEnd = {"rateExpirationTime"} /\ QuoteEnd["rateExpirationTime"] = "optional time"
    BY DEF QuoteEnd
  <2> QED BY <2>1, <2>2 DEF Asks, Optional
<1>15. Covered(mapTransferPayment, TransferPayment,
      {"timeCreated", "timeUpdated", "currency"},
      {}, {})
  <2>1. Checked(mapTransferPayment, {"timeCreated", "timeUpdated", "currency"}, {}, {})
    BY DEF Checked, mapTransferPayment
  <2>2. /\ DOMAIN TransferPayment = {"timeCreated", "timeUpdated", "currency"}
        /\ \A f \in DOMAIN TransferPayment : TransferPayment[f] \in {"time", "currency"}
    BY DEF TransferPayment
  <2> QED BY <2>1, <2>2 DEF Asks, Optional
<1>16. Covered(mapDeliveryEstimate, DeliveryEstimate,
      {"estimatedDeliveryDate"},
      {}, {})
  <2>1. Checked(mapDeliveryEstimate, {"estimatedDeliveryDate"}, {}, {})
    BY DEF Checked, mapDeliveryEstimate
  <2>2. /\ DOMAIN DeliveryEstimate = {"estimatedDeliveryDate"}
        /\ \A f \in DOMAIN DeliveryEstimate : DeliveryEstimate[f] \in {"time"}
    BY DEF DeliveryEstimate
  <2> QED BY <2>1, <2>2 DEF Asks, Optional
<1>17. Covered(mapTransfer, Transfer,
      {"created", "source", "target"},
      {}, {"created"})
  <2>1. Checked(mapTransfer, {"created", "source", "target"}, {}, {"created"})
    BY DEF Checked, mapTransfer
  <2>2. /\ DOMAIN Transfer = {"created", "source", "target"}
        /\ \A f \in DOMAIN Transfer : Transfer[f] \in {"time", "money"}
    BY DEF Transfer
  <2> QED BY <2>1, <2>2 DEF Asks, Optional
<1>18. Covered(mapFundTransferResult, FundingResponse,
      {"type", "status"},
      {}, {})
  <2>1. Checked(mapFundTransferResult, {"type", "status"}, {}, {})
    BY DEF Checked, mapFundTransferResult
  <2>2. /\ DOMAIN FundingResponse = {"type", "status"}
        /\ \A f \in DOMAIN FundingResponse : FundingResponse[f] \in {"enum"}
    BY DEF FundingResponse
  <2> QED BY <2>1, <2>2 DEF Asks, Optional
<1>19. Covered(toThirdPartyTransfer, ThirdPartyTransfer,
      {"created", "sourceCurrency", "targetCurrency"},
      {}, {})
  <2>1. Checked(toThirdPartyTransfer, {"created", "sourceCurrency", "targetCurrency"}, {}, {})
    BY DEF Checked, toThirdPartyTransfer
  <2>2. /\ DOMAIN ThirdPartyTransfer = {"created", "sourceCurrency", "targetCurrency"}
        /\ \A f \in DOMAIN ThirdPartyTransfer : ThirdPartyTransfer[f] \in {"time", "currency"}
    BY DEF ThirdPartyTransfer
  <2> QED BY <2>1, <2>2 DEF Asks, Optional
<1>20. Covered(toWebhookSubscription, Subscription,
      {"createdAt"},
      {}, {})
  <2>1. Checked(toWebhookSubscription, {"createdAt"}, {}, {})
    BY DEF Checked, toWebhookSubscription
  <2>2. /\ DOMAIN Subscription = {"createdAt"}
        /\ \A f \in DOMAIN Subscription : Subscription[f] \in {"time"}
    BY DEF Subscription
  <2> QED BY <2>1, <2>2 DEF Asks, Optional
<1>21. CASE t = "profile"
  <2>1. Mapper["profile"] = mapProfile /\ Schema["profile"] = Profile
    BY DEF Mapper, Schema
  <2> QED BY Zenon, <1>1, <1>21, <2>1
<1>22. CASE t = "user"
  <2>1. Mapper["user"] = mapUser /\ Schema["user"] = User
    BY DEF Mapper, Schema
  <2> QED BY Zenon, <1>2, <1>22, <2>1
<1>23. CASE t = "balance"
  <2>1. Mapper["balance"] = mapBalance /\ Schema["balance"] = Balance
    BY DEF Mapper, Schema
  <2> QED BY Zenon, <1>3, <1>23, <2>1
<1>24. CASE t = "funds"
  <2>1. Mapper["funds"] = mapTotalFunds /\ Schema["funds"] = TotalFunds
    BY DEF Mapper, Schema
  <2> QED BY Zenon, <1>4, <1>24, <2>1
<1>25. CASE t = "account"
  <2>1. Mapper["account"] = mapMultiCurrencyAccount /\ Schema["account"] = MultiCurrencyAccount
    BY DEF Mapper, Schema
  <2> QED BY Zenon, <1>5, <1>25, <2>1
<1>26. CASE t = "details"
  <2>1. Mapper["details"] = mapAccountDetails /\ Schema["details"] = AccountDetails
    BY DEF Mapper, Schema
  <2> QED BY Zenon, <1>6, <1>26, <2>1
<1>27. CASE t = "currency"
  <2>1. Mapper["currency"] = mapCurrency /\ Schema["currency"] = CurrencyInfo
    BY DEF Mapper, Schema
  <2> QED BY Zenon, <1>7, <1>27, <2>1
<1>28. CASE t = "transaction"
  <2>1. Mapper["transaction"] = mapTransaction /\ Schema["transaction"] = StatementTransaction
    BY DEF Mapper, Schema
  <2> QED BY Zenon, <1>8, <1>28, <2>1
<1>29. CASE t = "statement"
  <2>1. Mapper["statement"] = mapStatement /\ Schema["statement"] = Statement
    BY DEF Mapper, Schema
  <2> QED BY Zenon, <1>9, <1>29, <2>1
<1>30. CASE t = "rate"
  <2>1. Mapper["rate"] = mapExchangeRate /\ Schema["rate"] = ExchangeRate
    BY DEF Mapper, Schema
  <2> QED BY Zenon, <1>10, <1>30, <2>1
<1>31. CASE t = "recipient"
  <2>1. Mapper["recipient"] = mapRecipient /\ Schema["recipient"] = Recipient
    BY DEF Mapper, Schema
  <2> QED BY Zenon, <1>11, <1>31, <2>1
<1>32. CASE t = "quote"
  <2>1. Mapper["quote"] = mapQuote /\ Schema["quote"] = Quote
    BY DEF Mapper, Schema
  <2> QED BY Zenon, <1>12, <1>32, <2>1
<1>33. CASE t = "option"
  <2>1. Mapper["option"] = mapQuotePaymentOptions /\ Schema["option"] = QuotePaymentOption
    BY DEF Mapper, Schema
  <2> QED BY Zenon, <1>13, <1>33, <2>1
<1>34. CASE t = "quoteEnd"
  <2>1. Mapper["quoteEnd"] = parseQuoteRateExpiration /\ Schema["quoteEnd"] = QuoteEnd
    BY DEF Mapper, Schema
  <2> QED BY Zenon, <1>14, <1>34, <2>1
<1>35. CASE t = "payment"
  <2>1. Mapper["payment"] = mapTransferPayment /\ Schema["payment"] = TransferPayment
    BY DEF Mapper, Schema
  <2> QED BY Zenon, <1>15, <1>35, <2>1
<1>36. CASE t = "estimate"
  <2>1. Mapper["estimate"] = mapDeliveryEstimate /\ Schema["estimate"] = DeliveryEstimate
    BY DEF Mapper, Schema
  <2> QED BY Zenon, <1>16, <1>36, <2>1
<1>37. CASE t = "transfer"
  <2>1. Mapper["transfer"] = mapTransfer /\ Schema["transfer"] = Transfer
    BY DEF Mapper, Schema
  <2> QED BY Zenon, <1>17, <1>37, <2>1
<1>38. CASE t = "funding"
  <2>1. Mapper["funding"] = mapFundTransferResult /\ Schema["funding"] = FundingResponse
    BY DEF Mapper, Schema
  <2> QED BY Zenon, <1>18, <1>38, <2>1
<1>39. CASE t = "thirdParty"
  <2>1. Mapper["thirdParty"] = toThirdPartyTransfer /\ Schema["thirdParty"] = ThirdPartyTransfer
    BY DEF Mapper, Schema
  <2> QED BY Zenon, <1>19, <1>39, <2>1
<1>40. CASE t = "subscription"
  <2>1. Mapper["subscription"] = toWebhookSubscription /\ Schema["subscription"] = Subscription
    BY DEF Mapper, Schema
  <2> QED BY Zenon, <1>20, <1>40, <2>1
<1> QED BY <1>21, <1>22, <1>23, <1>24, <1>25, <1>26, <1>27, <1>28, <1>29, <1>30, <1>31,
       <1>32, <1>33, <1>34, <1>35, <1>36, <1>37, <1>38, <1>39, <1>40
       DEF Types, Schema

\* A row as the decoder leaves it: of a wire type there is, with its fields.
Shaped(r) == r.type \in Types /\ DOMAIN r.cells = DOMAIN Schema[r.type]

\* A row is well formed exactly if it passes every check of its mapper.
LEMMA ChecksDecide ==
  ASSUME NEW r, Shaped(r)
  PROVE  WellFormed(r) <=>
           \A k \in DOMAIN Mapper[r.type] :
             Parses(Mapper[r.type][k], r.cells[Mapper[r.type][k].field])
<1> DEFINE checks == Mapper[r.type]
           schema == Schema[r.type]
           cells == r.cells
<1>1. PICK fields, optional, plain :
        Checked(checks, fields, optional, plain) /\ Asks(schema, fields, optional)
  BY MappersCover DEF Shaped
<1>2. DOMAIN cells = DOMAIN schema
  BY DEF Shaped
<1>3. WellFormed(r) <=> \A f \in DOMAIN schema : Holds(schema[f], cells[f])
  BY <1>2 DEF WellFormed
<1>4. ASSUME NEW f \in DOMAIN schema
      PROVE  Holds(schema[f], cells[f]) <=>
               (f \in fields =>
                  cells[f] = "good" \/ (cells[f] = "absent" /\ f \in optional))
  BY <1>1 DEF Asks, Holds, Optional
<1>5. ASSUME NEW k \in DOMAIN checks
      PROVE  /\ checks[k].field \in fields
             /\ Parses(checks[k], cells[checks[k].field]) <=>
                  \/ cells[checks[k].field] = "good"
                  \/ cells[checks[k].field] = "absent" /\ checks[k].field \in optional
  BY <1>1 DEF Checked, Parses
<1>6. /\ fields \subseteq DOMAIN schema
      /\ \A f \in fields : \E k \in DOMAIN checks : checks[k].field = f
  BY <1>1 DEF Checked, Asks
<1> HIDE DEF checks, schema, cells
<1>7. (\A f \in DOMAIN schema : Holds(schema[f], cells[f])) <=>
        \A k \in DOMAIN checks : Parses(checks[k], cells[checks[k].field])
  BY <1>4, <1>5, <1>6
<1> QED BY <1>3, <1>7 DEF checks, cells

\* A check fails as corruption, or it is that of a transfer's creation time.
LEMMA PlainChecks ==
  ASSUME NEW t \in Types, NEW k \in DOMAIN Mapper[t]
  PROVE  \/ Mapper[t][k].fails = "corruption"
         \/ /\ Mapper[t][k].fails = "plain"
            /\ t = "transfer" /\ Mapper[t][k].field = "created"
<1> DEFINE checks == Mapper[t]
<1>1. PICK fields, optional, plain :
        /\ Checked(checks, fields, optional, plain)
        /\ plain = {} \/ (t = "transfer" /\ plain = {"created"})
  BY MappersCover
<1> HIDE DEF checks
<1>2. ASSUME NEW j \in DOMAIN checks
      PROVE  checks[j].fails = IF checks[j].field \in plain THEN "plain" ELSE "corruption"
  BY <1>1 DEF Checked
<1> QED BY <1>1, <1>2 DEF checks

-----------------------------------------------------------------------------
\* The methods that return one transfer.
OneTransfer == {"GetTransfer", "CreateTransfer", "CancelTransfer"}

\* The rows of a method are of wire types; a listing of transfers wraps, and after a
\* listing there are none.
Typed(m) ==
  /\ m.before \in Seq(Types) /\ m.after \in Seq(Types) /\ m.each \subseteq Types
  /\ "transfer" \in m.each => m.wraps
  /\ \A i \in 1..Len(m.after) : m.after[i] # "transfer"

TransferFirst(m) == \E i \in 1..Len(m.before) : m.before[i] = "transfer"

LEMMA TypedMethods ==
  ASSUME NEW t \in Types
  PROVE  /\ Typed(One(t)) /\ Typed(Unchecked(One(t)))
         /\ Typed(Wrapping(Listing(t))) /\ Typed(Wrapping(Unchecked(Listing(t))))
         /\ t # "transfer" => Typed(Listing(t)) /\ Typed(Unchecked(Listing(t)))
         /\ t # "transfer" => ~TransferFirst(One(t)) /\ ~TransferFirst(Unchecked(One(t)))
         /\ ~TransferFirst(Listing(t)) /\ ~TransferFirst(Unchecked(Listing(t)))
         /\ ~TransferFirst(Wrapping(Listing(t))) /\ ~TransferFirst(Wrapping(Unchecked(Listing(t))))
BY DEF Typed, TransferFirst, One, Listing, Unchecked, Wrapping

\* The two kinds with more than one part.
LEMMA PartsTyped ==
  /\ Typed(QuoteCall) /\ ~TransferFirst(QuoteCall)
  /\ Typed(ListTransactions) /\ ~TransferFirst(ListTransactions)
<1>1. {"quote", "option", "quoteEnd", "transaction", "statement"} \subseteq Types
  BY DEF Types, Schema
<1>2. /\ QuoteCall.before = <<"quote">> /\ QuoteCall.each = {"option"}
      /\ QuoteCall.after = <<"quoteEnd">>
  BY DEF QuoteCall, One
<1>3. /\ ListTransactions.before = << >> /\ ListTransactions.each = {"transaction"}
      /\ ListTransactions.after = <<"statement">>
  BY DEF ListTransactions, Listing, One
<1>4. Typed(QuoteCall) /\ ~TransferFirst(QuoteCall)
  BY <1>1, <1>2 DEF Typed, TransferFirst
<1>5. Typed(ListTransactions) /\ ~TransferFirst(ListTransactions)
  BY <1>1, <1>3 DEF Typed, TransferFirst
<1> QED BY <1>4, <1>5

\* What each method's rows are: one transfer comes from three methods only.
LEMMA MethodsTyped ==
  ASSUME NEW e \in DOMAIN Methods
  PROVE  Typed(Methods[e]) /\ (TransferFirst(Methods[e]) => e \in OneTransfer)
<1> DEFINE Fits(name, m) == Typed(m) /\ (TransferFirst(m) => name \in OneTransfer)
<1>1. CASE e = "GetProfile"
  <2>1. Methods["GetProfile"] = GetProfile
    BY DEF Methods
  <2>2. Fits("GetProfile", GetProfile)
    BY TypedMethods DEF GetProfile, OneTransfer, Types, Schema
  <2> QED BY Zenon, <1>1, <2>1, <2>2
<1>2. CASE e = "ListProfiles"
  <2>1. Methods["ListProfiles"] = ListProfiles
    BY DEF Methods
  <2>2. Fits("ListProfiles", ListProfiles)
    BY TypedMethods DEF ListProfiles, OneTransfer, Types, Schema
  <2> QED BY Zenon, <1>2, <2>1, <2>2
<1>3. CASE e = "GetMe"
  <2>1. Methods["GetMe"] = GetMe
    BY DEF Methods
  <2>2. Fits("GetMe", GetMe)
    BY TypedMethods DEF GetMe, OneTransfer, Types, Schema
  <2> QED BY Zenon, <1>3, <2>1, <2>2
<1>4. CASE e = "GetUser"
  <2>1. Methods["GetUser"] = GetUser
    BY DEF Methods
  <2>2. Fits("GetUser", GetUser)
    BY TypedMethods DEF GetUser, OneTransfer, Types, Schema
  <2> QED BY Zenon, <1>4, <2>1, <2>2
<1>5. CASE e = "ListBalances"
  <2>1. Methods["ListBalances"] = ListBalances
    BY DEF Methods
  <2>2. Fits("ListBalances", ListBalances)
    BY TypedMethods DEF ListBalances, OneTransfer, Types, Schema
  <2> QED BY Zenon, <1>5, <2>1, <2>2
<1>6. CASE e = "GetBalance"
  <2>1. Methods["GetBalance"] = GetBalance
    BY DEF Methods
  <2>2. Fits("GetBalance", GetBalance)
    BY TypedMethods DEF GetBalance, OneTransfer, Types, Schema
  <2> QED BY Zenon, <1>6, <2>1, <2>2
<1>7. CASE e = "CreateBalance"
  <2>1. Methods["CreateBalance"] = CreateBalance
    BY DEF Methods
  <2>2. Fits("CreateBalance", CreateBalance)
    BY TypedMethods DEF CreateBalance, OneTransfer, Types, Schema
  <2> QED BY Zenon, <1>7, <2>1, <2>2
<1>8. CASE e = "GetTotalFunds"
  <2>1. Methods["GetTotalFunds"] = GetTotalFunds
    BY DEF Methods
  <2>2. Fits("GetTotalFunds", GetTotalFunds)
    BY TypedMethods DEF GetTotalFunds, OneTransfer, Types, Schema
  <2> QED BY Zenon, <1>8, <2>1, <2>2
<1>9. CASE e = "GetMultiCurrencyAccount"
  <2>1. Methods["GetMultiCurrencyAccount"] = GetMultiCurrencyAccount
    BY DEF Methods
  <2>2. Fits("GetMultiCurrencyAccount", GetMultiCurrencyAccount)
    BY TypedMethods DEF GetMultiCurrencyAccount, OneTransfer, Types, Schema
  <2> QED BY Zenon, <1>9, <2>1, <2>2
<1>10. CASE e = "GetBankAccountDetails"
  <2>1. Methods["GetBankAccountDetails"] = GetBankAccountDetails
    BY DEF Methods
  <2>2. Fits("GetBankAccountDetails", GetBankAccountDetails)
    BY TypedMethods DEF GetBankAccountDetails, OneTransfer, Types, Schema
  <2> QED BY Zenon, <1>10, <2>1, <2>2
<1>11. CASE e = "ListCurrencies"
  <2>1. Methods["ListCurrencies"] = ListCurrencies
    BY DEF Methods
  <2>2. Fits("ListCurrencies", ListCurrencies)
    BY TypedMethods DEF ListCurrencies, OneTransfer, Types, Schema
  <2> QED BY Zenon, <1>11, <2>1, <2>2
<1>12. CASE e = "ListTransactions"
  <2>1. Methods["ListTransactions"] = ListTransactions
    BY DEF Methods
  <2>2. Fits("ListTransactions", ListTransactions)
    BY PartsTyped
  <2> QED BY Zenon, <1>12, <2>1, <2>2
<1>13. CASE e = "GetExchangeRate"
  <2>1. Methods["GetExchangeRate"] = GetExchangeRate
    BY DEF Methods
  <2>2. Fits("GetExchangeRate", GetExchangeRate)
    BY TypedMethods DEF GetExchangeRate, OneTransfer, Types, Schema
  <2> QED BY Zenon, <1>13, <2>1, <2>2
<1>14. CASE e = "ListRecipients"
  <2>1. Methods["ListRecipients"] = ListRecipients
    BY DEF Methods
  <2>2. Fits("ListRecipients", ListRecipients)
    BY TypedMethods DEF ListRecipients, OneTransfer, Types, Schema
  <2> QED BY Zenon, <1>14, <2>1, <2>2
<1>15. CASE e = "GetRecipient"
  <2>1. Methods["GetRecipient"] = GetRecipient
    BY DEF Methods
  <2>2. Fits("GetRecipient", GetRecipient)
    BY TypedMethods DEF GetRecipient, OneTransfer, Types, Schema
  <2> QED BY Zenon, <1>15, <2>1, <2>2
<1>16. CASE e = "CreateRecipient"
  <2>1. Methods["CreateRecipient"] = CreateRecipient
    BY DEF Methods
  <2>2. Fits("CreateRecipient", CreateRecipient)
    BY TypedMethods DEF CreateRecipient, OneTransfer, Types, Schema
  <2> QED BY Zenon, <1>16, <2>1, <2>2
<1>17. CASE e = "CreateUnauthenticatedQuote"
  <2>1. Methods["CreateUnauthenticatedQuote"] = QuoteCall
    BY DEF Methods
  <2>2. Fits("CreateUnauthenticatedQuote", QuoteCall)
    BY PartsTyped
  <2> QED BY Zenon, <1>17, <2>1, <2>2
<1>18. CASE e = "CreateQuote"
  <2>1. Methods["CreateQuote"] = QuoteCall
    BY DEF Methods
  <2>2. Fits("CreateQuote", QuoteCall)
    BY PartsTyped
  <2> QED BY Zenon, <1>18, <2>1, <2>2
<1>19. CASE e = "GetQuote"
  <2>1. Methods["GetQuote"] = QuoteCall
    BY DEF Methods
  <2>2. Fits("GetQuote", QuoteCall)
    BY PartsTyped
  <2> QED BY Zenon, <1>19, <2>1, <2>2
<1>20. CASE e = "ListTransfers"
  <2>1. Methods["ListTransfers"] = ListTransfers
    BY DEF Methods
  <2>2. Fits("ListTransfers", ListTransfers)
    BY TypedMethods DEF ListTransfers, OneTransfer, Types, Schema
  <2> QED BY Zenon, <1>20, <2>1, <2>2
<1>21. CASE e = "GetTransfer"
  <2>1. Methods["GetTransfer"] = GetTransfer
    BY DEF Methods
  <2>2. Fits("GetTransfer", GetTransfer)
    BY TypedMethods DEF GetTransfer, OneTransfer, Types, Schema
  <2> QED BY Zenon, <1>21, <2>1, <2>2
<1>22. CASE e = "CreateTransfer"
  <2>1. Methods["CreateTransfer"] = CreateTransfer
    BY DEF Methods
  <2>2. Fits("CreateTransfer", CreateTransfer)
    BY TypedMethods DEF CreateTransfer, OneTransfer, Types, Schema
  <2> QED BY Zenon, <1>22, <2>1, <2>2
<1>23. CASE e = "CancelTransfer"
  <2>1. Methods["CancelTransfer"] = CancelTransfer
    BY DEF Methods
  <2>2. Fits("CancelTransfer", CancelTransfer)
    BY TypedMethods DEF CancelTransfer, OneTransfer, Types, Schema
  <2> QED BY Zenon, <1>23, <2>1, <2>2
<1>24. CASE e = "FundTransfer"
  <2>1. Methods["FundTransfer"] = FundTransfer
    BY DEF Methods
  <2>2. Fits("FundTransfer", FundTransfer)
    BY TypedMethods DEF FundTransfer, OneTransfer, Types, Schema
  <2> QED BY Zenon, <1>24, <2>1, <2>2
<1>25. CASE e = "ListTransferPayments"
  <2>1. Methods["ListTransferPayments"] = ListTransferPayments
    BY DEF Methods
  <2>2. Fits("ListTransferPayments", ListTransferPayments)
    BY TypedMethods DEF ListTransferPayments, OneTransfer, Types, Schema
  <2> QED BY Zenon, <1>25, <2>1, <2>2
<1>26. CASE e = "GetDeliveryEstimate"
  <2>1. Methods["GetDeliveryEstimate"] = GetDeliveryEstimate
    BY DEF Methods
  <2>2. Fits("GetDeliveryEstimate", GetDeliveryEstimate)
    BY TypedMethods DEF GetDeliveryEstimate, OneTransfer, Types, Schema
  <2> QED BY Zenon, <1>26, <2>1, <2>2
<1>27. CASE e = "CreateThirdPartyTransfer"
  <2>1. Methods["CreateThirdPartyTransfer"] = CreateThirdPartyTransfer
    BY DEF Methods
  <2>2. Fits("CreateThirdPartyTransfer", CreateThirdPartyTransfer)
    BY TypedMethods DEF CreateThirdPartyTransfer, OneTransfer, Types, Schema
  <2> QED BY Zenon, <1>27, <2>1, <2>2
<1>28. CASE e = "GetThirdPartyTransfer"
  <2>1. Methods["GetThirdPartyTransfer"] = GetThirdPartyTransfer
    BY DEF Methods
  <2>2. Fits("GetThirdPartyTransfer", GetThirdPartyTransfer)
    BY TypedMethods DEF GetThirdPartyTransfer, OneTransfer, Types, Schema
  <2> QED BY Zenon, <1>28, <2>1, <2>2
<1>29. CASE e = "CreateProfileWebhookSubscription"
  <2>1. Methods["CreateProfileWebhookSubscription"] = CreateProfileWebhookSubscription
    BY DEF Methods
  <2>2. Fits("CreateProfileWebhookSubscription", CreateProfileWebhookSubscription)
    BY TypedMethods DEF CreateProfileWebhookSubscription, OneTransfer, Types, Schema
  <2> QED BY Zenon, <1>29, <2>1, <2>2
<1>30. CASE e = "GetProfileWebhookSubscription"
  <2>1. Methods["GetProfileWebhookSubscription"] = GetProfileWebhookSubscription
    BY DEF Methods
  <2>2. Fits("GetProfileWebhookSubscription", GetProfileWebhookSubscription)
    BY TypedMethods DEF GetProfileWebhookSubscription, OneTransfer, Types, Schema
  <2> QED BY Zenon, <1>30, <2>1, <2>2
<1>31. CASE e = "ListProfileWebhookSubscriptions"
  <2>1. Methods["ListProfileWebhookSubscriptions"] = ListProfileWebhookSubscriptions
    BY DEF Methods
  <2>2. Fits("ListProfileWebhookSubscriptions", ListProfileWebhookSubscriptions)
    BY TypedMethods DEF ListProfileWebhookSubscriptions, OneTransfer, Types, Schema
  <2> QED BY Zenon, <1>31, <2>1, <2>2
<1> QED BY <1>1, <1>2, <1>3, <1>4, <1>5, <1>6, <1>7, <1>8, <1>9, <1>10, <1>11, <1>12,
       <1>13, <1>14, <1>15, <1>16, <1>17, <1>18, <1>19, <1>20, <1>21, <1>22, <1>23, <1>24,
       <1>25, <1>26, <1>27, <1>28, <1>29, <1>30, <1>31
       DEF Methods

-----------------------------------------------------------------------------
\* The body is a list of rows as the decoder leaves them.
DecodedList(a) ==
  /\ a \in Seq({a[i] : i \in DOMAIN a})
  /\ \A i \in DOMAIN a : Shaped(a[i])

\* Transfers that may fail plainly are those of the methods that return one.
TransfersOf(e, a) ==
  \A i \in DOMAIN a : a[i].type = "transfer" => Methods[e].wraps \/ e \in OneTransfer

\* What an answer made of a layout is.
LEMMA AnswerRows ==
  ASSUME NEW layout \in Seq(Types), NEW a \in Answers(layout)
  PROVE  DecodedList(a) /\ DOMAIN a = DOMAIN layout /\ \A i \in DOMAIN a : a[i].type = layout[i]
<1>1. PICK spare \in SUBSET {i \in DOMAIN layout : layout[i] \in {"balance", "rate"}},
           flaw \in Flaws(layout) :
        a = Body(layout, spare, flaw)
  BY DEF Answers
<1> USE DEF Body
<1>2. DOMAIN a = DOMAIN layout /\ \A i \in DOMAIN a : a[i].type = layout[i]
  BY <1>1
<1>3. \A i \in DOMAIN a : DOMAIN a[i].cells = DOMAIN Schema[layout[i]]
  BY <1>1
<1>4. DOMAIN layout = 1..Len(layout) /\ Len(layout) \in Nat
      /\ \A i \in DOMAIN layout : layout[i] \in Types
  BY LenProperties, ElementOfSeq
<1>5. \A i \in DOMAIN a : Shaped(a[i])
  BY <1>2, <1>3, <1>4 DEF Shaped
<1>6. a \in Seq({a[i] : i \in DOMAIN a})
  <2> DEFINE rows == {a[i] : i \in DOMAIN a}
  <2>1. a \in [1..Len(layout) -> rows]
    BY <1>1, <1>2, <1>4
  <2> HIDE DEF rows
  <2>2. a \in Seq(rows)
    BY <1>4, <2>1, SeqDef
  <2> QED BY <2>2 DEF rows
<1> QED BY <1>2, <1>5, <1>6 DEF DecodedList

\* An entry of two lists joined is an entry of one of them.
LEMMA EntryOfEither ==
  ASSUME NEW S, NEW s \in Seq(S), NEW t \in Seq(S), NEW i \in 1..Len(s \o t)
  PROVE  \/ \E j \in 1..Len(s) : (s \o t)[i] = s[j]
         \/ \E j \in 1..Len(t) : (s \o t)[i] = t[j]
<1> DEFINE st == s \o t
<1>1. /\ Len(s) \in Nat /\ Len(t) \in Nat /\ Len(st) = Len(s) + Len(t)
      /\ \A j \in 1..Len(s) + Len(t) :
           st[j] = IF j <= Len(s) THEN s[j] ELSE t[j - Len(s)]
  BY ConcatProperties, LenProperties
<1>1a. i \in Nat /\ i >= 1 /\ i <= Len(s) + Len(t)
  BY <1>1
<1> HIDE DEF st
<1>2. CASE i <= Len(s)
  BY <1>1, <1>1a, <1>2 DEF st
<1>3. CASE i > Len(s)
  <2>1. i - Len(s) \in 1..Len(t) /\ st[i] = t[i - Len(s)]
    BY <1>1, <1>1a, <1>3
  <2> QED BY <2>1 DEF st
<1> QED BY <1>1, <1>1a, <1>2, <1>3


\* Its positions are counted from one.
LEMMA ListFacts ==
  ASSUME NEW a, DecodedList(a)
  PROVE  Len(a) \in Nat /\ DOMAIN a = 1..Len(a) /\ (a = << >> <=> Len(a) = 0)
<1> DEFINE S == {a[i] : i \in DOMAIN a}
<1>1. a \in Seq(S)
  BY DEF DecodedList
<1> HIDE DEF S
<1> QED BY <1>1, LenProperties, EmptySeq

\* The rows of a method's answers.
LEMMA DecodedRows ==
  ASSUME NEW e \in DOMAIN Methods, NEW layout \in Layouts(Methods[e]), NEW a \in Answers(layout)
  PROVE  DecodedList(a) /\ TransfersOf(e, a)
<1> DEFINE m == Methods[e]
<1>1. Typed(m) /\ (TransferFirst(m) => e \in OneTransfer)
  BY MethodsTyped
<1>2. PICK rows \in UNION {[1..n -> m.each] : n \in 0..MaxRows} :
        layout = m.before \o rows \o m.after
  BY Zenon DEF Layouts
<1>2a. PICK n \in 0..MaxRows : rows \in [1..n -> m.each]
  BY <1>2
<1> HIDE DEF m
<1>3. /\ m.before \in Seq(Types) /\ m.after \in Seq(Types) /\ m.each \subseteq Types
      /\ rows \in Seq(Types) /\ Len(rows) = n /\ \A i \in 1..n : rows[i] \in m.each
  <2>1. rows \in [1..n -> Types] /\ n \in Nat
    BY <1>1, <1>2a, BoundsAssumption DEF Typed
  <2> QED BY <1>1, <1>2a, <2>1, SeqDef, LenProperties DEF Typed
<1>4. layout \in Seq(Types)
  BY <1>2, <1>3, ConcatProperties
<1>5. ASSUME NEW i \in DOMAIN layout, layout[i] = "transfer"
      PROVE  m.wraps \/ e \in OneTransfer
  <2>1. m.before \o rows \in Seq(Types) /\ i \in 1..Len((m.before \o rows) \o m.after)
    BY <1>2, <1>3, <1>4, ConcatProperties, LenProperties
  <2> DEFINE head == m.before \o rows
  <2>2. \/ \E j \in 1..Len(head) : layout[i] = head[j]
        \/ \E j \in 1..Len(m.after) : layout[i] = m.after[j]
    <3>0. head \in Seq(Types) /\ m.after \in Seq(Types)
      BY <1>3, <2>1
    <3> HIDE DEF head
    <3>1. ASSUME NEW k \in 1..Len(head \o m.after)
          PROVE  \/ \E j \in 1..Len(head) : (head \o m.after)[k] = head[j]
                 \/ \E j \in 1..Len(m.after) : (head \o m.after)[k] = m.after[j]
      BY <3>0, EntryOfEither
    <3> QED BY Zenon, <1>2, <2>1, <3>1 DEF head
  <2>3. ASSUME NEW j \in 1..Len(head)
        PROVE  \/ \E k \in 1..Len(m.before) : head[j] = m.before[k]
               \/ \E k \in 1..Len(rows) : head[j] = rows[k]
    BY <1>3, EntryOfEither
  <2> HIDE DEF head
  <2> QED BY <1>1, <1>3, <1>5, <2>2, <2>3 DEF Typed, TransferFirst
<1>6. DecodedList(a) /\ DOMAIN a = DOMAIN layout /\ \A i \in DOMAIN a : a[i].type = layout[i]
  BY <1>4, AnswerRows
<1> QED BY <1>5, <1>6 DEF TransfersOf, m

\* A set of positions that is not empty has a first one, and Min is that.
LEMMA FirstPosition ==
  ASSUME NEW S, S \subseteq Nat, S # {}
  PROVE  Min(S) \in S /\ \A i \in S : Min(S) <= i
<1>1. IsWellFoundedOn({ss \in Nat \X Nat : ss[1] < ss[2]}, Nat)
  BY NatLessThanWellFounded DEF OpToRel
<1>2. PICK x \in S : \A y \in S : ~(<<y, x>> \in {ss \in Nat \X Nat : ss[1] < ss[2]})
  BY <1>1, WFMin
<1>3. ASSUME NEW y \in S PROVE x <= y
  <2>1. x \in Nat /\ y \in Nat /\ <<y, x>> \in Nat \X Nat
    OBVIOUS
  <2>2. <<y, x>>[1] = y /\ <<y, x>>[2] = x
    OBVIOUS
  <2>3. ~(y < x)
    BY Zenon, <1>2, <2>1, <2>2
  <2> QED BY <2>1, <2>3
<1> QED BY <1>2, <1>3 DEF Min

-----------------------------------------------------------------------------
Due == Contract!Due(endpoint, answer)

\* A method is being called, or none; nothing is held before an answer is decoded.
TypeOK ==
  /\ outcome \in {"idle", "waiting", "mapping"} \cup Contract!Ends
  /\ IF outcome = "idle" THEN endpoint = "none" ELSE endpoint \in DOMAIN Methods
  /\ DecodedList(answer)
  /\ row \in Nat /\ col \in Nat
  /\ outcome \in {"idle", "waiting", "rejection", "unanswered"} => answer = << >> /\ got = {}

\* The due rows before the present one are mapped and well formed, and the present
\* one is due and has passed the checks so far.
MapInv ==
  outcome = "mapping" =>
    /\ TransfersOf(endpoint, answer)
    /\ got = {i \in Due : i < row}
    /\ \A i \in Due : i < row => WellFormed(answer[i])
    /\ row \in 1..Len(answer) + 1
    /\ endpoint = "GetExchangeRate" /\ row \in DOMAIN answer => row \in Due
    /\ col > 1 => row \in DOMAIN answer /\ row \in Due
    /\ row \in DOMAIN answer =>
         \A k \in DOMAIN Checks : k < col => Parses(Checks[k], answer[row].cells[Checks[k].field])

\* A value is made of the due rows.
ValueInv == outcome = "value" => got = Due

IInv == TypeOK /\ MapInv /\ ValueInv /\ FirstFlawDecides /\ PlainFailuresAreTransfers

-----------------------------------------------------------------------------
\* The rows that are due, method by method.
LEMMA DueFacts ==
  ASSUME NEW e, NEW a, DecodedList(a)
  PROVE  /\ Contract!Due(e, a) \subseteq DOMAIN a
         /\ e = "ListBalances" => Contract!Due(e, a) = {i \in DOMAIN a : a[i].wanted}
         /\ e = "GetExchangeRate" /\ a # << >> =>
              ChosenRate(a) \in DOMAIN a /\ Contract!Due(e, a) = {ChosenRate(a)}
         /\ a = << >> => ChosenRate(a) = 1 /\ Contract!Due(e, a) = {}
         /\ e \notin {"ListBalances", "GetExchangeRate"} => Contract!Due(e, a) = DOMAIN a
<1> DEFINE wanted == {i \in DOMAIN a : a[i].wanted}
<1>1. DOMAIN a = 1..Len(a) /\ Len(a) \in Nat /\ wanted \subseteq DOMAIN a
  BY ListFacts
<1>2. a = << >> => DOMAIN a = {}
  BY <1>1, ListFacts
<1>3. a # << >> => 1 \in DOMAIN a
  BY <1>1, ListFacts
<1>4. wanted # {} => Min(wanted) \in wanted
  BY <1>1, FirstPosition
<1>5. ChosenRate(a) = IF wanted # {} THEN Min(wanted) ELSE 1
  BY DEF ChosenRate
<1>6. CASE e = "ListBalances"
  BY <1>1, <1>2, <1>5, <1>6 DEF Contract!Due, Contract!Wanted
<1>7. CASE e = "GetExchangeRate"
  <2>1. Contract!Due(e, a) = IF wanted # {} THEN {Min(wanted)} ELSE DOMAIN a \cap {1}
    BY <1>7 DEF Contract!Due, Contract!Wanted, Contract!Min, Min
  <2> HIDE DEF wanted
  <2> QED BY <1>1, <1>2, <1>3, <1>4, <1>5, <1>7, <2>1
<1>8. CASE e \notin {"ListBalances", "GetExchangeRate"}
  BY <1>1, <1>2, <1>5, <1>8 DEF Contract!Due
<1> QED BY <1>6, <1>7, <1>8

\* A decoded row has a mapper, and its checks are counted from one.
LEMMA RowFacts ==
  ASSUME NEW a, DecodedList(a), NEW i \in DOMAIN a
  PROVE  /\ Shaped(a[i]) /\ a[i].type \in Types
         /\ Len(Mapper[a[i].type]) \in Nat
         /\ DOMAIN Mapper[a[i].type] = 1..Len(Mapper[a[i].type])
<1>1. Shaped(a[i])
  BY DEF DecodedList
<1>2. a[i].type \in Types
  BY <1>1 DEF Shaped
<1> QED BY <1>1, <1>2, MappersCover DEF Checked

\* An answer under way: its rows, those that are due, and the checks of the next one.
LEMMA MappingFacts ==
  ASSUME TypeOK, outcome = "mapping"
  PROVE  /\ Len(answer) \in Nat /\ DOMAIN answer = 1..Len(answer)
         /\ Due \subseteq 1..Len(answer)
         /\ endpoint = "ListBalances" => \A i \in DOMAIN answer : i \in Due <=> answer[i].wanted
         /\ endpoint = "GetExchangeRate" => \A i, j \in Due : i = j
         /\ endpoint \notin {"ListBalances", "GetExchangeRate"} => Due = DOMAIN answer
         /\ \A i \in DOMAIN answer :
              /\ Shaped(answer[i])
              /\ Len(Mapper[answer[i].type]) \in Nat
              /\ DOMAIN Mapper[answer[i].type] = 1..Len(Mapper[answer[i].type])
<1>1. DecodedList(answer)
  BY DEF TypeOK
<1>2. /\ Due \subseteq DOMAIN answer
      /\ endpoint = "ListBalances" => Due = {i \in DOMAIN answer : answer[i].wanted}
      /\ endpoint = "GetExchangeRate" => \A i, j \in Due : i = j
      /\ endpoint \notin {"ListBalances", "GetExchangeRate"} => Due = DOMAIN answer
  BY <1>1, DueFacts DEF Due
<1>3. ASSUME NEW i \in DOMAIN answer
      PROVE  /\ Shaped(answer[i])
             /\ Len(Mapper[answer[i].type]) \in Nat
             /\ DOMAIN Mapper[answer[i].type] = 1..Len(Mapper[answer[i].type])
  BY <1>1, RowFacts
<1> QED BY <1>1, <1>2, <1>3, ListFacts

\* The row being mapped, unless it is skipped, is due.
LEMMA RowIsDue ==
  ASSUME TypeOK, MapInv, More, ~Skips(answer[row])
  PROVE  row \in Due
BY MappingFacts DEF MapInv, More, Skips

\* A mapping begins at the first row, or at the rate that was chosen.
LEMMA DecodedStep ==
  ASSUME IInv, Decoded
  PROVE  IInv'
<1>1. /\ outcome = "waiting" /\ outcome' = "mapping" /\ endpoint' = endpoint /\ got' = got
      /\ row' = IF endpoint = "GetExchangeRate" THEN ChosenRate(answer') ELSE 1
      /\ col' = 1
  BY DEF Decoded
<1>2. endpoint \in DOMAIN Methods /\ got = {}
  BY <1>1 DEF IInv, TypeOK
<1>3. PICK layout \in Layouts(Methods[endpoint]) : answer' \in Answers(layout)
  BY DEF Decoded
<1>4. DecodedList(answer') /\ TransfersOf(endpoint, answer')
  BY <1>2, <1>3, DecodedRows
<1>5. /\ Due' = Contract!Due(endpoint, answer')
      /\ Len(answer') \in Nat /\ DOMAIN answer' = 1..Len(answer')
      /\ answer' = << >> <=> Len(answer') = 0
  BY <1>1, <1>4, ListFacts DEF Due
<1>6. /\ Due' \subseteq DOMAIN answer'
      /\ endpoint = "GetExchangeRate" /\ answer' # << >> =>
           ChosenRate(answer') \in DOMAIN answer' /\ Due' = {ChosenRate(answer')}
      /\ answer' = << >> => ChosenRate(answer') = 1 /\ Due' = {}
  BY <1>4, <1>5, DueFacts
<1>7. /\ row' \in 1..Len(answer') + 1 /\ row' \in Nat
      /\ \A i \in Due' : ~(i < row')
      /\ endpoint = "GetExchangeRate" /\ row' \in DOMAIN answer' => row' \in Due'
  <2>1. CASE endpoint = "GetExchangeRate" /\ answer' # << >>
    BY <1>1, <1>5, <1>6, <2>1
  <2>2. CASE endpoint = "GetExchangeRate" /\ answer' = << >>
    BY <1>1, <1>5, <1>6, <2>2
  <2>3. CASE endpoint # "GetExchangeRate"
    BY <1>1, <1>5, <1>6, <2>3
  <2> QED BY <2>1, <2>2, <2>3
<1>8. TypeOK'
  BY <1>1, <1>2, <1>4, <1>7 DEF TypeOK, Contract!Ends, Contract!Failures
<1>9. ASSUME row' \in DOMAIN answer', NEW k \in DOMAIN Checks'
      PROVE  ~(k < col')
  <2>1. k \in 1..Len(Mapper[answer'[row'].type]) /\ Len(Mapper[answer'[row'].type]) \in Nat
    BY <1>4, <1>9, RowFacts DEF Checks
  <2> QED BY <1>1, <2>1
<1> QED BY <1>1, <1>2, <1>4, <1>5, <1>7, <1>8, <1>9
        DEF IInv, MapInv, ValueInv, FirstFlawDecides, PlainFailuresAreTransfers

\* A row that is left out was not due.
LEMMA SkipStep ==
  ASSUME IInv, SkipRow
  PROVE  IInv'
<1>1. /\ outcome = "mapping" /\ row \in DOMAIN answer /\ col = 1
      /\ endpoint = "ListBalances" /\ ~answer[row].wanted
      /\ row' = row + 1 /\ UNCHANGED <<callVars, col>>
  BY DEF SkipRow, More, Skips
<1>2. TypeOK /\ MapInv
  BY DEF IInv
<1>3. row \in 1..Len(answer) /\ Len(answer) \in Nat /\ Due \subseteq 1..Len(answer) /\ row \notin Due
  BY <1>1, <1>2, MappingFacts
<1>4. Due' = Due /\ answer' = answer /\ endpoint' = endpoint /\ got' = got /\ outcome' = outcome
      /\ col' = 1
  BY <1>1 DEF Due, callVars
<1>5. /\ \A i \in Due : (i < row' <=> i < row)
      /\ got = {i \in Due : i < row'} /\ \A i \in Due : i < row' => WellFormed(answer[i])
      /\ row' \in 1..Len(answer) + 1
  <2>1. \A i \in Due : (i < row' <=> i < row)
    BY <1>1, <1>3
  <2>2. got = {i \in Due : i < row} /\ \A i \in Due : i < row => WellFormed(answer[i])
    BY <1>1, <1>2 DEF MapInv
  <2>3. {i \in Due : i < row'} = {i \in Due : i < row}
    BY <2>1
  <2>4. row' \in 1..Len(answer) + 1
    BY <1>1, <1>3
  <2> QED BY <2>1, <2>2, <2>3, <2>4
<1>6. TypeOK'
  BY <1>1, <1>2, <1>3, <1>4 DEF TypeOK
<1>7. ASSUME row' \in DOMAIN answer', NEW k \in DOMAIN Checks'
      PROVE  ~(k < col')
  <2>1. DecodedList(answer')
    BY <1>6 DEF TypeOK
  <2>2. k \in 1..Len(Mapper[answer'[row'].type]) /\ Len(Mapper[answer'[row'].type]) \in Nat
    BY <1>7, <2>1, RowFacts DEF Checks
  <2> QED BY <1>4, <2>2
<1>8. MapInv'
  BY <1>1, <1>2, <1>3, <1>4, <1>5, <1>7 DEF MapInv, TransfersOf
<1> QED BY <1>1, <1>4, <1>6, <1>8 DEF IInv, ValueInv, FirstFlawDecides, PlainFailuresAreTransfers

\* A check that passes.
LEMMA FieldStep ==
  ASSUME IInv, MapField
  PROVE  IInv'
<1>1. /\ outcome = "mapping" /\ row \in DOMAIN answer /\ col \in DOMAIN Checks
      /\ Parses(Checks[col], answer[row].cells[Checks[col].field])
      /\ col' = col + 1 /\ UNCHANGED <<callVars, row>>
      /\ More /\ ~Skips(answer[row])
  BY DEF MapField, More
<1>2. TypeOK /\ MapInv
  BY DEF IInv
<1>3. row \in Due /\ row \in 1..Len(answer)
  BY <1>1, <1>2, RowIsDue, MappingFacts
<1>4. col \in Nat /\ Len(Checks) \in Nat /\ DOMAIN Checks = 1..Len(Checks)
  BY <1>1, <1>2, MappingFacts DEF Checks
<1>5. /\ Due' = Due /\ answer' = answer /\ endpoint' = endpoint /\ got' = got
      /\ outcome' = outcome /\ row' = row /\ Checks' = Checks
  BY <1>1 DEF Due, callVars, Checks
<1>6. TypeOK'
  BY <1>1, <1>2, <1>4, <1>5 DEF TypeOK
<1>7. ASSUME NEW k \in DOMAIN Checks, k < col'
      PROVE  Parses(Checks[k], answer[row].cells[Checks[k].field])
  <2>1. k < col \/ k = col
    BY <1>1, <1>4, <1>7
  <2> QED BY <1>1, <1>2, <2>1 DEF MapInv
<1>8. MapInv'
  BY <1>1, <1>2, <1>3, <1>5, <1>7 DEF MapInv, TransfersOf
<1> QED BY <1>1, <1>5, <1>6, <1>8 DEF IInv, ValueInv, FirstFlawDecides, PlainFailuresAreTransfers

\* A check that fails is of a due row, which is therefore malformed.
LEMMA FlawFound ==
  ASSUME IInv, MapFails
  PROVE  /\ row \in Due /\ ~WellFormed(answer[row])
         /\ \A i \in Due : i < row => WellFormed(answer[i])
         /\ outcome' \in {"corruption", "plain"}
         /\ outcome' = "plain" =>
              /\ answer[row].type = "transfer" /\ answer[row].cells["created"] # "good"
              /\ endpoint \in OneTransfer
<1>1. /\ outcome = "mapping" /\ row \in DOMAIN answer /\ col \in DOMAIN Checks
      /\ ~Parses(Checks[col], answer[row].cells[Checks[col].field])
      /\ outcome' = IF Methods[endpoint].wraps THEN "corruption" ELSE Checks[col].fails
      /\ More /\ ~Skips(answer[row])
  BY DEF MapFails, More
<1>2. TypeOK /\ MapInv
  BY DEF IInv
<1>3. row \in Due /\ \A i \in Due : i < row => WellFormed(answer[i])
  BY <1>1, <1>2, RowIsDue DEF MapInv
<1>4. Shaped(answer[row]) /\ answer[row].type \in Types
  BY <1>1, <1>2, RowFacts DEF TypeOK
<1>5. ~WellFormed(answer[row])
  BY <1>1, <1>4, ChecksDecide DEF Checks
<1>6. \/ Checks[col].fails = "corruption"
      \/ /\ Checks[col].fails = "plain"
         /\ answer[row].type = "transfer" /\ Checks[col].field = "created"
  BY <1>1, <1>4, PlainChecks DEF Checks
<1>7. ASSUME outcome' = "plain"
      PROVE  /\ answer[row].type = "transfer" /\ answer[row].cells["created"] # "good"
             /\ endpoint \in OneTransfer
  <2>1. ~Methods[endpoint].wraps /\ Checks[col].fails = "plain"
    BY <1>1, <1>7
  <2>2. answer[row].type = "transfer" /\ Checks[col].field = "created"
    BY <1>6, <2>1
  <2>3. TransfersOf(endpoint, answer)
    BY <1>1, <1>2 DEF MapInv
  <2>4. answer[row].cells[Checks[col].field] # "good"
    BY <1>1 DEF Parses
  <2>5. answer[row].cells["created"] # "good"
    BY Zenon, <2>2, <2>4
  <2> QED BY <1>1, <2>1, <2>2, <2>3, <2>5 DEF TransfersOf
<1> QED BY <1>1, <1>3, <1>5, <1>6, <1>7

\* The failure keeps the place of that row, and drops the rows mapped before it.
LEMMA FailStep ==
  ASSUME IInv, MapFails
  PROVE  IInv'
<1>1. outcome = "mapping" /\ got' = {} /\ UNCHANGED <<endpoint, answer, row, col>>
  BY DEF MapFails, More
<1>2. Due' = Due
  BY <1>1 DEF Due
<1>3. /\ row \in Due /\ ~WellFormed(answer[row])
      /\ \A i \in Due : i < row => WellFormed(answer[i])
      /\ outcome' \in {"corruption", "plain"}
      /\ outcome' = "plain" =>
           /\ answer[row].type = "transfer" /\ answer[row].cells["created"] # "good"
           /\ endpoint \in OneTransfer
  BY FlawFound
<1>4. TypeOK'
  BY <1>1, <1>3 DEF IInv, TypeOK, Contract!Ends, Contract!Failures
<1>5. FirstFlawDecides'
  BY <1>1, <1>2, <1>3 DEF FirstFlawDecides, Due
<1>6. PlainFailuresAreTransfers'
  BY <1>1, <1>3 DEF PlainFailuresAreTransfers, OneTransfer
<1> QED BY <1>1, <1>3, <1>4, <1>5, <1>6 DEF IInv, MapInv, ValueInv

\* A row that has passed all its checks is well formed.
LEMMA AppendStep ==
  ASSUME IInv, AppendRow
  PROVE  IInv'
<1>1. /\ outcome = "mapping" /\ row \in DOMAIN answer /\ col > Len(Checks)
      /\ got' = got \cup {row} /\ col' = 1
      /\ row' = IF endpoint = "GetExchangeRate" THEN Len(answer) + 1 ELSE row + 1
      /\ UNCHANGED <<endpoint, answer, outcome>>
      /\ More /\ ~Skips(answer[row])
  BY DEF AppendRow, More
<1>2. TypeOK /\ MapInv
  BY DEF IInv
<1>3. /\ row \in Due /\ row \in 1..Len(answer) /\ Len(answer) \in Nat /\ Due \subseteq 1..Len(answer)
      /\ DOMAIN answer = 1..Len(answer)
      /\ endpoint = "GetExchangeRate" => \A i \in Due : i = row
  BY <1>1, <1>2, RowIsDue, MappingFacts
<1>4. WellFormed(answer[row])
  <2>1. Shaped(answer[row]) /\ Len(Checks) \in Nat /\ DOMAIN Checks = 1..Len(Checks)
    BY <1>1, <1>2, MappingFacts DEF Checks
  <2>2. \A k \in DOMAIN Checks : k < col
    BY <1>1, <1>2, <2>1 DEF TypeOK
  <2>3. \A k \in DOMAIN Checks : Parses(Checks[k], answer[row].cells[Checks[k].field])
    BY <1>1, <1>2, <2>2 DEF MapInv
  <2> QED BY <2>1, <2>3, ChecksDecide DEF Checks
<1>5. Due' = Due /\ answer' = answer /\ endpoint' = endpoint /\ outcome' = outcome
  BY <1>1 DEF Due
<1>6. \A i \in Due : (i < row' <=> i < row \/ i = row)
  <2>1. CASE endpoint = "GetExchangeRate"
    BY <1>1, <1>3, <2>1
  <2>2. CASE endpoint # "GetExchangeRate"
    BY <1>1, <1>3, <2>2
  <2> QED BY <2>1, <2>2
<1>7. got = {i \in Due : i < row} /\ \A i \in Due : i < row => WellFormed(answer[i])
  BY <1>1, <1>2 DEF MapInv
<1>8. got' = {i \in Due : i < row'} /\ \A i \in Due : i < row' => WellFormed(answer[i])
  <2>1. {i \in Due : i < row'} = {i \in Due : i < row} \cup {row}
    BY <1>3, <1>6
  <2> QED BY <1>1, <1>4, <1>6, <1>7, <2>1
<1>9. /\ row' \in 1..Len(answer) + 1 /\ row' \in Nat
      /\ endpoint = "GetExchangeRate" => row' \notin DOMAIN answer
  BY <1>1, <1>3
<1>10. TypeOK'
  BY <1>1, <1>2, <1>5, <1>9 DEF TypeOK
<1>11. ASSUME row' \in DOMAIN answer', NEW k \in DOMAIN Checks'
       PROVE  ~(k < col')
  <2>1. DecodedList(answer')
    BY <1>10 DEF TypeOK
  <2>2. k \in 1..Len(Mapper[answer'[row'].type]) /\ Len(Mapper[answer'[row'].type]) \in Nat
    BY <1>11, <2>1, RowFacts DEF Checks
  <2> QED BY <1>1, <2>2
<1>12. MapInv'
  BY <1>1, <1>2, <1>5, <1>8, <1>9, <1>11 DEF MapInv, TransfersOf
<1> QED BY <1>1, <1>5, <1>10, <1>12 DEF IInv, ValueInv, FirstFlawDecides, PlainFailuresAreTransfers

\* What is behind the last row has been mapped.
LEMMA AllMapped ==
  ASSUME IInv, Return
  PROVE  got = Due /\ \A i \in Due : WellFormed(answer[i])
<1>1. outcome = "mapping" /\ row > Len(answer)
  BY DEF Return
<1>2. TypeOK /\ MapInv
  BY DEF IInv
<1>3. Due \subseteq 1..Len(answer) /\ Len(answer) \in Nat /\ row \in Nat
  BY <1>1, <1>2, MappingFacts DEF TypeOK
<1>4. \A i \in Due : i < row
  BY <1>1, <1>3
<1>5. got = {i \in Due : i < row} /\ \A i \in Due : i < row => WellFormed(answer[i])
  BY <1>1, <1>2 DEF MapInv
<1> QED BY <1>4, <1>5

-----------------------------------------------------------------------------
\* The inductive invariant holds at the start.
LEMMA Initially == Init => IInv
<1> SUFFICES ASSUME Init PROVE IInv
  OBVIOUS
<1>1. DecodedList(<< >>)
  BY EmptySeq DEF DecodedList
<1> QED BY <1>1
       DEF Init, IInv, TypeOK, MapInv, ValueInv, FirstFlawDecides, PlainFailuresAreTransfers

\* The steps that map a row are the lemmas above, the others begin or end a call.
LEMMA StepPreserves == IInv /\ [Next]_vars => IInv'
<1> SUFFICES ASSUME IInv, [Next]_vars PROVE IInv'
  OBVIOUS
<1>1. TypeOK
  BY DEF IInv
<1>2. ASSUME NEW e \in DOMAIN Methods, Request(e) PROVE IInv'
  BY <1>1, <1>2 DEF Request, IInv, TypeOK, MapInv, ValueInv, FirstFlawDecides, PlainFailuresAreTransfers,
     Contract!Ends, Contract!Failures
<1>3. CASE Unanswered
  BY <1>1, <1>3 DEF Unanswered, IInv, TypeOK, MapInv, ValueInv, FirstFlawDecides,
     PlainFailuresAreTransfers, Contract!Ends, Contract!Failures
<1>4. CASE Undecodable
  BY <1>1, <1>4 DEF Undecodable, IInv, TypeOK, MapInv, ValueInv, FirstFlawDecides,
     PlainFailuresAreTransfers, Contract!Ends, Contract!Failures
<1>5. CASE EmptyRateList
  BY <1>1, <1>5 DEF EmptyRateList, IInv, TypeOK, MapInv, ValueInv, FirstFlawDecides,
     PlainFailuresAreTransfers, Contract!Ends, Contract!Failures
<1>6. CASE Return
  <2>1. got' = Due'
    BY <1>6, AllMapped DEF Return, Due
  <2> QED BY <1>1, <1>6, <2>1 DEF Return, IInv, TypeOK, MapInv, ValueInv, FirstFlawDecides,
          PlainFailuresAreTransfers, Contract!Ends, Contract!Failures
<1>7. CASE Clear
  <2>1. DecodedList(<< >>)
    BY EmptySeq DEF DecodedList
  <2> QED BY <1>7, <2>1 DEF Clear, IInv, TypeOK, MapInv, ValueInv, FirstFlawDecides,
          PlainFailuresAreTransfers
<1>8. CASE UNCHANGED vars
  BY <1>8 DEF vars, callVars, IInv, TypeOK, MapInv, ValueInv, FirstFlawDecides,
     PlainFailuresAreTransfers, Due, Checks, TransfersOf
<1> QED BY <1>2, <1>3, <1>4, <1>5, <1>6, <1>7, <1>8, DecodedStep, SkipStep, FieldStep,
       FailStep, AppendStep
        DEF Next, Mapping

\* So it holds for ever.
LEMMA Invariance == Spec => []IInv
  BY Initially, StepPreserves, PTL DEF Spec

\* Every variable has its type, and an answer its shape, for listings of any length.
THEOREM TypeCorrect == Spec => []TypeOK
<1>1. IInv => TypeOK
  BY DEF IInv
<1> QED BY <1>1, Invariance, PTL

\* A failed mapping has stopped at the first malformed row the caller is entitled to
\* (mapTransfer and its siblings), for any number of rows and flaws.
THEOREM FlawsAreReportedInOrder == Spec => []FirstFlawDecides
<1>1. IInv => FirstFlawDecides
  BY DEF IInv
<1> QED BY <1>1, Invariance, PTL

\* Only a transfer's creation time fails with a plain error, and only in a method
\* that returns one transfer (transfers.go:378), for any number of rows and flaws.
THEOREM OnlyTransfersFailPlainly == Spec => []PlainFailuresAreTransfers
<1>1. IInv => PlainFailuresAreTransfers
  BY DEF IInv
<1> QED BY <1>1, Invariance, PTL

-----------------------------------------------------------------------------
\* The contract speaks of the same schemas.
LEMMA SameSchemas == \A r : Contract!WellFormed(r) <=> WellFormed(r)
<1>1. Contract!Schema = Schema
  BY DEF Schema, Contract!Schema, Profile, Contract!Profile, User, Contract!User,
     Balance, Contract!Balance, TotalFunds, Contract!TotalFunds,
     MultiCurrencyAccount, Contract!MultiCurrencyAccount,
     AccountDetails, Contract!AccountDetails, CurrencyInfo, Contract!CurrencyInfo,
     StatementTransaction, Contract!StatementTransaction, Statement, Contract!Statement,
     ExchangeRate, Contract!ExchangeRate, Recipient, Contract!Recipient,
     Quote, Contract!Quote, QuotePaymentOption, Contract!QuotePaymentOption,
     QuoteEnd, Contract!QuoteEnd, TransferPayment, Contract!TransferPayment,
     DeliveryEstimate, Contract!DeliveryEstimate, Transfer, Contract!Transfer,
     FundingResponse, Contract!FundingResponse,
     ThirdPartyTransfer, Contract!ThirdPartyTransfer, Subscription, Contract!Subscription
<1>2. \A type, cell : Contract!Holds(type, cell) <=> Holds(type, cell)
  BY DEF Holds, Contract!Holds
<1> QED BY <1>1, <1>2 DEF WellFormed, Contract!WellFormed

\* Every step of a call is a step of the contract, or hidden by it.
LEMMA ContractStep == IInv /\ [Next]_vars => [Contract!Next]_(Contract!vars)
<1> SUFFICES ASSUME IInv, [Next]_vars PROVE [Contract!Next]_(Contract!vars)
  OBVIOUS
<1> USE DEF Contract!vars, Contract!Next
<1>1. TypeOK
  BY DEF IInv
<1>2. ASSUME NEW e \in DOMAIN Methods, Request(e) PROVE Contract!Begin
  <2>1. e # "none"
    BY DEF Methods
  <2> QED BY <1>2, <2>1 DEF Request, Contract!Begin
<1>3. CASE Unanswered
  BY <1>3 DEF Unanswered, Contract!NoAnswer, Contract!Failures
<1>4. CASE Undecodable
  BY <1>4 DEF Undecodable, Contract!NoAnswer, Contract!Failures
<1>5. CASE Decoded
  BY <1>5 DEF Decoded, Contract!Arrive
<1>6. CASE EmptyRateList
  BY <1>6 DEF EmptyRateList, Contract!Fail, Contract!Failures
<1>7. CASE SkipRow
  BY <1>7 DEF SkipRow, More, callVars
<1>8. CASE MapField
  BY <1>8 DEF MapField, More, callVars
<1>9. CASE MapFails
  <2>1. \E i \in Contract!Due(endpoint, answer) : ~Contract!WellFormed(answer[i])
    BY <1>9, FlawFound, SameSchemas DEF Due
  <2>2. outcome = "mapping" /\ outcome' \in Contract!Failures
    BY <1>9, FlawFound DEF MapFails, More, Contract!Failures
  <2> QED BY <1>9, <2>1, <2>2 DEF MapFails, Contract!Fail, Contract!Failures
<1>10. CASE AppendRow
  <2>1. outcome = "mapping" /\ UNCHANGED <<endpoint, answer, outcome>>
    BY <1>10 DEF AppendRow, More
  <2> QED BY <2>1
<1>11. CASE Return
  <2>1. got = Contract!Due(endpoint, answer)
        /\ \A i \in Contract!Due(endpoint, answer) : Contract!WellFormed(answer[i])
    BY <1>11, AllMapped, SameSchemas DEF Due
  <2> QED BY <1>11, <2>1 DEF Return, Contract!Succeed
<1>12. CASE Clear
  BY <1>12 DEF Clear, Contract!Forget, Contract!Ends, Contract!Failures
<1>13. CASE UNCHANGED vars
  BY <1>13 DEF vars, callVars
<1> QED BY <1>2, <1>3, <1>4, <1>5, <1>6, <1>7, <1>8, <1>9, <1>10, <1>11, <1>12, <1>13
        DEF Next, Mapping

\* Every method keeps its promise, as far as safety goes: of a decoded answer the
\* caller gets exactly the rows it is entitled to, all well formed, or a failure
\* behind which there is a malformed one (KeepsItsPromise but for its fairness).
THEOREM PromiseIsKept == Spec => Contract!Init /\ [][Contract!Next]_(Contract!vars)
<1>1. Init => Contract!Init
  BY DEF Init, Contract!Init
<1> QED BY <1>1, ContractStep, Invariance, PTL DEF Spec
=============================================================================
