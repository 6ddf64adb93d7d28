------------------------ MODULE FormsAndMoneyProofs -------------------------
(***************************************************************************)
(* What TLAPS proves of Requirements, for any keys, values and corridors,  *)
(* and of Money, for any precision, width and amounts in its range.        *)
(*                                                                         *)
(* Requirements.  A form that is not stale is the one Wise would give for  *)
(* the draft as it stands, because a field that was filled in since has no *)
(* field below it; and the create request asks for no more than the draft. *)
(*                                                                         *)
(* Money.  Either conversion is off by half a unit in the last place, which *)
(* is half of 2^-Fraction or a 2^-Precision part of the amount.  Together  *)
(* that is less than half a cent, so rounding finds the cent that was meant *)
(* and truncation that cent or the one below; and what toMoney lets through *)
(* stays, rounded up and multiplied, within the integers.                  *)
(***************************************************************************)
EXTENDS Requirements, Money, WellFoundedInduction, TLAPS

(***************************************************************************)
(* Requirements.                                                           *)
(***************************************************************************)

\* The form that is not stale fits the draft.
FreshInv == ~stale => form = FormFor(ToWire(draft))

IInv == TypeOK /\ FreshInv /\ CreatedIsComplete

-----------------------------------------------------------------------------
\* What the type invariant says of the rules.
LEMMA RuleTypes ==
  ASSUME TypeOK
  PROVE  rules \in [Keys -> RulesOfWise]
BY RulesAssumption DEF TypeOK

\* Rendering keeps the type, and the keys it renders.
LEMMA RenderFacts ==
  ASSUME NEW d \in Details, NEW ks
  PROVE  /\ Render(d, ks) \in Details
         /\ \A k \in Keys : Render(d, ks)[k] = IF k \in ks THEN d[k] ELSE Empty
BY DEF Details, Render

\* A form depends on the fields that others lie below, and on no others.
LEMMA FormDependsOnParents ==
  ASSUME TypeOK, NEW d \in Details, NEW e \in Details,
         \A k \in Keys : Refreshes(k) => d[k] = e[k]
  PROVE  FormFor(d) = FormFor(e)
<1>1. ASSUME NEW k \in Keys
      PROVE  k \in Asked(d) <=> k \in Asked(e)
  <2>1. rules[k].parent \in Keys \cup {NoKey}
    BY RuleTypes DEF RulesOfWise
  <2>2. rules[k].parent \in Keys => d[rules[k].parent] = e[rules[k].parent]
    BY <2>1 DEF Refreshes
  <2> QED BY <2>1, <2>2 DEF Asked
<1>2. Asked(d) = Asked(e)
  BY <1>1 DEF Asked
<1> QED BY <1>2 DEF FormFor

\* Wise asks for nothing on the create call that it did not ask for on the form.
LEMMA AskedOfCreate ==
  ASSUME TypeOK, NEW k \in Asked(DetailsWire(draft))
  PROVE  k \in Asked(ToWire(draft))
<1>1. k \in Keys
  BY DEF Asked
<1>2. CASE rules[k].parent = NoKey
  BY <1>1, <1>2 DEF Asked
<1>3. CASE rules[k].parent # NoKey
  <2>1. /\ rules[k].parent \in Keys /\ rules[k].trigger \in Values
    BY <1>1, <1>3, RuleTypes DEF RulesOfWise
  <2>2. DetailsWire(draft)[rules[k].parent] = rules[k].trigger
    BY <1>3 DEF Asked
  <2>3. rules[k].trigger # Empty
    BY <2>1, BlankAssumption
  <2>4. draft \in Details
    BY DEF TypeOK
  <2>5. DetailsWire(draft)[rules[k].parent] = draft[rules[k].parent]
    BY <2>1, <2>2, <2>3, <2>4, RenderFacts DEF DetailsWire
  <2>6. ToWire(draft)[rules[k].parent] = draft[rules[k].parent]
    <3>1. rules[k].parent \in (IF request = "transfer" THEN RequestKeys ELSE Keys)
      BY <2>1, <2>2, <2>3, <2>4, RenderFacts DEF DetailsWire
    <3>2. rules[k].parent \in (IF request = "transfer" THEN DetailKeys ELSE Keys)
      BY <3>1, KeysAssumption
    <3> QED BY <2>1, <2>4, <3>2, RenderFacts DEF ToWire
  <2> QED BY <1>1, <2>2, <2>5, <2>6 DEF Asked
<1> QED BY <1>2, <1>3

\* A field that is asked for, required and not missing is satisfied by the call.
LEMMA NotMissingIsSatisfied ==
  ASSUME TypeOK, NEW k \in Keys, Field(k) \in form, rules[k].required,
         Field(k) \notin MissingDetails
  PROVE  Satisfies(DetailsWire(draft), k)
<1>1. /\ Field(k).key = k /\ Field(k).required = rules[k].required
      /\ Field(k).allowed = rules[k].allowed
  BY DEF Field
<1>2. /\ TransferRequestDetailValue(k) /\ draft[k] # Empty
      /\ rules[k].allowed = {} \/ draft[k] \in rules[k].allowed
  BY <1>1 DEF MissingDetails, SelectValueAllowed
<1>3. DetailsWire(draft)[k] = draft[k]
  BY <1>2, RenderFacts DEF DetailsWire, TransferRequestDetailValue, TypeOK
<1> QED BY <1>2, <1>3 DEF Satisfies

-----------------------------------------------------------------------------
\* Every step keeps the types, and the create call to its schema.
LEMMA TypeStep ==
  ASSUME TypeOK, [Next]_vars
  PROVE  TypeOK'
<1>1. draft \in Details /\ Blank \in Details
  BY DEF TypeOK, Details, Blank
<1>2. Details' = Details /\ Fields' = Fields
  BY DEF Next, Ask, Populate, Create, vars, Details, Fields, Field, Refreshes
<1>3. CASE UNCHANGED vars
  BY <1>3, <1>2 DEF TypeOK, vars
<1>4. CASE Ask
  <2>1. \A d : FormFor(d) \subseteq Fields
    BY DEF FormFor, Asked, Fields
  <2>2. form' \subseteq Fields /\ stale' \in BOOLEAN
    BY <1>4, <2>1 DEF Ask, ValidateTransferRequirements, GetQuoteAccountRequirements,
      RefreshQuoteAccountRequirements
  <2> QED BY <1>4, <1>2, <2>2 DEF Ask, TypeOK
<1>5. CASE Populate
  <2>1. PICK f \in form, v \in Values \cup {Empty} :
          draft' = [draft EXCEPT ![f.key] = v] /\ stale' = (stale \/ f.refresh)
    BY <1>5 DEF Populate
  <2>2. draft' \in Details
    BY <1>1, <2>1 DEF Details
  <2>3. stale' \in BOOLEAN
    BY <2>1 DEF TypeOK, Fields, Field, Refreshes
  <2> QED BY <1>5, <1>2, <2>2, <2>3 DEF Populate, TypeOK
<1>6. CASE Create
  <2>1. /\ DetailsWire(draft) \in Details
        /\ request = "transfer" => \A k \in Keys \ RequestKeys : DetailsWire(draft)[k] = Empty
    BY <1>1, RenderFacts DEF DetailsWire
  <2>2. /\ sent' \in [made : {TRUE}, details : Details]
        /\ request = "transfer" => \A k \in Keys \ RequestKeys : sent'.details[k] = Empty
    BY <1>6, <2>1 DEF Create
  <2> QED BY <1>6, <1>2, <2>2 DEF Create, TypeOK
<1> QED BY <1>3, <1>4, <1>5, <1>6 DEF Next

\* Filling in a field leaves the form fitting, or makes it stale.
LEMMA FreshStep ==
  ASSUME TypeOK, FreshInv, [Next]_vars
  PROVE  FreshInv'
<1>1. draft \in Details /\ Blank \in Details
  BY DEF TypeOK, Details, Blank
<1>2. CASE UNCHANGED vars
  BY <1>2 DEF FreshInv, vars, FormFor, Asked, ToWire, Field, Refreshes
<1>3. CASE Ask
  <2>1. rules' = rules /\ request' = request /\ draft' = draft
    BY <1>3 DEF Ask
  <2>2. FormFor(ToWire(draft))' = FormFor(ToWire(draft))
    BY <2>1 DEF FormFor, Asked, ToWire, Field, Refreshes
  <2>3. \/ form' = FormFor(ToWire(draft))
        \/ form' = FormFor(Blank) /\ stale' = (draft # Blank)
    BY <1>3 DEF Ask, ValidateTransferRequirements, GetQuoteAccountRequirements,
      RefreshQuoteAccountRequirements
  <2>4. ToWire(Blank) = Blank
    BY DEF ToWire, Render, Blank
  <2> QED BY <2>2, <2>3, <2>4 DEF FreshInv
<1>4. CASE Populate
  <2>1. PICK f \in form, v \in Values \cup {Empty} :
          draft' = [draft EXCEPT ![f.key] = v] /\ stale' = (stale \/ f.refresh)
    BY <1>4 DEF Populate
  <2>2. rules' = rules /\ request' = request /\ form' = form
    BY <1>4 DEF Populate
  <2>3. SUFFICES ASSUME ~stale' PROVE form' = FormFor(ToWire(draft))'
    BY DEF FreshInv
  <2>4. ~stale /\ ~f.refresh
    BY <2>1, <2>3
  <2>5. PICK j \in Keys : f = Field(j)
    BY DEF TypeOK, Fields
  <2>6. f.key = j /\ ~Refreshes(j)
    BY <2>4, <2>5 DEF Field
  <2>7. PICK d : d = draft'
    OBVIOUS
  <2>8. d \in Details /\ \A k \in Keys : k # j => d[k] = draft[k]
    BY <1>1, <2>1, <2>6, <2>7 DEF Details
  <2>9. ToWire(d) \in Details /\ ToWire(draft) \in Details
    BY <1>1, <2>8, RenderFacts DEF ToWire
  <2>10. \A k \in Keys : Refreshes(k) => ToWire(d)[k] = ToWire(draft)[k]
    BY <1>1, <2>6, <2>8, RenderFacts DEF ToWire
  <2>11. FormFor(ToWire(d)) = FormFor(ToWire(draft))
    BY <2>9, <2>10, FormDependsOnParents
  <2>12. FormFor(ToWire(draft))' = FormFor(ToWire(d))
    BY <2>2, <2>7 DEF FormFor, Asked, ToWire, Field, Refreshes
  <2> QED BY <2>2, <2>4, <2>11, <2>12 DEF FreshInv
<1>5. CASE Create
  BY <1>5 DEF FreshInv, Create, FormFor, Asked, ToWire, Field, Refreshes
<1> QED BY <1>2, <1>3, <1>4, <1>5 DEF Next

\* A create call is complete when it is made, and stays what it was.
LEMMA CreatedStep ==
  ASSUME TypeOK, FreshInv, CreatedIsComplete, [Next]_vars
  PROVE  CreatedIsComplete'
<1>1. CASE UNCHANGED vars
  BY <1>1 DEF CreatedIsComplete, Asked, Satisfies, vars
<1>2. CASE Ask \/ Populate
  BY <1>2 DEF CreatedIsComplete, Asked, Satisfies, Ask, Populate
<1>3. CASE Create
  <2>1. rules' = rules /\ sent'.details = DetailsWire(draft) /\ ~stale /\ MissingDetails = {}
    BY <1>3 DEF Create
  <2>2. ASSUME NEW k \in Asked(DetailsWire(draft)), rules[k].required
        PROVE  Satisfies(DetailsWire(draft), k)
    <3>1. k \in Keys /\ Field(k) \in form
      BY <2>1, AskedOfCreate DEF FreshInv, FormFor, Asked
    <3> QED BY <2>1, <2>2, <3>1, NotMissingIsSatisfied
  <2>3. PICK d : d = DetailsWire(draft)
    OBVIOUS
  <2>4. \A k \in Asked(d) : rules[k].required => Satisfies(d, k)
    BY <2>2, <2>3
  <2> QED BY <2>1, <2>3, <2>4 DEF CreatedIsComplete, Asked, Satisfies
<1> QED BY <1>1, <1>2, <1>3 DEF Next

-----------------------------------------------------------------------------
\* The inductive invariant holds in every reachable state.
THEOREM RequirementsInvariant == Spec => []IInv
<1>1. Init => IInv
  BY DEF Init, IInv, TypeOK, FreshInv, CreatedIsComplete, NotSent, Blank, Details
<1>2. IInv /\ [Next]_vars => IInv'
  BY TypeStep, FreshStep, CreatedStep DEF IInv
<1> QED BY <1>1, <1>2, PTL DEF Spec

\* Every variable keeps to its type, and the create call to its schema.
THEOREM TypeCorrect == Spec => []TypeOK
<1>1. IInv => TypeOK
  BY DEF IInv
<1> QED BY <1>1, RequirementsInvariant, PTL

\* The create call of a consumer that follows the flow carries every detail Wise
\* requires of it.
THEOREM CreatedTransfersAreComplete == Spec => []CreatedIsComplete
<1>1. IInv => CreatedIsComplete
  BY DEF IInv
<1> QED BY <1>1, RequirementsInvariant, PTL

\* What is reported missing is required, and not satisfied.
THEOREM AlarmsAreTrue == Spec => []NoFalseAlarm
<1>1. IInv => NoFalseAlarm
  <2>1. SUFFICES ASSUME TypeOK, NEW f \in MissingDetails
                 PROVE  rules[f.key].required /\ ~Satisfies(DetailsWire(draft), f.key)
    BY DEF IInv, NoFalseAlarm
  <2>2. PICK k \in Keys : f = Field(k)
    BY <2>1 DEF MissingDetails, TypeOK, Fields
  <2>3. f.key = k /\ f.required = rules[k].required /\ f.allowed = rules[k].allowed
    BY <2>2 DEF Field
  <2>4. rules[k].required
    BY <2>1, <2>3 DEF MissingDetails
  <2>5. CASE ~TransferRequestDetailValue(k)
    <3>1. DetailsWire(draft)[k] = Empty
      BY <2>1, <2>5, RenderFacts DEF DetailsWire, TransferRequestDetailValue, TypeOK
    <3> QED BY <2>3, <2>4, <3>1 DEF Satisfies
  <2>6. CASE TransferRequestDetailValue(k)
    <3>1. DetailsWire(draft)[k] = draft[k]
      BY <2>1, <2>6, RenderFacts DEF DetailsWire, TransferRequestDetailValue, TypeOK
    <3>2. draft[k] = Empty \/ ~SelectValueAllowed(f, draft[k])
      BY <2>1, <2>3, <2>6 DEF MissingDetails
    <3>3. draft[k] = Empty \/ ~(rules[k].allowed = {} \/ draft[k] \in rules[k].allowed)
      BY <2>3, <3>2 DEF SelectValueAllowed
    <3> QED BY <2>3, <2>4, <3>1, <3>3 DEF Satisfies
  <2> QED BY <2>5, <2>6
<1> QED BY <1>1, RequirementsInvariant, PTL

\* A required key the request has no field for keeps the transfer from being made.
THEOREM UnmodelledKeysStop == Spec => []UnmodelledStops
<1>1. IInv => UnmodelledStops
  <2>1. SUFFICES ASSUME IInv, request = "transfer", sent.made,
                        NEW k \in Keys \ RequestKeys, rules[k].required,
                        rules[k].parent = NoKey
                 PROVE  FALSE
    BY DEF UnmodelledStops
  <2>2. sent.details[k] = Empty
    <3>1. sent # NotSent
      <4>1. NotSent.made = FALSE
        BY DEF NotSent
      <4> QED BY <2>1, <4>1
    <3> QED BY <2>1, <3>1 DEF IInv, TypeOK
  <2>3. Satisfies(sent.details, k)
    BY <2>1 DEF IInv, CreatedIsComplete, Asked
  <2> QED BY <2>2, <2>3 DEF Satisfies
<1> QED BY <1>1, RequirementsInvariant, PTL

-----------------------------------------------------------------------------
(***************************************************************************)
(* Money: numbers, and the recursion of PowerOfTwo.                        *)
(***************************************************************************)

\* A set that holds 0 and the successor of each number it holds has all of them.
LEMMA Induction ==
  ASSUME NEW S, 0 \in S, \A n \in Nat : n \in S => n + 1 \in S
  PROVE  Nat \subseteq S
<1> DEFINE Less == {ss \in Nat \X Nat : ss[1] < ss[2]}
<1> SUFFICES ASSUME Nat \ S # {} PROVE FALSE
  OBVIOUS
<1>1. IsWellFoundedOn(Less, Nat)
  BY NatLessThanWellFounded DEF OpToRel
<1>2. PICK x \in Nat \ S : \A y \in Nat \ S : ~(<<y, x>> \in Less)
  <2> HIDE DEF Less
  <2> QED BY <1>1, WFMin
<1>3. x # 0 /\ x - 1 \in Nat \ S /\ <<x - 1, x>> \in Nat \X Nat
  <2>1. x # 0 /\ x - 1 \in Nat /\ (x - 1) + 1 = x
    OBVIOUS
  <2> QED BY <2>1
<1>4. <<x - 1, x>>[1] = x - 1 /\ <<x - 1, x>>[2] = x /\ x - 1 < x
  OBVIOUS
<1> QED BY Zenon, <1>2, <1>3, <1>4

\* The recursion of PowerOfTwo is one: there is a function it describes.
LEMMA PowersAreDefined ==
  PowerOfTwo = [k \in 0..Precision + Fraction + Width |->
                  IF k = 0 THEN 1 ELSE 2 * PowerOfTwo[k - 1]]
<1> DEFINE F(f, m) == f = [k \in 0..m |-> IF k = 0 THEN 1 ELSE 2 * f[k - 1]]
           S == {m \in Nat : \E f : F(f, m)}
<1>1. 0 \in S
  <2>1. F([n \in 0..0 |-> 1], 0)
    OBVIOUS
  <2> QED BY <2>1
<1>2. ASSUME NEW m \in Nat, m \in S PROVE m + 1 \in S
  <2>1. PICK f : F(f, m)
    BY <1>2
  <2> DEFINE g == [k \in 0..m + 1 |-> IF k = 0 THEN 1 ELSE 2 * f[k - 1]]
  <2>2. ASSUME NEW k \in 0..m PROVE g[k] = f[k]
    <3>1. f[k] = IF k = 0 THEN 1 ELSE 2 * f[k - 1]
      BY <2>1
    <3> QED BY <3>1
  <2>3. ASSUME NEW k \in 0..m + 1, k # 0 PROVE f[k - 1] = g[k - 1]
    <3>1. k - 1 \in 0..m
      BY <2>3
    <3> HIDE DEF g
    <3> QED BY <2>2, <3>1
  <2>4. ASSUME NEW k \in 0..m + 1
        PROVE  g[k] = IF k = 0 THEN 1 ELSE 2 * g[k - 1]
    <3>1. g[k] = IF k = 0 THEN 1 ELSE 2 * f[k - 1]
      OBVIOUS
    <3> HIDE DEF g
    <3> QED BY <2>3, <3>1
  <2>5. g = [k \in 0..m + 1 |-> g[k]]
    OBVIOUS
  <2>6. F(g, m + 1)
    <3> HIDE DEF g
    <3> QED BY <2>4, <2>5
  <2> HIDE DEF F, g
  <2> QED BY <2>6
<1>3. \E f : F(f, Precision + Fraction + Width)
  <2>1. Precision + Fraction + Width \in Nat
    BY BitsAssumption
  <2> HIDE DEF F
  <2> QED BY <1>1, <1>2, <2>1, Induction
<1> QED BY <1>3 DEF PowerOfTwo

\* Powers of two are positive, and each is twice the one before.
LEMMA Powers ==
  ASSUME NEW k \in Nat, k <= Precision + Fraction + Width
  PROVE  /\ PowerOfTwo[k] \in Nat \ {0}
         /\ PowerOfTwo[0] = 1
         /\ k # 0 => PowerOfTwo[k] = 2 * PowerOfTwo[k - 1]
<1> DEFINE Top == Precision + Fraction + Width
           S == {n \in Nat : n <= Top => PowerOfTwo[n] \in Nat \ {0}}
<1>1. Top \in Nat
  BY BitsAssumption
<1> HIDE DEF Top
<1>2. \A n \in 0..Top : PowerOfTwo[n] = IF n = 0 THEN 1 ELSE 2 * PowerOfTwo[n - 1]
  BY PowersAreDefined DEF Top
<1>3. 0 \in S
  BY <1>1, <1>2
<1>4. ASSUME NEW n \in Nat, n \in S PROVE n + 1 \in S
  <2> SUFFICES ASSUME n + 1 <= Top PROVE PowerOfTwo[n + 1] \in Nat \ {0}
    OBVIOUS
  <2>1. PowerOfTwo[n] \in Nat \ {0}
    BY <1>1, <1>4
  <2>2. PowerOfTwo[n + 1] = 2 * PowerOfTwo[n]
    BY <1>1, <1>2
  <2> QED BY <2>1, <2>2
<1>5. k \in S /\ k <= Top
  <2> HIDE DEF S
  <2> QED BY <1>3, <1>4, Induction DEF Top
<1>6. k \in 0..Top /\ 0 \in 0..Top
  BY <1>1, <1>5
<1> QED BY <1>2, <1>5, <1>6

-----------------------------------------------------------------------------
\* What the numbers of the module are.
LEMMA Sizes ==
  /\ Significands \in Nat /\ Significands >= 2
  /\ Scale \in Nat /\ Scale > 200
  /\ MaxInt \in Nat /\ MinInt = -MaxInt - 1 /\ MaxInt < PowerOfTwo[Width]
  /\ PowerOfTwo[Width] \in Nat \ {0}
<1> USE BitsAssumption
<1>1. Precision - 1 \in Nat /\ Precision # 0
  OBVIOUS
<1>2. /\ PowerOfTwo[Precision - 1] \in Nat \ {0}
      /\ PowerOfTwo[Precision] = 2 * PowerOfTwo[Precision - 1]
  BY <1>1, Powers
<1>3. PowerOfTwo[Fraction] \in Nat \ {0}
  BY Powers
<1>4. PowerOfTwo[Width - 1] \in Nat \ {0} /\ PowerOfTwo[Width] = 2 * PowerOfTwo[Width - 1]
  BY Powers
<1> QED BY <1>2, <1>3, <1>4, ScaleAssumption DEF Significands, Scale, MaxInt, MinInt

\* All the bits below the integers and those of the integers are as many as both.
LEMMA PowersMultiply == PowerOfTwo[Fraction + Width] = Scale * PowerOfTwo[Width]
<1> USE BitsAssumption, Sizes
<1> DEFINE S == {k \in Nat : k <= Width => PowerOfTwo[Fraction + k] = Scale * PowerOfTwo[k]}
<1>1. 0 \in S
  <2>1. PowerOfTwo[0] = 1 /\ PowerOfTwo[Fraction] \in Nat
    BY Powers
  <2> QED BY <2>1 DEF Scale
<1>2. ASSUME NEW k \in Nat, k \in S PROVE k + 1 \in S
  <2> SUFFICES ASSUME k + 1 <= Width
               PROVE  PowerOfTwo[Fraction + (k + 1)] = Scale * PowerOfTwo[k + 1]
    OBVIOUS
  <2>1. /\ k \in Nat /\ k + 1 \in Nat /\ (k + 1) - 1 = k /\ k <= Precision + Fraction + Width
        /\ k + 1 <= Precision + Fraction + Width
    OBVIOUS
  <2>2. PowerOfTwo[k + 1] = 2 * PowerOfTwo[k] /\ PowerOfTwo[k] \in Nat
    BY <2>1, Powers
  <2>3. /\ Fraction + (k + 1) \in Nat /\ (Fraction + (k + 1)) - 1 = Fraction + k
        /\ Fraction + (k + 1) # 0 /\ Fraction + (k + 1) <= Precision + Fraction + Width
    OBVIOUS
  <2>4. PowerOfTwo[Fraction + (k + 1)] = 2 * PowerOfTwo[Fraction + k]
    BY <2>3, Powers
  <2>5. PowerOfTwo[Fraction + k] = Scale * PowerOfTwo[k]
    BY <1>2
  <2> QED BY <2>2, <2>4, <2>5
<1>3. Width \in S
  <2> HIDE DEF S
  <2> QED BY <1>1, <1>2, Induction
<1> QED BY <1>3

\* Division leaves a remainder below the divisor.
LEMMA Division ==
  ASSUME NEW n \in Nat, NEW d \in Nat \ {0}
  PROVE  /\ n \div d \in Nat /\ n % d \in 0..d - 1
         /\ n = d * (n \div d) + (n % d)
         /\ d * (n \div d) <= n
OBVIOUS

\* A quotient lies between the multiples of the divisor.
LEMMA Quotient ==
  ASSUME NEW n \in Nat, NEW d \in Nat \ {0}, NEW m \in Nat
  PROVE  /\ d * m <= n => m <= n \div d
         /\ n < d * m => n \div d < m
<1> DEFINE q == n \div d
           r == n % d
<1>1. q \in Nat /\ r \in 0..d - 1 /\ n = d * q + r
  BY Division
<1> HIDE DEF q, r
<1>2. ASSUME d * m <= n, q < m PROVE FALSE
  <2>1. d * (m - q) <= r
    BY <1>1, <1>2
  <2>2. d * (m - q) >= d
    <3>1. m - q - 1 \in Nat
      BY <1>1, <1>2
    <3>2. d * (m - q - 1) \in Nat /\ d * (m - q) = d * (m - q - 1) + d
      BY <1>1, <3>1
    <3> QED BY <3>2
  <2> QED BY <1>1, <2>1, <2>2
<1>3. ASSUME n < d * m, m <= q PROVE FALSE
  <2>1. d * (q - m) \in Nat /\ d * q = d * m + d * (q - m)
    BY <1>1, <1>3
  <2> QED BY <1>1, <1>3, <2>1
<1> QED BY <1>1, <1>2, <1>3 DEF q

\* The unit in the last place is one or a small part of the number.
LEMMA UlpFacts ==
  ASSUME NEW q \in Nat, q < Significands * PowerOfTwo[Fraction + Width]
  PROVE  Ulp(q) \in Nat \ {0} /\ (Ulp(q) = 1 \/ Ulp(q) * Significands <= 2 * q)
<1> USE BitsAssumption, Sizes
<1> DEFINE Fits(k) == q \div PowerOfTwo[k] < Significands
           Top == Fraction + Width
           S == {k \in Nat : k <= Top => ~Fits(k)}
           P(k) == Fits(k) /\ (k = 0 \/ ~Fits(k - 1))
<1>1. \A k \in 0..Top : PowerOfTwo[k] \in Nat \ {0}
  BY Powers
<1>2. Fits(Top)
  BY <1>1, Quotient
<1>3. \E k \in 0..Top : P(k)
  <2> SUFFICES ASSUME \A k \in 0..Top : ~P(k) PROVE FALSE
    OBVIOUS
  <2>1. 0 \in S
    OBVIOUS
  <2>2. ASSUME NEW k \in Nat, k \in S PROVE k + 1 \in S
    <3> HIDE DEF Fits
    <3>1. (k + 1) - 1 = k /\ k + 1 # 0
      OBVIOUS
    <3> QED BY <2>2, <3>1
  <2>3. Top \in S
    <3> HIDE DEF S
    <3> QED BY <2>1, <2>2, Induction
  <2> QED BY <1>2, <2>3
<1> DEFINE k == CHOOSE k \in 0..Top : P(k)
<1>4. k \in 0..Top /\ P(k)
  <2> HIDE DEF P
  <2> QED BY <1>3
<1>5. Ulp(q) = PowerOfTwo[k]
  BY DEF Ulp
<1> HIDE DEF k, Top
<1>6. CASE k = 0
  <2>1. PowerOfTwo[0] = 1
    BY Powers
  <2> QED BY <1>5, <1>6, <2>1
<1>7. CASE k # 0
  <2>1. k - 1 \in 0..Top /\ k \in Nat /\ k <= Precision + Fraction + Width
    BY <1>4, <1>7 DEF Top
  <2>2. PowerOfTwo[k] = 2 * PowerOfTwo[k - 1] /\ PowerOfTwo[k] \in Nat \ {0}
    BY <1>7, <2>1, Powers
  <2>3. PowerOfTwo[k - 1] \in Nat \ {0} /\ q \div PowerOfTwo[k - 1] >= Significands
    <3>1. PowerOfTwo[k - 1] \in Nat \ {0}
      BY <1>1, <2>1
    <3>2. q \div PowerOfTwo[k - 1] \in Nat
      BY <3>1, Division
    <3>3. ~(q \div PowerOfTwo[k - 1] < Significands)
      BY <1>4, <1>7
    <3> QED BY <3>1, <3>2, <3>3
  <2>4. q >= PowerOfTwo[k - 1] * Significands
    BY <2>3, Quotient
  <2> QED BY <1>5, <2>2, <2>3, <2>4
<1> QED BY <1>6, <1>7

\* Rounding is off by at most half of the divisor.
LEMMA HalfToEvenFacts ==
  ASSUME NEW n \in Nat, NEW d \in Nat \ {0}
  PROVE  /\ HalfToEven(n, d) \in Nat
         /\ 2 * (d * HalfToEven(n, d)) <= 2 * n + d
         /\ 2 * n <= 2 * (d * HalfToEven(n, d)) + d
<1> DEFINE q == n \div d
           r == n % d
           h == HalfToEven(n, d)
<1>1. q \in Nat /\ r \in 0..d - 1 /\ n = d * q + r
  BY Division
<1>2. (h = q /\ 2 * r <= d) \/ (h = q + 1 /\ 2 * r >= d)
  <2>1. r \in Nat
    BY <1>1
  <2> HIDE DEF q, r
  <2> QED BY <2>1 DEF HalfToEven, q, r
<1> HIDE DEF q, r, h
<1>3. d * (q + 1) = d * q + d
  BY <1>1
<1> QED BY <1>1, <1>2, <1>3 DEF h

\* The float nearest to n/d is off by at most half a unit in the last place, and
\* that unit is one or a small part of n/d.
LEMMA NearestFacts ==
  ASSUME NEW n \in Nat, NEW d \in Nat \ {0}, n \div d < Significands * PowerOfTwo[Fraction + Width]
  PROVE  /\ Nearest(n, d) \in Nat
         /\ \E unit \in Nat \ {0} :
              /\ 2 * (d * Nearest(n, d)) <= 2 * n + d * unit
              /\ 2 * n <= 2 * (d * Nearest(n, d)) + d * unit
              /\ unit = 1 \/ d * unit * Significands <= 2 * n
<1> DEFINE q == n \div d
           ulp == Ulp(q)
           h == HalfToEven(n, d * ulp)
<1>1. q \in Nat /\ d * q <= n
  BY Division
<1>2. ulp \in Nat \ {0} /\ (ulp = 1 \/ ulp * Significands <= 2 * q)
  BY <1>1, UlpFacts
<1>3. Nearest(n, d) = ulp * h
  <2>1. Magnitude(n) = n /\ ~(n < 0)
    BY DEF Magnitude
  <2> QED BY <2>1 DEF Nearest, SameSign
<1> HIDE DEF q, ulp, h
<1>4. d * ulp \in Nat \ {0}
  BY <1>2
<1>5. /\ h \in Nat /\ 2 * ((d * ulp) * h) <= 2 * n + d * ulp
      /\ 2 * n <= 2 * ((d * ulp) * h) + d * ulp
  BY <1>4, HalfToEvenFacts DEF h
<1>6. (d * ulp) * h = d * (ulp * h) /\ ulp * h \in Nat
  BY <1>2, <1>5
<1>7. ulp = 1 \/ d * ulp * Significands <= 2 * n
  <2> SUFFICES ASSUME ulp * Significands <= 2 * q PROVE d * ulp * Significands <= 2 * n
    BY <1>2
  <2>1. d * (ulp * Significands) <= d * (2 * q)
    BY <1>1, <1>2, Sizes
  <2>2. d * (ulp * Significands) = d * ulp * Significands /\ d * (2 * q) = 2 * (d * q)
    BY <1>1, <1>2, Sizes
  <2>3. d * ulp * Significands \in Nat /\ d * q \in Nat
    BY <1>1, <1>2, Sizes
  <2> QED BY <1>1, <2>1, <2>2, <2>3
<1> QED BY <1>2, <1>3, <1>5, <1>6, <1>7

-----------------------------------------------------------------------------
(***************************************************************************)
(* The conversions of an amount that is not too large.                     *)
(***************************************************************************)
\* Negative amounts are read as the positive ones.
LEMMA NearestIsOdd ==
  ASSUME NEW n \in Int, NEW d \in Nat \ {0}, Nearest(Magnitude(n), d) \in Nat
  PROVE  Nearest(n, d) = SameSign(n, Nearest(Magnitude(n), d))
<1>1. Magnitude(Magnitude(n)) = Magnitude(n) /\ ~(Magnitude(n) < 0)
  BY DEF Magnitude
<1> QED BY <1>1 DEF Nearest, SameSign

\* Both conversions of a positive amount: what the first is off by, in 2^-Fraction
\* cents, is half a unit in its last place, and so is what the second adds.
LEMMA FloatFacts ==
  ASSUME NEW c \in Nat, c <= PowerOfTwo[Width]
  PROVE  /\ centsToMajor(c) \in Nat /\ TimesHundred(centsToMajor(c)) \in Nat
         /\ \E unit \in Nat \ {0}, unit2 \in Nat \ {0} :
              LET major == 100 * centsToMajor(c)
                  product == TimesHundred(centsToMajor(c))
              IN  /\ 2 * major <= 2 * (c * Scale) + 100 * unit
                  /\ 2 * (c * Scale) <= 2 * major + 100 * unit
                  /\ unit = 1 \/ 100 * unit * Significands <= 2 * (c * Scale)
                  /\ 2 * product <= 2 * major + unit2
                  /\ 2 * major <= 2 * product + unit2
                  /\ unit2 = 1 \/ unit2 * Significands <= 2 * major
<1> DEFINE n == c * Scale
           v == centsToMajor(c)
           p == TimesHundred(v)
           top == PowerOfTwo[Fraction + Width]
<1> USE Sizes
<1>1. n \in Nat /\ top \in Nat \ {0} /\ n <= top /\ Scale <= top
  <2>1. top = Scale * PowerOfTwo[Width]
    BY PowersMultiply
  <2>2. Scale * PowerOfTwo[Width] - c * Scale = Scale * (PowerOfTwo[Width] - c)
    OBVIOUS
  <2>3. Scale * (PowerOfTwo[Width] - c) \in Nat /\ Scale * (PowerOfTwo[Width] - 1) \in Nat
    OBVIOUS
  <2>4. Scale * PowerOfTwo[Width] - Scale = Scale * (PowerOfTwo[Width] - 1)
    OBVIOUS
  <2>5. Scale * PowerOfTwo[Width] \in Nat \ {0} /\ c * Scale \in Nat
    OBVIOUS
  <2> HIDE DEF top
  <2> QED BY <2>1, <2>2, <2>3, <2>4, <2>5
<1>2. Significands * top \in Nat /\ Significands * top >= 2 * top
  <2> HIDE DEF top
  <2>1. (Significands - 2) * top \in Nat
    BY <1>1
  <2>2. (Significands - 2) * top = Significands * top - 2 * top
    BY <1>1
  <2> QED BY <1>1, <2>1, <2>2
<1>3. n \div 100 < Significands * top
  <2> HIDE DEF top, n
  <2>1. n < 2 * top /\ n \div 100 <= n
    BY <1>1
  <2> QED BY <1>1, <1>2, <2>1
<1>4. v \in Nat /\ v = Nearest(n, 100)
  <2>1. Nearest(n, 100) \in Nat
    <3> HIDE DEF n
    <3> QED BY <1>1, <1>3, NearestFacts
  <2> QED BY <2>1 DEF centsToMajor
<1>5. PICK unit \in Nat \ {0} :
        /\ 2 * (100 * v) <= 2 * n + 100 * unit
        /\ 2 * n <= 2 * (100 * v) + 100 * unit
        /\ unit = 1 \/ 100 * unit * Significands <= 2 * n
  <2> DEFINE d == 100
  <2> HIDE DEF n, v
  <2>1. d \in Nat \ {0} /\ n \in Nat /\ n \div d < Significands * PowerOfTwo[Fraction + Width]
    BY <1>1, <1>3
  <2> HIDE DEF d
  <2>2. PICK unit \in Nat \ {0} :
          /\ 2 * (d * Nearest(n, d)) <= 2 * n + d * unit
          /\ 2 * n <= 2 * (d * Nearest(n, d)) + d * unit
          /\ unit = 1 \/ d * unit * Significands <= 2 * n
    BY <2>1, NearestFacts
  <2> QED BY <1>4, <2>2 DEF d
<1>6. 100 * v < Significands * top
  <2> HIDE DEF n, v, top
  <2>1. CASE unit = 1
    BY <1>1, <1>2, <1>4, <1>5, <2>1
  <2>2. CASE 100 * unit * Significands <= 2 * n
    <3> DEFINE u == 100 * unit
    <3>1. u \in Nat /\ (Significands - 2) * u \in Nat /\ u * Significands <= 2 * n
      BY <2>2
    <3>2. (Significands - 2) * u = u * Significands - 2 * u
      BY <3>1
    <3>3. 2 * (100 * v) <= 2 * n + u
      BY <1>5
    <3> HIDE DEF u
    <3> QED BY <1>1, <1>2, <1>4, <3>1, <3>2, <3>3
  <2> QED BY <1>5, <2>1, <2>2
<1>7. 100 * v \in Nat /\ (100 * v) \div 1 = 100 * v /\ v * 100 = 100 * v
  <2> HIDE DEF v
  <2> QED BY <1>4
<1>8. p \in Nat /\ p = Nearest(100 * v, 1)
  <2> HIDE DEF v, top
  <2>1. Nearest(100 * v, 1) \in Nat
    <3> DEFINE w == 100 * v
    <3>1. w \in Nat /\ w \div 1 < Significands * PowerOfTwo[Fraction + Width]
      BY <1>6, <1>7 DEF top
    <3> HIDE DEF w
    <3>2. Nearest(w, 1) \in Nat
      BY <3>1, NearestFacts
    <3> QED BY <3>2 DEF w
  <2> QED BY <1>7, <2>1 DEF TimesHundred
<1>9. PICK unit2 \in Nat \ {0} :
        /\ 2 * p <= 2 * (100 * v) + unit2
        /\ 2 * (100 * v) <= 2 * p + unit2
        /\ unit2 = 1 \/ unit2 * Significands <= 2 * (100 * v)
  <2> DEFINE w == 100 * v
  <2>1. w \in Nat /\ w \div 1 < Significands * PowerOfTwo[Fraction + Width] /\ p = Nearest(w, 1)
    <3> HIDE DEF v, p
    <3> QED BY <1>6, <1>7, <1>8
  <2> HIDE DEF w, p
  <2>2. PICK unit2 \in Nat \ {0} :
          /\ 2 * (1 * Nearest(w, 1)) <= 2 * w + 1 * unit2
          /\ 2 * w <= 2 * (1 * Nearest(w, 1)) + 1 * unit2
          /\ unit2 = 1 \/ 1 * unit2 * Significands <= 2 * w
    BY <2>1, NearestFacts
  <2>3. 1 * Nearest(w, 1) = p /\ 1 * unit2 = unit2
    BY <1>8, <2>1
  <2>4. /\ 2 * p <= 2 * w + unit2 /\ 2 * w <= 2 * p + unit2
        /\ unit2 = 1 \/ unit2 * Significands <= 2 * w
    BY <2>2, <2>3
  <2> QED BY <2>4 DEF w
<1> HIDE DEF n, v, p
<1> QED BY <1>4, <1>5, <1>8, <1>9 DEF n, v, p

\* What both conversions make of an amount is within half a cent of it, if its cents
\* can be told apart.
LEMMA RoundTrip ==
  ASSUME NEW c \in Amounts
  PROVE  /\ c \in 1..MaxInt /\ c <= PowerOfTwo[Width]
         /\ centsToMajor(c) \in Nat /\ TimesHundred(centsToMajor(c)) \in Nat
         /\ 2 * (c * Scale) - Scale <= 2 * TimesHundred(centsToMajor(c))
         /\ 2 * TimesHundred(centsToMajor(c)) < 2 * (c * Scale) + Scale
<1> USE Sizes
<1> DEFINE v == centsToMajor(c)
           p == TimesHundred(v)
           n == c * Scale
<1>1. c \in 1..MaxInt /\ 4 * c < Significands /\ c \in Nat /\ c <= PowerOfTwo[Width]
  BY PrecisionAssumption
<1>2. v \in Nat /\ p \in Nat
  BY <1>1, FloatFacts
<1>3. PICK unit \in Nat \ {0}, unit2 \in Nat \ {0} :
        /\ 2 * (100 * v) <= 2 * n + 100 * unit
        /\ 2 * n <= 2 * (100 * v) + 100 * unit
        /\ unit = 1 \/ 100 * unit * Significands <= 2 * n
        /\ 2 * p <= 2 * (100 * v) + unit2
        /\ 2 * (100 * v) <= 2 * p + unit2
        /\ unit2 = 1 \/ unit2 * Significands <= 2 * (100 * v)
  BY <1>1, FloatFacts
<1>4. n \in Nat /\ 4 * n <= Scale * Significands - Scale
  <2>1. Significands - 1 - 4 * c \in Nat
    BY <1>1
  <2>2. Scale * (Significands - 1 - 4 * c) \in Nat
    BY <2>1
  <2>3. Scale * (Significands - 1 - 4 * c) = Scale * Significands - Scale - 4 * (c * Scale)
    BY <1>1
  <2>4. c * Scale \in Nat /\ Scale * Significands \in Nat
    BY <1>1
  <2> QED BY <2>2, <2>3, <2>4
<1> HIDE DEF v, p, n
<1>5. 200 * unit < Scale
  <2> SUFFICES ASSUME 100 * unit * Significands <= 2 * n PROVE 200 * unit < Scale
    BY <1>3
  <2> SUFFICES ASSUME Scale <= 200 * unit PROVE FALSE
    OBVIOUS
  <2>1. (200 * unit - Scale) * Significands \in Nat
    OBVIOUS
  <2>2. (200 * unit - Scale) * Significands = 2 * (100 * unit * Significands) - Scale * Significands
    OBVIOUS
  <2>3. 100 * unit * Significands \in Nat /\ Scale * Significands \in Nat
    OBVIOUS
  <2> QED BY <1>4, <2>1, <2>2, <2>3
<1>6. 2 * unit2 <= Scale
  <2> SUFFICES ASSUME unit2 * Significands <= 2 * (100 * v), Scale < 2 * unit2 PROVE FALSE
    BY <1>3
  <2>1. (2 * unit2 - Scale - 1) * Significands \in Nat
    OBVIOUS
  <2>2. (2 * unit2 - Scale - 1) * Significands
          = 2 * (unit2 * Significands) - Scale * Significands - Significands
    OBVIOUS
  <2>3. unit2 * Significands \in Nat /\ Scale * Significands \in Nat
    OBVIOUS
  <2>4. 4 * (100 * v) <= 4 * n + 200 * unit
    BY <1>2, <1>3, <1>4
  <2> QED BY <1>2, <1>4, <1>5, <2>1, <2>2, <2>3, <2>4
<1>7. 2 * n - Scale <= 2 * p /\ 2 * p < 2 * n + Scale
  BY <1>2, <1>3, <1>4, <1>5, <1>6
<1> QED BY <1>1, <1>2, <1>7 DEF v, p, n

\* Nothing comes of nothing.
LEMMA ZeroStays ==
  ASSUME NEW c \in Nat, c <= PowerOfTwo[Width], centsToMajor(c) = 0
  PROVE  TimesHundred(centsToMajor(c)) = 0
<1> DEFINE v == centsToMajor(c)
           p == TimesHundred(v)
<1>1. p \in Nat /\ v = 0
  BY FloatFacts
<1>2. PICK unit2 \in Nat \ {0} :
        2 * p <= 2 * (100 * v) + unit2 /\ (unit2 = 1 \/ unit2 * Significands <= 2 * (100 * v))
  BY FloatFacts
<1> HIDE DEF v, p
<1>3. unit2 * Significands > 0
  BY Sizes
<1> QED BY <1>1, <1>2, <1>3, Sizes DEF p, v

\* Negative amounts are converted like the positive ones.
LEMMA Signs ==
  ASSUME NEW b \in Int, Magnitude(b) <= PowerOfTwo[Width]
  PROVE  /\ Magnitude(b) \in Nat
         /\ centsToMajor(b) = SameSign(b, centsToMajor(Magnitude(b)))
         /\ TimesHundred(centsToMajor(b)) = SameSign(b, TimesHundred(centsToMajor(Magnitude(b))))
<1> DEFINE c == Magnitude(b)
           v == centsToMajor(c)
           p == TimesHundred(v)
<1>1. c \in Nat /\ c <= PowerOfTwo[Width] /\ (b = c \/ (b < 0 /\ b = -c))
  BY DEF Magnitude
<1>2. v \in Nat /\ p \in Nat /\ (v = 0 => p = 0)
  BY <1>1, FloatFacts, ZeroStays
<1>3. CASE b = c
  <2> HIDE DEF c
  <2>1. ~(b < 0)
    BY <1>1, <1>3
  <2> QED BY <1>1, <1>2, <1>3, <2>1 DEF SameSign, c
<1>4. CASE b < 0
  <2> HIDE DEF c
  <2>1. b * Scale < 0 /\ -(b * Scale) = c * Scale /\ b * Scale \in Int
    <3>1. c # 0 /\ c * Scale \in Nat \ {0} /\ b * Scale = -(c * Scale)
      BY <1>1, <1>4, Sizes
    <3> QED BY <3>1
  <2>2. Magnitude(b * Scale) = c * Scale
    BY <2>1 DEF Magnitude
  <2>3. Nearest(c * Scale, 100) = v
    BY DEF centsToMajor
  <2>4. centsToMajor(b) = -v
    <3>1. Nearest(b * Scale, 100) = SameSign(b * Scale, v)
      BY <1>2, <2>1, <2>2, <2>3, NearestIsOdd
    <3> QED BY <2>1, <3>1 DEF centsToMajor, SameSign
  <2>5. Magnitude((-v) * 100) = v * 100 /\ (-v) * 100 \in Int
    <3> HIDE DEF v
    <3> QED BY <1>2 DEF Magnitude
  <2>6. Nearest(v * 100, 1) = p
    BY DEF TimesHundred
  <2>7. TimesHundred(-v) = -p
    <3>1. Nearest((-v) * 100, 1) = SameSign((-v) * 100, p)
      BY <1>2, <2>5, <2>6, NearestIsOdd
    <3>2. TimesHundred(-v) = SameSign((-v) * 100, p)
      BY <3>1 DEF TimesHundred
    <3> HIDE DEF v, p
    <3> QED BY <1>2, <3>2 DEF SameSign
  <2> QED BY <1>1, <1>4, <2>4, <2>7 DEF SameSign, c
<1> QED BY <1>1, <1>3, <1>4

\* An integer is converted as it is, any other number to some integer.
LEMMA ToIntFacts ==
  ASSUME NEW n \in Int
  PROVE  /\ ToInt(n) \subseteq MinInt..MaxInt
         /\ n \in MinInt..MaxInt => ToInt(n) = {n}
BY Sizes DEF ToInt

\* What Cents makes of a rounded product.
LEMMA Rounded ==
  ASSUME NEW p \in Nat, NEW n \in Nat,
         2 * (n * Scale) <= 2 * p + Scale, 2 * p + Scale < 2 * (n * Scale) + 2 * Scale
  PROVE  (2 * p + Scale) \div (2 * Scale) = n
<1> USE Sizes
<1>1. /\ 2 * p + Scale \in Nat /\ 2 * Scale \in Nat \ {0}
      /\ (2 * Scale) * n = 2 * (n * Scale) /\ (2 * Scale) * (n + 1) = 2 * (n * Scale) + 2 * Scale
  OBVIOUS
<1>2. n <= (2 * p + Scale) \div (2 * Scale)
  BY <1>1, Quotient
<1>3. (2 * p + Scale) \div (2 * Scale) < n + 1
  BY <1>1, Quotient
<1>4. (2 * p + Scale) \div (2 * Scale) \in Nat
  BY <1>1, Division
<1> QED BY <1>2, <1>3, <1>4

\* Amounts that can be told apart come back as they are, of either sign.
LEMMA CentsComeBack ==
  ASSUME NEW c \in Amounts
  PROVE  Cents(centsToMajor(c)) = {c} /\ Cents(centsToMajor(-c)) = {-c}
<1> DEFINE p == TimesHundred(centsToMajor(c))
<1> USE Sizes
<1>1. /\ c \in Nat \ {0} /\ c <= MaxInt /\ p \in Nat /\ c <= PowerOfTwo[Width]
      /\ 2 * (c * Scale) - Scale <= 2 * p /\ 2 * p < 2 * (c * Scale) + Scale
      /\ c * Scale \in Nat /\ c * Scale >= Scale
  <2>1. c \in Nat \ {0} =>
          /\ c * Scale \in Nat /\ (c - 1) * Scale \in Nat
          /\ c * Scale - Scale = (c - 1) * Scale
    OBVIOUS
  <2> QED BY <2>1, RoundTrip
<1> HIDE DEF p
<1>2. (2 * p + Scale) \div (2 * Scale) = c /\ p > 0
  BY <1>1, Rounded
<1>3. Magnitude(p) = p /\ ~(p < 0) /\ Magnitude(-p) = p /\ -p < 0
  BY <1>1, <1>2 DEF Magnitude
<1>4. Cents(centsToMajor(c)) = ToInt(c)
  BY <1>2, <1>3 DEF Cents, SameSign, p
<1>5. TimesHundred(centsToMajor(-c)) = -p
  <2>1. -c \in Int /\ Magnitude(-c) = c /\ -c < 0
    BY <1>1 DEF Magnitude
  <2> QED BY <1>1, <2>1, Signs DEF SameSign, p
<1>6. Cents(centsToMajor(-c)) = ToInt(-c)
  BY <1>2, <1>3, <1>5 DEF Cents, SameSign
<1> QED BY <1>1, <1>4, <1>6, ToIntFacts

\* A truncated amount is the amount or a cent less.
LEMMA TruncatedByACent ==
  ASSUME NEW c \in Amounts, NEW t \in majorToCents(centsToMajor(c))
  PROVE  t \in Int /\ c - t \in {0, 1}
<1> DEFINE p == TimesHundred(centsToMajor(c))
<1> USE Sizes
<1>1. /\ c \in Nat \ {0} /\ c <= MaxInt /\ p \in Nat
      /\ 2 * (c * Scale) - Scale <= 2 * p /\ 2 * p < 2 * (c * Scale) + Scale
  BY RoundTrip
<1> HIDE DEF p
<1>2. c - 1 <= p \div Scale /\ p \div Scale < c + 1 /\ p \div Scale \in Nat
  <2>1. /\ Scale * (c - 1) = c * Scale - Scale
        /\ Scale * (c + 1) = c * Scale + Scale /\ c * Scale \in Nat
    BY <1>1
  <2>2. Scale * (c - 1) <= p /\ p < Scale * (c + 1) /\ c - 1 \in Nat /\ c + 1 \in Nat
    BY <1>1, <2>1
  <2>3. Scale \in Nat \ {0}
    OBVIOUS
  <2> QED BY <1>1, <2>2, <2>3, Quotient, Division
<1>3. majorToCents(centsToMajor(c)) = ToInt(p \div Scale)
  <2>1. Magnitude(p) = p /\ ~(p < 0)
    BY <1>1 DEF Magnitude
  <2> QED BY <2>1 DEF majorToCents, SameSign, p
<1>4. p \div Scale \in MinInt..MaxInt
  BY <1>1, <1>2
<1> QED BY <1>1, <1>2, <1>3, <1>4, ToIntFacts

\* What toMoney lets through fits an integer with its sign, whatever was booked.
LEMMA ChecksFit ==
  ASSUME NEW b \in Int, Magnitude(b) <= PowerOfTwo[Width],
         Magnitude(centsToMajor(b)) <= MaxUnits * Scale
  PROVE  \E n \in (-MaxInt)..MaxInt : Cents(centsToMajor(b)) = {n}
<1> DEFINE c == Magnitude(b)
           v == centsToMajor(c)
           p == TimesHundred(v)
           limit == MaxUnits * Scale
<1> USE Sizes, BitsAssumption
<1>1. c \in Nat /\ c <= PowerOfTwo[Width]
  BY Signs
<1>2. v \in Nat /\ p \in Nat
  BY <1>1, FloatFacts
<1>3. v <= limit /\ limit \in Nat
  <2>1. centsToMajor(b) = SameSign(b, v)
    BY Signs
  <2>2. Magnitude(SameSign(b, v)) = v
    <3> HIDE DEF v
    <3> QED BY <1>2 DEF Magnitude, SameSign
  <2> HIDE DEF v
  <2> QED BY <2>1, <2>2
<1>4. PICK unit2 \in Nat \ {0} :
        2 * p <= 2 * (100 * v) + unit2 /\ (unit2 = 1 \/ unit2 * Significands <= 2 * (100 * v))
  BY <1>1, FloatFacts
<1> HIDE DEF c, v, p
<1>5. /\ 100 * limit <= MaxInt * Scale
      /\ 100 * limit * (Significands + 1) <= (MaxInt * Scale) * Significands
  <2> DEFINE slack == MaxInt * Significands - 100 * MaxUnits * (Significands + 1)
  <2>1. slack \in Nat
    BY RangeAssumption
  <2>2. slack * Scale \in Nat
    <3> HIDE DEF slack
    <3> QED BY <2>1
  <2>3. slack * Scale = (MaxInt * Scale) * Significands - 100 * limit * (Significands + 1)
    OBVIOUS
  <2>4. 100 * limit * (Significands + 1) = (100 * limit) * Significands + 100 * limit
    OBVIOUS
  <2> DEFINE x == 100 * limit
             y == MaxInt * Scale
  <2>5. x \in Nat /\ y \in Nat /\ x * Significands + x <= y * Significands
    BY <2>2, <2>3, <2>4, <1>3
  <2> HIDE DEF x, y, slack
  <2>6. x <= y
    <3> SUFFICES ASSUME y < x PROVE FALSE
      BY <2>5
    <3>1. /\ (x - y) * Significands \in Nat
          /\ (x - y) * Significands = x * Significands - y * Significands
      BY <2>5
    <3>2. x * Significands \in Nat /\ y * Significands \in Nat
      BY <2>5
    <3> QED BY <2>5, <3>1, <3>2
  <2>7. 100 * limit * (Significands + 1) = x * Significands + x
    BY <2>4 DEF x
  <2> QED BY <2>5, <2>6, <2>7 DEF x, y
<1>6. 2 * p <= 2 * (MaxInt * Scale) + 1
  <2> DEFINE y == MaxInt * Scale
             x == 100 * limit
             w == 100 * v
  <2>1. w <= x /\ w \in Nat /\ x \in Nat /\ y \in Nat /\ x <= y
    BY <1>2, <1>3, <1>5
  <2>2. CASE unit2 = 1
    <3> HIDE DEF w, x, y
    <3>1. 2 * p <= 2 * w + 1
      BY <1>4, <2>2 DEF w
    <3>2. 2 * p <= 2 * y + 1
      BY <1>2, <2>1, <3>1
    <3> QED BY <3>2 DEF y
  <2>3. CASE unit2 * Significands <= 2 * (100 * v)
    <3> SUFFICES ASSUME 2 * y < 2 * p PROVE FALSE
      BY <1>2
    <3>1. x * Significands + x <= y * Significands
      <4>1. x * Significands + x = 100 * limit * (Significands + 1)
        BY <1>3
      <4> QED BY <1>5, <4>1
    <3>2. 2 * p <= 2 * w + unit2 /\ unit2 * Significands <= 2 * w
      BY <1>4, <2>3
    <3> HIDE DEF w, x, y
    <3>3. (2 * w + unit2 - 2 * y) * Significands \in Nat \ {0}
      <4>1. 2 * w + unit2 - 2 * y \in Nat \ {0}
        BY <1>2, <2>1, <3>2
      <4> QED BY <4>1
    <3>4. (2 * w + unit2 - 2 * y) * Significands
            = 2 * (w * Significands) + unit2 * Significands - 2 * (y * Significands)
      BY <2>1
    <3>5. /\ (x - w) * Significands \in Nat
          /\ (x - w) * Significands = x * Significands - w * Significands
      BY <2>1
    <3>6. /\ x * Significands \in Nat /\ y * Significands \in Nat
          /\ w * Significands \in Nat /\ unit2 * Significands \in Nat
      BY <2>1
    <3> QED BY <2>1, <3>1, <3>2, <3>3, <3>4, <3>5, <3>6
  <2> QED BY <1>4, <2>2, <2>3
<1> DEFINE n == (2 * p + Scale) \div (2 * Scale)
<1>7. n \in 0..MaxInt
  <2>1. 2 * p + Scale \in Nat /\ 2 * Scale \in Nat \ {0} /\ MaxInt * Scale \in Nat
    BY <1>2
  <2>2. (2 * Scale) * (MaxInt + 1) = 2 * (MaxInt * Scale) + 2 * Scale
    OBVIOUS
  <2>3. 2 * p + Scale < (2 * Scale) * (MaxInt + 1)
    BY <1>2, <1>6, <2>1, <2>2
  <2>4. n < MaxInt + 1 /\ n \in Nat
    <3> DEFINE num == 2 * p + Scale
               den == 2 * Scale
               top == MaxInt + 1
    <3>1. num \in Nat /\ den \in Nat \ {0} /\ top \in Nat /\ num < den * top
      BY <2>1, <2>3
    <3> HIDE DEF num, den, top
    <3>2. num \div den \in Nat /\ num \div den < top
      BY <3>1, Quotient, Division
    <3> QED BY <3>2 DEF num, den, top
  <2> QED BY <2>4
<1> HIDE DEF n
<1>8. TimesHundred(centsToMajor(b)) = SameSign(b, p)
  BY Signs DEF p, v, c
<1>9. Cents(centsToMajor(b)) \in {ToInt(n), ToInt(-n)}
  <2>1. Magnitude(SameSign(b, p)) = p
    BY <1>2 DEF Magnitude, SameSign
  <2> QED BY <1>2, <1>7, <1>8, <2>1 DEF Cents, SameSign, n
<1>10. n \in MinInt..MaxInt /\ -n \in MinInt..MaxInt /\ -n \in (-MaxInt)..MaxInt
  BY <1>7
<1> QED BY <1>7, <1>9, <1>10, ToIntFacts

\* What majorToCents returns is an integer of the program, whatever was booked.
LEMMA TruncationFits ==
  ASSUME NEW b \in Int, Magnitude(b) <= PowerOfTwo[Width]
  PROVE  majorToCents(centsToMajor(b)) \subseteq MinInt..MaxInt
<1> DEFINE p == TimesHundred(centsToMajor(Magnitude(b)))
           product == TimesHundred(centsToMajor(b))
<1>1. p \in Nat /\ product = SameSign(b, p)
  BY Signs, FloatFacts
<1> HIDE DEF p, product
<1>2. Magnitude(product) = p
  BY <1>1 DEF Magnitude, SameSign
<1>3. p \div Scale \in Nat
  <2>1. Scale \in Nat \ {0}
    BY Sizes
  <2> QED BY <1>1, <2>1, Division
<1>4. SameSign(product, p \div Scale) \in Int
  BY <1>3 DEF SameSign
<1> QED BY <1>2, <1>4, ToIntFacts DEF majorToCents, product

\* Of the consumer's amounts each has a decimal of its own, which Wise reads.
LEMMA WiseReadsBack == ASSUME NEW c \in Amounts PROVE WiseReads(centsToMajor(c)) = c
<1>1. \A d \in Amounts : centsToMajor(d) = centsToMajor(c) => d = c
  <2> TAKE d \in Amounts
  <2> HAVE centsToMajor(d) = centsToMajor(c)
  <2>1. Cents(centsToMajor(d)) = {d} /\ Cents(centsToMajor(c)) = {c}
    BY CentsComeBack
  <2> QED BY <2>1
<1> QED BY <1>1 DEF WiseReads

\* The text of an amount with a magnitude shows it.
LEMMA AmountsShow == ASSUME NEW c \in Int, c # MinInt PROVE Shows(c)
<1> DEFINE abs == IF c < 0 THEN Negated(c) ELSE c
           sign == IF c < 0 THEN "-" ELSE ""
           major == abs \div 100
           minor == abs % 100
           text == String(c)
<1>1. abs \in Nat /\ c = IF c < 0 THEN -abs ELSE abs
  BY DEF Negated
<1>2. Magnitude(abs) = abs /\ SameSign(abs, major) = major /\ SameSign(abs, minor) = minor
  <2> HIDE DEF abs
  <2> QED BY <1>1 DEF Magnitude, SameSign
<1>3. text = [sign |-> sign, major |-> major, minor |-> minor]
  <2>1. text = [sign  |-> sign,
                major |-> SameSign(abs, Magnitude(abs) \div 100),
                minor |-> SameSign(abs, Magnitude(abs) % 100)]
    BY DEF String
  <2> HIDE DEF abs, text, sign
  <2> QED BY <1>2, <2>1
<1>4. major \in Nat /\ minor \in 0..99 /\ abs = 100 * major + minor
  <2> HIDE DEF abs
  <2> QED BY <1>1
<1>5. (sign = "-") <=> c < 0
  OBVIOUS
<1> HIDE DEF text, sign, major, minor, abs
<1>6. text.sign = sign /\ text.major = major /\ text.minor = minor
  BY <1>3
<1>7. c = IF text.sign = "-" THEN -(100 * text.major + text.minor)
          ELSE 100 * text.major + text.minor
  BY <1>1, <1>4, <1>5, <1>6
<1>8. text.major >= 0 /\ text.minor \in 0..99
  BY <1>4, <1>6
<1> QED BY <1>7, <1>8 DEF Shows, text

-----------------------------------------------------------------------------
(***************************************************************************)
(* The inductive invariant: what has been read is a conversion of what was *)
(* booked, and a chain of quotes has lost no more than its length.         *)
(***************************************************************************)
Bookings == Amounts \cup {-c : c \in Amounts} \cup HugeAmounts

QuoteInv ==
  quote = Unread \/
    /\ quotes > 0 /\ booked \in Bookings
    /\ \E c \in majorToCents(centsToMajor(booked)) : quote = Read(c)

TransferInv ==
  transfer = Unread \/
    /\ quote # Unread
    /\ \E c \in toMoney(centsToMajor(booked)) : transfer = Read(c)

PaymentInv ==
  payment = Unread \/
    /\ transfer # Unread
    /\ \E c \in majorToCents(centsToMajor(booked)) : payment = Read(c)

EntryInv ==
  entry = Unread \/
    \E b \in Bookings : \E total \in toMoney(centsToMajor(b)) :
      /\ entry.booked = b /\ entry.total = total
      /\ entry.amount = IF total < 0 THEN Negated(total) ELSE total
      /\ \E detail \in DetailTypes, c \in Cents(centsToMajor(b)) :
           entry.type = classifyTransactionType(detail, c)

DriftInv ==
  /\ quotes \in Nat
  /\ quotes = 0 => first = 0
  /\ first # 0 =>
       first \in Amounts /\ asked \in Amounts /\ booked = asked /\ first - asked \in 0..quotes - 1

MoneyInv == QuoteInv /\ TransferInv /\ PaymentInv /\ EntryInv /\ DriftInv

\* What was read can be told from what was not.
LEMMA Readings ==
  ASSUME NEW c
  PROVE  Read(c).read /\ Read(c).cents = c /\ ~Unread.read /\ Read(c) # Unread
<1>1. Read(c).read
  BY Zenon DEF Read
<1>2. ~Unread.read
  BY Zenon DEF Unread
<1>3. Read(c).cents = c
  BY DEF Read
<1> QED BY <1>1, <1>2, <1>3

\* Whatever is booked is an amount, and positive if the consumer asked for it.
LEMMA BookingsAreAmounts ==
  /\ \A c \in Amounts : c \in Nat \ {0} /\ c <= MaxInt
  /\ \A b \in Bookings : b \in Int /\ Magnitude(b) <= PowerOfTwo[Width]
<1>1. \A c \in Amounts : c \in Nat \ {0} /\ c <= MaxInt
  BY PrecisionAssumption, Sizes
<1>2. ASSUME NEW c \in Amounts PROVE /\ c \in Int /\ Magnitude(c) <= PowerOfTwo[Width]
                                     /\ -c \in Int /\ Magnitude(-c) <= PowerOfTwo[Width]
  BY <1>1, Sizes DEF Magnitude
<1>3. ASSUME NEW c \in HugeAmounts PROVE c \in Int /\ Magnitude(c) <= PowerOfTwo[Width]
  <2>1. c \in Int /\ Magnitude(c) \in (100 * MaxUnits + 1)..PowerOfTwo[Width]
    BY HugeAssumption
  <2> QED BY <2>1, BitsAssumption, Sizes DEF Magnitude
<1> QED BY <1>1, <1>2, <1>3 DEF Bookings

\* Every call keeps the invariant: only a quote disturbs the chain, and only by a cent.
LEMMA MoneyStep == ASSUME MoneyInv, [MoneyNext]_moneyVars PROVE MoneyInv'
<1> USE DEF MoneyInv
<1>1. ASSUME NEW cents \in Amounts, CreateQuote(cents),
             quotes = 0 \/ first = 0 \/ first - cents \in 0..quotes
      PROVE  MoneyInv'
  <2>1. booked' = cents /\ asked' = cents /\ quotes' = quotes + 1 /\ quotes \in Nat
    BY <1>1, WiseReadsBack DEF CreateQuote, DriftInv
  <2>2. QuoteInv'
    BY <1>1, <2>1 DEF CreateQuote, QuoteInv, Bookings
  <2>3. TransferInv' /\ PaymentInv' /\ EntryInv'
    BY <1>1 DEF CreateQuote, TransferInv, PaymentInv, EntryInv
  <2>4. first' = IF quotes = 0 THEN cents ELSE first
    BY <1>1 DEF CreateQuote
  <2>5. DriftInv'
    BY <1>1, <2>1, <2>4, BookingsAreAmounts DEF DriftInv
  <2> QED BY <2>2, <2>3, <2>5
<1>2. CASE FirstQuote
  BY <1>1, <1>2 DEF FirstQuote
<1>3. CASE QuoteAgain
  <2>1. quote # Unread
    BY <1>3, Readings DEF QuoteAgain
  <2>2. PICK c \in majorToCents(centsToMajor(booked)) : quote = Read(c)
    BY <2>1 DEF QuoteInv
  <2>3. quote.cents = c /\ quotes > 0
    BY <2>1, <2>2, Readings DEF QuoteInv
  <2>4. first # 0 =>
          /\ booked \in Amounts /\ first \in Amounts
          /\ booked = asked /\ first - asked \in 0..quotes - 1
    BY DEF DriftInv
  <2>5. first # 0 => c \in Int /\ asked - c \in {0, 1}
    BY <2>2, <2>4, TruncatedByACent
  <2>6. first # 0 => first - c \in 0..quotes
    BY <2>3, <2>4, <2>5, BookingsAreAmounts DEF DriftInv
  <2> QED BY <1>1, <1>3, <2>3, <2>6 DEF QuoteAgain
<1>4. CASE ReadQuote
  <2>1. quotes = 0 /\ quotes' = MaxQuotes /\ MaxQuotes \in Nat \ {0}
    BY <1>4, BitsAssumption DEF ReadQuote
  <2>2. quote = Unread /\ transfer = Unread /\ payment = Unread /\ first = 0
    BY <2>1 DEF QuoteInv, TransferInv, PaymentInv, DriftInv
  <2>3. QuoteInv'
    BY <1>4, <2>1 DEF ReadQuote, QuoteInv, Bookings
  <2> QED BY <1>4, <2>1, <2>2, <2>3 DEF ReadQuote, TransferInv, PaymentInv, EntryInv, DriftInv
<1>5. CASE GetTransfer
  <2>1. quote # Unread /\ UNCHANGED <<first, asked, quotes, quote, booked, payment, entry>>
    BY <1>5, Readings DEF GetTransfer
  <2>2. transfer = Unread
    <3>1. ~transfer.read
      BY <1>5 DEF GetTransfer
    <3> QED BY <3>1, Readings DEF TransferInv
  <2>3. PICK c \in toMoney(centsToMajor(booked)) : transfer' = Read(c)
    BY <1>5 DEF GetTransfer
  <2> QED BY <2>1, <2>2, <2>3, Readings DEF QuoteInv, TransferInv, PaymentInv, EntryInv, DriftInv
<1>6. CASE ListTransferPayments
  <2>1. transfer # Unread /\ UNCHANGED <<first, asked, quotes, quote, booked, transfer, entry>>
    BY <1>6, Readings DEF ListTransferPayments
  <2>2. PICK c \in majorToCents(centsToMajor(booked)) : payment' = Read(c)
    BY <1>6 DEF ListTransferPayments
  <2> QED BY <2>1, <2>2 DEF QuoteInv, TransferInv, PaymentInv, EntryInv, DriftInv
<1>7. CASE ListTransactions
  <2>1. UNCHANGED <<first, asked, quotes, quote, booked, transfer, payment>>
    BY <1>7 DEF ListTransactions
  <2>2. EntryInv'
    BY <1>7 DEF ListTransactions, EntryInv, Bookings
  <2> QED BY <2>1, <2>2 DEF QuoteInv, TransferInv, PaymentInv, DriftInv
<1>8. CASE UNCHANGED moneyVars
  BY <1>8 DEF moneyVars, QuoteInv, TransferInv, PaymentInv, EntryInv, DriftInv
<1> QED BY <1>2, <1>3, <1>4, <1>5, <1>6, <1>7, <1>8 DEF MoneyNext

\* The inductive invariant holds in every reachable state.
THEOREM MoneyInvariant == MoneySpec => []MoneyInv
<1>1. MoneyInit => MoneyInv
  BY DEF MoneyInit, MoneyInv, QuoteInv, TransferInv, PaymentInv, EntryInv, DriftInv
<1>2. MoneyInv /\ [MoneyNext]_moneyVars => MoneyInv'
  BY MoneyStep
<1> QED BY <1>1, <1>2, PTL DEF MoneySpec

\* What toMoney returns is what Cents makes of the value, and has a magnitude.
LEMMA Checked ==
  ASSUME NEW b \in Bookings, NEW total \in toMoney(centsToMajor(b))
  PROVE  Cents(centsToMajor(b)) = {total} /\ total \in (-MaxInt)..MaxInt
<1> DEFINE v == centsToMajor(b)
<1>1. b \in Int /\ Magnitude(b) <= PowerOfTwo[Width]
  BY BookingsAreAmounts
<1>2. v \in Int
  <2>1. Magnitude(b) \in Nat /\ v = SameSign(b, centsToMajor(Magnitude(b)))
    BY <1>1, Signs
  <2>2. centsToMajor(Magnitude(b)) \in Nat
    BY <1>1, <2>1, FloatFacts
  <2> QED BY <2>1, <2>2 DEF SameSign
<1> HIDE DEF v
<1>3. Magnitude(v) <= MaxUnits * Scale /\ total \in Cents(v)
  BY <1>2, Sizes, BitsAssumption DEF toMoney, Magnitude, v
<1>4. PICK n \in (-MaxInt)..MaxInt : Cents(v) = {n}
  BY <1>1, <1>3, ChecksFit DEF v
<1> QED BY <1>3, <1>4 DEF v

\* What toMoney returns of an amount the precision can tell apart is what Wise
\* booked, for any precision, any width and all such amounts
\* (helpers.go:53-77, internal/raw/types.go:163-167).
THEOREM ConversionsAreExact == MoneySpec => []MoneyIsExact
<1>1. ASSUME MoneyInv, transfer.read, booked \in Amounts PROVE transfer.cents = booked
  <2>1. transfer # Unread
    BY <1>1, Readings
  <2>2. PICK c \in toMoney(centsToMajor(booked)) : transfer = Read(c)
    BY <1>1, <2>1 DEF MoneyInv, TransferInv
  <2>3. c \in Cents(centsToMajor(booked))
    BY <1>1, <2>2, Checked DEF Bookings
  <2> QED BY <1>1, <2>2, <2>3, CentsComeBack, Readings
<1>2. ASSUME MoneyInv, entry.read, Magnitude(entry.booked) \in Amounts
      PROVE  entry.total = entry.booked
  <2>1. entry # Unread
    BY <1>2, Readings
  <2>2. PICK b \in Bookings : \E total \in toMoney(centsToMajor(b)) :
          entry.booked = b /\ entry.total = total
    BY <1>2, <2>1 DEF MoneyInv, EntryInv
  <2>3. entry.booked = b /\ entry.total \in toMoney(centsToMajor(b))
    BY <2>2
  <2>4. Cents(centsToMajor(b)) = {entry.total}
    BY <2>3, Checked
  <2>5. Magnitude(b) \in Amounts /\ b \in Int
    BY <1>2, <2>3, BookingsAreAmounts
  <2>6. b \in {Magnitude(b), -Magnitude(b)}
    BY <2>5 DEF Magnitude
  <2>7. Cents(centsToMajor(b)) = {b}
    BY <2>5, <2>6, CentsComeBack
  <2> QED BY <2>3, <2>4, <2>7
<1>3. MoneyInv => MoneyIsExact
  BY <1>1, <1>2 DEF MoneyIsExact
<1> QED BY <1>3, MoneyInvariant, PTL

\* A row of the statement has the magnitude and the direction of what was booked,
\* whatever was booked, for any precision and width (transactions.go:89-99, 191-236).
THEOREM EntriesKeepTheirSign == MoneySpec => []EntriesAreSigned
<1>1. MoneyInv => EntriesAreSigned
  <2> SUFFICES ASSUME MoneyInv, entry.read
               PROVE  /\ entry.amount >= 0
                      /\ entry.amount \in {entry.total, -entry.total}
                      /\ entry.type \in {"credit", "refund"} => entry.total > 0
                      /\ entry.type = "debit" => entry.total <= 0
    BY DEF EntriesAreSigned
  <2>1. entry # Unread
    BY Readings
  <2>2. PICK b \in Bookings : \E total \in toMoney(centsToMajor(b)) :
          /\ entry.booked = b /\ entry.total = total
          /\ entry.amount = IF total < 0 THEN Negated(total) ELSE total
          /\ \E detail \in DetailTypes, c \in Cents(centsToMajor(b)) :
               entry.type = classifyTransactionType(detail, c)
    BY <2>1 DEF MoneyInv, EntryInv
  <2>3. PICK total \in toMoney(centsToMajor(b)) :
          /\ entry.booked = b /\ entry.total = total
          /\ entry.amount = IF total < 0 THEN Negated(total) ELSE total
          /\ \E detail \in DetailTypes, c \in Cents(centsToMajor(b)) :
               entry.type = classifyTransactionType(detail, c)
    BY <2>2
  <2>4. Cents(centsToMajor(b)) = {total} /\ total \in (-MaxInt)..MaxInt
    BY Checked
  <2>5. PICK detail \in DetailTypes : entry.type = classifyTransactionType(detail, total)
    BY <2>3, <2>4
  <2>6. entry.amount = (IF total < 0 THEN -total ELSE total) /\ entry.total = total /\ total \in Int
    BY <2>3, <2>4, Sizes DEF Negated
  <2>7. /\ entry.type \in {"credit", "refund"} => total > 0
        /\ entry.type = "debit" => ~(total > 0)
    BY <2>5 DEF classifyTransactionType, creditOrDebit, DetailTypes
  <2> QED BY <2>6, <2>7
<1> QED BY <1>1, MoneyInvariant, PTL

\* A truncated amount is the booked one or a cent less, for any precision and all
\* amounts it can tell apart (quotes.go:549-555, transfers.go:489-498).
THEOREM TruncationLosesACent == MoneySpec => []TruncationLosesOneCent
<1>1. MoneyInv => TruncationLosesOneCent
  <2> SUFFICES ASSUME MoneyInv, booked \in Amounts
               PROVE  /\ quote.read => booked - quote.cents \in {0, 1}
                      /\ payment.read => transfer.cents - payment.cents \in {0, 1}
    BY DEF TruncationLosesOneCent
  <2>1. ASSUME quote.read PROVE booked - quote.cents \in {0, 1}
    <3>1. quote # Unread
      BY <2>1, Readings
    <3>2. PICK c \in majorToCents(centsToMajor(booked)) : quote = Read(c)
      BY <3>1 DEF MoneyInv, QuoteInv
    <3> QED BY <3>2, TruncatedByACent, Readings
  <2>2. ASSUME payment.read PROVE transfer.cents - payment.cents \in {0, 1}
    <3>1. payment # Unread
      BY <2>2, Readings
    <3>2. PICK c \in majorToCents(centsToMajor(booked)) : payment = Read(c)
      BY <3>1 DEF MoneyInv, PaymentInv
    <3>3. PICK d \in toMoney(centsToMajor(booked)) : transfer = Read(d)
      BY <3>1 DEF MoneyInv, PaymentInv, TransferInv
    <3>4. d = booked
      <4>1. Cents(centsToMajor(booked)) = {d}
        BY <3>3, Checked DEF Bookings
      <4> QED BY <4>1, CentsComeBack
    <3>5. booked - c \in {0, 1}
      BY TruncatedByACent
    <3> QED BY <3>2, <3>3, <3>4, <3>5, Readings
  <2> QED BY <2>1, <2>2
<1> QED BY <1>1, MoneyInvariant, PTL

\* Any number of quotes in a row lose at most a cent each, and never gain one
\* (quotes.go:549-555).
THEOREM QuotesDriftSlowly == MoneySpec => []DriftIsBounded
<1>1. MoneyInv => DriftIsBounded
  <2>1. MoneyInv /\ first > 0 => first # 0
    OBVIOUS
  <2> QED BY <2>1 DEF MoneyInv, DriftInv, DriftIsBounded
<1> QED BY <1>1, MoneyInvariant, PTL

\* The text of every amount read is that amount, for any width; only what toMoney has
\* not checked can be the least integer (types.go:70-86).
THEOREM TextsShowAmounts == MoneySpec => []TextIsTheAmount
<1>1. ASSUME MoneyInv, quote.read, quote.cents # MinInt PROVE Shows(quote.cents)
  <2>1. quote # Unread
    BY <1>1, Readings
  <2>2. PICK c \in majorToCents(centsToMajor(booked)) : quote = Read(c)
    BY <1>1, <2>1 DEF MoneyInv, QuoteInv
  <2>3. booked \in Bookings
    BY <1>1, <2>1 DEF MoneyInv, QuoteInv
  <2>4. c \in Int
    BY <2>3, TruncationFits, BookingsAreAmounts
  <2> QED BY <1>1, <2>2, <2>4, AmountsShow, Readings
<1>2. ASSUME MoneyInv, transfer.read PROVE Shows(transfer.cents)
  <2>1. transfer # Unread
    BY <1>2, Readings
  <2>2. PICK c \in toMoney(centsToMajor(booked)) : transfer = Read(c)
    BY <1>2, <2>1 DEF MoneyInv, TransferInv
  <2>3. booked \in Bookings
    BY <1>2, <2>1 DEF MoneyInv, TransferInv, QuoteInv
  <2>4. c \in Int /\ c # MinInt
    BY <2>3, Checked, Sizes
  <2> QED BY <2>2, <2>4, AmountsShow, Readings
<1>3. ASSUME MoneyInv, entry.read PROVE Shows(entry.total) /\ Shows(entry.amount)
  <2>1. entry # Unread
    BY <1>3, Readings
  <2>2. PICK b \in Bookings : \E total \in toMoney(centsToMajor(b)) :
          /\ entry.total = total
          /\ entry.amount = IF total < 0 THEN Negated(total) ELSE total
    BY <1>3, <2>1 DEF MoneyInv, EntryInv
  <2>3. PICK total \in toMoney(centsToMajor(b)) :
          /\ entry.total = total
          /\ entry.amount = IF total < 0 THEN Negated(total) ELSE total
    BY <2>2
  <2>4. total \in (-MaxInt)..MaxInt
    BY Checked
  <2>5. total \in Int /\ total # MinInt /\ entry.amount \in Int /\ entry.amount # MinInt
    BY <2>3, <2>4, Sizes DEF Negated
  <2> QED BY <2>3, <2>5, AmountsShow
<1>4. MoneyInv => TextIsTheAmount
  BY <1>1, <1>2, <1>3 DEF TextIsTheAmount
<1> QED BY <1>4, MoneyInvariant, PTL
=============================================================================
