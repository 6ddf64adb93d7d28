-------------------------- MODULE PaginationProofs --------------------------
(***************************************************************************)
(* What TLAPS proves of Pagination, for every page size, collection and    *)
(* number of changes.  The argument: behind the offset lie exactly the     *)
(* rows still to be read, and rows that appear at the front only push      *)
(* others towards them.                                                    *)
(***************************************************************************)
EXTENDS Pagination, SequenceTheorems, FiniteSetTheorems, TLAPS

\* Creations and removals are all that happens to the rows.
CountInv == Len(store) = Len(start) + created - removed

\* Untouched, the collection is the one of the start, and its first offset rows
\* are what has been collected.
QuietInv ==
  created = 0 /\ removed = 0 =>
    /\ store = start
    /\ pc = "paging" => offset <= Len(store) /\ all = SubSeq(store, 1, offset)
    /\ pc = "listed" => all = store

\* Row x has been collected, or lies behind the offset.
Ahead(x) == x \in Rows(all) \/ \E j \in 1..Len(store) : j > offset /\ store[j] = x

\* Without removals each row of the start is collected or still ahead.
AheadInv ==
  removed = 0 =>
    \A x \in Rows(start) :
      /\ pc = "paging" => Ahead(x)
      /\ pc = "listed" => x \in Rows(all)

IInv == TypeOK /\ CountInv /\ PagesAreBounded /\ QuietInv /\ AheadInv

-----------------------------------------------------------------------------
\* What the listing knows of a page from its length.
LEMMA PageFacts ==
  ASSUME TypeOK
  PROVE  /\ Page \in Seq(Nat)
         /\ \A i \in 1..Len(Page) : Page[i] = store[offset + i]
         /\ ~Short => offset + PageSize <= Len(store) /\ Len(Page) = PageSize
         /\ Short /\ offset <= Len(store) => offset + Len(Page) = Len(store)
         /\ Short => \A j \in 1..Len(store) : j > offset => j - offset \in 1..Len(Page)
<1>1. /\ store \in Seq(Nat) /\ offset \in Nat /\ Len(store) \in Nat
      /\ PageSize \in Nat \ {0}
  BY PageSizeAssumption DEF TypeOK
<1>2. /\ PageEnd \in Nat /\ PageEnd <= Len(store)
      /\ PageEnd = offset + PageSize \/ (PageEnd = Len(store) /\ PageEnd < offset + PageSize)
  BY <1>1 DEF PageEnd
<1>3. /\ Page \in Seq(Nat)
      /\ Len(Page) = IF offset + 1 <= PageEnd THEN PageEnd - offset ELSE 0
      /\ \A i \in 1..PageEnd - offset : Page[i] = store[offset + i]
  <2>1. \A i \in offset + 1..PageEnd : store[i] \in Nat
    BY <1>1, <1>2, ElementOfSeq
  <2>2. /\ Page \in Seq(Nat)
        /\ Len(Page) = IF offset + 1 <= PageEnd THEN PageEnd - (offset + 1) + 1 ELSE 0
        /\ \A i \in 1..PageEnd - (offset + 1) + 1 : Page[i] = store[(offset + 1) + i - 1]
    BY <1>1, <1>2, <2>1, SubSeqProperties DEF Page
  <2> QED BY <1>1, <1>2, <2>2
<1> QED BY <1>1, <1>2, <1>3 DEF Short

\* A page holds no row from beyond the collection.
LEMMA PageInside ==
  ASSUME TypeOK, NEW i \in 1..Len(Page)
  PROVE  offset + i \in 1..Len(store)
<1>1. offset \in Nat /\ Len(store) \in Nat /\ PageSize \in Nat \ {0}
  BY PageSizeAssumption DEF TypeOK
<1>2. CASE ~Short
  BY <1>1, <1>2, PageFacts
<1>3. CASE Short /\ offset <= Len(store)
  BY <1>1, <1>3, PageFacts
<1>4. CASE Short /\ offset > Len(store)
  <2>1. PageEnd = Len(store)
    BY <1>1, <1>4 DEF PageEnd
  <2>2. Page = << >>
    BY <1>1, <1>4, <2>1, SubSeqEmpty DEF Page
  <2> QED BY <2>2
<1> QED BY <1>1, <1>2, <1>3, <1>4

\* The rows of two lists joined are the rows of both.
LEMMA RowsOfBoth ==
  ASSUME NEW s \in Seq(Nat), NEW t \in Seq(Nat)
  PROVE  Rows(s \o t) = Rows(s) \cup Rows(t)
<1>1. /\ Len(s) \in Nat /\ Len(t) \in Nat /\ Len(s \o t) = Len(s) + Len(t)
      /\ \A i \in 1..Len(s) + Len(t) :
           (s \o t)[i] = IF i <= Len(s) THEN s[i] ELSE t[i - Len(s)]
  BY ConcatProperties, LenProperties
<1>2. Rows(s \o t) \subseteq Rows(s) \cup Rows(t)
  BY <1>1 DEF Rows
<1>3. \A i \in 1..Len(s) : i \in 1..Len(s \o t) /\ (s \o t)[i] = s[i]
  BY <1>1
<1>4. \A i \in 1..Len(t) : Len(s) + i \in 1..Len(s \o t) /\ (s \o t)[Len(s) + i] = t[i]
  BY <1>1
<1>5. Rows(s) \subseteq Rows(s \o t)
  BY <1>3 DEF Rows
<1>6. Rows(t) \subseteq Rows(s \o t)
  BY <1>4 DEF Rows
<1> QED BY <1>2, <1>5, <1>6

\* What a creation and a removal do to the collection.
LEMMA CreateFacts ==
  ASSUME TypeOK, Create
  PROVE  /\ store' \in Seq(Nat) /\ Len(store') = Len(store) + 1
         /\ \A j \in 1..Len(store) : store'[j + 1] = store[j]
<1>1. Len(start) + created' \in Nat
  BY BoundsAssumption DEF TypeOK, Create
<1>2. PICK x \in Nat : store' = <<x>> \o store
  BY <1>1 DEF Create
<1>3. store \in Seq(Nat) /\ <<x>> \in Seq(Nat) /\ Len(<<x>>) = 1
  BY DEF TypeOK
<1> QED BY <1>2, <1>3, ConcatProperties, LenProperties

LEMMA RemoveFacts ==
  ASSUME TypeOK, Remove
  PROVE  store' \in Seq(Nat) /\ Len(store') = Len(store) - 1
<1>1. PICK i \in 1..Len(store) :
        store' = [j \in 1..Len(store) - 1 |-> IF j < i THEN store[j] ELSE store[j + 1]]
  BY DEF Remove
<1>2. store \in Seq(Nat) /\ Len(store) \in Nat
  BY DEF TypeOK
<1>3. \A j \in 1..Len(store) - 1 : store'[j] \in Nat
  BY <1>1, <1>2, ElementOfSeq
<1>4. Len(store) - 1 \in Nat
  BY <1>1, <1>2
<1>5. store' \in [1..Len(store) - 1 -> Nat]
  BY <1>1, <1>3
<1> QED BY <1>4, <1>5, SeqDef

-----------------------------------------------------------------------------
\* Every step keeps the types, the count and the bound.
LEMMA TypeStep ==
  ASSUME TypeOK, CountInv, PagesAreBounded, [Next]_vars
  PROVE  TypeOK' /\ CountInv' /\ PagesAreBounded'
<1>1. /\ store \in Seq(Nat) /\ offset \in Nat /\ all \in Seq(Nat) /\ start \in Seq(Nat)
      /\ created \in Nat /\ removed \in Nat /\ Len(start) \in Nat /\ Len(store) \in Nat
      /\ PageSize \in Nat \ {0} /\ MaxChanges \in Nat
  BY PageSizeAssumption, BoundsAssumption DEF TypeOK
<1>2. all \o Page \in Seq(Nat)
  BY <1>1, PageFacts, ConcatProperties
<1>3. CASE UNCHANGED vars
  BY <1>3 DEF TypeOK, CountInv, PagesAreBounded, vars
<1>4. CASE Create
  <2>1. /\ created < MaxChanges /\ created' = created + 1
        /\ UNCHANGED <<pc, offset, all, start, removed>>
    BY <1>4 DEF Create
  <2>2. store' \in Seq(Nat) /\ Len(store') = Len(store) + 1
    BY <1>4, CreateFacts
  <2>3. created' \in 0..MaxChanges
    BY <1>1, <2>1
  <2>4. TypeOK'
    BY <2>1, <2>2, <2>3 DEF TypeOK
  <2> QED BY <1>1, <2>1, <2>2, <2>4 DEF CountInv, PagesAreBounded
<1>5. CASE Remove
  <2>1. /\ removed < MaxChanges /\ removed' = removed + 1
        /\ UNCHANGED <<pc, offset, all, start, created>>
    BY <1>5 DEF Remove
  <2>2. store' \in Seq(Nat) /\ Len(store') = Len(store) - 1
    BY <1>5, RemoveFacts
  <2>3. removed' \in 0..MaxChanges
    BY <1>1, <2>1
  <2>4. TypeOK'
    BY <2>1, <2>2, <2>3 DEF TypeOK
  <2> QED BY <1>1, <2>1, <2>2, <2>4 DEF CountInv, PagesAreBounded
<1>6. CASE FullPage
  <2>1. /\ offset' = offset + PageSize /\ offset + PageSize <= Len(store)
        /\ UNCHANGED <<store, pc, start, created, removed>> /\ all' = all \o Page
    BY <1>6, PageFacts DEF FullPage, Advance
  <2>2. PICK k \in 0..offset : offset = k * PageSize
    BY DEF TypeOK
  <2>3. offset + PageSize = (k + 1) * PageSize
    BY <1>1, <2>2
  <2>4. k + 1 \in 0..offset'
    BY <1>1, <2>1
  <2>5. offset' \in {j * PageSize : j \in 0..offset'}
    BY <2>1, <2>3, <2>4
  <2>6. TypeOK'
    BY <1>1, <1>2, <2>1, <2>5 DEF TypeOK
  <2> QED BY <1>1, <2>1, <2>6 DEF CountInv, PagesAreBounded
<1>7. CASE LastPage
  BY <1>2, <1>7 DEF TypeOK, CountInv, PagesAreBounded, LastPage
<1>8. CASE PageFails
  <2>1. <<>> \in Seq(Nat)
    OBVIOUS
  <2> QED BY <1>8, <2>1 DEF TypeOK, CountInv, PagesAreBounded, PageFails
<1> QED BY <1>3, <1>4, <1>5, <1>6, <1>7, <1>8 DEF Next

\* An untouched collection is collected from its front, page by page.
LEMMA QuietStep ==
  ASSUME TypeOK, CountInv, QuietInv, [Next]_vars
  PROVE  QuietInv'
<1>1. /\ store \in Seq(Nat) /\ offset \in Nat /\ created \in Nat /\ removed \in Nat
      /\ Len(store) \in Nat /\ PageSize \in Nat \ {0}
  BY PageSizeAssumption DEF TypeOK
<1>2. CASE UNCHANGED vars
  BY <1>2 DEF QuietInv, vars
<1>3. CASE Create \/ Remove
  BY <1>1, <1>3 DEF QuietInv, Create, Remove
<1>4. CASE FullPage
  <2>1. SUFFICES ASSUME created = 0, removed = 0
                 PROVE  QuietInv'
    BY <1>4 DEF QuietInv, FullPage
  <2>2. /\ store = start /\ offset <= Len(store) /\ all = SubSeq(store, 1, offset)
        /\ pc = "paging"
    BY <1>4, <2>1 DEF QuietInv, FullPage
  <2>3. /\ offset' = offset + PageSize /\ offset + PageSize <= Len(store)
        /\ UNCHANGED <<store, pc, start, created, removed>>
        /\ all' = all \o Page
    BY <1>4, PageFacts DEF FullPage, Advance
  <2>4. Page = SubSeq(store, offset + 1, offset + PageSize)
    BY <2>3 DEF Page, PageEnd
  <2>5. all' = SubSeq(store, 1, offset + PageSize)
    <3>1. /\ 1 \in 1..Len(store) + 1 /\ offset \in 1 - 1..Len(store)
          /\ offset + PageSize \in offset..Len(store)
      BY <1>1, <2>2, <2>3
    <3>2. SubSeq(store, 1, offset) \o SubSeq(store, offset + 1, offset + PageSize)
            = SubSeq(store, 1, offset + PageSize)
      BY <1>1, <3>1, ConcatAdjacentSubSeq
    <3> QED BY <2>2, <2>3, <2>4, <3>2
  <2> QED BY <2>2, <2>3, <2>5 DEF QuietInv
<1>5. CASE LastPage
  <2>1. SUFFICES ASSUME created = 0, removed = 0
                 PROVE  QuietInv'
    BY <1>5 DEF QuietInv, LastPage
  <2>2. /\ store = start /\ offset <= Len(store) /\ all = SubSeq(store, 1, offset)
    BY <1>5, <2>1 DEF QuietInv, LastPage
  <2>3. /\ UNCHANGED <<store, offset, start, created, removed>> /\ pc' = "listed"
        /\ all' = all \o Page /\ Short
    BY <1>5 DEF LastPage
  <2>4. Page = SubSeq(store, offset + 1, Len(store))
    <3>1. PageEnd = Len(store)
      <4>1. SUFFICES ASSUME PageEnd # Len(store) PROVE FALSE
        OBVIOUS
      <4>2. PageEnd = offset + PageSize /\ offset + PageSize <= Len(store)
        BY <4>1 DEF PageEnd
      <4>3. Len(SubSeq(store, offset + 1, offset + PageSize)) = PageSize
        <5>1. \A i \in offset + 1..offset + PageSize : store[i] \in Nat
          BY <1>1, <4>2, ElementOfSeq
        <5>2. Len(SubSeq(store, offset + 1, offset + PageSize))
                = IF offset + 1 <= offset + PageSize
                  THEN offset + PageSize - (offset + 1) + 1 ELSE 0
          BY <1>1, <5>1, SubSeqProperties
        <5> QED BY <1>1, <5>2
      <4> QED BY <1>1, <2>3, <4>2, <4>3 DEF Short, Page
    <3> QED BY <3>1 DEF Page
  <2>5. all' = SubSeq(store, 1, Len(store))
    <3>1. /\ 1 \in 1..Len(store) + 1 /\ offset \in 1 - 1..Len(store)
          /\ Len(store) \in offset..Len(store)
      BY <1>1, <2>2
    <3>2. SubSeq(store, 1, offset) \o SubSeq(store, offset + 1, Len(store))
            = SubSeq(store, 1, Len(store))
      BY <1>1, <3>1, ConcatAdjacentSubSeq
    <3> QED BY <2>2, <2>3, <2>4, <3>2
  <2>6. all' = store
    BY <1>1, <2>5, SubSeqFull
  <2> QED BY <2>2, <2>3, <2>6 DEF QuietInv
<1>6. CASE PageFails
  BY <1>6 DEF QuietInv, PageFails
<1> QED BY <1>2, <1>3, <1>4, <1>5, <1>6 DEF Next

\* Rows that appear push the others towards the pages to come, and a page takes
\* the rows it moves behind.
LEMMA AheadStep ==
  ASSUME TypeOK, CountInv, AheadInv, [Next]_vars
  PROVE  AheadInv'
<1>1. /\ store \in Seq(Nat) /\ offset \in Nat /\ all \in Seq(Nat)
      /\ Len(store) \in Nat /\ PageSize \in Nat \ {0} /\ removed \in Nat
  BY PageSizeAssumption DEF TypeOK
<1>2. Rows(all \o Page) = Rows(all) \cup Rows(Page)
  BY <1>1, PageFacts, RowsOfBoth
<1>3. CASE UNCHANGED vars
  BY <1>3 DEF AheadInv, Ahead, vars
<1>4. CASE Remove
  BY <1>1, <1>4 DEF AheadInv, Remove
<1>5. CASE PageFails
  BY <1>5 DEF AheadInv, PageFails
<1>6. CASE Create
  <2>1. SUFFICES ASSUME removed = 0, NEW x \in Rows(start)
                 PROVE  Ahead(x)'
    BY <1>6 DEF AheadInv, Create
  <2>2. Ahead(x) /\ all' = all /\ offset' = offset
    BY <1>6, <2>1 DEF AheadInv, Create
  <2>3. CASE x \in Rows(all)
    BY <2>2, <2>3 DEF Ahead
  <2>4. CASE x \notin Rows(all)
    <3>1. PICK j \in 1..Len(store) : j > offset /\ store[j] = x
      BY <2>2, <2>4 DEF Ahead
    <3>2. j + 1 \in 1..Len(store') /\ j + 1 > offset /\ store'[j + 1] = x
      BY <1>1, <1>6, <3>1, CreateFacts
    <3> QED BY <2>2, <3>2 DEF Ahead
  <2> QED BY <2>3, <2>4
<1>7. CASE FullPage
  <2>1. /\ offset' = offset + PageSize /\ Len(Page) = PageSize
        /\ UNCHANGED <<store, pc, start, created, removed>>
        /\ all' = all \o Page /\ pc = "paging"
    BY <1>7, PageFacts DEF FullPage, Advance
  <2>2. SUFFICES ASSUME removed = 0, NEW x \in Rows(start)
                 PROVE  Ahead(x)'
    BY <2>1 DEF AheadInv
  <2>3. Ahead(x)
    BY <2>1, <2>2 DEF AheadInv
  <2>4. CASE x \in Rows(all)
    BY <1>2, <2>1, <2>4 DEF Ahead
  <2>5. CASE x \notin Rows(all)
    <3>1. PICK j \in 1..Len(store) : j > offset /\ store[j] = x
      BY <2>3, <2>5 DEF Ahead
    <3>2. CASE j > offset + PageSize
      BY <2>1, <3>1, <3>2 DEF Ahead
    <3>3. CASE j <= offset + PageSize
      <4>1. j - offset \in 1..Len(Page) /\ offset + (j - offset) = j
        BY <1>1, <2>1, <3>1, <3>3
      <4>2. Page[j - offset] = x
        BY <3>1, <4>1, PageFacts
      <4>3. x \in Rows(Page)
        BY <4>1, <4>2 DEF Rows
      <4> QED BY <1>2, <2>1, <4>3 DEF Ahead
    <3> QED BY <1>1, <3>2, <3>3
  <2> QED BY <2>4, <2>5
<1>8. CASE LastPage
  <2>1. /\ Short /\ pc = "paging" /\ pc' = "listed" /\ all' = all \o Page
        /\ UNCHANGED <<start, removed>>
    BY <1>8 DEF LastPage
  <2>2. SUFFICES ASSUME removed = 0, NEW x \in Rows(start)
                 PROVE  x \in Rows(all')
    BY <2>1 DEF AheadInv, Rows
  <2>3. CASE x \in Rows(all)
    BY <1>2, <2>1, <2>3
  <2>4. CASE x \notin Rows(all)
    <3>1. PICK j \in 1..Len(store) : j > offset /\ store[j] = x
      BY <2>1, <2>2, <2>4 DEF AheadInv, Ahead
    <3>2. j - offset \in 1..Len(Page) /\ offset + (j - offset) = j
      BY <1>1, <2>1, <3>1, PageFacts
    <3>3. Page[j - offset] = x
      BY <3>1, <3>2, PageFacts
    <3>4. x \in Rows(Page)
      BY <3>2, <3>3 DEF Rows
    <3> QED BY <1>2, <2>1, <3>4
  <2> QED BY <2>3, <2>4
<1> QED BY <1>3, <1>4, <1>5, <1>6, <1>7, <1>8 DEF Next

-----------------------------------------------------------------------------
\* The inductive invariant holds in every reachable state.
THEOREM PagesInvariant == Spec => []IInv
<1>1. Init => IInv
  <2>1. SUFFICES ASSUME Init PROVE IInv
    OBVIOUS
  <2>2. PICK n \in 0..MaxItems : start = NewestFirst(n)
    BY <2>1 DEF Init
  <2>3. start \in Seq(Nat)
    <3>1. n \in Nat
      BY BoundsAssumption
    <3>2. start \in [1..n -> Nat]
      BY <2>2, <3>1 DEF NewestFirst
    <3> QED BY <3>1, <3>2, SeqDef
  <2>4. Len(start) \in Nat
    BY <2>3
  <2>5. /\ store = start /\ pc = "paging" /\ offset = 0 /\ all = <<>>
        /\ created = 0 /\ removed = 0
    BY <2>1 DEF Init
  <2>6. TypeOK
    <3>1. offset \in {k * PageSize : k \in 0..offset}
      BY <2>5, PageSizeAssumption
    <3>2. <<>> \in Seq(Nat)
      OBVIOUS
    <3> QED BY <2>3, <2>5, <3>1, <3>2, BoundsAssumption DEF TypeOK
  <2>7. QuietInv
    BY <2>3, <2>4, <2>5, SubSeqEmpty DEF QuietInv
  <2>8. AheadInv
    BY <2>4, <2>5 DEF AheadInv, Ahead, Rows
  <2> QED BY <2>4, <2>5, <2>6, <2>7, <2>8 DEF IInv, CountInv, PagesAreBounded
<1>2. IInv /\ [Next]_vars => IInv'
  BY TypeStep, QuietStep, AheadStep DEF IInv
<1> QED BY <1>1, <1>2, PTL DEF Spec

\* Every variable has its type, for any page size, rows and changes.
THEOREM TypeCorrect == Spec => []TypeOK
<1>1. IInv => TypeOK
  BY DEF IInv
<1> QED BY <1>1, PagesInvariant, PTL

\* A listing of a collection nobody touches returns exactly that collection.
THEOREM QuietListings == Spec => []QuietListingIsExact
<1>1. IInv => QuietListingIsExact
  BY DEF IInv, QuietInv, QuietListingIsExact
<1> QED BY <1>1, PagesInvariant, PTL

\* While rows only appear, the listing misses none of those it started with.
THEOREM CreationsHideNothing == Spec => []NothingIsMissed
<1>1. IInv => NothingIsMissed
  BY DEF IInv, AheadInv, NothingIsMissed
<1> QED BY <1>1, PagesInvariant, PTL

\* The listing never asks beyond the rows there were and those added since.
THEOREM PagesEnd == Spec => []PagesAreBounded
<1>1. IInv => PagesAreBounded
  BY DEF IInv
<1> QED BY <1>1, PagesInvariant, PTL

-----------------------------------------------------------------------------
(***************************************************************************)
(* How much a moving collection costs.  The rows at stake are counted: a   *)
(* removal in front of the offset lets at most one row slip past it, and a *)
(* creation brings at most one row back that was read before.              *)
(***************************************************************************)

\* The numbers of rows are those of their creation, and no row is there twice.
StoreInv ==
  /\ \A x \in Rows(start) : x <= Len(start)
  /\ \A x \in Rows(store) \cup Rows(all) : x <= Len(start) + created
  /\ \A i, j \in 1..Len(store) : store[i] = store[j] => i = j

\* The rows still to be read.
AheadRows == {store[j] : j \in {k \in 1..Len(store) : k > offset}}

\* The rows of the start that are there, and were let slip.
Missed == (Rows(start) \cap Rows(store)) \ (Rows(all) \cup AheadRows)

\* A sequence has finitely many rows; as many as its length if none repeats.
LEMMA CountRows ==
  ASSUME NEW s \in Seq(Nat)
  PROVE  /\ IsFiniteSet(Rows(s)) /\ Cardinality(Rows(s)) \in Nat
         /\ Cardinality(Rows(s)) <= Len(s)
         /\ (\A i, j \in 1..Len(s) : s[i] = s[j] => i = j) => Cardinality(Rows(s)) = Len(s)
<1>1. Len(s) \in Nat /\ s \in [1..Len(s) -> Nat]
  BY LenProperties
<1>2. s \in Surjection(1..Len(s), Rows(s))
  BY <1>1 DEF Surjection, Rows
<1>3. IsFiniteSet(1..Len(s)) /\ Cardinality(1..Len(s)) = Len(s)
  <2>1. 1 \in Int /\ Len(s) \in Int /\ Len(s) - 1 + 1 = Len(s) /\ (1 > Len(s) => Len(s) = 0)
    BY <1>1
  <2>2. /\ IsFiniteSet(1..Len(s))
        /\ Cardinality(1..Len(s)) = IF 1 > Len(s) THEN 0 ELSE Len(s) - 1 + 1
    BY <2>1, FS_Interval
  <2> QED BY <2>1, <2>2
<1>4. /\ IsFiniteSet(Rows(s)) /\ Cardinality(Rows(s)) <= Len(s)
      /\ Cardinality(Rows(s)) = Len(s) <=> s \in Injection(1..Len(s), Rows(s))
  BY <1>2, <1>3, FS_Surjection
<1>5. Cardinality(Rows(s)) \in Nat
  BY <1>4, FS_CardinalityType
<1>6. (\A i, j \in 1..Len(s) : s[i] = s[j] => i = j) => s \in Injection(1..Len(s), Rows(s))
  <2>1. s \in [1..Len(s) -> Rows(s)]
    BY <1>1 DEF Rows
  <2> QED BY <2>1 DEF Injection, IsInjective
<1> QED BY <1>4, <1>5, <1>6

\* A subset has no more elements, and one element added is one more at most.
LEMMA NotMore ==
  ASSUME NEW S, NEW T, IsFiniteSet(S), T \subseteq S
  PROVE  /\ Cardinality(T) \in Nat /\ Cardinality(S) \in Nat
         /\ Cardinality(T) <= Cardinality(S)
<1>1. IsFiniteSet(T) /\ Cardinality(T) <= Cardinality(S)
  BY FS_Subset
<1> QED BY <1>1, FS_CardinalityType

LEMMA AtMostOneMore ==
  ASSUME NEW S, NEW T, NEW x, IsFiniteSet(S), T \subseteq S \cup {x}
  PROVE  /\ Cardinality(T) \in Nat /\ Cardinality(S) \in Nat
         /\ Cardinality(T) <= Cardinality(S) + 1
<1>1. /\ IsFiniteSet(S \cup {x})
      /\ Cardinality(S \cup {x}) = IF x \in S THEN Cardinality(S) ELSE Cardinality(S) + 1
  BY FS_AddElement
<1>2. Cardinality(T) \in Nat /\ Cardinality(T) <= Cardinality(S \cup {x})
  BY <1>1, NotMore
<1>3. Cardinality(S) \in Nat
  BY FS_CardinalityType
<1> QED BY <1>1, <1>2, <1>3

\* The collections a listing meets are numbered and free of repetitions.
LEMMA StoreStep ==
  ASSUME TypeOK, StoreInv, [Next]_vars
  PROVE  StoreInv'
<1>1. /\ store \in Seq(Nat) /\ offset \in Nat /\ all \in Seq(Nat) /\ start \in Seq(Nat)
      /\ Len(store) \in Nat /\ Len(start) \in Nat /\ created \in Nat
  BY PageSizeAssumption DEF TypeOK
<1>2. CASE UNCHANGED vars
  BY <1>2 DEF StoreInv, vars
<1>3. CASE Create
  <2>1. /\ store' = <<Len(start) + created'>> \o store /\ created' = created + 1
        /\ UNCHANGED <<all, start>>
    BY <1>3 DEF Create
  <2>2. /\ Len(store') = Len(store) + 1 /\ store'[1] = Len(start) + created'
        /\ \A j \in 2..Len(store') : j - 1 \in 1..Len(store) /\ store'[j] = store[j - 1]
    BY <1>1, <2>1, ConcatProperties, LenProperties
  <2>3. \A x \in Rows(store) \cup Rows(all) : x < Len(start) + created' /\ x \in Nat
    <3>1. \A x \in Rows(store) \cup Rows(all) : x \in Nat
      BY <1>1, ElementOfSeq DEF Rows
    <3> QED BY <1>1, <2>1, <3>1 DEF StoreInv
  <2>4. \A x \in Rows(store') : x <= Len(start) + created'
    <3> SUFFICES ASSUME NEW i \in 1..Len(store') PROVE store'[i] <= Len(start) + created'
      BY DEF Rows
    <3>1. CASE i = 1
      BY <1>1, <2>1, <2>2, <3>1
    <3>2. CASE i # 1
      <4>1. i \in 2..Len(store')
        BY <1>1, <2>2, <3>2
      <4>2. store'[i] \in Rows(store)
        BY <2>2, <4>1 DEF Rows
      <4> QED BY <1>1, <2>1, <2>3, <4>2
    <3> QED BY <3>1, <3>2
  <2>5. ASSUME NEW i \in 1..Len(store'), NEW j \in 1..Len(store'), store'[i] = store'[j]
        PROVE  i = j
    <3>1. \A k \in 1..Len(store') : k # 1 =>
            /\ k - 1 \in 1..Len(store) /\ store'[k] = store[k - 1]
            /\ store'[k] # store'[1]
      <4> SUFFICES ASSUME NEW k \in 1..Len(store'), k # 1
                   PROVE  /\ k - 1 \in 1..Len(store) /\ store'[k] = store[k - 1]
                          /\ store'[k] # store'[1]
        OBVIOUS
      <4>1. k \in 2..Len(store')
        BY <1>1, <2>2
      <4>2. store'[k] \in Rows(store)
        BY <2>2, <4>1 DEF Rows
      <4> QED BY <1>1, <2>1, <2>2, <2>3, <4>1, <4>2
    <3>2. CASE i = 1 \/ j = 1
      BY <2>5, <3>1, <3>2
    <3>3. CASE i # 1 /\ j # 1
      <4>1. i - 1 = j - 1
        BY <2>5, <3>1, <3>3 DEF StoreInv
      <4> QED BY <1>1, <2>2, <4>1
    <3> QED BY <3>2, <3>3
  <2>6. \A x \in Rows(all) : x <= Len(start) + created'
    BY <1>1, <2>1, <2>3
  <2> QED BY <2>1, <2>4, <2>5, <2>6 DEF StoreInv
<1>4. CASE Remove
  <2>1. PICK i \in 1..Len(store) :
          store' = [j \in 1..Len(store) - 1 |-> IF j < i THEN store[j] ELSE store[j + 1]]
    BY <1>4 DEF Remove
  <2>2. Len(store') = Len(store) - 1 /\ UNCHANGED <<all, start, created>>
    BY <1>4, RemoveFacts DEF Remove
  <2>3. \A j \in 1..Len(store') : \E k \in 1..Len(store) :
          k = (IF j < i THEN j ELSE j + 1) /\ store'[j] = store[k]
    <3> SUFFICES ASSUME NEW j \in 1..Len(store')
                 PROVE  \E k \in 1..Len(store) :
                          k = (IF j < i THEN j ELSE j + 1) /\ store'[j] = store[k]
      OBVIOUS
    <3>1. /\ j \in 1..Len(store) - 1 /\ j \in 1..Len(store) /\ j + 1 \in 1..Len(store)
          /\ store'[j] = IF j < i THEN store[j] ELSE store[j + 1]
      BY <1>1, <2>1, <2>2
    <3>2. CASE j < i
      BY <3>1, <3>2
    <3>3. CASE ~(j < i)
      BY <3>1, <3>3
    <3> QED BY <3>2, <3>3
  <2>4. \A x \in Rows(store') : x \in Rows(store)
    BY <2>3 DEF Rows
  <2>5. ASSUME NEW j \in 1..Len(store'), NEW k \in 1..Len(store'), store'[j] = store'[k]
        PROVE  j = k
    <3>1. (IF j < i THEN j ELSE j + 1) = (IF k < i THEN k ELSE k + 1)
      BY <2>3, <2>5 DEF StoreInv
    <3> QED BY <1>1, <2>2, <3>1
  <2> QED BY <2>2, <2>4, <2>5 DEF StoreInv
<1>5. CASE FullPage \/ LastPage
  <2>1. /\ UNCHANGED <<store, start, created>> /\ all' = all \o Page
    BY <1>5 DEF FullPage, LastPage
  <2>2. Page \in Seq(Nat)
    BY PageFacts
  <2>3. Rows(all') = Rows(all) \cup Rows(Page)
    BY <1>1, <2>1, <2>2, RowsOfBoth
  <2>4. Rows(Page) \subseteq Rows(store)
    <3> SUFFICES ASSUME NEW i \in 1..Len(Page) PROVE Page[i] \in Rows(store)
      BY DEF Rows
    <3>1. Page[i] = store[offset + i]
      BY PageFacts
    <3>2. offset + i \in 1..Len(store)
      BY <1>1, PageInside
    <3> QED BY <3>1, <3>2 DEF Rows
  <2> QED BY <2>1, <2>3, <2>4 DEF StoreInv
<1>6. CASE PageFails
  <2>1. Rows(<<>>) = {}
    BY DEF Rows
  <2> QED BY <1>6, <2>1 DEF StoreInv, PageFails
<1> QED BY <1>2, <1>3, <1>4, <1>5, <1>6 DEF Next

\* The bounds hold with the rows still to be read taken into account.
MissInv ==
  /\ pc = "paging" => Cardinality(Missed) <= removed
  /\ MissesAreRemovals

RepeatInv ==
  /\ pc = "paging" =>
       Len(all) - Cardinality(Rows(all)) + Cardinality(Rows(all) \cap AheadRows) <= created
  /\ RepeatsAreCreations

\* A page comes out of the rows ahead.
LEMMA PageIsAhead ==
  ASSUME TypeOK
  PROVE  /\ Rows(Page) \subseteq AheadRows
         /\ Short => AheadRows \subseteq Rows(Page)
<1>1. offset \in Nat /\ Len(store) \in Nat
  BY PageSizeAssumption DEF TypeOK
<1>2. ASSUME NEW i \in 1..Len(Page) PROVE Page[i] \in AheadRows
  <2>1. offset + i \in 1..Len(store) /\ Page[i] = store[offset + i]
    BY PageInside, PageFacts
  <2>2. offset + i > offset
    BY <1>1
  <2> QED BY <2>1, <2>2 DEF AheadRows
<1>3. ASSUME Short, NEW j \in 1..Len(store), j > offset PROVE store[j] \in Rows(Page)
  <2>1. j - offset \in 1..Len(Page) /\ offset + (j - offset) = j
    BY <1>1, <1>3, PageFacts
  <2>2. Page[j - offset] = store[j]
    BY <2>1, PageFacts
  <2> QED BY <2>1, <2>2 DEF Rows
<1> QED BY <1>2, <1>3 DEF Rows, AheadRows

\* A full page splits the rows ahead: read now, or ahead of the next offset.
LEMMA FullPageSplits ==
  ASSUME TypeOK, StoreInv, FullPage
  PROVE  /\ AheadRows \subseteq Rows(Page) \cup AheadRows'
         /\ AheadRows' \subseteq AheadRows \ Rows(Page)
<1>1. /\ offset \in Nat /\ Len(store) \in Nat /\ PageSize \in Nat \ {0}
      /\ offset' = offset + PageSize /\ store' = store /\ Len(Page) = PageSize
  BY PageSizeAssumption, PageFacts DEF TypeOK, FullPage, Advance
<1>2. ASSUME NEW j \in 1..Len(store), j > offset, ~(j > offset')
      PROVE  store[j] \in Rows(Page)
  <2>1. j - offset \in 1..Len(Page) /\ offset + (j - offset) = j
    BY <1>1, <1>2
  <2>2. Page[j - offset] = store[j]
    BY <2>1, PageFacts
  <2> QED BY <2>1, <2>2 DEF Rows
<1>3. ASSUME NEW j \in 1..Len(store), j > offset'
      PROVE  j > offset /\ store[j] \notin Rows(Page)
  <2>1. ASSUME NEW i \in 1..Len(Page), Page[i] = store[j] PROVE FALSE
    <3>1. offset + i \in 1..Len(store) /\ store[offset + i] = store[j]
      BY <2>1, PageInside, PageFacts
    <3>2. offset + i = j
      BY <3>1 DEF StoreInv
    <3> QED BY <1>1, <1>3, <3>2
  <2> QED BY <1>1, <1>3, <2>1 DEF Rows
<1>4. AheadRows \subseteq Rows(Page) \cup AheadRows'
  BY <1>1, <1>2 DEF AheadRows
<1>5. AheadRows' \subseteq AheadRows \ Rows(Page)
  BY <1>1, <1>3 DEF AheadRows
<1> QED BY <1>4, <1>5

\* A creation puts one row ahead at most, besides those that were: the one the
\* offset pointed behind, or the new one when nothing was read.
LEMMA CreatePushes ==
  ASSUME TypeOK, StoreInv, Create
  PROVE  /\ AheadRows \subseteq AheadRows'
         /\ AheadRows' \subseteq AheadRows \cup {store[offset], Len(start) + created'}
         /\ Rows(store') \subseteq Rows(store) \cup {Len(start) + created'}
         /\ Len(start) + created' \notin Rows(start) \cup Rows(all)
<1>1. /\ offset \in Nat /\ store \in Seq(Nat) /\ Len(store) \in Nat /\ Len(start) \in Nat
      /\ created \in Nat /\ created' = created + 1 /\ offset' = offset
      /\ store' = <<Len(start) + created'>> \o store
  BY PageSizeAssumption DEF TypeOK, Create
<1>2. /\ Len(store') = Len(store) + 1 /\ store'[1] = Len(start) + created'
      /\ \A j \in 1..Len(store) : j + 1 \in 1..Len(store') /\ store'[j + 1] = store[j]
  BY <1>1, ConcatProperties, LenProperties
<1>3. ASSUME NEW j \in 1..Len(store') , j # 1
      PROVE  j - 1 \in 1..Len(store) /\ store'[j] = store[j - 1]
  <2>1. j - 1 \in 1..Len(store) /\ (j - 1) + 1 = j
    BY <1>1, <1>2, <1>3
  <2> QED BY <1>2, <2>1
<1>4. ASSUME NEW j \in 1..Len(store), j > offset PROVE store[j] \in AheadRows'
  <2>1. j + 1 > offset'
    BY <1>1, <1>4
  <2> QED BY <1>2, <2>1 DEF AheadRows
<1>5. ASSUME NEW j \in 1..Len(store'), j > offset'
      PROVE  store'[j] \in AheadRows \cup {store[offset], Len(start) + created'}
  <2>1. CASE j = 1
    BY <1>2, <2>1
  <2>2. CASE j # 1 /\ j - 1 = offset
    BY <1>3, <2>2
  <2>3. CASE j # 1 /\ j - 1 # offset
    <3>1. j - 1 > offset
      BY <1>1, <1>5, <2>3
    <3> QED BY <1>3, <2>3, <3>1 DEF AheadRows
  <2> QED BY <2>1, <2>2, <2>3
<1>6. Rows(store') \subseteq Rows(store) \cup {Len(start) + created'}
  BY <1>2, <1>3 DEF Rows
<1>7. Len(start) + created' \notin Rows(start) \cup Rows(all)
  <2>1. Rows(start) \subseteq Nat /\ Rows(all) \subseteq Nat
    BY ElementOfSeq DEF Rows, TypeOK
  <2> QED BY <1>1, <2>1 DEF StoreInv
<1> QED BY <1>4, <1>5, <1>6, <1>7 DEF AheadRows

\* A removal takes no row that stays out of those ahead, but the first of them.
LEMMA RemovePulls ==
  ASSUME TypeOK, StoreInv, Remove
  PROVE  /\ AheadRows' \subseteq AheadRows
         /\ AheadRows \cap Rows(store') \subseteq AheadRows' \cup {store[offset + 1]}
         /\ Rows(store') \subseteq Rows(store)
<1>1. /\ offset \in Nat /\ Len(store) \in Nat /\ offset' = offset
  BY PageSizeAssumption DEF TypeOK, Remove
<1>2. PICK i \in 1..Len(store) :
        store' = [j \in 1..Len(store) - 1 |-> IF j < i THEN store[j] ELSE store[j + 1]]
  BY DEF Remove
<1>3. Len(store') = Len(store) - 1
  BY RemoveFacts
<1>4. ASSUME NEW j \in 1..Len(store')
      PROVE  \/ j < i /\ j \in 1..Len(store) /\ store'[j] = store[j]
             \/ j >= i /\ j + 1 \in 1..Len(store) /\ store'[j] = store[j + 1]
  BY <1>1, <1>2, <1>3
<1>5. ASSUME NEW j \in 1..Len(store'), j > offset' PROVE store'[j] \in AheadRows
  BY <1>1, <1>4, <1>5 DEF AheadRows
<1>6. store[i] \notin Rows(store')
  <2>1. ASSUME NEW j \in 1..Len(store'), store'[j] = store[i] PROVE FALSE
    <3>1. CASE j < i /\ j \in 1..Len(store) /\ store'[j] = store[j]
      <4>1. j = i
        BY <2>1, <3>1 DEF StoreInv
      <4> QED BY <3>1, <4>1
    <3>2. CASE j >= i /\ j + 1 \in 1..Len(store) /\ store'[j] = store[j + 1]
      <4>1. j + 1 = i
        BY <2>1, <3>2 DEF StoreInv
      <4> QED BY <3>2, <4>1
    <3> QED BY <1>4, <3>1, <3>2
  <2> QED BY <2>1 DEF Rows
<1>7. ASSUME NEW j \in 1..Len(store), j > offset, j # offset + 1, store[j] \in Rows(store')
      PROVE  store[j] \in AheadRows'
  <2>1. j # i
    BY <1>6, <1>7
  <2>2. CASE j < i
    <3>1. j \in 1..Len(store') /\ store'[j] = store[j] /\ j > offset'
      BY <1>1, <1>2, <1>3, <1>7, <2>2
    <3> QED BY <3>1 DEF AheadRows
  <2>3. CASE j > i
    <3>1. j - 1 \in 1..Len(store') /\ store'[j - 1] = store[j] /\ j - 1 > offset'
      BY <1>1, <1>2, <1>3, <1>7, <2>3
    <3> QED BY <3>1 DEF AheadRows
  <2> QED BY <2>1, <2>2, <2>3
<1>8. AheadRows' \subseteq AheadRows
  BY <1>5 DEF AheadRows
<1>9. AheadRows \cap Rows(store') \subseteq AheadRows' \cup {store[offset + 1]}
  BY <1>7 DEF AheadRows
<1>10. Rows(store') \subseteq Rows(store)
  BY <1>4 DEF Rows
<1> QED BY <1>8, <1>9, <1>10

\* A removal in front of the offset lets one row slip past it.
LEMMA MissStep ==
  ASSUME TypeOK, StoreInv, MissInv, [Next]_vars
  PROVE  MissInv'
<1>1. /\ store \in Seq(Nat) /\ all \in Seq(Nat) /\ start \in Seq(Nat) /\ Page \in Seq(Nat)
      /\ removed \in Nat
  BY PageFacts DEF TypeOK
<1>2. IsFiniteSet(Missed)
  <2>1. IsFiniteSet(Rows(start)) /\ Missed \subseteq Rows(start)
    BY <1>1, CountRows DEF Missed
  <2> QED BY <2>1, FS_Subset
<1>3. Rows(all \o Page) = Rows(all) \cup Rows(Page)
  BY <1>1, RowsOfBoth
<1>4. CASE UNCHANGED vars
  BY <1>4 DEF MissInv, MissesAreRemovals, Missed, AheadRows, Rows, vars
<1>5. CASE Create
  <2>1. pc = "paging" /\ pc' = "paging" /\ UNCHANGED <<all, start, removed>>
    BY <1>5 DEF Create
  <2>2. Missed' \subseteq Missed
    BY <1>5, <2>1, CreatePushes DEF Missed, Rows
  <2>3. Cardinality(Missed) <= removed
    BY <2>1 DEF MissInv
  <2>4. Cardinality(Missed') <= removed
    <3>1. /\ Cardinality(Missed') \in Nat /\ Cardinality(Missed) \in Nat
          /\ Cardinality(Missed') <= Cardinality(Missed)
      BY <1>2, <2>2, NotMore, Zenon
    <3> QED BY <1>1, <2>3, <3>1
  <2> QED BY <2>1, <2>4 DEF MissInv, MissesAreRemovals
<1>6. CASE Remove
  <2>1. pc = "paging" /\ pc' = "paging" /\ UNCHANGED <<all, start>> /\ removed' = removed + 1
    BY <1>6 DEF Remove
  <2>2. Missed' \subseteq Missed \cup {store[offset + 1]}
    BY <1>6, <2>1, RemovePulls DEF Missed, Rows
  <2>3. Cardinality(Missed) <= removed
    BY <2>1 DEF MissInv
  <2>4. Cardinality(Missed') <= removed + 1
    <3>1. /\ Cardinality(Missed') \in Nat /\ Cardinality(Missed) \in Nat
          /\ Cardinality(Missed') <= Cardinality(Missed) + 1
      BY <1>2, <2>2, AtMostOneMore, Zenon
    <3> QED BY <1>1, <2>3, <3>1
  <2> QED BY <2>1, <2>4 DEF MissInv, MissesAreRemovals
<1>7. CASE FullPage
  <2>1. /\ pc = "paging" /\ pc' = "paging" /\ UNCHANGED <<store, start, removed>>
        /\ all' = all \o Page
    BY <1>7 DEF FullPage
  <2>2. Missed' \subseteq Missed
    BY <1>3, <1>7, <2>1, FullPageSplits DEF Missed
  <2>3. Cardinality(Missed) <= removed
    BY <2>1 DEF MissInv
  <2>4. Cardinality(Missed') <= removed
    <3>1. /\ Cardinality(Missed') \in Nat /\ Cardinality(Missed) \in Nat
          /\ Cardinality(Missed') <= Cardinality(Missed)
      BY <1>2, <2>2, NotMore, Zenon
    <3> QED BY <1>1, <2>3, <3>1
  <2> QED BY <2>1, <2>4 DEF MissInv, MissesAreRemovals
<1>8. CASE LastPage
  <2>1. /\ pc = "paging" /\ pc' = "listed" /\ UNCHANGED <<store, start, removed>>
        /\ all' = all \o Page /\ Short
    BY <1>8 DEF LastPage
  <2>2. ((Rows(start) \cap Rows(store)) \ Rows(all'))  \subseteq Missed
    BY <1>3, <2>1, PageIsAhead DEF Missed
  <2>3. Cardinality(Missed) <= removed
    BY <2>1 DEF MissInv
  <2>4. Cardinality((Rows(start) \cap Rows(store)) \ Rows(all')) <= removed
    <3>1. /\ Cardinality((Rows(start) \cap Rows(store)) \ Rows(all')) \in Nat /\ Cardinality(Missed) \in Nat
          /\ Cardinality((Rows(start) \cap Rows(store)) \ Rows(all')) <= Cardinality(Missed)
      BY <1>2, <2>2, NotMore, Zenon
    <3> QED BY <1>1, <2>3, <3>1
  <2>5. Rows(start)' = Rows(start) /\ Rows(store)' = Rows(store)
    BY <2>1 DEF Rows
  <2> QED BY <2>1, <2>4, <2>5 DEF MissInv, MissesAreRemovals
<1>9. CASE PageFails
  BY <1>9 DEF PageFails, MissInv, MissesAreRemovals
<1> QED BY <1>4, <1>5, <1>6, <1>7, <1>8, <1>9 DEF Next

\* Reading a page, counted: the rows that come twice are those read before.
LEMMA RereadCount ==
  ASSUME NEW R, NEW P, NEW A, NEW B, IsFiniteSet(R), IsFiniteSet(P),
         P \subseteq A, B \subseteq A \ P
  PROVE  Cardinality(P) - Cardinality(R \cup P) + Cardinality((R \cup P) \cap B)
           <= Cardinality(R \cap A) - Cardinality(R)
<1>1. /\ IsFiniteSet(R \cap A) /\ IsFiniteSet(R \cap P) /\ IsFiniteSet(R \cap B)
  BY FS_Intersection
<1>2. Cardinality(R \cup P) = Cardinality(R) + Cardinality(P) - Cardinality(R \cap P)
  BY FS_Union
<1>3. (R \cup P) \cap B = R \cap B
  OBVIOUS
<1>4. Cardinality(R \cap B) + Cardinality(R \cap P) <= Cardinality(R \cap A)
  <2>1. (R \cap B) \cap (R \cap P) = {} /\ (R \cap B) \cup (R \cap P) \subseteq R \cap A
    OBVIOUS
  <2>2. Cardinality((R \cap B) \cup (R \cap P))
          = Cardinality(R \cap B) + Cardinality(R \cap P) - Cardinality({})
    BY <1>1, <2>1, FS_Union
  <2>3. Cardinality((R \cap B) \cup (R \cap P)) <= Cardinality(R \cap A)
    BY <1>1, <2>1, FS_Subset
  <2>4. Cardinality({}) = 0 /\ Cardinality(R \cap B) \in Nat /\ Cardinality(R \cap P) \in Nat
    BY <1>1, FS_EmptySet, FS_CardinalityType
  <2> QED BY <2>2, <2>3, <2>4
<1>5. Cardinality((R \cup P) \cap B) = Cardinality(R \cap B)
  BY <1>3
<1>6. /\ Cardinality(R) \in Nat /\ Cardinality(P) \in Nat /\ Cardinality(R \cap P) \in Nat
      /\ Cardinality(R \cap A) \in Nat /\ Cardinality(R \cap B) \in Nat
  BY <1>1, FS_CardinalityType
<1> QED BY <1>2, <1>4, <1>5, <1>6

\* A page holds as many different rows as it is long.
LEMMA PageCount ==
  ASSUME TypeOK, StoreInv
  PROVE  /\ IsFiniteSet(Rows(Page)) /\ Cardinality(Rows(Page)) = Len(Page)
         /\ Len(Page) \in Nat
<1>1. Page \in Seq(Nat)
  BY PageFacts
<1>2. ASSUME NEW i \in 1..Len(Page), NEW j \in 1..Len(Page), Page[i] = Page[j] PROVE i = j
  <2>1. /\ offset + i \in 1..Len(store) /\ offset + j \in 1..Len(store)
        /\ store[offset + i] = store[offset + j]
    BY <1>2, PageInside, PageFacts
  <2>2. offset + i = offset + j
    BY <2>1 DEF StoreInv
  <2>3. offset \in Nat /\ Len(Page) \in Nat
    BY <1>1, PageSizeAssumption DEF TypeOK
  <2> QED BY <2>2, <2>3
<1> QED BY <1>1, <1>2, CountRows, LenProperties

\* A creation brings back one row at most, and a page repeats the rows it brings.
LEMMA RepeatStep ==
  ASSUME TypeOK, StoreInv, RepeatInv, [Next]_vars
  PROVE  RepeatInv'
<1>1. /\ all \in Seq(Nat) /\ Page \in Seq(Nat) /\ Len(all) \in Nat /\ created \in Nat
      /\ Len(all \o Page) = Len(all) + Len(Page)
  BY PageFacts, ConcatProperties, LenProperties DEF TypeOK
<1>2. /\ IsFiniteSet(Rows(all)) /\ IsFiniteSet(Rows(all) \cap AheadRows)
      /\ Cardinality(Rows(all)) \in Nat /\ Cardinality(Rows(all) \cap AheadRows) \in Nat
  BY <1>1, CountRows, FS_Intersection, FS_CardinalityType
<1>3. Rows(all \o Page) = Rows(all) \cup Rows(Page)
  BY <1>1, RowsOfBoth
<1>4. CASE UNCHANGED vars
  BY <1>4 DEF RepeatInv, RepeatsAreCreations, AheadRows, Rows, vars
<1>5. CASE Create
  <2>1. pc = "paging" /\ UNCHANGED all /\ created' = created + 1
    BY <1>5 DEF Create
  <2>2. Rows(all)' = Rows(all) /\ Len(all') = Len(all)
    BY <2>1
  <2>3. (Rows(all) \cap AheadRows)' \subseteq (Rows(all) \cap AheadRows) \cup {store[offset]}
    BY <1>5, <2>2, CreatePushes
  <2>4. /\ Cardinality((Rows(all) \cap AheadRows)') \in Nat
        /\ Cardinality((Rows(all) \cap AheadRows)') <= Cardinality(Rows(all) \cap AheadRows) + 1
    BY <1>2, <2>3, AtMostOneMore, Zenon
  <2>5. /\ Len(all) - Cardinality(Rows(all)) + Cardinality(Rows(all) \cap AheadRows) <= created
        /\ Len(all) - Cardinality(Rows(all)) <= created
    BY <2>1 DEF RepeatInv, RepeatsAreCreations
  <2>6. /\ Len(all) - Cardinality(Rows(all)) + Cardinality((Rows(all) \cap AheadRows)') <= created'
        /\ Len(all) - Cardinality(Rows(all)) <= created'
    BY <1>1, <1>2, <2>1, <2>4, <2>5
  <2> QED BY <2>1, <2>2, <2>6 DEF RepeatInv, RepeatsAreCreations
<1>6. CASE Remove
  <2>1. pc = "paging" /\ UNCHANGED <<all, created>>
    BY <1>6 DEF Remove
  <2>2. Rows(all)' = Rows(all) /\ Len(all') = Len(all)
    BY <2>1
  <2>3. (Rows(all) \cap AheadRows)' \subseteq Rows(all) \cap AheadRows
    BY <1>6, <2>2, RemovePulls
  <2>4. /\ Cardinality((Rows(all) \cap AheadRows)') \in Nat
        /\ Cardinality((Rows(all) \cap AheadRows)') <= Cardinality(Rows(all) \cap AheadRows)
    BY <1>2, <2>3, NotMore, Zenon
  <2>5. /\ Len(all) - Cardinality(Rows(all)) + Cardinality(Rows(all) \cap AheadRows) <= created
        /\ Len(all) - Cardinality(Rows(all)) <= created
    BY <2>1 DEF RepeatInv, RepeatsAreCreations
  <2>6. Len(all) - Cardinality(Rows(all)) + Cardinality((Rows(all) \cap AheadRows)') <= created
    BY <1>1, <1>2, <2>4, <2>5
  <2> QED BY <2>1, <2>2, <2>5, <2>6 DEF RepeatInv, RepeatsAreCreations
<1>7. CASE FullPage \/ LastPage
  <2> DEFINE B == IF pc' = "paging" THEN AheadRows' ELSE {}
  <2>1. /\ pc = "paging" /\ UNCHANGED created /\ all' = all \o Page
        /\ FullPage \/ pc' = "listed"
    BY <1>7 DEF FullPage, LastPage
  <2>2. Rows(Page) \subseteq AheadRows
    BY PageIsAhead
  <2>3. B \subseteq AheadRows \ Rows(Page)
    BY <2>1, FullPageSplits
  <2>4. /\ Rows(all)' = Rows(all) \cup Rows(Page)
        /\ Len(all') = Len(all) + Cardinality(Rows(Page))
        /\ IsFiniteSet(Rows(Page)) /\ Cardinality(Rows(Page)) \in Nat
    BY <1>1, <1>3, <2>1, PageCount
  <2> HIDE DEF B
  <2>5. Cardinality(Rows(Page)) - Cardinality(Rows(all) \cup Rows(Page))
            + Cardinality((Rows(all) \cup Rows(Page)) \cap B)
          <= Cardinality(Rows(all) \cap AheadRows) - Cardinality(Rows(all))
    BY <1>2, <2>2, <2>3, <2>4, RereadCount
  <2>6. /\ Cardinality(Rows(all) \cup Rows(Page)) \in Nat
        /\ Cardinality((Rows(all) \cup Rows(Page)) \cap B) \in Nat
    BY <1>2, <2>4, FS_Union, FS_Intersection, FS_CardinalityType
  <2>7. Len(all) - Cardinality(Rows(all)) + Cardinality(Rows(all) \cap AheadRows) <= created
    BY <2>1 DEF RepeatInv
  <2>8. /\ Len(all') - Cardinality(Rows(all)')
            + Cardinality(Rows(all)' \cap B) <= created
        /\ Len(all') - Cardinality(Rows(all)') <= created
    <3>1. /\ Cardinality(Rows(all)') = Cardinality(Rows(all) \cup Rows(Page))
          /\ Cardinality(Rows(all)' \cap B) = Cardinality((Rows(all) \cup Rows(Page)) \cap B)
      BY <2>4
    <3> DEFINE page == Cardinality(Rows(Page))
               had == Cardinality(Rows(all))
               ahead == Cardinality(Rows(all) \cap AheadRows)
               has == Cardinality(Rows(all) \cup Rows(Page))
               still == Cardinality((Rows(all) \cup Rows(Page)) \cap B)
    <3>2. /\ page \in Nat /\ had \in Nat /\ ahead \in Nat /\ has \in Nat /\ still \in Nat
          /\ Len(all) \in Nat /\ created \in Nat
      BY <1>1, <1>2, <2>4, <2>6
    <3>3. /\ page - has + still <= ahead - had
          /\ Len(all) - had + ahead <= created
          /\ Len(all') = Len(all) + page
      BY <2>4, <2>5, <2>7
    <3> HIDE DEF page, had, ahead, has, still
    <3>4. Len(all') - has + still <= created /\ Len(all') - has <= created
      BY <3>2, <3>3
    <3> QED BY <3>1, <3>4 DEF has, still
  <2>9. pc' = "paging" => B = AheadRows'
    BY DEF B
  <2> QED BY <2>1, <2>8, <2>9 DEF RepeatInv, RepeatsAreCreations
<1>8. CASE PageFails
  <2>1. pc' = "failed" /\ all' = << >> /\ created' = created
    BY <1>8 DEF PageFails
  <2>2. Len(all') = 0 /\ Cardinality(Rows(all)') = 0
    <3>1. Rows(all)' = {}
      BY <2>1 DEF Rows
    <3>2. Cardinality(Rows(all)') = Cardinality({})
      BY <3>1
    <3> QED BY <2>1, <3>2, FS_EmptySet
  <2>3. Len(all') - Cardinality(Rows(all)') <= created'
    BY <1>1, <2>1, <2>2
  <2> QED BY <2>1, <2>3 DEF RepeatInv, RepeatsAreCreations
<1> QED BY <1>4, <1>5, <1>6, <1>7, <1>8 DEF Next

\* Numbering, misses and repeats stay within their bounds.
LEMMA CountsInvariant == Spec => [](StoreInv /\ MissInv /\ RepeatInv)
<1>1. Init => StoreInv /\ MissInv /\ RepeatInv
  <2> SUFFICES ASSUME Init PROVE StoreInv /\ MissInv /\ RepeatInv
    OBVIOUS
  <2>1. PICK n \in 0..MaxItems : start = NewestFirst(n)
    BY DEF Init
  <2>2. /\ n \in Nat /\ start \in [1..n -> Nat]
        /\ \A i \in 1..n : start[i] = n + 1 - i
    BY <2>1, BoundsAssumption DEF NewestFirst
  <2>3. start \in Seq(Nat) /\ Len(start) = n
    BY <2>2, SeqDef, LenProperties
  <2>4. /\ store = start /\ pc = "paging" /\ offset = 0 /\ all = << >>
        /\ created = 0 /\ removed = 0
    BY DEF Init
  <2>5. Rows(all) = {} /\ Len(all) = 0
    BY <2>4 DEF Rows
  <2>6. StoreInv
    BY <2>2, <2>3, <2>4, <2>5 DEF StoreInv, Rows
  <2>7. AheadRows = Rows(store)
    <3>1. {k \in 1..Len(store) : k > offset} = 1..Len(store)
      BY <2>3, <2>4
    <3> QED BY <3>1 DEF AheadRows, Rows
  <2>8. Missed = {} /\ Rows(all) \cap AheadRows = {} /\ Cardinality({}) = 0
    BY <2>5, <2>7, FS_EmptySet DEF Missed
  <2>9. MissInv
    BY <2>4, <2>8 DEF MissInv, MissesAreRemovals
  <2>10. /\ Len(all) - Cardinality(Rows(all)) + Cardinality(Rows(all) \cap AheadRows) = 0
         /\ Len(all) - Cardinality(Rows(all)) = 0
    BY <2>5, <2>8
  <2>11. RepeatInv
    BY <2>4, <2>10 DEF RepeatInv, RepeatsAreCreations
  <2> QED BY <2>6, <2>9, <2>11
<1>2. IInv /\ StoreInv /\ MissInv /\ RepeatInv /\ [Next]_vars
        => StoreInv' /\ MissInv' /\ RepeatInv'
  BY StoreStep, MissStep, RepeatStep DEF IInv
<1> QED BY <1>1, <1>2, PagesInvariant, PTL DEF Spec

\* A listing misses at most one row that was there all along per removal, for every
\* page size and collection, wherever the removals fall (transfers.go:38-52).
THEOREM RemovalsHideAtMostOne == Spec => []MissesAreRemovals
<1>1. MissInv => MissesAreRemovals
  BY DEF MissInv
<1> QED BY <1>1, CountsInvariant, PTL

\* At most one row comes twice per creation, at every moment of the listing.
THEOREM CreationsRepeatAtMostOne == Spec => []RepeatsAreCreations
<1>1. RepeatInv => RepeatsAreCreations
  BY DEF RepeatInv
<1> QED BY <1>1, CountsInvariant, PTL
=============================================================================
