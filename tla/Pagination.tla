----------------------------- MODULE Pagination -----------------------------
(***************************************************************************)
(* ListTransfers and ListRecipients: one listing that walks a collection   *)
(* by offset, a page of PageSize rows at a time, until a page comes back   *)
(* short.  Each page is read at a moment of its own, and between two pages *)
(* the collection lives on: a transfer is created (Wise lists the newest   *)
(* first), another leaves the status filter, a recipient is deleted.  The  *)
(* collection is external; the listing is the code.                        *)
(***************************************************************************)
EXTENDS Integers, Sequences, FiniteSets

CONSTANTS
  PageSize,    \* transfersPageSize, recipientsPageSize
  MaxItems,    \* rows at the start (a bound of the model)
  MaxChanges   \* creations, and removals, during the listing (a bound of the model)

ASSUME PageSizeAssumption == PageSize \in Nat \ {0}
ASSUME BoundsAssumption == MaxItems \in Nat /\ MaxChanges \in Nat

VARIABLES
  store,     \* the rows that match the request, newest first
  pc,        \* "paging" until the listing has returned
  offset,    \* of the page asked for next
  all,       \* the rows collected
  start,     \* the rows when the listing began
  created,   \* rows that appeared since
  removed    \* rows that disappeared since

vars == <<store, pc, offset, all, start, created, removed>>

\* Rows are numbered in the order of their creation.
NewestFirst(n) == [i \in 1..n |-> n + 1 - i]

Init ==
  /\ \E n \in 0..MaxItems : start = NewestFirst(n)
  /\ store = start
  /\ pc = "paging"
  /\ offset = 0
  /\ all = <<>>
  /\ created = 0
  /\ removed = 0

(***************************************************************************)
(* The collection.                                                         *)
(***************************************************************************)
Create ==
  /\ pc = "paging"
  /\ created < MaxChanges
  /\ created' = created + 1
  /\ store' = <<Len(start) + created'>> \o store
  /\ UNCHANGED <<pc, offset, all, start, removed>>

Remove ==
  /\ pc = "paging"
  /\ removed < MaxChanges
  /\ removed' = removed + 1
  /\ \E i \in 1..Len(store) :
       store' = [j \in 1..Len(store) - 1 |-> IF j < i THEN store[j] ELSE store[j + 1]]
  /\ UNCHANGED <<pc, offset, all, start, created>>

(***************************************************************************)
(* The listing.                                                            *)
(***************************************************************************)
PageEnd == IF offset + PageSize <= Len(store) THEN offset + PageSize ELSE Len(store)

\* What Wise answers to limit and offset.
Page == SubSeq(store, offset + 1, PageEnd)

\* Mutants: the next page starts one row too far; the offset counts pages.
AdvanceOneMore == offset + PageSize + 1
AdvanceByPage == offset + 1

Advance == offset + PageSize

\* Mutant: only an empty page is the last.
ShortWhenEmpty == Len(Page) = 0

Short == Len(Page) < PageSize

\* There may be another page.
FullPage ==
  /\ pc = "paging"
  /\ ~Short
  /\ all' = all \o Page
  /\ offset' = Advance
  /\ UNCHANGED <<store, pc, start, created, removed>>

LastPage ==
  /\ pc = "paging"
  /\ Short
  /\ all' = all \o Page
  /\ pc' = "listed"
  /\ UNCHANGED <<store, offset, start, created, removed>>

\* A page fails after its ladder, or one of its rows cannot be mapped: nothing
\* is returned, whatever was collected.
PageFails ==
  /\ pc = "paging"
  /\ all' = <<>>
  /\ pc' = "failed"
  /\ UNCHANGED <<store, offset, start, created, removed>>

Next == Create \/ Remove \/ FullPage \/ LastPage \/ PageFails

Spec == Init /\ [][Next]_vars

-----------------------------------------------------------------------------
Rows(s) == {s[i] : i \in 1..Len(s)}

\* Every variable keeps to its type, and the offset to the page boundaries.
TypeOK ==
  /\ store \in Seq(Nat)
  /\ pc \in {"paging", "listed", "failed"}
  /\ offset \in {k * PageSize : k \in 0..offset}
  /\ all \in Seq(Nat)
  /\ start \in Seq(Nat)
  /\ created \in 0..MaxChanges
  /\ removed \in 0..MaxChanges

\* A listing of a collection that nobody touches is that collection: no row twice,
\* none left out, in Wise's order, also when the last page is exactly full
\* (transfers.go:38-52, recipients.go:31-44).
QuietListingIsExact ==
  pc = "listed" /\ created = 0 /\ removed = 0 => all = start

\* While rows only appear, at the front, the listing misses none of those it
\* started with: they move towards the pages still to come.
NothingIsMissed ==
  pc = "listed" /\ removed = 0 => Rows(start) \subseteq Rows(all)

\* Each removal hides at most one row that was there all along.
MissesAreRemovals ==
  pc = "listed" =>
    Cardinality((Rows(start) \cap Rows(store)) \ Rows(all)) <= removed

\* Each creation makes at most one row come twice.
RepeatsAreCreations ==
  Len(all) - Cardinality(Rows(all)) <= created

\* The listing never asks beyond the rows there were and those that were added:
\* it ends unless rows appear as fast as it reads, and a profile with n rows
\* costs n \div PageSize + 1 requests.
PagesAreBounded == offset <= Len(start) + created
=============================================================================
