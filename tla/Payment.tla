------------------------------- MODULE Payment ------------------------------
(***************************************************************************)
(* What paying through Wise promises, with no word of quotes, tokens,      *)
(* attempts and crashes: the money leaves the balance at most once, and    *)
(* not after the payment was said to be abandoned; what is said of the     *)
(* payment is said once and is true when it is said.                       *)
(***************************************************************************)
EXTENDS Integers

VARIABLES
  debits,  \* how often the balance was debited for the payment
  told     \* what the consumer has recorded of it

vars == <<debits, told>>

Init == debits = 0 /\ told = "open"

Debit ==
  /\ debits = 0
  /\ told = "open"
  /\ debits' = 1
  /\ UNCHANGED told

TellPaid ==
  /\ told = "open"
  /\ debits = 1
  /\ told' = "paid"
  /\ UNCHANGED debits

TellAbandoned ==
  /\ told = "open"
  /\ debits = 0
  /\ told' = "abandoned"
  /\ UNCHANGED debits

Next == Debit \/ TellPaid \/ TellAbandoned

Spec == Init /\ [][Next]_vars
=============================================================================
