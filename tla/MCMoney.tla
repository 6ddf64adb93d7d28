------------------------------ MODULE MCMoney -------------------------------
(***************************************************************************)
(* Small instances of Money for TLC.                                       *)
(***************************************************************************)
EXTENDS Money

\* Every cent that four bits of slack leave exact, and the edge of the range.
MCAmounts == 1..255
MCHugeAmounts == {2001, 2047, 2048, 2050, 3000, -2001, -2048, -2050, -3000}
=============================================================================
