------------------------------ MODULE MCWrites ------------------------------
(***************************************************************************)
(* A small instance of Writes for TLC.                                     *)
(***************************************************************************)
EXTENDS Writes

CONSTANT t
=============================================================================
