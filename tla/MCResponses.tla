---------------------------- MODULE MCResponses -----------------------------
(***************************************************************************)
(* Small instances of Responses for TLC.                                   *)
(***************************************************************************)
EXTENDS Responses
=============================================================================
