---------------------------- MODULE MCPagination ----------------------------
(***************************************************************************)
(* Small instances of Pagination for TLC.                                  *)
(***************************************************************************)
EXTENDS Pagination
=============================================================================
