------------------------------ MODULE MCReport ------------------------------
(***************************************************************************)
(* The links and their reports, with the rooms and requests of MCRecLink.  *)
(***************************************************************************)
EXTENDS Report, MCRecLink
=============================================================================
