--------------------------- MODULE MCTokenService ---------------------------
(***************************************************************************)
(* TokenService for TLC.                                                   *)
(***************************************************************************)
EXTENDS TokenService
=============================================================================
