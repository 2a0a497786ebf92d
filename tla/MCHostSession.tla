---------------------------- MODULE MCHostSession ----------------------------
(***************************************************************************)
(* HostSession for TLC: a mint or a verify session.                        *)
(***************************************************************************)
EXTENDS HostSession

MCStarts == {"start", "startVerify"}
=============================================================================
