----------------------------- MODULE MCEndToEnd -----------------------------
(***************************************************************************)
(* Instances of client and daemon for TLC: the constants are given in the  *)
(* .cfg files.                                                             *)
(***************************************************************************)
EXTENDS EndToEnd
=============================================================================
