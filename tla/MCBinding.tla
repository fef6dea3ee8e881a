----------------------------- MODULE MCBinding -----------------------------
(***************************************************************************)
(* Instances of the bindings' client for TLC.                              *)
(***************************************************************************)
EXTENDS Binding
=============================================================================
