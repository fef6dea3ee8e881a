------------------------------ MODULE MCClient ------------------------------
(***************************************************************************)
(* Instances of send_nsca for TLC.                                         *)
(***************************************************************************)
EXTENDS Client

MCHandshake == <<"send", "recv", "send">>

MCResponses == {Piece("MOIN", 1), Piece("MOIN", 2), Piece("OKAY", 0),
                Piece("FAIL", 0), Piece("BAIL", 0)}
=============================================================================
