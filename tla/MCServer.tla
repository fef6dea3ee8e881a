------------------------------ MODULE MCServer ------------------------------
(***************************************************************************)
(* Instances of the server's connection for TLC.                           *)
(***************************************************************************)
EXTENDS Server

MCHandshake == <<"recv", "send", "recv">>

\* Without NOOP, which has a run of its own.
MCRequests == {Piece("MOIN", 1), Piece("MOIN", 0), Piece("PING", 1),
               Piece("PUSH", 1), Piece("PUSH", 2), Piece("PUSH", 3),
               Piece("QUIT", 0), Piece("BAIL", 0)}

MCPushOnly == {Piece("MOIN", 1), Piece("PUSH", 2), Piece("QUIT", 0)}

MCWithNoop == {Piece("MOIN", 1), Piece("NOOP", 0), Piece("PUSH", 1)}

MCFew == {Piece("MOIN", 1), Piece("NOOP", 0), Piece("PUSH", 1), Piece("QUIT", 0)}

MCData == {Piece("data", 0), Piece("data", 1)}
=============================================================================
