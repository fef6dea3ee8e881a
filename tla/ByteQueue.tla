----------------------------- MODULE ByteQueue -----------------------------
(***************************************************************************)
(* What src/common/buffer.h promises its users (tls.c, fifo.c, input.c): a *)
(* queue of bytes.  Bytes are appended at the end and taken from the       *)
(* front, a number of them or up to a terminator, and what a call returns  *)
(* is what was there.                                                      *)
(***************************************************************************)
EXTENDS Integers, Sequences, SequencesExt

CONSTANTS
  Bytes,       \* the bytes that are told apart; "NL", "CR" and "NUL" are three
  MaxAppend    \* bytes that one call appends, at most

VARIABLES
  queue,       \* the bytes in the buffer
  returned     \* what the last call returned

vars == <<queue, returned>>

\* A null pointer: there is no line or chunk yet.
NULL == <<"NULL">>

Inputs == BoundedSeq(Bytes, MaxAppend)

\* The string a C program sees in an array of bytes: all before the first NUL.
CString(s) ==
  LET nul == SelectInSeq(s, LAMBDA c : c = "NUL")
  IN IF nul = 0 THEN s ELSE SubSeq(s, 1, nul - 1)

\* A line ends with a newline, or a carriage return and a newline.
Line(s) ==
  LET text == Front(s)
  IN IF text # <<>> /\ Last(text) = "CR" THEN Front(text) ELSE text

Init == queue = <<>> /\ returned = NULL

AppendBytes(s) == queue' = queue \o s /\ returned' = NULL

Take(n, result) ==
  /\ queue' = SubSeq(queue, n + 1, Len(queue))
  /\ returned' = result

Read(n) ==
  LET k == IF n < Len(queue) THEN n ELSE Len(queue)
  IN Take(k, SubSeq(queue, 1, k))

ReadLine ==
  LET n == SelectInSeq(queue, LAMBDA c : c = "NL")
  IN Take(n, IF n = 0 THEN NULL ELSE CString(Line(SubSeq(queue, 1, n))))

ReadChunk(terminator) ==
  LET n == SelectInSeq(queue, LAMBDA c : c = terminator)
  IN Take(n, IF n = 0 THEN NULL ELSE CString(SubSeq(queue, 1, n - 1)))

Slurp == Take(Len(queue), queue)

\* The buffer is destroyed, and a new one takes its place.
Renew == queue' = <<>> /\ returned' = NULL

Next ==
  \/ \E s \in Inputs : AppendBytes(s)
  \/ \E n \in 0..Len(queue) + 1 : Read(n)
  \/ ReadLine
  \/ \E c \in Bytes : ReadChunk(c)
  \/ Slurp
  \/ Renew

Spec == Init /\ [][Next]_vars

=============================================================================
