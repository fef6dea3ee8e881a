------------------------------- MODULE Util --------------------------------
(***************************************************************************)
(* The string functions of src/common/util.c.  A string is a sequence of   *)
(* bytes, without its NUL.                                                 *)
(***************************************************************************)
EXTENDS Integers, Sequences, SequencesExt

Blanks == {" ", "TAB"}

\* The string from its first byte that is not one of cs.
Skip(s, cs) ==
  LET i == SelectInSeq(s, LAMBDA c : c \notin cs)
  IN IF i = 0 THEN <<>> ELSE SubSeq(s, i, Len(s))

skip_newlines(s) == Skip(s, {"CR", "NL"})
skip_whitespace(s) == Skip(s, Blanks)

chomp(s) == IF s # <<>> /\ Last(s) = "NL" THEN Front(s) ELSE s

=============================================================================
