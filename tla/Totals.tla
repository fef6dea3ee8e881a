------------------------------- MODULE Totals -------------------------------
(***************************************************************************)
(* The sum of a sequence of numbers, as a recursive function, which proofs *)
(* can unfold.                                                             *)
(***************************************************************************)
EXTENDS Integers, Sequences

Total(h) ==
  LET sum[i \in 0..Len(h)] == IF i = 0 THEN 0 ELSE sum[i - 1] + h[i]
  IN sum[Len(h)]

=============================================================================
