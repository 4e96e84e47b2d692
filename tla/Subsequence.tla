------------------------------ MODULE Subsequence ------------------------------
(***************************************************************************)
(* What a list comprehension with an "if" and what a loop over a list make  *)
(* of it.  SelectSeq and FoldLeft say the same of an operator, but the       *)
(* provers know nothing of them; these are recursive functions, about which *)
(* SubsequenceProofs has the facts that are needed.                          *)
(***************************************************************************)
EXTENDS Naturals, Sequences

(* The elements of s at the places in S, in the order they have in s.        *)
Picked(s, S) ==
  LET pick[n \in 0..Len(s)] ==
        IF n = 0 THEN <<>>
        ELSE IF n \in S THEN Append(pick[n - 1], s[n]) ELSE pick[n - 1]
  IN pick[Len(s)]

(* What the body g of a loop over s makes of a, one element after the other: *)
(* g[z][x] is what it makes of z when the element is x.                      *)
Looped(g, a, s) ==
  LET loop[n \in 0..Len(s)] == IF n = 0 THEN a ELSE g[loop[n - 1]][s[n]]
  IN loop[Len(s)]
================================================================================
