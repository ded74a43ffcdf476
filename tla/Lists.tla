------------------------------- MODULE Lists -------------------------------
(***************************************************************************)
(* What is left of a list.  SelectSeq would do for the runs; as a          *)
(* recursive function it can be reasoned about.                            *)
(***************************************************************************)
EXTENDS Naturals, Sequences

\* The rows s without the rows D, in the same order.
Without(s, D) ==
  LET kept[n \in 0..Len(s)] ==
        IF n = 0 THEN <<>>
        ELSE IF s[n] \in D THEN kept[n - 1] ELSE Append(kept[n - 1], s[n])
  IN  kept[Len(s)]
=============================================================================
