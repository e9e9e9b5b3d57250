------------------------------ MODULE Filters ------------------------------
(* SelectSeq by the members of a set, as a recursive function: the provers    *)
(* can follow it.                                                             *)
EXTENDS Naturals, Sequences

\* Of a sequence what is in S, in its order.
Among(seq, S) ==
  LET upto[n \in 0 .. Len(seq)] ==
        IF n = 0 THEN <<>> ELSE IF seq[n] \in S THEN Append(upto[n - 1], seq[n]) ELSE upto[n - 1]
  IN upto[Len(seq)]

=============================================================================
