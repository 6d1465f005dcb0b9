------------------------------ MODULE Selection ------------------------------
(* The members of a set in a sequence, in their order.  It is SelectSeq with *)
(* a set for a test, as a recursive function the prover can reason about.    *)
EXTENDS Naturals, Sequences

Selected(s, T) ==
    LET upTo[i \in 0 .. Len(s)] ==
            IF i = 0 THEN <<>>
            ELSE IF s[i] \in T THEN Append(upTo[i - 1], s[i]) ELSE upTo[i - 1]
    IN  upTo[Len(s)]
==============================================================================
