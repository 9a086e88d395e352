------------------------------- MODULE Selection -------------------------------
(* The elements of a sequence that are in a set, in their order. *)
EXTENDS Integers, Sequences

Only(s, keep) ==
    LET upTo[i \in 0..Len(s)] ==
            IF i = 0 THEN <<>>
            ELSE IF s[i] \in keep THEN Append(upTo[i - 1], s[i]) ELSE upTo[i - 1]
    IN upTo[Len(s)]
===============================================================================
