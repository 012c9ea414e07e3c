--------------------------------- MODULE Vectors ----------------------------------
(* What several modules of the document need: a value for nothing, and the *)
(* filter and the fold of a list, by recursion over its length so that     *)
(* they can be reasoned about.                                             *)
EXTENDS Naturals, Sequences

CONSTANT None

Option(S) == S \cup {None}

(* The elements of a list that are in keep, in their order.                *)
Filtered(list, keep) ==
    LET first[n \in 0..Len(list)] ==
            IF n = 0 THEN <<>>
            ELSE IF list[n] \in keep THEN Append(first[n - 1], list[n]) ELSE first[n - 1]
    IN  first[Len(list)]

(* What becomes of base when Step takes in the list, from its front on.    *)
Folded(Step(_, _), base, list) ==
    LET after[n \in 0..Len(list)] == IF n = 0 THEN base ELSE Step(after[n - 1], list[n])
    IN  after[Len(list)]
=============================================================================
