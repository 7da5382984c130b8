------------------------------- MODULE Lists --------------------------------
(* List comprehensions: what `[x for x in list if x in members]` leaves, in  *)
(* order.  SelectSeq with a set for its test; module ListFacts proves what   *)
(* the other proofs use of it.                                               *)
EXTENDS Integers, Sequences

Only(list, members) ==
    LET kept[i \in 0..Len(list)] ==
            IF i = 0 THEN <<>>
            ELSE IF list[i] \in members THEN Append(kept[i - 1], list[i]) ELSE kept[i - 1]
    IN  kept[Len(list)]
=============================================================================
