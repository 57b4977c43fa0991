----------------------------- MODULE SeqFilter ------------------------------
(* std::erase_if over a vector of records that carry an id: what is left   *)
(* keeps its order.                                                        *)
EXTENDS Integers, Sequences

DropIds(list, ids) ==
    LET kept[n \in 0..Len(list)] ==
            IF n = 0 THEN <<>>
            ELSE IF list[n].id \in ids THEN kept[n-1]
            ELSE Append(kept[n-1], list[n])
    IN kept[Len(list)]
=============================================================================
