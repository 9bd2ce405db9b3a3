-------------------------------- MODULE Walk --------------------------------
(* A loop over the items of a list, in their order: each item takes what    *)
(* the one before it left one Step further. A value that is no list has no  *)
(* items.                                                                   *)
EXTENDS Naturals, Sequences

CONSTANT Step(_, _)   \* the accumulated value and an item to the next value

Through(base, items) ==
    LET after[i \in 0..Len(items)] ==
            IF i = 0 THEN base ELSE Step(after[i - 1], items[i])
    IN  IF Len(items) \in Nat THEN after[Len(items)] ELSE base
=============================================================================
