------------------------------ MODULE Filters ------------------------------
(***************************************************************************)
(* The elements of a sequence that are in a set: SelectSeq of the standard *)
(* modules for a test that is a set, written as a recursive function so    *)
(* that it can be reasoned about (FiltersProofs).                          *)
(***************************************************************************)
EXTENDS Integers, Sequences

OnlyIn(s, K) ==
    LET kept[i \in 0..Len(s)] ==
          IF i = 0 THEN <<>>
          ELSE IF s[i] \in K THEN Append(kept[i - 1], s[i]) ELSE kept[i - 1]
    IN  kept[Len(s)]
=============================================================================
