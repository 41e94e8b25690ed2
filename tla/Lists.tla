-------------------------------- MODULE Lists --------------------------------
(***************************************************************************)
(* The list comprehension of the code as a recursive function: SelectSeq   *)
(* takes an operator, of which nothing can be proved.                      *)
(***************************************************************************)
EXTENDS Integers, Sequences

\* [x for x in s if x in X]
Keep(s, X) ==
  LET kept[n \in 0 .. Len(s)] ==
        IF n = 0 THEN << >>
        ELSE IF s[n] \in X THEN Append(kept[n - 1], s[n]) ELSE kept[n - 1]
  IN kept[Len(s)]
==============================================================================
