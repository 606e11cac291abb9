----------------------------- MODULE Selection -----------------------------
(***************************************************************************)
(* The selection of the elements of a sequence: SelectSeq, as a recursive  *)
(* function, whose definition a proof can expand.                          *)
(***************************************************************************)
LOCAL INSTANCE Naturals
LOCAL INSTANCE Sequences

\* The elements of a sequence that are in a set, in order.
Selected(s, set) ==
  LET first[n \in 0 .. Len(s)] ==
        IF n = 0 THEN <<>>
        ELSE IF s[n] \in set THEN Append(first[n - 1], s[n]) ELSE first[n - 1]
  IN  first[Len(s)]
=============================================================================
