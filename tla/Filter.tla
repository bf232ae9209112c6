------------------------------- MODULE Filter -------------------------------
(***************************************************************************)
(* The loop that appends the elements it wants to keep.  SelectSeq says    *)
(* the same; this form, one element after another, can be proved about.    *)
(***************************************************************************)
EXTENDS Naturals, Sequences

\* KeptTo(s, T)[n]: what is kept after n rounds.
KeptTo(s, T) ==
  LET kept[n \in 0 .. Len(s)] ==
        IF n = 0 THEN <<>>
        ELSE IF s[n] \in T THEN Append(kept[n - 1], s[n]) ELSE kept[n - 1]
  IN  kept

Kept(s, T) == KeptTo(s, T)[Len(s)]

=============================================================================
