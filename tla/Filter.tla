------------------------------- MODULE Filter -------------------------------
(***************************************************************************)
(* Part of a list, in its order: what slices.DeleteFunc leaves, and what a *)
(* loop that appends some of the elements it passes makes.                 *)
(***************************************************************************)
EXTENDS Naturals, SequencesExt

Only(s, S) == FoldLeft(LAMBDA kept, e : IF e \in S THEN Append(kept, e) ELSE kept, <<>>, s)
=============================================================================
