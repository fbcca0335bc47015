------------------------- MODULE MCAssessmentAttempt -------------------------
(***************************************************************************)
(* A multi-select item with partial credit and a text, both optional. *)
(***************************************************************************)
EXTENDS AssessmentAttempt, TLC

CONSTANTS t1, t2, r1, r2, select, text, o1, o2, words

MCOffered == (select :> {{o1}, {o1, o2}}) @@ (text :> {{words}})
MCKey == select :> {o1}
MCPoints == (select :> 3) @@ (text :> 1)
MCMarks == {-1, 1}

Interchangeable == Permutations({t1, t2}) \cup Permutations({r1, r2})
=============================================================================
