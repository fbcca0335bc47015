---------------------------- MODULE MCDraftEditor ----------------------------
(***************************************************************************)
(* Two contents that a save accepts, one of which a brand may not publish, *)
(* and one that no save accepts.                                           *)
(***************************************************************************)
EXTENDS DraftEditor, TLC

CONSTANTS t1, t2, i1, i2, i3, a1, a2, empty, plain, faint

OneItem == <<i1>>
TwoItems == <<i1, i2>>
Kept ==
  [k \in Kinds |-> IF k = "lesson" THEN {empty, plain} ELSE {empty, plain, faint}]
OneEach == [a \in Appends |-> 1]

Interchangeable == Permutations({t1, t2})
=============================================================================
