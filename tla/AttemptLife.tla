----------------------------- MODULE AttemptLife -----------------------------
(***************************************************************************)
(* What a learner is promised of one assessment: an attempt at a time, as  *)
(* many as the limit allows, each of them passed or not, and no further    *)
(* attempt once one is passed.  LearningProgress takes attempts at this    *)
(* grain.                                                                  *)
(***************************************************************************)
EXTENDS Naturals

CONSTANT Limit   \* maxAttempts of the version's settings

VARIABLES
  result,   \* of the latest attempt: "none", "open", "passed" or "unpassed"
  taken     \* attempts started so far

lifeVars == <<result, taken>>

LifeInit == result = "none" /\ taken = 0

Take ==
  /\ result \in {"none", "unpassed"} /\ taken < Limit
  /\ result' = "open" /\ taken' = taken + 1

Conclude(r) == result = "open" /\ result' = r /\ UNCHANGED taken

LifeNext == Take \/ Conclude("passed") \/ Conclude("unpassed")

LifeSpec == LifeInit /\ [][LifeNext]_lifeVars
=============================================================================
