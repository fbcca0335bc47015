------------------------------ MODULE MCOnboarding ------------------------------
(***************************************************************************)
(* Onboarding, for TLC: one tab, three tours, and a founder on their own   *)
(* with a colleague to invite.                                             *)
(***************************************************************************)
EXTENDS Onboarding

CONSTANTS t1, founder, colleague

SomeTours == {"create-phase", "learner-preview", "review-progress"}
SomeLinks == {"/", "/courses", "/courses/id", "/enrollments", "learn"}

FounderAlone == [m \in {founder, colleague} |-> IF m = founder THEN Permissions ELSE {}]
================================================================================
