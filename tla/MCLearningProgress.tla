------------------------- MODULE MCLearningProgress -------------------------
(***************************************************************************)
(* Small curricula for TLC.                                                *)
(*                                                                         *)
(* The course scenarios: one member and one course of two lessons, with    *)
(* one enrollment.  In the scene `versions' two versions are published and *)
(* the assessment's window stays open; in `windows' one version is, and    *)
(* the window may end.  Either allows two attempts.  The path scenario:    *)
(* one enrollment in a path over two courses of one lesson each, whose     *)
(* nodes and prerequisites two authors edit meanwhile.                     *)
(***************************************************************************)
EXTENDS LearnerAccess, TLC

CONSTANTS c1, c2, p1, l1, l2, m1, e1, e2, a1, k1
VARIABLE scene

NoFunction == [x \in {} |-> x]

LessonsOfOne == [l \in {l1, l2} |-> c1]
LessonPerCourse == (l1 :> c1) @@ (l2 :> c2)

StructureOf(c, order, required, percent) ==
  [course |-> c, order |-> order, required |-> required, percent |-> percent]

(* The same two lessons under both completion rules, or only the first one.*)
AllRequired == StructureOf(c1, <<l1, l2>>, {l1, l2}, 100)
HalfRequired == StructureOf(c1, <<l1, l2>>, {l1, l2}, 50)
FirstOnly == StructureOf(c1, <<l1>>, {l1}, 100)

AllStructures == {AllRequired, HalfRequired, FirstOnly}

PathStructures == {StructureOf(c1, <<l1>>, {l1}, 100), StructureOf(c2, <<l2>>, {l2}, 100)}

AllMemberOne == [e \in Enrollments |-> m1]
AllTargetCourse == [e \in Enrollments |-> c1]
AllTargetPath == [e \in Enrollments |-> p1]

AssignedToLast == [a \in {a1} |-> l2]
TwoAttempts == [a \in {a1} |-> 2]

CertifyAssignment == [k \in {k1} |-> a1]
CertifyPath == [k \in {k1} |-> p1]

sceneVars == <<vars, scene>>

CourseInit == Init /\ scene \in {"versions", "windows"}

CourseNext ==
  /\ Next
  /\ \/ scene = "versions" /\ UNCHANGED over
     \/ scene = "windows" /\ published'[c1] \in {<<>>, <<AllRequired>>}
  /\ UNCHANGED scene

CourseSpec == CourseInit /\ [][CourseNext]_sceneVars

PathInit == Init /\ scene = "path"
PathNext == Next /\ UNCHANGED scene
PathSpec == PathInit /\ [][PathNext]_sceneVars
=============================================================================
