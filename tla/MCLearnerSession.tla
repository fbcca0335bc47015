-------------------------- MODULE MCLearnerSession --------------------------
(***************************************************************************)
(* One learner, one tab and one course of two lessons, whose versions have *)
(* the lessons in either order.                                            *)
(***************************************************************************)
EXTENDS LearnerSession

CONSTANTS c1, l1, l2, m1, e1, t1

NoFunction == [x \in {} |-> x]

OneCourse == [l \in {l1, l2} |-> c1]

StructureOf(order) ==
  [course |-> c1, order |-> order, required |-> {l1, l2}, percent |-> 100]

EitherOrder == {StructureOf(<<l1, l2>>), StructureOf(<<l2, l1>>)}

AllMemberOne == [e \in Enrollments |-> m1]
AllTargetCourse == [e \in Enrollments |-> c1]
=============================================================================
