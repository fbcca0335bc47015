---------------------------- MODULE LearnerAccess ----------------------------
(***************************************************************************)
(* What the learner's pages compute from the rows they read: the state of  *)
(* each lesson of a course and of each course of a path                    *)
(* (packages/domain/src/learning.ts), and whether the lesson page hides    *)
(* "Mark complete".  The pages lock by these, the database by the gates of *)
(* LearningProgress.                                                       *)
(***************************************************************************)
EXTENDS LearningProgress

(* Mutant of Blocking: a required lesson blocks itself.                    *)
BlockingItself(s, done) ==
  [i \in 1..Len(s.order) |->
     \E j \in 1..i : s.order[j] \in s.required \ done]

(* blockingTitle of computeLessonAccess when the loop reaches lesson i: an *)
(* earlier required lesson is unfinished.                                  *)
Blocking(s, done) ==
  [i \in 1..Len(s.order) |->
     LET f[j \in 0..(i - 1)] ==
           j > 0 /\ (f[j - 1] \/ s.order[j] \in s.required \ done)
     IN f[i - 1]]

(* computeLessonAccess, lesson by lesson.                                  *)
LessonAccess(st, s, done) ==
  [i \in 1..Len(s.order) |->
     CASE st \notin Live               -> "not_enrolled"
       [] st \in Live /\ s.order[i] \in done -> "completed"
       [] OTHER -> IF Blocking(s, done)[i] THEN "locked_by_sequence" ELSE "available"]

AccessTo(st, s, done, l) ==
  LessonAccess(st, s, done)[CHOOSE i \in 1..Len(s.order) : s.order[i] = l]

(* Mutant of UnmetNodes: the edges are read the wrong way round.           *)
UnmetBackwards(p, done, c) ==
  {x[1] : x \in {x \in prereq[p] : x[2] = c /\ (x[1] \in nodes[p] => x[1] \notin done)}}

(* unmet of computePathAccess: a required node that is not on the path     *)
(* counts as unmet.                                                        *)
UnmetNodes(p, done, c) ==
  {x[2] : x \in {x \in prereq[p] : x[1] = c /\ (x[2] \in nodes[p] => x[2] \notin done)}}

(* computePathAccess for the node of course c.                             *)
PathAccess(st, p, done, c) ==
  IF st \notin Live THEN "not_enrolled"
  ELSE IF c \in done THEN "completed"
  ELSE IF UnmetNodes(p, done, c) # {} THEN "locked_by_prerequisite" ELSE "available"

(* requiredAssessmentPending and practicalGated of the lesson page.        *)
AssessmentGated(e, l) ==
  \E a \in openAssignments \cap Required : AssignedTo[a] = l /\ attempt[e][a] # "passed"

PracticalGated(e, l) ==
  l \in PracticalLessons /\ <<e, l, "passed">> \notin evaluations

(* start_assessment_attempt refuses for good: the window of a is over, or  *)
(* the attempts at it are used up.                                         *)
Shut(e, a) == a \in over \/ ~AttemptLeft(e, a)

(* A required assessment of the lesson, neither passed nor under way, will *)
(* never be passed; only its archiving or an override leads on.            *)
ShutOut(e, l) ==
  \E a \in openAssignments \cap Required :
    AssignedTo[a] = l /\ attempt[e][a] \in {"none", "unpassed"} /\ Shut(e, a)

-----------------------------------------------------------------------------
(* The two locks agree.  A course the path page shows locked is one the    *)
(* database refuses for its prerequisites and one it shows available is not; *)
(* and in a course with enforce_sequence an unfinished lesson shows locked *)
(* exactly when the database refuses to complete it out of order.          *)
(* (data/learning.ts: "no surface re-implements unlock logic"; the display *)
(* and record_lesson_progress each compute it.)                            *)
DisplayMatchesGate ==
  \A e \in Enrollments :
    /\ status[e] \in Live /\ TargetOf[e] \in Paths =>
         \A c \in nodes[TargetOf[e]] :
           LET shown == PathAccess(status[e], TargetOf[e],
                                   CompletedCourses(courseRow[e]), c)
           IN /\ shown = "locked_by_prerequisite" => ~PrerequisitesMet(e, c)
              /\ shown = "available" => PrerequisitesMet(e, c)
    /\ \A c \in SequencedCourses :
         /\ status[e] \in Live /\ TargetOf[e] \in Paths \cup {c}
         /\ ResolvedVersion(e, c) # NoVersion
         => LET s == Snapshot(ResolvedVersion(e, c))
           IN \A i \in 1..Len(s.order) :
                LET shown == LessonAccess(status[e], s, Done(lessonRow[e]))[i]
                IN /\ shown = "locked_by_sequence" => ~SequenceMet(e, s.order[i])
                   /\ shown = "available" => SequenceMet(e, s.order[i])

(* What the page of an available lesson leaves its learner to do: pass the *)
(* assessment or wait for the evaluator where the page hides the button,   *)
(* and else press it.                                                      *)
Workable(e, l) ==
  \/ /\ AssessmentGated(e, l)
     /\ \E a \in openAssignments \cap Required :
          /\ AssignedTo[a] = l
          /\ \/ attempt[e][a] = "open"
             \/ attempt[e][a] \in {"none", "unpassed"} /\ ~Shut(e, a)
  \/ /\ PracticalGated(e, l)
     /\ LET s == Snapshot(ResolvedVersion(e, CourseOf[l]))
        IN EarlierRequired(s, l) \subseteq Done(lessonRow[e])
  \/ /\ ~AssessmentGated(e, l) /\ ~PracticalGated(e, l)
     /\ ~AssessmentOwed(e, l) /\ ~PracticalOwed(e, l) /\ SequenceMet(e, l)

(* A learner is stuck in a course only by an assessment: while a course    *)
(* the learner may work on is not completed, some required lesson of it    *)
(* shows available, and what its page asks for is what the database        *)
(* accepts, unless a required assessment of that lesson is shut to the     *)
(* learner for good, by its window or its maximum of attempts.  It relates *)
(* the display, the page's gates, the evaluator's sequence check, the      *)
(* retake gate and the gates of record_lesson_progress.                    *)
WayForward ==
  \A e \in Enrollments, c \in Courses :
    /\ status[e] = "active" /\ MemberOf[e] \in activeMembers
    /\ Covers(e, c) /\ PrerequisitesMet(e, c)
    /\ courseRow[e][c].status # "completed"
    /\ ResolvedVersion(e, c) # NoVersion
    => LET s == Snapshot(ResolvedVersion(e, c))
           access == LessonAccess(status[e], s, Done(lessonRow[e]))
       IN s.required # {} =>
            \E i \in 1..Len(s.order) :
              /\ s.order[i] \in s.required
              /\ access[i] = "available"
              /\ Workable(e, s.order[i]) \/ ShutOut(e, s.order[i])
=============================================================================
