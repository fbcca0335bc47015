--------------------------- MODULE LearningProgress ---------------------------
(***************************************************************************)
(* Enrollments, progress records and the completion cascade: every RPC     *)
(* that writes progress_records or enrollments.status, over the curriculum *)
(* of LearningCatalog.                                                     *)
(*                                                                         *)
(* Each RPC is one transaction that takes the enrollment's row lock before *)
(* it reads or writes anything of that enrollment, so each is one action.  *)
(* The learner calls StartLesson, CompleteLesson and StartAttempt; staff   *)
(* call the others.  Permission checks are not modelled: the actor of an   *)
(* action holds the permission its RPC asks for.                           *)
(*                                                                         *)
(* An enrollment id is fresh at creation, so a constant pool of ids, each  *)
(* labelled with its member and target, only bounds how many there are.    *)
(***************************************************************************)
EXTENDS LearningCatalog

CONSTANTS
  Members,
  Enrollments, MemberOf, TargetOf,   \* the pool, [Enrollments -> Members / Targets]
  SequencedCourses,                  \* courses.enforce_sequence
  PracticalLessons,                  \* lessons with a practical requirement
  Assignments, AssignedTo,           \* [Assignments -> Lessons]
  Required, Completing,              \* required; completion_effect = complete_lesson
  MaxAttempts,                       \* settings.maxAttempts of those that have one
  Windowed,                          \* assignments with an available_until
  Certificates, CertificateSource,   \* active rules, [-> Targets \cup Assignments]
  NoEnrollment                       \* the SQL null of enrollment_id

ASSUME ProgressAssumption ==
  /\ MemberOf \in [Enrollments -> Members]
  /\ TargetOf \in [Enrollments -> Targets]
  /\ SequencedCourses \subseteq Courses
  /\ PracticalLessons \subseteq Lessons
  /\ AssignedTo \in [Assignments -> Lessons]
  /\ Required \subseteq Assignments /\ Completing \subseteq Assignments
  /\ DOMAIN MaxAttempts \subseteq Assignments
  /\ MaxAttempts \in [DOMAIN MaxAttempts -> Nat \ {0}]
  /\ Windowed \subseteq Assignments
  /\ Assignments \cap Targets = {}
  /\ CertificateSource \in [Certificates -> Targets \cup Assignments]
  /\ NoEnrollment \notin Enrollments

VARIABLES
  activeMembers,    \* members whose organization membership is active
  openAssignments,  \* assessment_assignments with status active
  over,             \* assignments whose available_until has passed
  status,           \* enrollments.status, "none" before creation
  pin,              \* enrollments.pinned_course_version_id
  courseRow,        \* course-level progress_records of each enrollment
  lessonRow,        \* lesson-level progress_records of each enrollment
  attempt,          \* the latest attempt of each enrollment at each assignment
  counted,          \* attempts of each enrollment, where a maximum counts them
  evaluations,      \* practical_evaluations: <<enrollment, lesson, result>>,
                    \* remediation_required and failed both as "unpassed"
  credentials,      \* issued_credentials that are not revoked
  events            \* idempotency keys in analytics_events and the outbox

enrollmentVars == <<status, pin, courseRow, lessonRow>>
evidenceVars == <<attempt, counted, evaluations>>
settingVars == <<activeMembers, openAssignments, over>>
vars == <<catalogVars, settingVars, enrollmentVars, evidenceVars, credentials, events>>

Limited == DOMAIN MaxAttempts

Finished == {"completed", "exempted"}
Live == {"active", "completed"}

NoCourseRow == [status |-> "none", version |-> NoVersion]
NoLessonRow == [status |-> "none", version |-> NoVersion, overridden |-> FALSE]

-----------------------------------------------------------------------------
Done(lessons) == {l \in Lessons : lessons[l].status \in Finished}

CompletedCourses(courses) == {c \in Courses : courses[c].status = "completed"}

(* The completion rule of a version; a version with no required lesson     *)
(* never completes.                                                        *)
RuleMet(s, done) ==
  /\ s.required # {}
  /\ 100 * Cardinality(s.required \cap done) >= s.percent * Cardinality(s.required)

(* enrollment_covers_course                                                *)
Covers(e, c) ==
  \/ TargetOf[e] = c
  \/ TargetOf[e] \in Paths /\ c \in nodes[TargetOf[e]]

(* The prerequisite gate of record_lesson_progress.                        *)
PrerequisitesMet(e, c) ==
  TargetOf[e] \in Paths =>
    \A x \in prereq[TargetOf[e]] :
      x[1] = c => x[2] \in CompletedCourses(courseRow[e])

(* Mutant of ResolvedVersion: the enrollment's pin is not consulted.       *)
ResolvedWithoutPin(e, c) ==
  IF courseRow[e][c].status # "none" THEN courseRow[e][c].version ELSE Current(c)

(* ADR-017 pin chain: course row, then enrollment, then current version.   *)
ResolvedVersion(e, c) ==
  IF courseRow[e][c].status # "none" THEN courseRow[e][c].version
  ELSE IF pin[e] # NoVersion THEN pin[e] ELSE Current(c)

(* The course rows of e once the caller made sure that one for c exists.   *)
WithCourseRow(e, c) ==
  IF courseRow[e][c].status # "none" THEN courseRow[e]
  ELSE [courseRow[e] EXCEPT
          ![c] = [status |-> "in_progress", version |-> ResolvedVersion(e, c)]]

InPinnedVersion(e, l) ==
  LET v == ResolvedVersion(e, CourseOf[l])
  IN v # NoVersion /\ l \in LessonsOf(Snapshot(v))

(* The required lessons pinned before l.                                   *)
EarlierRequired(s, l) ==
  {s.order[i] : i \in {i \in 1..Len(s.order) :
     /\ s.order[i] \in s.required
     /\ \E j \in (i + 1)..Len(s.order) : s.order[j] = l}}

(* The rows of e with l completed, unless it already counts as finished.   *)
WithLessonCompleted(e, l) ==
  IF lessonRow[e][l].status \in Finished THEN lessonRow[e]
  ELSE [lessonRow[e] EXCEPT
          ![l].status = "completed",
          ![l].version = IF @ = NoVersion THEN ResolvedVersion(e, CourseOf[l]) ELSE @]

CertificatesFor(source) == {k \in Certificates : CertificateSource[k] = source}

(* Mutant of NewCredentials: no unrevoked duplicate is looked for.         *)
NewCredentialsAlways(rules, m, e) ==
  {[certificate |-> k, member |-> m, enrollment |-> e] : k \in rules}

(* issue_credential_internal for each rule: nothing where the member holds *)
(* an unrevoked credential of it.                                          *)
NewCredentials(rules, m, e) ==
  {[certificate |-> k, member |-> m, enrollment |-> e] :
     k \in {k \in rules : ~\E x \in credentials : x.certificate = k /\ x.member = m}}

IssueKeys(issued) ==
  {<<"credential-issued", x.certificate, x.member>> : x \in issued}

(* Mutant of TargetReached: some course of the path is enough.             *)
SomeCourseReached(e, courses) ==
  TargetOf[e] \in Paths => nodes[TargetOf[e]] \cap CompletedCourses(courses) # {}

(* Every course of the path, or the one course of the enrollment.          *)
TargetReached(e, courses) ==
  TargetOf[e] \in Paths => nodes[TargetOf[e]] \subseteq CompletedCourses(courses)

StatusAfter(e, reached) ==
  IF reached /\ status[e] = "active" THEN "completed" ELSE status[e]

EarnedRules(e, c, finishes, reached) ==
  {k \in Certificates :
     \/ finishes /\ CertificateSource[k] = c
     \/ reached /\ CertificateSource[k] \in Paths /\ CertificateSource[k] = TargetOf[e]}

CascadeKeys(e, c, finishes, reached) ==
  {k \in {<<"course-completed", e, c>>} : finishes} \cup
  {k \in {<<IF TargetOf[e] \in Paths THEN "path-completed" ELSE "enrollment-completed",
            e, TargetOf[e]>>} : reached}

(***************************************************************************)
(* The tail of every writer of lesson progress: the rows of e become       *)
(* `courses' and `lessons', then evaluate_course_completion(e, c) runs over *)
(* them, and issues what the completion earns besides `rules'.             *)
(***************************************************************************)
EvaluateCourse(e, c, courses, lessons, keys, rules) ==
  LET finishes == /\ courses[c].status = "in_progress"
                  /\ RuleMet(Snapshot(courses[c].version), Done(lessons))
      after    == IF finishes THEN [courses EXCEPT ![c].status = "completed"]
                  ELSE courses
      reached  == finishes /\ TargetReached(e, after)
      issued   == NewCredentials(rules \cup EarnedRules(e, c, finishes, reached),
                                 MemberOf[e], e)
  IN /\ courseRow' = [courseRow EXCEPT ![e] = after]
     /\ lessonRow' = [lessonRow EXCEPT ![e] = lessons]
     /\ status' = [status EXCEPT ![e] = StatusAfter(e, reached)]
     /\ credentials' = credentials \cup issued
     /\ events' = events \cup keys \cup CascadeKeys(e, c, finishes, reached)
                         \cup IssueKeys(issued)
     /\ UNCHANGED pin

CourseStartKeys(e, c) ==
  {k \in {<<"course-started", e, c>>} : courseRow[e][c].status = "none"}

-----------------------------------------------------------------------------
Init ==
  /\ CatalogInit
  /\ activeMembers = Members
  /\ openAssignments = Assignments
  /\ over = {}
  /\ status = [e \in Enrollments |-> "none"]
  /\ pin = [e \in Enrollments |-> NoVersion]
  /\ courseRow = [e \in Enrollments |-> [c \in Courses |-> NoCourseRow]]
  /\ lessonRow = [e \in Enrollments |-> [l \in Lessons |-> NoLessonRow]]
  /\ attempt = [e \in Enrollments |-> [a \in Assignments |-> "none"]]
  /\ counted = [e \in Enrollments |-> [a \in Limited |-> 0]]
  /\ evaluations = {}
  /\ credentials = {}
  /\ events = {}

(* The partial unique indexes enrollments_one_live_course and _path.       *)
NoOtherLive(e) ==
  \A f \in Enrollments \ {e} :
    MemberOf[f] = MemberOf[e] /\ TargetOf[f] = TargetOf[e] => status[f] \notin Live

CreateEnrollment(e) ==
  /\ status[e] = "none"
  /\ MemberOf[e] \in activeMembers
  /\ TargetOf[e] \in open
  /\ TargetOf[e] \in Courses => Current(TargetOf[e]) # NoVersion
  /\ NoOtherLive(e)
  /\ status' = [status EXCEPT ![e] = "active"]
  /\ pin' = [pin EXCEPT ![e] =
               IF TargetOf[e] \in Courses THEN Current(TargetOf[e]) ELSE NoVersion]
  /\ events' = events \cup {<<"enrollment-created", e, TargetOf[e]>>}
  /\ UNCHANGED <<catalogVars, settingVars, courseRow, lessonRow, evidenceVars,
                 credentials>>

(* Mutant of SetEnrollmentStatus: completed enrollments are not refused.   *)
SetAnyStatus(e, s) ==
  /\ status[e] # "none"
  /\ s = "active" => NoOtherLive(e)
  /\ status' = [status EXCEPT ![e] = s]
  /\ UNCHANGED <<catalogVars, settingVars, pin, courseRow, lessonRow, evidenceVars,
                 credentials, events>>

(* Withdraw, expire or reactivate; a completed enrollment is refused.  The *)
(* withdrawn event carries a timestamp in its key and is left out.         *)
SetEnrollmentStatus(e, s) ==
  /\ s \in {"active", "withdrawn", "expired"}
  /\ status[e] \notin {"none", "completed"}
  /\ s = "active" => NoOtherLive(e)
  /\ status' = [status EXCEPT ![e] = s]
  /\ UNCHANGED <<catalogVars, settingVars, pin, courseRow, lessonRow, evidenceVars,
                 credentials, events>>

-----------------------------------------------------------------------------
(* What record_lesson_progress checks before it looks at the action.       *)
MayRecord(e, l) ==
  /\ MemberOf[e] \in activeMembers
  /\ status[e] \in Live
  /\ Covers(e, CourseOf[l])
  /\ PrerequisitesMet(e, CourseOf[l])
  /\ courseRow[e][CourseOf[l]].status = "none" => status[e] = "active"
  /\ InPinnedVersion(e, l)

(* lesson_requires_assessment_pass and lesson_requires_practical_pass.     *)
AssessmentOwed(e, l) ==
  \E a \in openAssignments \cap Required \cap Completing :
    AssignedTo[a] = l /\ attempt[e][a] # "passed"

PracticalOwed(e, l) ==
  l \in PracticalLessons /\ <<e, l, "passed">> \notin evaluations

StartsLesson(e, l) == lessonRow[e][l].status = "none" /\ status[e] = "active"

(* Mutant of LessonStartKeys: the event is emitted without the row.        *)
LessonStartKeysAlways(e, l) == {<<"lesson-started", e, l>>}

LessonStartKeys(e, l) ==
  {k \in {<<"lesson-started", e, l>>} : StartsLesson(e, l)}

StartLesson(e, l) ==
  LET c == CourseOf[l]
  IN /\ MayRecord(e, l)
     /\ courseRow' = [courseRow EXCEPT ![e] = WithCourseRow(e, c)]
     /\ lessonRow' =
          IF StartsLesson(e, l)
          THEN [lessonRow EXCEPT ![e][l].status = "in_progress",
                                 ![e][l].version = ResolvedVersion(e, c)]
          ELSE lessonRow
     /\ events' = events \cup CourseStartKeys(e, c) \cup LessonStartKeys(e, l)
     /\ UNCHANGED <<catalogVars, settingVars, status, pin, evidenceVars, credentials>>

(* Mutant of SequenceMet: an earlier lesson need only be started.          *)
SequenceStarted(e, l) ==
  LET c == CourseOf[l]
  IN c \in SequencedCourses =>
       \A k \in EarlierRequired(Snapshot(ResolvedVersion(e, c)), l) :
         lessonRow[e][k].status # "none"

(* courses.enforce_sequence: the required lessons before l are finished.   *)
SequenceMet(e, l) ==
  LET c == CourseOf[l]
  IN c \in SequencedCourses =>
       EarlierRequired(Snapshot(ResolvedVersion(e, c)), l) \subseteq Done(lessonRow[e])

(* Completing a finished lesson again passes the same checks and writes    *)
(* nothing: a stuttering step.                                             *)
CompleteLesson(e, l) ==
  LET c == CourseOf[l]
  IN /\ MayRecord(e, l)
     /\ ~AssessmentOwed(e, l)
     /\ ~PracticalOwed(e, l)
     /\ SequenceMet(e, l)
     /\ lessonRow[e][l].status \notin Finished
     /\ status[e] = "active"
     /\ EvaluateCourse(e, c, WithCourseRow(e, c), WithLessonCompleted(e, l),
                       CourseStartKeys(e, c) \cup {<<"lesson-completed", e, l>>}, {})
     /\ UNCHANGED <<catalogVars, settingVars, evidenceVars>>

(* Mutant of OverrideProgress: the cascade is not run.                     *)
OverrideWithoutCascade(e, l, s) ==
  /\ status[e] # "none"
  /\ InPinnedVersion(e, l)
  /\ courseRow' = [courseRow EXCEPT ![e] = WithCourseRow(e, CourseOf[l])]
  /\ lessonRow' = [lessonRow EXCEPT
       ![e][l] = [status |-> s, version |-> ResolvedVersion(e, CourseOf[l]),
                  overridden |-> TRUE]]
  /\ UNCHANGED <<catalogVars, settingVars, status, pin, evidenceVars, credentials, events>>

(* Neither the enrollment's status nor its coverage is asked for.  The     *)
(* progress-overridden key carries a timestamp, so it is always new and    *)
(* left out of `events'.                                                   *)
OverrideProgress(e, l, s) ==
  LET c == CourseOf[l]
  IN /\ s \in Finished
     /\ status[e] # "none"
     /\ InPinnedVersion(e, l)
     /\ EvaluateCourse(e, c, WithCourseRow(e, c),
          [lessonRow[e] EXCEPT
             ![l].status = s,
             ![l].version = IF @ = NoVersion THEN ResolvedVersion(e, c) ELSE @,
             ![l].overridden = TRUE],
          {}, {})
     /\ UNCHANGED <<catalogVars, settingVars, evidenceVars>>

-----------------------------------------------------------------------------

(* Nothing writes the status `abandoned', which would not count.           *)
AttemptLeft(e, a) ==
  a \in Limited => counted[e][a] < MaxAttempts[a]

(* Attempts at the grain progress depends on: open from the start to the   *)
(* finalization, by submission or by review, in the learner's favour or    *)
(* not.  A cooldown and an available_from only postpone a start, and are   *)
(* left out; a maximum and an available_until end the starts.              *)
StartAttempt(e, a) ==
  /\ a \in openAssignments \ over
  /\ MemberOf[e] \in activeMembers
  /\ status[e] = "active"
  /\ Covers(e, CourseOf[AssignedTo[a]])
  /\ attempt[e][a] \in {"none", "unpassed"}
  /\ AttemptLeft(e, a)
  /\ attempt' = [attempt EXCEPT ![e][a] = "open"]
  /\ counted' = IF a \in Limited THEN [counted EXCEPT ![e][a] = @ + 1] ELSE counted
  /\ UNCHANGED <<catalogVars, settingVars, enrollmentVars, evaluations, credentials,
                 events>>

EndAttemptUnpassed(e, a) ==
  /\ attempt[e][a] = "open"
  /\ attempt' = [attempt EXCEPT ![e][a] = "unpassed"]
  /\ UNCHANGED <<catalogVars, settingVars, enrollmentVars, counted, evaluations,
                 credentials, events>>

(* apply_assessment_outcome for an assignment that completes its lesson    *)
(* when the pin chain resolves, and for the others.                        *)
PassCompletingAttempt(e, a) ==
  LET l == AssignedTo[a]
      c == CourseOf[l]
  IN /\ a \in Completing /\ InPinnedVersion(e, l)
     /\ EvaluateCourse(e, c, WithCourseRow(e, c), WithLessonCompleted(e, l),
          {<<"assessment-completion", e, a>>, <<"lesson-completed", e, l>>},
          CertificatesFor(a))

PassOtherAttempt(e, a) ==
  LET l == AssignedTo[a]
      c == CourseOf[l]
      issued == NewCredentials(CertificatesFor(a), MemberOf[e], e)
  IN /\ ~(a \in Completing /\ InPinnedVersion(e, l))
     /\ courseRow' =
          IF a \in Completing /\ ResolvedVersion(e, c) # NoVersion
          THEN [courseRow EXCEPT ![e] = WithCourseRow(e, c)] ELSE courseRow
     /\ credentials' = credentials \cup issued
     /\ events' = events \cup IssueKeys(issued)
     /\ UNCHANGED <<status, pin, lessonRow>>

PassAttempt(e, a) ==
  /\ attempt[e][a] = "open"
  /\ attempt' = [attempt EXCEPT ![e][a] = "passed"]
  /\ PassCompletingAttempt(e, a) \/ PassOtherAttempt(e, a)
  /\ UNCHANGED <<catalogVars, settingVars, counted, evaluations>>

SetAssignmentStatus(a) ==
  /\ openAssignments' = IF a \in openAssignments THEN openAssignments \ {a}
                        ELSE openAssignments \cup {a}
  /\ UNCHANGED <<catalogVars, activeMembers, over, enrollmentVars, evidenceVars,
                 credentials, events>>

(* now() passes available_until, which nothing in the code moves.          *)
WindowEnds(a) ==
  /\ a \in Windowed \ over
  /\ over' = over \cup {a}
  /\ UNCHANGED <<catalogVars, activeMembers, openAssignments, enrollmentVars,
                 evidenceVars, credentials, events>>

(* The evaluator's write path; practical_evaluations_one_passed admits one *)
(* pass per enrollment and requirement.                                    *)
RecordPractical(e, l, result) ==
  LET c == CourseOf[l]
  IN /\ l \in PracticalLessons
     /\ result \in {"passed", "unpassed"}
     /\ status[e] \in Live
     /\ Covers(e, c)
     /\ courseRow[e][c].status # "none"
     /\ InPinnedVersion(e, l)
     /\ EarlierRequired(Snapshot(courseRow[e][c].version), l) \subseteq Done(lessonRow[e])
     /\ result = "passed" => <<e, l, "passed">> \notin evaluations
     /\ evaluations' = evaluations \cup {<<e, l, result>>}
     /\ \/ /\ result = "passed"
           /\ EvaluateCourse(e, c, courseRow[e], WithLessonCompleted(e, l),
                             {<<"lesson-completed", e, l>>}, {})
        \/ /\ result # "passed"
           /\ UNCHANGED <<enrollmentVars, credentials, events>>
     /\ UNCHANGED <<catalogVars, settingVars, attempt, counted>>

-----------------------------------------------------------------------------
(* issue_credential raises where an unrevoked credential exists.           *)
IssueCredential(k, m) ==
  LET issued == NewCredentials({k}, m, NoEnrollment)
  IN /\ m \in activeMembers
     /\ issued # {}
     /\ credentials' = credentials \cup issued
     /\ events' = events \cup IssueKeys(issued)
     /\ UNCHANGED <<catalogVars, settingVars, enrollmentVars, evidenceVars>>

RevokeCredential(x) ==
  /\ x \in credentials
  /\ credentials' = credentials \ {x}
  /\ UNCHANGED <<catalogVars, settingVars, enrollmentVars, evidenceVars, events>>

(* set_membership_status on a learner's membership: suspend or reactivate. *)
SetMembershipStatus(m) ==
  /\ activeMembers' = IF m \in activeMembers THEN activeMembers \ {m}
                      ELSE activeMembers \cup {m}
  /\ UNCHANGED <<catalogVars, openAssignments, over, enrollmentVars, evidenceVars,
                 credentials, events>>

Authoring == CatalogNext /\ UNCHANGED <<settingVars, enrollmentVars, evidenceVars,
                                        credentials, events>>

Learning(e) ==
  \/ CreateEnrollment(e)
  \/ \E s \in {"active", "withdrawn", "expired"} : SetEnrollmentStatus(e, s)
  \/ \E l \in Lessons : StartLesson(e, l) \/ CompleteLesson(e, l)
  \/ \E l \in Lessons, s \in Finished : OverrideProgress(e, l, s)
  \/ \E a \in Assignments :
       StartAttempt(e, a) \/ PassAttempt(e, a) \/ EndAttemptUnpassed(e, a)
  \/ \E l \in PracticalLessons, r \in {"passed", "unpassed"} :
       RecordPractical(e, l, r)

Next ==
  \/ Authoring
  \/ \E e \in Enrollments : Learning(e)
  \/ \E a \in Assignments : SetAssignmentStatus(a) \/ WindowEnds(a)
  \/ \E m \in Members : SetMembershipStatus(m)
  \/ \E k \in Certificates, m \in Members : IssueCredential(k, m)
  \/ \E x \in credentials : RevokeCredential(x)

Spec == Init /\ [][Next]_vars

-----------------------------------------------------------------------------
CourseRows ==
  [status : {"none", "in_progress", "completed"}, version : Version \cup {NoVersion}]

LessonRows ==
  [status : {"none", "in_progress"} \cup Finished,
   version : Version \cup {NoVersion}, overridden : BOOLEAN]

Credentials ==
  [certificate : Certificates, member : Members,
   enrollment : Enrollments \cup {NoEnrollment}]

EventKinds ==
  {"enrollment-created", "course-started", "lesson-started", "lesson-completed",
   "assessment-completion", "course-completed", "enrollment-completed",
   "path-completed", "credential-issued"}

EventKeys ==
  EventKinds \X (Enrollments \cup Certificates)
             \X (Targets \cup Lessons \cup Assignments \cup Members)

TypeOK ==
  /\ CatalogTypeOK
  /\ activeMembers \subseteq Members
  /\ openAssignments \subseteq Assignments /\ over \subseteq Windowed
  /\ status \in [Enrollments -> {"none", "withdrawn", "expired"} \cup Live]
  /\ pin \in [Enrollments -> Version \cup {NoVersion}]
  /\ courseRow \in [Enrollments -> [Courses -> CourseRows]]
  /\ lessonRow \in [Enrollments -> [Lessons -> LessonRows]]
  /\ attempt \in [Enrollments -> [Assignments -> {"none", "open", "passed", "unpassed"}]]
  /\ counted \in [Enrollments -> [Limited -> Nat]]
  /\ evaluations \subseteq
       Enrollments \X PracticalLessons \X {"passed", "unpassed"}
  /\ credentials \subseteq Credentials
  /\ events \subseteq EventKeys

(* Evidence names the version the learner was given: the course row of a   *)
(* course enrollment carries the version pinned at enrollment, and every   *)
(* lesson row the version of its course row, which contains the lesson.    *)
(* (enrollment-and-progress.md: a learner can never record progress against *)
(* a version they were not assigned.)                                      *)
PinsAgree ==
  \A e \in Enrollments :
    /\ \A c \in Courses :
         courseRow[e][c].status # "none" /\ TargetOf[e] \in Courses =>
           TargetOf[e] = c /\ courseRow[e][c].version = pin[e]
    /\ \A l \in Lessons :
         lessonRow[e][l].status # "none" =>
           LET row == courseRow[e][CourseOf[l]]
           IN /\ row.status # "none"
              /\ lessonRow[e][l].version = row.version
              /\ l \in LessonsOf(Snapshot(row.version))

(* A course is completed exactly when the pinned version's rule is met: no *)
(* writer of lesson progress completes a course early, and none leaves a   *)
(* course open whose last required lesson it finished.                     *)
CompletionExact ==
  \A e \in Enrollments, c \in Courses :
    courseRow[e][c].status # "none" =>
      (courseRow[e][c].status = "completed" <=>
         RuleMet(Snapshot(courseRow[e][c].version), Done(lessonRow[e])))

(* The analytics events tell what the tables hold: a course is announced   *)
(* completed exactly when its row is, a lesson only when it is finished, and *)
(* no enrollment is completed without its completion having been announced. *)
EventsTruthful ==
  \A e \in Enrollments :
    /\ \A c \in Courses :
         <<"course-completed", e, c>> \in events <=> courseRow[e][c].status = "completed"
    /\ \A l \in Lessons :
         /\ <<"lesson-completed", e, l>> \in events => lessonRow[e][l].status \in Finished
         /\ <<"lesson-started", e, l>> \in events => lessonRow[e][l].status # "none"
    /\ status[e] = "completed" =>
         \/ <<"enrollment-completed", e, TargetOf[e]>> \in events
         \/ <<"path-completed", e, TargetOf[e]>> \in events

(* A credential that cites an enrollment was earned by it: the enrollment  *)
(* is the member's own and completed the course, announced the path or     *)
(* passed the assignment the certificate is for; and no member holds two   *)
(* unrevoked credentials of one certificate.                               *)
CredentialsEarned ==
  /\ \A x \in credentials :
       x.enrollment # NoEnrollment =>
         LET e == x.enrollment
             source == CertificateSource[x.certificate]
         IN /\ MemberOf[e] = x.member
            /\ \/ source \in CompletedCourses(courseRow[e])
               \/ source = TargetOf[e] /\ <<"path-completed", e, source>> \in events
               \/ source \in Assignments /\ attempt[e][source] = "passed"
  /\ \A x, y \in credentials :
       x.certificate = y.certificate /\ x.member = y.member => x = y

(* In a course with enforce_sequence, a finished lesson that nobody        *)
(* overrode and no assessment completed has every required lesson before it *)
(* finished, whichever of the learner and the evaluator came first.        *)
SequenceRespected ==
  \A e \in Enrollments, l \in Lessons :
    /\ CourseOf[l] \in SequencedCourses
    /\ lessonRow[e][l].status \in Finished
    /\ ~lessonRow[e][l].overridden
    /\ \A a \in Completing : AssignedTo[a] = l => attempt[e][a] # "passed"
    => EarlierRequired(Snapshot(lessonRow[e][l].version), l) \subseteq Done(lessonRow[e])

(* Prerequisites lock a learner out only by a cycle: while a path whose    *)
(* prerequisites have none has a course the learner has not completed, one *)
(* such course has all its prerequisites completed, whatever was added and *)
(* removed meanwhile.  It rests on edges leaving with their nodes.         *)
PathNeverLocked ==
  \A e \in Enrollments :
    LET p == TargetOf[e]
        left == nodes[p] \ CompletedCourses(courseRow[e])
    IN p \in Paths /\ AcyclicEdges(prereq[p]) /\ left # {} =>
         \E c \in left : PrerequisitesMet(e, c)

(* Evidence is permanent: finished lessons, completed courses and the      *)
(* versions they are pinned to stay, and a completed enrollment keeps its  *)
(* status.                                                                 *)
EvidenceKept ==
  [][\A e \in Enrollments :
       /\ Done(lessonRow[e]) \subseteq Done(lessonRow'[e])
       /\ CompletedCourses(courseRow[e]) \subseteq CompletedCourses(courseRow'[e])
       /\ \A c \in Courses :
            courseRow[e][c].status # "none" =>
              courseRow'[e][c].version = courseRow[e][c].version
       /\ status[e] = "completed" => status'[e] = "completed"]_vars

(* All that an enrollment asks for: its course, or every course of its     *)
(* path.                                                                   *)
TargetDone(e) ==
  (IF TargetOf[e] \in Paths THEN nodes[TargetOf[e]] ELSE {TargetOf[e]})
    \subseteq CompletedCourses(courseRow[e])

(* The cascade is part of the step that earns it: an enrollment becomes    *)
(* completed exactly in a step that completes a course of it and leaves its *)
(* target done, provided the enrollment was active.                        *)
CascadeAtomic ==
  [][\A e \in Enrollments :
       status[e] = "active" =>
         (status'[e] = "completed" <=>
            /\ CompletedCourses(courseRow'[e]) # CompletedCourses(courseRow[e])
            /\ TargetDone(e)')]_vars

(* As the documents describe completion (enrollment-and-progress.md, the   *)
(* completion cascade): no active enrollment has a target that is done,    *)
(* where the target asks for anything at all.                              *)
ActiveIsUnfinished ==
  \A e \in Enrollments :
    status[e] = "active" /\ TargetDone(e) =>
      TargetOf[e] \in Paths /\ nodes[TargetOf[e]] = {}

(* As the documents describe enrollment.learner.completed: it is announced *)
(* of enrollments that are completed.                                      *)
CompletedWhenAnnounced ==
  \A e \in Enrollments :
    <<"enrollment-completed", e, TargetOf[e]>> \in events => status[e] = "completed"

(* As certificates-and-credentials.md describes issuance: a real insert    *)
(* emits credential.certificate.issued.                                    *)
IssuanceAnnounced ==
  [][\A x \in credentials' \ credentials :
       <<"credential-issued", x.certificate, x.member>> \in events' \ events]_vars

(* As practical_evaluation_foundation describes practical requirements: an *)
(* evaluator records a pass before the lesson can complete (an override is *)
(* the audited exception).                                                 *)
PracticalWithholds ==
  \A e \in Enrollments, l \in PracticalLessons :
    lessonRow[e][l].status = "completed" /\ ~lessonRow[e][l].overridden =>
      <<e, l, "passed">> \in evaluations

(* As prerequisites-and-unlocks.md describes the database gate: a course of *)
(* a path is not started by its learner before its prerequisites are       *)
(* completed (again but for overrides).                                    *)
PrerequisitesGate ==
  [][\A e \in Enrollments, l \in Lessons :
       /\ lessonRow[e][l].status = "none" /\ lessonRow'[e][l].status # "none"
       /\ ~lessonRow'[e][l].overridden
       => PrerequisitesMet(e, CourseOf[l])]_vars
=============================================================================
