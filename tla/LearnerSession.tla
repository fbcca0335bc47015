--------------------------- MODULE LearnerSession ---------------------------
(***************************************************************************)
(* The lesson pages of learners in open tabs, and recordProgressAction     *)
(* behind them, over the rows of LearningProgress.                         *)
(*                                                                         *)
(* A page load and the action read the same rows with the same queries,    *)
(* one after another and outside any transaction (getEnrolledCourse), so   *)
(* every read is a step of its own and every other actor may write between *)
(* two of them.  The action then calls record_lesson_progress, which is    *)
(* one transaction: StartLesson or CompleteLesson of LearningProgress.     *)
(* An action that succeeded revalidates the page, which reads it again.    *)
(*                                                                         *)
(* A tab makes one request at a time: the button is disabled while one is  *)
(* pending.  MaxOpens bounds the page loads of a tab.                      *)
(***************************************************************************)
EXTENDS LearnerAccess

CONSTANTS Tabs, MaxOpens, NoLesson

VARIABLES
  page,      \* the lesson page each tab shows
  request,   \* the request each tab waits for, and what its reads returned
  opens      \* page loads left to each tab

sessionVars == <<page, request, opens>>
allVars == <<vars, sessionVars>>

(* A row the learner may read: can_access_course.                          *)
CanAccess(m, c) ==
  /\ m \in activeMembers
  /\ \E f \in Enrollments : MemberOf[f] = m /\ status[f] \in Live /\ Covers(f, c)

(* path_nodes are readable while the path is active.                       *)
NodeVisible(e, c) ==
  TargetOf[e] \in Paths =>
    /\ MemberOf[e] \in activeMembers
    /\ TargetOf[e] \in open
    /\ c \in nodes[TargetOf[e]]

ClosedPage ==
  [shown |-> "nothing", e |-> NoEnrollment, l |-> NoLesson, version |-> NoVersion,
   completed |-> FALSE, gated |-> FALSE, started |-> FALSE, just |-> FALSE]

Quiet ==
  [kind |-> "none", at |-> "none", e |-> NoEnrollment, l |-> NoLesson,
   status |-> "none", version |-> NoVersion, done |-> {}, just |-> FALSE]

(* Every request begins with the reads of getEnrolledCourse.               *)
Asked(kind, e, l, just) ==
  [kind |-> kind, at |-> "enrollment", e |-> e, l |-> l,
   status |-> "none", version |-> NoVersion, done |-> {}, just |-> just]

Asks(t, r) == request' = [request EXCEPT ![t] = r]

Shows(t, p) == page' = [page EXCEPT ![t] = p]

(* A load is answered with another page, the action with a message.        *)
Refused(t) ==
  /\ Asks(t, Quiet)
  /\ page' = IF request[t].kind \in {"open", "refresh"}
             THEN [page EXCEPT ![t] = ClosedPage] ELSE page

SessionInit ==
  /\ Init
  /\ page = [t \in Tabs |-> ClosedPage]
  /\ request = [t \in Tabs |-> Quiet]
  /\ opens = [t \in Tabs |-> MaxOpens]

-----------------------------------------------------------------------------
(* The learner follows a link to a lesson, from wherever the tab is.       *)
OpenLesson(t, e, l) ==
  /\ request[t] = Quiet
  /\ opens[t] > 0
  /\ opens' = [opens EXCEPT ![t] = @ - 1]
  /\ Asks(t, Asked("open", e, l, FALSE))
  /\ UNCHANGED <<vars, page>>

(* LessonActions records the start once, when it is mounted unfinished.    *)
StartEffect(t) ==
  LET p == page[t]
  IN /\ request[t] = Quiet
     /\ p.shown = "lesson" /\ ~p.completed /\ ~p.started
     /\ Asks(t, Asked("start", p.e, p.l, FALSE))
     /\ Shows(t, [p EXCEPT !.started = TRUE])
     /\ UNCHANGED <<vars, opens>>

(* "Mark complete", disabled until the start has been answered.            *)
MarkComplete(t) ==
  LET p == page[t]
  IN /\ request[t] = Quiet
     /\ p.shown = "lesson" /\ p.started
     /\ ~p.completed /\ ~p.just /\ ~p.gated
     /\ Asks(t, Asked("complete", p.e, p.l, FALSE))
     /\ UNCHANGED <<vars, page, opens>>

-----------------------------------------------------------------------------
(* requireOrgContext and the enrollment, which must be the member's own.   *)
ReadEnrollment(t) ==
  LET r == request[t]
  IN /\ r.at = "enrollment"
     /\ \/ /\ MemberOf[r.e] \in activeMembers /\ status[r.e] # "none"
           /\ Asks(t, [r EXCEPT !.at = "coverage", !.status = status[r.e],
                                !.version = pin[r.e]])
           /\ UNCHANGED page
        \/ /\ MemberOf[r.e] \notin activeMembers \/ status[r.e] = "none"
           /\ Refused(t)
     /\ UNCHANGED <<vars, opens>>

(* covers: the course of the enrollment, or a node of its path.            *)
ReadCoverage(t) ==
  LET r == request[t]
      covered == /\ TargetOf[r.e] \in Courses => TargetOf[r.e] = CourseOf[r.l]
                 /\ NodeVisible(r.e, CourseOf[r.l])
  IN /\ r.at = "coverage"
     /\ \/ covered /\ Asks(t, [r EXCEPT !.at = "progress"]) /\ UNCHANGED page
        \/ ~covered /\ Refused(t)
     /\ UNCHANGED <<vars, opens>>

(* coursePin?.course_version_id ?? enrollment.pinned_course_version_id     *)
PinRead(r, row) == IF row.status # "none" THEN row.version ELSE r.version

(* One query returns the course row and the lesson rows.                   *)
ReadProgress(t) ==
  LET r == request[t]
      c == CourseOf[r.l]
  IN /\ r.at = "progress"
     /\ Asks(t, [r EXCEPT !.at = "version",
                          !.version = PinRead(r, courseRow[r.e][c]),
                          !.done = {l \in Done(lessonRow[r.e]) : CourseOf[l] = c}])
     /\ UNCHANGED <<vars, page, opens>>

(* Mutant of VersionRead: the current version, whatever is pinned.         *)
VersionReadLatest(r) ==
  IF CanAccess(MemberOf[r.e], CourseOf[r.l]) THEN Current(CourseOf[r.l]) ELSE NoVersion

(* The version the reads resolve to: the current one where nothing is      *)
(* pinned, if the learner may read it.                                     *)
VersionRead(r) ==
  LET c == CourseOf[r.l]
  IN IF ~CanAccess(MemberOf[r.e], c) THEN NoVersion
     ELSE IF r.version = NoVersion THEN Current(c) ELSE r.version

(* Mutant of Accessible: any enrolled learner may open any lesson.         *)
AccessibleUnlocked(r, v) ==
  /\ v # NoVersion
  /\ r.l \in LessonsOf(Snapshot(v))
  /\ AccessTo(r.status, Snapshot(v), r.done, r.l) # "not_enrolled"

Accessible(r, v) ==
  /\ v # NoVersion
  /\ r.l \in LessonsOf(Snapshot(v))
  /\ AccessTo(r.status, Snapshot(v), r.done, r.l) \in {"available", "completed"}

LockedPage(r) == [ClosedPage EXCEPT !.shown = "locked", !.e = r.e, !.l = r.l]

(* version_unavailable, a lesson outside the version, or its access state. *)
ReadVersion(t) ==
  LET r == request[t]
      v == VersionRead(r)
  IN /\ r.at = "version"
     /\ \/ /\ Accessible(r, v)
           /\ Asks(t, [r EXCEPT !.version = v,
                                !.at = IF r.kind \in {"open", "refresh"}
                                       THEN "gates" ELSE "write"])
           /\ UNCHANGED page
        \/ /\ ~Accessible(r, v)
           /\ v # NoVersion /\ r.l \in LessonsOf(Snapshot(v))
           /\ r.kind \in {"open", "refresh"}
           /\ Asks(t, Quiet)
           /\ Shows(t, LockedPage(r))
        \/ /\ ~Accessible(r, v)
           /\ \/ v = NoVersion
              \/ v # NoVersion /\ r.l \notin LessonsOf(Snapshot(v))
              \/ r.kind \notin {"open", "refresh"}
           /\ Refused(t)
     /\ UNCHANGED <<vars, opens>>

(* Mutant of PageRead: the page forgets what the refreshed rows say.       *)
PageReadOptimistic(t, r) ==
  [shown |-> "lesson", e |-> r.e, l |-> r.l, version |-> r.version,
   completed |-> r.l \in r.done \/ r.kind = "refresh", gated |-> FALSE,
   started |-> r.kind = "refresh", just |-> r.just]

(* The page rendered from what was read.  A refresh keeps the state of the *)
(* mounted component, a load begins it anew.                               *)
PageRead(t, r) ==
  [shown |-> "lesson", e |-> r.e, l |-> r.l, version |-> r.version,
   completed |-> r.l \in r.done,
   gated |-> /\ CanAccess(MemberOf[r.e], CourseOf[r.l])
             /\ AssessmentGated(r.e, r.l) \/ PracticalGated(r.e, r.l),
   started |-> r.kind = "refresh" /\ page[t].started,
   just |-> r.kind = "refresh" /\ (page[t].just \/ r.just)]

(* The frozen lesson, getLessonAssessments and getLessonPractical; then    *)
(* the page is sent.  Of a learner who lost access since, the lesson is    *)
(* unavailable or, where that came after it was read, its gates are.       *)
ReadGates(t) ==
  LET r == request[t]
  IN /\ r.at = "gates"
     /\ Asks(t, Quiet)
     /\ \/ Shows(t, PageRead(t, r))
        \/ ~CanAccess(MemberOf[r.e], CourseOf[r.l]) /\ Shows(t, ClosedPage)
     /\ UNCHANGED <<vars, opens>>

(* What record_lesson_progress accepts: a finished lesson is complete      *)
(* again, and only an active enrollment completes another.                 *)
Acceptable(r) ==
  /\ MayRecord(r.e, r.l)
  /\ r.kind = "complete" =>
       /\ ~AssessmentOwed(r.e, r.l) /\ ~PracticalOwed(r.e, r.l) /\ SequenceMet(r.e, r.l)
       /\ lessonRow[r.e][r.l].status \in Finished \/ status[r.e] = "active"

WriteProgress(r) ==
  \/ r.kind = "start" /\ StartLesson(r.e, r.l)
  \/ r.kind = "complete" /\ CompleteLesson(r.e, r.l)
  \/ /\ r.kind = "complete" /\ lessonRow[r.e][r.l].status \in Finished
     /\ UNCHANGED vars

(* The RPC.  An accepted action revalidates: the page is read again.       *)
Write(t) ==
  LET r == request[t]
  IN /\ r.at = "write"
     /\ \/ /\ Acceptable(r)
           /\ WriteProgress(r)
           /\ Asks(t, Asked("refresh", r.e, r.l, r.kind = "complete"))
           /\ UNCHANGED page
        \/ /\ ~Acceptable(r)
           /\ UNCHANGED vars
           /\ Refused(t)
     /\ UNCHANGED opens

(* The connection fails, before the request is served or after: the error  *)
(* page replaces the lesson, and its learner does not know which.          *)
Lose(t) ==
  /\ request[t] # Quiet
  /\ Asks(t, Quiet)
  /\ Shows(t, ClosedPage)
  /\ UNCHANGED <<vars, opens>>

Serve(t) ==
  \/ ReadEnrollment(t) \/ ReadCoverage(t) \/ ReadProgress(t)
  \/ ReadVersion(t) \/ ReadGates(t) \/ Write(t)

(* What everybody else does meanwhile, and the learner on another device:  *)
(* any step of LearningProgress.                                           *)
Meanwhile == Next /\ UNCHANGED sessionVars

SessionNext ==
  \/ Meanwhile
  \/ \E t \in Tabs :
       \/ \E e \in Enrollments, l \in Lessons : OpenLesson(t, e, l)
       \/ StartEffect(t) \/ MarkComplete(t)
       \/ Serve(t) \/ Lose(t)

SessionSpec == SessionInit /\ [][SessionNext]_allVars

-----------------------------------------------------------------------------
Pages ==
  [shown : {"nothing", "locked", "lesson"}, e : Enrollments \cup {NoEnrollment},
   l : Lessons \cup {NoLesson}, version : Version \cup {NoVersion},
   completed : BOOLEAN, gated : BOOLEAN, started : BOOLEAN, just : BOOLEAN]

Requests ==
  [kind : {"none", "open", "start", "complete", "refresh"},
   at : {"none", "enrollment", "coverage", "progress", "version", "gates", "write"},
   e : Enrollments \cup {NoEnrollment}, l : Lessons \cup {NoLesson},
   status : {"none", "withdrawn", "expired"} \cup Live,
   version : Version \cup {NoVersion}, done : SUBSET Lessons, just : BOOLEAN]

SessionTypeOK ==
  /\ TypeOK
  /\ page \in [Tabs -> Pages]
  /\ request \in [Tabs -> Requests]
  /\ opens \in [Tabs -> 0..MaxOpens]
  /\ \A t \in Tabs :
       request[t].kind # "none" => request[t].e \in Enrollments /\ request[t].l \in Lessons

(* What the learner is told is so: a page that says its lesson is complete, *)
(* because the rows said so or because the action answered ok, shows one   *)
(* that is finished, whatever was read when and whichever answer was lost. *)
CompleteIsTrue ==
  \A t \in Tabs :
    page[t].completed \/ page[t].just =>
      lessonRow[page[t].e][page[t].l].status \in Finished

(* A page that says its lesson is complete shows the version the evidence  *)
(* is recorded against ("Load the EXACT pinned lesson version (never       *)
(* latest)"), although the version is read before the page is and the pin  *)
(* may be set, and newer versions published, in between.                   *)
PagePinned ==
  \A t \in Tabs :
    LET p == page[t]
        row == courseRow[p.e][CourseOf[p.l]]
    IN p.completed \/ p.just => row.status # "none" /\ p.version = row.version

(* The completions of a lesson page keep the order of the version they are *)
(* recorded against, in a course that enforces no sequence too: "sequence  *)
(* gating runs HERE through the single domain computation", in the action, *)
(* before and apart from the transaction that writes.  Of enrollments in a *)
(* course: the version of a path's course may still be chosen in between.  *)
LearnersKeepOrder ==
  [][\A e \in Enrollments, l \in Lessons :
       /\ TargetOf[e] \in Courses
       /\ lessonRow[e][l].status \notin Finished /\ lessonRow'[e][l].status \in Finished
       /\ request' # request
       => EarlierRequired(Snapshot(lessonRow'[e][l].version), l) \subseteq Done(lessonRow[e])]_allVars
=============================================================================
