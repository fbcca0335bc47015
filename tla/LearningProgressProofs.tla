----------------------- MODULE LearningProgressProofs -----------------------
(***************************************************************************)
(* Theorems about LearningCatalog, of its own specification, about         *)
(* LearningProgress and about LearnerSession, for every curriculum, every  *)
(* pool of enrollments and every set of assignments and certificates.      *)
(* Nothing bounds the authors who edit prerequisites at once.              *)
(* The rows of progress come in four parts: PinsInv, the inductive         *)
(* invariant that relates rows, pins and published versions; the kinds of  *)
(* step that write them (RowsQuiet, Opens, Finishes); what each kind keeps *)
(* of the five properties about rows, credentials and events; and what the *)
(* pages show, whose loop is unfolded by the least-number principle.       *)
(***************************************************************************)
EXTENDS LearnerSession, FiniteSetTheorems, WellFoundedInduction, TLAPS

-----------------------------------------------------------------------------
(* Current is a version number of its course, or null.                     *)
LEMMA CurrentType ==
  ASSUME CatalogTypeOK, NEW c \in Courses
  PROVE  /\ Current(c) \in Version \cup {NoVersion}
         /\ Current(c) # NoVersion =>
              Current(c)[1] = c /\ Current(c)[2] \in 1..Len(published[c])
<1>1. published[c] \in Seq(Structures)
  BY DEF CatalogTypeOK
<1>2. published[c] # <<>> => Len(published[c]) \in Nat \ {0}
  BY <1>1
<1> QED
  BY <1>1, <1>2 DEF Current, Version

(* No operation of the catalog leaves its types.                           *)
LEMMA CatalogTypeStep ==
  CatalogTypeOK /\ [CatalogNext]_catalogVars => CatalogTypeOK'
<1> SUFFICES ASSUME CatalogTypeOK, [CatalogNext]_catalogVars
             PROVE  CatalogTypeOK'
  OBVIOUS
<1> USE DEF CatalogTypeOK
<1>1. ASSUME NEW s \in Structures, PublishCourse(s)
      PROVE  CatalogTypeOK'
  <2>1. s.course \in Courses
    BY CatalogAssumption DEF IsStructure
  <2>2. Append(published[s.course], s) \in Seq(Structures)
    BY <2>1
  <2> QED
    BY <1>1, <2>1, <2>2 DEF PublishCourse
<1>2. ASSUME NEW t \in Targets, CloseTarget(t) \/ OpenTarget(t)
      PROVE  CatalogTypeOK'
  BY <1>2 DEF CloseTarget, OpenTarget
<1>3. ASSUME NEW p \in Paths, NEW c \in Courses,
             AddPathNode(p, c) \/ RemovePathNode(p, c)
      PROVE  CatalogTypeOK'
  BY <1>3 DEF AddPathNode, RemovePathNode
<1>4. ASSUME NEW p \in Paths, NEW n \in Courses, NEW r \in Courses,
             CheckPrerequisite(p, n, r)
      PROVE  CatalogTypeOK'
  BY <1>4 DEF CheckPrerequisite, Insert, Edges
<1>5. ASSUME NEW x \in inFlight, CommitPrerequisite(x) \/ AbortPrerequisite(x)
      PROVE  CatalogTypeOK'
  BY <1>5 DEF CommitPrerequisite, AbortPrerequisite
<1>6. ASSUME NEW p \in Paths, NEW x \in Edges, RemovePrerequisite(p, x)
      PROVE  CatalogTypeOK'
  BY <1>6 DEF RemovePrerequisite
<1>7. CASE UNCHANGED catalogVars
  BY <1>7 DEF catalogVars
<1> QED
  BY <1>1, <1>2, <1>3, <1>4, <1>5, <1>6, <1>7 DEF CatalogNext

(* Every value of the catalog's variables is of the shape its tables give. *)
THEOREM CatalogTypeCorrect == CatalogSpec => []CatalogTypeOK
<1>1. CatalogInit => CatalogTypeOK
  BY DEF CatalogInit, CatalogTypeOK, Targets
<1> QED
  BY <1>1, CatalogTypeStep, PTL DEF CatalogSpec

-----------------------------------------------------------------------------
(* No edge ever outlives one of its nodes.                                 *)
THEOREM EdgesAlwaysJoinNodes == CatalogSpec => []EdgesJoinNodes
<1>1. CatalogInit => EdgesJoinNodes
  BY DEF CatalogInit, EdgesJoinNodes
<1>2. CatalogTypeOK /\ EdgesJoinNodes /\ [CatalogNext]_catalogVars => EdgesJoinNodes'
  <2> SUFFICES ASSUME CatalogTypeOK, EdgesJoinNodes, [CatalogNext]_catalogVars
               PROVE  EdgesJoinNodes'
    OBVIOUS
  <2> USE DEF CatalogTypeOK, EdgesJoinNodes
  <2>1. ASSUME NEW s \in Structures, PublishCourse(s)
        PROVE  EdgesJoinNodes'
    BY <2>1 DEF PublishCourse
  <2>2. ASSUME NEW t \in Targets, CloseTarget(t) \/ OpenTarget(t)
        PROVE  EdgesJoinNodes'
    BY <2>2 DEF CloseTarget, OpenTarget
  <2>3. ASSUME NEW p \in Paths, NEW c \in Courses, AddPathNode(p, c)
        PROVE  EdgesJoinNodes'
    BY <2>3 DEF AddPathNode
  <2>4. ASSUME NEW p \in Paths, NEW c \in Courses, RemovePathNode(p, c)
        PROVE  EdgesJoinNodes'
    BY <2>4 DEF RemovePathNode
  <2>5. ASSUME NEW p \in Paths, NEW n \in Courses, NEW r \in Courses,
               CheckPrerequisite(p, n, r)
        PROVE  EdgesJoinNodes'
    BY <2>5 DEF CheckPrerequisite, Insert
  <2>6. ASSUME NEW x \in inFlight, CommitPrerequisite(x)
        PROVE  EdgesJoinNodes'
    BY <2>6 DEF CommitPrerequisite
  <2>7. ASSUME NEW x \in inFlight, AbortPrerequisite(x)
        PROVE  EdgesJoinNodes'
    BY <2>7 DEF AbortPrerequisite
  <2>8. ASSUME NEW p \in Paths, NEW x \in Edges, RemovePrerequisite(p, x)
        PROVE  EdgesJoinNodes'
    BY <2>8 DEF RemovePrerequisite
  <2>9. CASE UNCHANGED catalogVars
    BY <2>9 DEF catalogVars
  <2> QED
    BY <2>1, <2>2, <2>3, <2>4, <2>5, <2>6, <2>7, <2>8, <2>9 DEF CatalogNext
<1> QED
  BY <1>1, <1>2, CatalogTypeCorrect, PTL DEF CatalogSpec

-----------------------------------------------------------------------------
(* Reachability and acyclicity of fewer edges.                             *)
LEMMA FewerEdges ==
  ASSUME NEW E, NEW F, E \subseteq F
  PROVE  /\ AcyclicEdges(F) => AcyclicEdges(E)
         /\ \A r, n : ~Reaches(F, r, n) => ~Reaches(E, r, n)
  BY DEF AcyclicEdges, Reaches

(* What the trigger's check is worth: an edge from n to r closes no cycle  *)
(* among acyclic edges when n is not reachable from r.                     *)
LEMMA NewEdgeAcyclic ==
  ASSUME NEW E, NEW n \in Courses, NEW r \in Courses,
         AcyclicEdges(E), ~Reaches(E, r, n)
  PROVE  AcyclicEdges(E \cup {<<n, r>>})
<1>1. PICK T \in SUBSET Courses :
        r \in T /\ (\A x \in E : x[1] \in T => x[2] \in T) /\ n \notin T
  BY DEF Reaches
<1> SUFFICES ASSUME NEW S \in SUBSET Courses, S # {}
             PROVE  \E m \in S : \A x \in E \cup {<<n, r>>} : x[1] = m => x[2] \notin S
  BY DEF AcyclicEdges
<1>2. CASE S \cap T = {}
  \* then r is not in S, and a sink of S among E has no edge to S
  BY <1>1, <1>2 DEF AcyclicEdges
<1>3. CASE S \cap T # {}
  <2>1. PICK m \in S \cap T : \A x \in E : x[1] = m => x[2] \notin S \cap T
    BY <1>3 DEF AcyclicEdges
  <2>2. \A x \in E : x[1] = m => x[2] \notin S
    BY <1>1, <2>1
  <2>3. m # n
    BY <1>1
  <2> QED
    BY <2>2, <2>3
<1> QED
  BY <1>2, <1>3

(* The inductive invariant behind it: an insert in flight joins no two     *)
(* courses that the edges seen by its check already joined the other way.  *)
InsertsChecked ==
  \A x \in inFlight : ~Reaches(x.seen, x.edge[2], x.edge[1])

LEMMA InsertsCheckedStep ==
  ASSUME InsertsChecked, [CatalogNext]_catalogVars
  PROVE  InsertsChecked'
<1> USE DEF InsertsChecked
<1>1. ASSUME inFlight' \subseteq inFlight
      PROVE  InsertsChecked'
  BY <1>1
<1>2. ASSUME NEW p \in Paths, NEW n \in Courses, NEW r \in Courses,
             CheckPrerequisite(p, n, r)
      PROVE  InsertsChecked'
  BY <1>2 DEF CheckPrerequisite, Insert
<1>3. ASSUME NEW x \in inFlight, CommitPrerequisite(x) \/ AbortPrerequisite(x)
      PROVE  InsertsChecked'
  BY <1>1, <1>3 DEF CommitPrerequisite, AbortPrerequisite
<1>4. CASE \/ \E s \in Structures : PublishCourse(s)
           \/ \E t \in Targets : CloseTarget(t) \/ OpenTarget(t)
           \/ \E p \in Paths, c \in Courses : AddPathNode(p, c) \/ RemovePathNode(p, c)
           \/ \E p \in Paths, x \in Edges : RemovePrerequisite(p, x)
           \/ UNCHANGED catalogVars
  BY <1>1, <1>4
  DEF PublishCourse, CloseTarget, OpenTarget, AddPathNode, RemovePathNode,
      RemovePrerequisite, catalogVars
<1> QED
  BY <1>2, <1>3, <1>4 DEF CatalogNext

(* The step that closes a cycle, and nothing else, commits an edge that    *)
(* its check had too few edges to refuse.                                  *)
LEMMA CycleStep ==
  ASSUME CatalogTypeOK, InsertsChecked, [CatalogNext]_catalogVars, NEW p \in Paths,
         AcyclicEdges(prereq[p]), ~AcyclicEdges(prereq'[p])
  PROVE  \E x \in inFlight \ inFlight' :
           /\ x.path = p /\ x.edge \in prereq'[p] \ prereq[p]
           /\ ~(prereq[p] \subseteq x.seen)
<1>1. ~(prereq'[p] \subseteq prereq[p])
  BY FewerEdges
<1>2. PICK x \in inFlight : CommitPrerequisite(x)
  <2>1. ASSUME NEW q \in Paths, NEW c \in Courses, AddPathNode(q, c) \/ RemovePathNode(q, c)
        PROVE  FALSE
    BY <1>1, <2>1 DEF AddPathNode, RemovePathNode, CatalogTypeOK
  <2>2. ASSUME NEW q \in Paths, NEW x \in Edges, RemovePrerequisite(q, x)
        PROVE  FALSE
    BY <1>1, <2>2 DEF RemovePrerequisite, CatalogTypeOK
  <2>3. CASE \/ \E s \in Structures : PublishCourse(s)
             \/ \E t \in Targets : CloseTarget(t) \/ OpenTarget(t)
             \/ \E q \in Paths, n, r \in Courses : CheckPrerequisite(q, n, r)
             \/ \E x \in inFlight : AbortPrerequisite(x)
             \/ UNCHANGED catalogVars
    BY <1>1, <2>3
    DEF PublishCourse, CloseTarget, OpenTarget, CheckPrerequisite, AbortPrerequisite,
        catalogVars
  <2> QED
    BY <2>1, <2>2, <2>3 DEF CatalogNext
<1>3. /\ x.path \in Paths /\ x.edge \in Edges
      /\ x.edge = <<x.edge[1], x.edge[2]>>
      /\ x.edge[1] \in Courses /\ x.edge[2] \in Courses
  BY DEF CatalogTypeOK, Edges
<1>4. /\ x \in inFlight \ inFlight'
      /\ prereq' = [prereq EXCEPT ![x.path] = @ \cup {x.edge}]
  BY <1>2 DEF CommitPrerequisite
<1>5. x.path = p /\ prereq'[p] = prereq[p] \cup {x.edge}
  BY <1>1, <1>3, <1>4 DEF CatalogTypeOK
<1>6. ASSUME prereq[p] \subseteq x.seen
      PROVE  FALSE
  <2>1. ~Reaches(prereq[p], x.edge[2], x.edge[1])
    BY <1>6, FewerEdges DEF InsertsChecked
  <2>2. AcyclicEdges(prereq[p] \cup {<<x.edge[1], x.edge[2]>>})
    BY <1>3, <2>1, NewEdgeAcyclic
  <2> QED
    BY <1>3, <1>5, <2>2
<1> QED
  BY <1>1, <1>4, <1>5, <1>6

(* However many authors insert and remove prerequisites at once, a cycle   *)
(* is only ever closed by an insert that was overtaken: an edge of the     *)
(* path was committed between its check and its commit.                    *)
THEOREM CyclesAlwaysRaced == CatalogSpec => CyclesOnlyRaced
<1>1. CatalogInit => InsertsChecked
  BY DEF CatalogInit, InsertsChecked
<1>2. InsertsChecked /\ [CatalogNext]_catalogVars => InsertsChecked'
  BY InsertsCheckedStep
<1>3. CatalogTypeOK /\ InsertsChecked /\ [CatalogNext]_catalogVars =>
        [\A p \in Paths :
           AcyclicEdges(prereq[p]) /\ ~AcyclicEdges(prereq[p])' =>
             \E x \in inFlight \ inFlight' :
               /\ x.path = p /\ x.edge \in prereq[p]' \ prereq[p]
               /\ ~(prereq[p] \subseteq x.seen)]_catalogVars
  BY CycleStep
<1> QED
  BY <1>1, <1>2, <1>3, CatalogTypeCorrect, PTL DEF CatalogSpec, CyclesOnlyRaced

(* A step of the platform is one of the catalog or leaves it alone.        *)
LEMMA StepKeepsCatalog ==
  [Next]_vars => [CatalogNext]_catalogVars
<1> SUFFICES ASSUME [Next]_vars
             PROVE  CatalogNext \/ UNCHANGED catalogVars
  OBVIOUS
<1>1. CASE Authoring
  BY <1>1 DEF Authoring
<1>2. ASSUME NEW e \in Enrollments, Learning(e)
      PROVE  UNCHANGED catalogVars
  BY <1>2
  DEF Learning, CreateEnrollment, SetEnrollmentStatus, StartLesson, CompleteLesson,
      OverrideProgress, StartAttempt, PassAttempt, EndAttemptUnpassed, RecordPractical
<1>3. ASSUME NEW a \in Assignments, SetAssignmentStatus(a) \/ WindowEnds(a)
      PROVE  UNCHANGED catalogVars
  BY <1>3 DEF SetAssignmentStatus, WindowEnds
<1>4. ASSUME NEW m \in Members, SetMembershipStatus(m)
      PROVE  UNCHANGED catalogVars
  BY <1>4 DEF SetMembershipStatus
<1>5. ASSUME NEW k \in Certificates, NEW m \in Members, IssueCredential(k, m)
      PROVE  UNCHANGED catalogVars
  BY <1>5 DEF IssueCredential
<1>6. ASSUME NEW x \in credentials, RevokeCredential(x)
      PROVE  UNCHANGED catalogVars
  BY <1>6 DEF RevokeCredential
<1>7. CASE UNCHANGED vars
  BY <1>7 DEF vars
<1> QED
  BY <1>1, <1>2, <1>3, <1>4, <1>5, <1>6, <1>7 DEF Next

-----------------------------------------------------------------------------
(* Every step of the platform is a step of the catalog or leaves it alone: *)
(* progress never edits the curriculum, so what is proved of the catalog   *)
(* holds here.                                                             *)
THEOREM ProgressKeepsCatalog == Spec => CatalogSpec
<1>1. Init => CatalogInit
  BY DEF Init
<1>2. [Next]_vars => [CatalogNext]_catalogVars
  BY StepKeepsCatalog
<1> QED
  BY <1>1, <1>2, PTL DEF Spec, CatalogSpec

-----------------------------------------------------------------------------
(* What the helpers of the actions return.                                 *)
LEMMA ResolvedVersionType ==
  ASSUME TypeOK, NEW e \in Enrollments, NEW c \in Courses
  PROVE  ResolvedVersion(e, c) \in Version \cup {NoVersion}
<1>1. Current(c) \in Version \cup {NoVersion}
  BY CurrentType DEF TypeOK
<1>2. courseRow[e][c].version \in Version \cup {NoVersion}
  BY DEF TypeOK, CourseRows
<1> QED
  BY <1>1, <1>2 DEF ResolvedVersion, TypeOK

LEMMA WithCourseRowType ==
  ASSUME TypeOK, NEW e \in Enrollments, NEW c \in Courses
  PROVE  WithCourseRow(e, c) \in [Courses -> CourseRows]
  BY ResolvedVersionType DEF WithCourseRow, TypeOK, CourseRows

LEMMA WithLessonCompletedType ==
  ASSUME TypeOK, NEW e \in Enrollments, NEW l \in Lessons
  PROVE  WithLessonCompleted(e, l) \in [Lessons -> LessonRows]
<1>1. lessonRow[e] \in [Lessons -> LessonRows]
  BY DEF TypeOK
<1>2. ResolvedVersion(e, CourseOf[l]) \in Version \cup {NoVersion}
  BY ResolvedVersionType, CatalogAssumption
<1> QED
  BY <1>1, <1>2 DEF WithLessonCompleted, LessonRows, Finished

LEMMA NewCredentialsType ==
  ASSUME NEW m \in Members, NEW e \in Enrollments \cup {NoEnrollment},
         NEW rules \in SUBSET Certificates
  PROVE  /\ NewCredentials(rules, m, e) \subseteq Credentials
         /\ IssueKeys(NewCredentials(rules, m, e)) \subseteq EventKeys
<1>1. NewCredentials(rules, m, e) \subseteq Credentials
  BY DEF NewCredentials, Credentials
<1>2. \A x \in Credentials : <<"credential-issued", x.certificate, x.member>> \in EventKeys
  BY DEF EventKeys, EventKinds, Credentials
<1>3. IssueKeys(NewCredentials(rules, m, e)) \subseteq EventKeys
  BY <1>1, <1>2 DEF IssueKeys
<1> QED
  BY <1>1, <1>3

(* The part of TypeOK that Learning writes.                                *)
EvidenceTypeOK ==
  /\ attempt \in [Enrollments -> [Assignments -> {"none", "open", "passed", "unpassed"}]]
  /\ counted \in [Enrollments -> [Limited -> Nat]]
  /\ evaluations \subseteq Enrollments \X PracticalLessons \X {"passed", "unpassed"}

EnrollmentTypeOK ==
  /\ EvidenceTypeOK
  /\ status \in [Enrollments -> {"none", "withdrawn", "expired"} \cup Live]
  /\ pin \in [Enrollments -> Version \cup {NoVersion}]
  /\ courseRow \in [Enrollments -> [Courses -> CourseRows]]
  /\ lessonRow \in [Enrollments -> [Lessons -> LessonRows]]
  /\ credentials \subseteq Credentials
  /\ events \subseteq EventKeys

(* The completion cascade writes rows, credentials and events of their     *)
(* types.                                                                  *)
LEMMA EvaluateCourseType ==
  ASSUME TypeOK, NEW e \in Enrollments, NEW c \in Courses,
         NEW courses \in [Courses -> CourseRows],
         NEW lessons \in [Lessons -> LessonRows],
         NEW keys \in SUBSET EventKeys, NEW rules \in SUBSET Certificates,
         EvaluateCourse(e, c, courses, lessons, keys, rules), EvidenceTypeOK'
  PROVE  EnrollmentTypeOK'
<1> DEFINE finishes == /\ courses[c].status = "in_progress"
                       /\ RuleMet(Snapshot(courses[c].version), Done(lessons))
           after == IF finishes THEN [courses EXCEPT ![c].status = "completed"]
                    ELSE courses
           reached == finishes /\ TargetReached(e, after)
           issued == NewCredentials(rules \cup EarnedRules(e, c, finishes, reached),
                                    MemberOf[e], e)
<1>1. after \in [Courses -> CourseRows]
  BY DEF CourseRows
<1>2. issued \subseteq Credentials /\ IssueKeys(issued) \subseteq EventKeys
  BY NewCredentialsType, ProgressAssumption DEF EarnedRules
<1>3. CascadeKeys(e, c, finishes, reached) \subseteq EventKeys
  <2>1. TargetOf[e] \in Targets
    BY ProgressAssumption
  <2> QED
    BY <2>1 DEF CascadeKeys, EventKeys, EventKinds, Targets
<1>4. /\ courseRow' = [courseRow EXCEPT ![e] = after]
      /\ lessonRow' = [lessonRow EXCEPT ![e] = lessons]
      /\ status' = [status EXCEPT ![e] = StatusAfter(e, reached)]
      /\ credentials' = credentials \cup issued
      /\ events' = events \cup keys \cup CascadeKeys(e, c, finishes, reached)
                          \cup IssueKeys(issued)
      /\ pin' = pin
  BY DEF EvaluateCourse
<1>5. StatusAfter(e, reached) \in {"none", "withdrawn", "expired"} \cup Live
  BY DEF StatusAfter, TypeOK, Live
<1> HIDE DEF after, issued, reached
<1> QED
  BY <1>1, <1>2, <1>3, <1>4, <1>5 DEF TypeOK, EnrollmentTypeOK

LEMMA AttemptType ==
  ASSUME EvidenceTypeOK, NEW e \in Enrollments, NEW a \in Assignments,
         NEW o \in {"none", "open", "passed", "unpassed"}
  PROVE  [attempt EXCEPT ![e][a] = o]
           \in [Enrollments -> [Assignments -> {"none", "open", "passed", "unpassed"}]]
<1>1. [attempt[e] EXCEPT ![a] = o]
        \in [Assignments -> {"none", "open", "passed", "unpassed"}]
  BY DEF EvidenceTypeOK
<1> QED
  BY <1>1 DEF EvidenceTypeOK

LEMMA LearningTypeStep ==
  ASSUME TypeOK, NEW e \in Enrollments, Learning(e)
  PROVE  EnrollmentTypeOK'
<1>0. EnrollmentTypeOK
  BY DEF TypeOK, EnrollmentTypeOK, EvidenceTypeOK
<1>1. CASE CreateEnrollment(e)
  <2>1. Current(TargetOf[e]) \in Version \cup {NoVersion} \/ TargetOf[e] \notin Courses
    BY CurrentType DEF TypeOK
  <2>2. <<"enrollment-created", e, TargetOf[e]>> \in EventKeys
    BY ProgressAssumption DEF EventKeys, EventKinds
  <2> QED
    BY <1>0, <1>1, <2>1, <2>2
    DEF CreateEnrollment, EnrollmentTypeOK, EvidenceTypeOK, evidenceVars, Live
<1>2. ASSUME NEW s \in {"active", "withdrawn", "expired"}, SetEnrollmentStatus(e, s)
      PROVE  EnrollmentTypeOK'
  BY <1>0, <1>2 DEF SetEnrollmentStatus, EnrollmentTypeOK, EvidenceTypeOK,
      evidenceVars, Live
<1>3. ASSUME NEW l \in Lessons, StartLesson(e, l)
      PROVE  EnrollmentTypeOK'
  <2> DEFINE c == CourseOf[l]
  <2>1. c \in Courses
    BY CatalogAssumption
  <2>2. /\ WithCourseRow(e, c) \in [Courses -> CourseRows]
        /\ ResolvedVersion(e, c) \in Version \cup {NoVersion}
    BY <2>1, WithCourseRowType, ResolvedVersionType
  <2>3. CourseStartKeys(e, c) \cup LessonStartKeys(e, l) \subseteq EventKeys
    BY <2>1 DEF CourseStartKeys, LessonStartKeys, EventKeys, EventKinds, Targets
  <2>4. lessonRow' \in [Enrollments -> [Lessons -> LessonRows]]
    <3>1. CASE StartsLesson(e, l)
      <4> DEFINE row == [[lessonRow[e][l] EXCEPT !.status = "in_progress"]
                           EXCEPT !.version = ResolvedVersion(e, c)]
      <4>1. lessonRow[e] \in [Lessons -> LessonRows]
        BY DEF TypeOK
      <4>2. row \in LessonRows
        BY <2>2, <4>1 DEF LessonRows
      <4>3. lessonRow' = [lessonRow EXCEPT ![e] = [lessonRow[e] EXCEPT ![l] = row]]
        BY <1>3, <3>1, <4>1 DEF StartLesson, TypeOK
      <4> HIDE DEF row
      <4>4. [lessonRow[e] EXCEPT ![l] = row] \in [Lessons -> LessonRows]
        BY <4>1, <4>2
      <4> QED
        BY <4>3, <4>4 DEF TypeOK
    <3>2. CASE ~StartsLesson(e, l)
      BY <1>3, <3>2 DEF StartLesson, TypeOK
    <3> QED
      BY <3>1, <3>2
  <2> QED
    BY <1>0, <1>3, <2>2, <2>3, <2>4
    DEF StartLesson, EnrollmentTypeOK, EvidenceTypeOK, evidenceVars
<1>4. ASSUME NEW l \in Lessons, CompleteLesson(e, l)
      PROVE  EnrollmentTypeOK'
  <2> DEFINE c == CourseOf[l]
  <2>1. c \in Courses
    BY CatalogAssumption
  <2>2. CourseStartKeys(e, c) \cup {<<"lesson-completed", e, l>>} \subseteq EventKeys
    BY <2>1 DEF CourseStartKeys, EventKeys, EventKinds, Targets
  <2>3. EvaluateCourse(e, c, WithCourseRow(e, c), WithLessonCompleted(e, l),
                       CourseStartKeys(e, c) \cup {<<"lesson-completed", e, l>>}, {})
    BY <1>4 DEF CompleteLesson
  <2>4. EvidenceTypeOK'
    BY <1>0, <1>4 DEF CompleteLesson, EnrollmentTypeOK, EvidenceTypeOK, evidenceVars
  <2>5. /\ WithCourseRow(e, c) \in [Courses -> CourseRows]
        /\ WithLessonCompleted(e, l) \in [Lessons -> LessonRows]
    BY <2>1, WithCourseRowType, WithLessonCompletedType
  <2> QED
    BY <2>1, <2>2, <2>3, <2>4, <2>5, EvaluateCourseType
<1>5. ASSUME NEW l \in Lessons, NEW s \in Finished, OverrideProgress(e, l, s)
      PROVE  EnrollmentTypeOK'
  <2> DEFINE c == CourseOf[l]
             rows == [lessonRow[e] EXCEPT
                        ![l].status = s,
                        ![l].version = IF @ = NoVersion THEN ResolvedVersion(e, c) ELSE @,
                        ![l].overridden = TRUE]
  <2>1. c \in Courses
    BY CatalogAssumption
  <2>2. rows \in [Lessons -> LessonRows]
    <3>1. lessonRow[e] \in [Lessons -> LessonRows]
      BY DEF TypeOK
    <3> QED
      BY <2>1, <3>1, ResolvedVersionType DEF LessonRows
  <2>3. EvaluateCourse(e, c, WithCourseRow(e, c), rows, {}, {})
    BY <1>5 DEF OverrideProgress
  <2>4. EvidenceTypeOK'
    BY <1>0, <1>5 DEF OverrideProgress, EnrollmentTypeOK, EvidenceTypeOK, evidenceVars
  <2>5. WithCourseRow(e, c) \in [Courses -> CourseRows]
    BY <2>1, WithCourseRowType
  <2> HIDE DEF rows
  <2> QED
    BY <2>1, <2>2, <2>3, <2>4, <2>5, EvaluateCourseType
<1>6. ASSUME NEW a \in Assignments, StartAttempt(e, a) \/ EndAttemptUnpassed(e, a)
      PROVE  EnrollmentTypeOK'
  <2>1. PICK o \in {"open", "unpassed"} : attempt' = [attempt EXCEPT ![e][a] = o]
    BY <1>6 DEF StartAttempt, EndAttemptUnpassed
  <2>2. attempt' \in [Enrollments -> [Assignments -> {"none", "open", "passed", "unpassed"}]]
    BY <2>1, <1>0, AttemptType DEF EnrollmentTypeOK, EvidenceTypeOK
  <2>3. counted' \in [Enrollments -> [Limited -> Nat]]
    <3>1. CASE a \in Limited /\ counted' = [counted EXCEPT ![e][a] = @ + 1]
      <4>1. counted[e] \in [Limited -> Nat] /\ counted[e][a] + 1 \in Nat
        BY <1>0, <3>1 DEF EnrollmentTypeOK, EvidenceTypeOK
      <4>2. [counted[e] EXCEPT ![a] = @ + 1] \in [Limited -> Nat]
        BY <4>1
      <4> QED
        BY <1>0, <3>1, <4>2 DEF EnrollmentTypeOK, EvidenceTypeOK
    <3>2. CASE counted' = counted
      BY <1>0, <3>2 DEF EnrollmentTypeOK, EvidenceTypeOK
    <3> QED
      BY <1>6, <3>1, <3>2 DEF StartAttempt, EndAttemptUnpassed
  <2> QED
    BY <1>0, <1>6, <2>2, <2>3
    DEF StartAttempt, EndAttemptUnpassed, EnrollmentTypeOK, EvidenceTypeOK, enrollmentVars
<1>7. ASSUME NEW a \in Assignments, PassAttempt(e, a)
      PROVE  EnrollmentTypeOK'
  <2> DEFINE l == AssignedTo[a]
             c == CourseOf[l]
  <2>1. l \in Lessons /\ c \in Courses
    BY CatalogAssumption, ProgressAssumption
  <2>2. CertificatesFor(a) \in SUBSET Certificates
    BY DEF CertificatesFor
  <2>3. EvidenceTypeOK'
    BY <1>0, <1>7, AttemptType DEF PassAttempt, EnrollmentTypeOK, EvidenceTypeOK
  <2>4. CASE PassCompletingAttempt(e, a)
    <3>1. {<<"assessment-completion", e, a>>, <<"lesson-completed", e, l>>} \in SUBSET EventKeys
      BY <2>1 DEF EventKeys, EventKinds
    <3>2. EvaluateCourse(e, c, WithCourseRow(e, c), WithLessonCompleted(e, l),
            {<<"assessment-completion", e, a>>, <<"lesson-completed", e, l>>},
            CertificatesFor(a))
      BY <2>4 DEF PassCompletingAttempt
    <3>3. /\ WithCourseRow(e, c) \in [Courses -> CourseRows]
          /\ WithLessonCompleted(e, l) \in [Lessons -> LessonRows]
      BY <2>1, WithCourseRowType, WithLessonCompletedType
    <3> QED
      BY <2>1, <2>2, <2>3, <3>1, <3>2, <3>3, EvaluateCourseType
  <2>5. CASE PassOtherAttempt(e, a)
    <3>1. /\ NewCredentials(CertificatesFor(a), MemberOf[e], e) \subseteq Credentials
          /\ IssueKeys(NewCredentials(CertificatesFor(a), MemberOf[e], e)) \subseteq EventKeys
      BY <2>2, NewCredentialsType, ProgressAssumption
    <3>2. courseRow' \in [Enrollments -> [Courses -> CourseRows]]
      BY <1>0, <2>1, <2>5, WithCourseRowType DEF PassOtherAttempt, EnrollmentTypeOK
    <3> QED
      BY <1>0, <2>3, <2>5, <3>1, <3>2 DEF PassOtherAttempt, EnrollmentTypeOK
  <2> QED
    BY <1>7, <2>4, <2>5 DEF PassAttempt
<1>8. ASSUME NEW l \in PracticalLessons, NEW r \in {"passed", "unpassed"},
             RecordPractical(e, l, r)
      PROVE  EnrollmentTypeOK'
  <2> DEFINE c == CourseOf[l]
  <2>1. l \in Lessons /\ c \in Courses
    BY CatalogAssumption, ProgressAssumption
  <2>2. EvidenceTypeOK'
    BY <1>0, <1>8 DEF RecordPractical, EnrollmentTypeOK, EvidenceTypeOK
  <2>3. CASE r = "passed"
    <3>1. {<<"lesson-completed", e, l>>} \in SUBSET EventKeys
      BY <2>1 DEF EventKeys, EventKinds
    <3>2. EvaluateCourse(e, c, courseRow[e], WithLessonCompleted(e, l),
                         {<<"lesson-completed", e, l>>}, {})
      BY <1>8, <2>3 DEF RecordPractical
    <3>3. /\ courseRow[e] \in [Courses -> CourseRows]
          /\ WithLessonCompleted(e, l) \in [Lessons -> LessonRows]
      BY <2>1, WithLessonCompletedType DEF TypeOK
    <3> QED
      BY <2>1, <2>2, <3>1, <3>2, <3>3, EvaluateCourseType
  <2>4. CASE r # "passed"
    BY <1>0, <1>8, <2>2, <2>4 DEF RecordPractical, EnrollmentTypeOK, enrollmentVars
  <2> QED
    BY <2>3, <2>4
<1> QED
  BY <1>1, <1>2, <1>3, <1>4, <1>5, <1>6, <1>7, <1>8 DEF Learning

(* No operation of the platform leaves its types.                          *)
LEMMA ProgressTypeStep ==
  ASSUME TypeOK, [Next]_vars
  PROVE  TypeOK'
<1> SUFFICES ASSUME CatalogTypeOK' PROVE TypeOK'
  BY StepKeepsCatalog, CatalogTypeStep DEF TypeOK
<1>0. EnrollmentTypeOK
  BY DEF TypeOK, EnrollmentTypeOK, EvidenceTypeOK
<1>1. ASSUME EnrollmentTypeOK', activeMembers' \subseteq Members,
             openAssignments' \subseteq Assignments, over' \subseteq Windowed
      PROVE  TypeOK'
  BY <1>1 DEF TypeOK, EnrollmentTypeOK, EvidenceTypeOK
<1>2. CASE Authoring \/ UNCHANGED vars
  BY <1>0, <1>1, <1>2
  DEF Authoring, vars, settingVars, enrollmentVars, evidenceVars, TypeOK,
      EnrollmentTypeOK, EvidenceTypeOK
<1>3. ASSUME NEW e \in Enrollments, Learning(e)
      PROVE  TypeOK'
  <2>1. UNCHANGED settingVars
    BY <1>3
    DEF Learning, CreateEnrollment, SetEnrollmentStatus, StartLesson, CompleteLesson,
        OverrideProgress, StartAttempt, PassAttempt, EndAttemptUnpassed,
        RecordPractical
  <2> QED
    BY <1>1, <1>3, <2>1, LearningTypeStep DEF TypeOK, settingVars
<1>4. CASE \/ \E a \in Assignments : SetAssignmentStatus(a) \/ WindowEnds(a)
           \/ \E m \in Members : SetMembershipStatus(m)
  BY <1>0, <1>1, <1>4
  DEF SetAssignmentStatus, WindowEnds, SetMembershipStatus, enrollmentVars,
      evidenceVars, TypeOK,
      EnrollmentTypeOK, EvidenceTypeOK
<1>5. ASSUME NEW k \in Certificates, NEW m \in Members, IssueCredential(k, m)
      PROVE  TypeOK'
  <2>1. /\ NewCredentials({k}, m, NoEnrollment) \subseteq Credentials
        /\ IssueKeys(NewCredentials({k}, m, NoEnrollment)) \subseteq EventKeys
    BY NewCredentialsType
  <2> QED
    BY <1>0, <1>1, <1>5, <2>1
    DEF IssueCredential, settingVars, enrollmentVars, evidenceVars, TypeOK,
        EnrollmentTypeOK, EvidenceTypeOK
<1>6. CASE \E x \in credentials : RevokeCredential(x)
  BY <1>0, <1>1, <1>6
  DEF RevokeCredential, settingVars, enrollmentVars, evidenceVars, TypeOK,
      EnrollmentTypeOK, EvidenceTypeOK
<1> QED
  BY <1>2, <1>3, <1>4, <1>5, <1>6 DEF Next

LEMMA ProgressTypeInit == Init => TypeOK
<1>1. Init => CatalogTypeOK
  BY DEF Init, CatalogInit, CatalogTypeOK, Targets
<1>2. Init /\ CatalogTypeOK => TypeOK
  BY ProgressAssumption
  DEF Init, TypeOK, CourseRows, LessonRows, NoCourseRow, NoLessonRow
<1> QED
  BY <1>1, <1>2

(* Type correctness: rows, attempts, credentials and events stay what the  *)
(* tables' columns admit, whatever the RPCs are called with.               *)
THEOREM ProgressTypeCorrect == Spec => []TypeOK
<1>1. TypeOK /\ [Next]_vars => TypeOK'
  BY ProgressTypeStep
<1> QED
  BY <1>1, ProgressTypeInit, PTL DEF Spec

-----------------------------------------------------------------------------
(* A course that no unfinished course of the path precedes can be started. *)
LEMMA AcyclicNeverLocks ==
  ASSUME TypeOK, EdgesJoinNodes
  PROVE  PathNeverLocked
<1> SUFFICES ASSUME NEW e \in Enrollments,
                    TargetOf[e] \in Paths, AcyclicEdges(prereq[TargetOf[e]]),
                    nodes[TargetOf[e]] \ CompletedCourses(courseRow[e]) # {}
             PROVE  \E c \in nodes[TargetOf[e]] \ CompletedCourses(courseRow[e]) :
                      PrerequisitesMet(e, c)
  BY DEF PathNeverLocked
<1> DEFINE p == TargetOf[e]
           left == nodes[p] \ CompletedCourses(courseRow[e])
<1>1. left \in SUBSET Courses /\ nodes[p] \subseteq Courses
  BY DEF TypeOK, CatalogTypeOK
<1>2. PICK n \in left : \A x \in prereq[p] : x[1] = n => x[2] \notin left
  BY <1>1 DEF AcyclicEdges
<1>3. \A x \in prereq[p] : x[2] \in nodes[p]
  BY DEF EdgesJoinNodes
<1>4. PrerequisitesMet(e, n)
  BY <1>2, <1>3 DEF PrerequisitesMet
<1> QED
  BY <1>2, <1>4

(* Whatever authors add and remove, and however many of them, only a cycle *)
(* of prerequisites locks a learner out of a path.                         *)
THEOREM PathsNeverLock == Spec => []PathNeverLocked
  BY ProgressKeepsCatalog, ProgressTypeCorrect, EdgesAlwaysJoinNodes,
     AcyclicNeverLocks, PTL

-----------------------------------------------------------------------------
(* What EvidenceKept asks of one enrollment in one step.                   *)
Kept(e) ==
  /\ Done(lessonRow[e]) \subseteq Done(lessonRow'[e])
  /\ CompletedCourses(courseRow[e]) \subseteq CompletedCourses(courseRow'[e])
  /\ \A c \in Courses :
       courseRow[e][c].status # "none" =>
         courseRow'[e][c].version = courseRow[e][c].version
  /\ status[e] = "completed" => status'[e] = "completed"

LEMMA UntouchedKept ==
  ASSUME NEW e \in Enrollments, courseRow'[e] = courseRow[e],
         lessonRow'[e] = lessonRow[e],
         status[e] = "completed" => status'[e] = "completed"
  PROVE  Kept(e)
  BY DEF Kept, Done, CompletedCourses

(* Rows that agree with those of e wherever those exist.                   *)
Extends(courses, e) ==
  \A d \in Courses : courseRow[e][d].status # "none" => courses[d] = courseRow[e][d]

LEMMA WithCourseRowExtends ==
  ASSUME TypeOK, NEW e \in Enrollments, NEW c \in Courses
  PROVE  Extends(WithCourseRow(e, c), e)
  BY DEF WithCourseRow, Extends, TypeOK

LEMMA WithLessonCompletedKeeps ==
  ASSUME TypeOK, NEW e \in Enrollments, NEW l \in Lessons
  PROVE  Done(lessonRow[e]) \subseteq Done(WithLessonCompleted(e, l))
<1>1. lessonRow[e] \in [Lessons -> LessonRows]
  BY DEF TypeOK
<1> QED
  BY <1>1 DEF WithLessonCompleted, Done

LEMMA EvaluateCourseKeeps ==
  ASSUME TypeOK, NEW e \in Enrollments, NEW c \in Courses,
         NEW courses \in [Courses -> CourseRows], Extends(courses, e),
         NEW lessons, Done(lessonRow[e]) \subseteq Done(lessons),
         NEW keys, NEW rules,
         EvaluateCourse(e, c, courses, lessons, keys, rules),
         NEW f \in Enrollments
  PROVE  Kept(f)
<1> DEFINE finishes == /\ courses[c].status = "in_progress"
                       /\ RuleMet(Snapshot(courses[c].version), Done(lessons))
           after == IF finishes THEN [courses EXCEPT ![c].status = "completed"]
                    ELSE courses
           reached == finishes /\ TargetReached(e, after)
<1>1. /\ courseRow' = [courseRow EXCEPT ![e] = after]
      /\ lessonRow' = [lessonRow EXCEPT ![e] = lessons]
      /\ status' = [status EXCEPT ![e] = StatusAfter(e, reached)]
  BY DEF EvaluateCourse
<1>2. \A d \in Courses :
        /\ courses[d].status = "completed" => after[d].status = "completed"
        /\ after[d].version = courses[d].version
  BY DEF CourseRows
<1>3. status[e] = "completed" => StatusAfter(e, reached) = "completed"
  BY DEF StatusAfter
<1> HIDE DEF after, reached
<1>4. CASE f = e
  <2>1. courseRow'[e] = after /\ lessonRow'[e] = lessons
    BY <1>1 DEF TypeOK
  <2>2. CompletedCourses(courseRow[e]) \subseteq CompletedCourses(after)
    BY <1>2 DEF CompletedCourses, Extends
  <2>3. \A d \in Courses :
          courseRow[e][d].status # "none" => after[d].version = courseRow[e][d].version
    BY <1>2 DEF Extends
  <2>4. status[e] = "completed" => status'[e] = "completed"
    BY <1>1, <1>3 DEF TypeOK
  <2> QED
    BY <1>4, <2>1, <2>2, <2>3, <2>4 DEF Kept
<1>5. CASE f # e
  BY <1>1, <1>5, UntouchedKept DEF TypeOK
<1> QED
  BY <1>4, <1>5

(* No step of the platform takes evidence back.                            *)
LEMMA StepKeeps ==
  ASSUME TypeOK, [Next]_vars, NEW f \in Enrollments
  PROVE  Kept(f)
<1>1. ASSUME NEW e \in Enrollments, Learning(e)
      PROVE  Kept(f)
  <2>1. CASE CreateEnrollment(e)
    BY <2>1, UntouchedKept DEF CreateEnrollment, TypeOK
  <2>2. ASSUME NEW s \in {"active", "withdrawn", "expired"}, SetEnrollmentStatus(e, s)
        PROVE  Kept(f)
    BY <2>2, UntouchedKept DEF SetEnrollmentStatus, TypeOK
  <2>3. ASSUME NEW l \in Lessons, StartLesson(e, l)
        PROVE  Kept(f)
    <3>1. CASE f # e
      BY <2>3, <3>1, UntouchedKept DEF StartLesson, TypeOK
    <3>2. CASE f = e
      <4>1. /\ courseRow'[e] = WithCourseRow(e, CourseOf[l])
            /\ status' = status
        BY <2>3 DEF StartLesson, TypeOK
      <4>2. Extends(courseRow'[e], e)
        BY <4>1, WithCourseRowExtends, CatalogAssumption
      <4>3. \A k \in Lessons :
              lessonRow[e][k].status # "none" => lessonRow'[e][k] = lessonRow[e][k]
        BY <2>3 DEF StartLesson, StartsLesson, TypeOK
      <4> QED
        BY <3>2, <4>1, <4>2, <4>3
        DEF Kept, Extends, Done, CompletedCourses, Finished
    <3> QED
      BY <3>1, <3>2
  <2>4. ASSUME NEW l \in Lessons, CompleteLesson(e, l)
        PROVE  Kept(f)
    <3>1. CourseOf[l] \in Courses
      BY CatalogAssumption
    <3>2. EvaluateCourse(e, CourseOf[l], WithCourseRow(e, CourseOf[l]),
            WithLessonCompleted(e, l),
            CourseStartKeys(e, CourseOf[l]) \cup {<<"lesson-completed", e, l>>}, {})
      BY <2>4 DEF CompleteLesson
    <3> QED
      BY <3>1, <3>2, WithCourseRowType, WithCourseRowExtends,
         WithLessonCompletedKeeps, EvaluateCourseKeeps
  <2>5. ASSUME NEW l \in Lessons, NEW s \in Finished, OverrideProgress(e, l, s)
        PROVE  Kept(f)
    <3> DEFINE c == CourseOf[l]
               rows == [lessonRow[e] EXCEPT
                          ![l].status = s,
                          ![l].version = IF @ = NoVersion THEN ResolvedVersion(e, c)
                                         ELSE @,
                          ![l].overridden = TRUE]
    <3>1. c \in Courses
      BY CatalogAssumption
    <3>2. EvaluateCourse(e, c, WithCourseRow(e, c), rows, {}, {})
      BY <2>5 DEF OverrideProgress
    <3>3. Done(lessonRow[e]) \subseteq Done(rows)
      <4>1. lessonRow[e] \in [Lessons -> LessonRows]
        BY DEF TypeOK
      <4>2. rows[l].status = s
        BY <4>1 DEF LessonRows
      <4>3. \A k \in Lessons \ {l} : rows[k] = lessonRow[e][k]
        BY <4>1
      <4> QED
        BY <4>2, <4>3 DEF Done
    <3> HIDE DEF rows
    <3> QED
      BY <3>1, <3>2, <3>3, WithCourseRowType, WithCourseRowExtends,
         EvaluateCourseKeeps
  <2>6. ASSUME NEW a \in Assignments, StartAttempt(e, a) \/ EndAttemptUnpassed(e, a)
        PROVE  Kept(f)
    BY <2>6, UntouchedKept DEF StartAttempt, EndAttemptUnpassed, enrollmentVars
  <2>7. ASSUME NEW a \in Assignments, PassAttempt(e, a)
        PROVE  Kept(f)
    <3> DEFINE l == AssignedTo[a]
               c == CourseOf[l]
    <3>1. l \in Lessons /\ c \in Courses
      BY CatalogAssumption, ProgressAssumption
    <3>2. CASE PassCompletingAttempt(e, a)
      <4>1. EvaluateCourse(e, c, WithCourseRow(e, c), WithLessonCompleted(e, l),
              {<<"assessment-completion", e, a>>, <<"lesson-completed", e, l>>},
              CertificatesFor(a))
        BY <3>2 DEF PassCompletingAttempt
      <4> QED
        BY <3>1, <4>1, WithCourseRowType, WithCourseRowExtends,
           WithLessonCompletedKeeps, EvaluateCourseKeeps
    <3>3. CASE PassOtherAttempt(e, a)
      <4>1. status' = status /\ lessonRow' = lessonRow
        BY <3>3 DEF PassOtherAttempt
      <4>2. \/ courseRow' = [courseRow EXCEPT ![e] = WithCourseRow(e, c)]
            \/ courseRow' = courseRow
        BY <3>3 DEF PassOtherAttempt
      <4>3. Extends(courseRow'[f], f)
        <5>1. \/ courseRow'[f] = courseRow[f]
              \/ f = e /\ courseRow'[f] = WithCourseRow(e, c)
          BY <4>2 DEF TypeOK
        <5>2. Extends(WithCourseRow(e, c), e)
          BY <3>1, WithCourseRowExtends
        <5> QED
          BY <5>1, <5>2 DEF Extends
      <4> QED
        BY <4>1, <4>3 DEF Kept, Extends, CompletedCourses
    <3> QED
      BY <2>7, <3>2, <3>3 DEF PassAttempt
  <2>8. ASSUME NEW l \in PracticalLessons, NEW r \in {"passed", "unpassed"},
               RecordPractical(e, l, r)
        PROVE  Kept(f)
    <3>1. l \in Lessons /\ CourseOf[l] \in Courses
      BY CatalogAssumption, ProgressAssumption
    <3>2. CASE r = "passed"
      <4>1. EvaluateCourse(e, CourseOf[l], courseRow[e], WithLessonCompleted(e, l),
                           {<<"lesson-completed", e, l>>}, {})
        BY <2>8, <3>2 DEF RecordPractical
      <4>2. courseRow[e] \in [Courses -> CourseRows] /\ Extends(courseRow[e], e)
        BY DEF TypeOK, Extends
      <4> QED
        BY <3>1, <4>1, <4>2, WithLessonCompletedKeeps, EvaluateCourseKeeps
    <3>3. CASE r # "passed"
      BY <2>8, <3>3, UntouchedKept DEF RecordPractical, enrollmentVars
    <3> QED
      BY <3>2, <3>3
  <2> QED
    BY <1>1, <2>1, <2>2, <2>3, <2>4, <2>5, <2>6, <2>7, <2>8 DEF Learning
<1>2. CASE UNCHANGED enrollmentVars
  BY <1>2, UntouchedKept DEF enrollmentVars
<1>3. UNCHANGED enrollmentVars \/ \E e \in Enrollments : Learning(e)
  BY DEF Next, vars, Authoring, SetAssignmentStatus, WindowEnds, SetMembershipStatus,
         IssueCredential, RevokeCredential
<1> QED
  BY <1>1, <1>2, <1>3

(* Evidence is permanent: no RPC, in any order, takes back a finished      *)
(* lesson, a completed course, a pinned version or a completed enrollment. *)
THEOREM EvidenceAlwaysKept == Spec => EvidenceKept
<1>1. TypeOK /\ [Next]_vars => [\A e \in Enrollments : Kept(e)]_vars
  BY StepKeeps
<1> QED
  BY <1>1, ProgressTypeCorrect, PTL DEF Spec, EvidenceKept, Kept

-----------------------------------------------------------------------------
(* What the rows of an enrollment have in common: the versions they name   *)
(* exist and are of the right course, and nothing is recorded before the   *)
(* enrollment is created.                                                  *)
VersionExists(v) == v \in Version /\ v[2] \in 1..Len(published[v[1]])

PublishedOwn ==
  \A c \in Courses : \A i \in 1..Len(published[c]) : published[c][i].course = c

RowsSound(e) ==
  /\ pin[e] # NoVersion => VersionExists(pin[e]) /\ pin[e][1] = TargetOf[e]
  /\ status[e] # "none" /\ TargetOf[e] \in Courses => pin[e] # NoVersion
  /\ status[e] = "none" => /\ \A c \in Courses : courseRow[e][c].status = "none"
                           /\ \A a \in Assignments : attempt[e][a] = "none"
  /\ \A c \in Courses :
       courseRow[e][c].status # "none" =>
         VersionExists(courseRow[e][c].version) /\ courseRow[e][c].version[1] = c
  /\ \A l \in Lessons :
       lessonRow[e][l].status = "none" => lessonRow[e][l].version = NoVersion
  /\ \A a \in Assignments :
       attempt[e][a] # "none" /\ TargetOf[e] \in Courses =>
         TargetOf[e] = CourseOf[AssignedTo[a]]

(* PinsAgree for one enrollment.                                           *)
PinsAgreeOf(e) ==
  /\ \A c \in Courses :
       courseRow[e][c].status # "none" /\ TargetOf[e] \in Courses =>
         TargetOf[e] = c /\ courseRow[e][c].version = pin[e]
  /\ \A l \in Lessons :
       lessonRow[e][l].status # "none" =>
         LET row == courseRow[e][CourseOf[l]]
         IN /\ row.status # "none"
            /\ lessonRow[e][l].version = row.version
            /\ l \in LessonsOf(Snapshot(row.version))

PinsInv ==
  /\ TypeOK
  /\ PublishedOwn
  /\ \A e \in Enrollments : RowsSound(e) /\ PinsAgreeOf(e)

(* A version that exists is a structure of its course.                     *)
LEMMA ExistingVersion ==
  ASSUME CatalogTypeOK, PublishedOwn, NEW v, VersionExists(v)
  PROVE  /\ v[1] \in Courses /\ v # NoVersion
         /\ Snapshot(v) \in Structures /\ IsStructure(Snapshot(v))
         /\ Snapshot(v).course = v[1]
         /\ \A l \in LessonsOf(Snapshot(v)) : CourseOf[l] = v[1]
<1>1. v[1] \in Courses /\ v[2] \in 1..Len(published[v[1]]) /\ v # NoVersion
  BY CatalogAssumption DEF VersionExists, Version
<1>2. published[v[1]] \in Seq(Structures)
  BY <1>1 DEF CatalogTypeOK
<1>3. Snapshot(v) \in Structures
  BY <1>1, <1>2 DEF Snapshot
<1>4. Snapshot(v).course = v[1]
  BY <1>1 DEF Snapshot, PublishedOwn
<1>5. IsStructure(Snapshot(v))
  BY <1>3, CatalogAssumption
<1> QED
  BY <1>1, <1>3, <1>4, <1>5 DEF IsStructure

(* The version a write resolves is one of the course it writes to, and the *)
(* pinned one where the enrollment has a pin.                              *)
LEMMA ResolvedExists ==
  ASSUME PinsInv, NEW e \in Enrollments, NEW c \in Courses,
         status[e] # "none", TargetOf[e] \in Courses => TargetOf[e] = c,
         ResolvedVersion(e, c) # NoVersion
  PROVE  /\ VersionExists(ResolvedVersion(e, c))
         /\ ResolvedVersion(e, c)[1] = c
         /\ TargetOf[e] \in Courses => ResolvedVersion(e, c) = pin[e]
<1>0. TypeOK /\ CatalogTypeOK /\ RowsSound(e) /\ PinsAgreeOf(e)
  BY DEF PinsInv, TypeOK
<1>1. CASE courseRow[e][c].status # "none"
  BY <1>0, <1>1 DEF ResolvedVersion, RowsSound, PinsAgreeOf
<1>2. CASE courseRow[e][c].status = "none" /\ pin[e] # NoVersion
  <2>1. VersionExists(pin[e]) /\ pin[e][1] = TargetOf[e]
    BY <1>0, <1>2 DEF RowsSound
  <2>2. pin[e][1] \in Courses
    BY <2>1 DEF VersionExists, Version
  <2> QED
    BY <1>2, <2>1, <2>2 DEF ResolvedVersion
<1>3. CASE courseRow[e][c].status = "none" /\ pin[e] = NoVersion
  <2>1. ResolvedVersion(e, c) = Current(c) /\ TargetOf[e] \notin Courses
    BY <1>0, <1>3 DEF ResolvedVersion, RowsSound
  <2> QED
    BY <1>0, <2>1, CurrentType DEF VersionExists
<1> QED
  BY <1>1, <1>2, <1>3

(* A lesson of the resolved version is one of the enrollment's own course. *)
LEMMA PinnedLessonCovered ==
  ASSUME PinsInv, NEW e \in Enrollments, NEW l \in Lessons,
         status[e] # "none", InPinnedVersion(e, l)
  PROVE  /\ CourseOf[l] \in Courses
         /\ ResolvedVersion(e, CourseOf[l]) # NoVersion
         /\ l \in LessonsOf(Snapshot(ResolvedVersion(e, CourseOf[l])))
         /\ TargetOf[e] \in Courses => TargetOf[e] = CourseOf[l]
<1> DEFINE c == CourseOf[l]
<1>0. CatalogTypeOK /\ PublishedOwn /\ RowsSound(e) /\ PinsAgreeOf(e)
  BY DEF PinsInv, TypeOK
<1>1. /\ c \in Courses /\ ResolvedVersion(e, c) # NoVersion
      /\ l \in LessonsOf(Snapshot(ResolvedVersion(e, c)))
  BY CatalogAssumption DEF InPinnedVersion
<1>2. ASSUME TargetOf[e] \in Courses
      PROVE  TargetOf[e] = c
  <2>1. CASE courseRow[e][c].status # "none"
    BY <1>0, <1>1, <1>2, <2>1 DEF PinsAgreeOf
  <2>2. CASE courseRow[e][c].status = "none"
    <3>1. pin[e] # NoVersion /\ VersionExists(pin[e]) /\ pin[e][1] = TargetOf[e]
      BY <1>0, <1>2 DEF RowsSound
    <3>2. ResolvedVersion(e, c) = pin[e]
      BY <2>2, <3>1 DEF ResolvedVersion
    <3>3. CourseOf[l] = pin[e][1]
      BY <1>0, <1>1, <3>1, <3>2, ExistingVersion
    <3> QED
      BY <3>1, <3>3
  <2> QED
    BY <2>1, <2>2
<1> QED
  BY <1>1, <1>2

-----------------------------------------------------------------------------
(* How one step may change the rows of an enrollment, which is what the    *)
(* invariants below depend on.                                             *)

(* Certificates earned by an assignment that e has passed after the step.  *)
PassedRules(e, rules) ==
  \A k \in rules :
    /\ k \in Certificates /\ CertificateSource[k] \in Assignments
    /\ attempt'[e][CertificateSource[k]] = "passed"

(* Credentials and events besides those of the completion cascade.         *)
Awards(e, keys) ==
  \E rules \in SUBSET Certificates :
    /\ PassedRules(e, rules)
    /\ credentials' = credentials \cup NewCredentials(rules, MemberOf[e], e)
    /\ events' = events \cup keys \cup IssueKeys(NewCredentials(rules, MemberOf[e], e))

(* No row changes.  The pin is written at creation only.                   *)
RowsQuiet(e) ==
  /\ courseRow'[e] = courseRow[e] /\ lessonRow'[e] = lessonRow[e]
  /\ \/ /\ pin'[e] = pin[e]
        /\ status[e] = "none" <=> status'[e] = "none"
        /\ status'[e] = "completed" => status[e] = "completed"
        /\ Awards(e, {})
     \/ /\ status[e] = "none" /\ status'[e] = "active"
        /\ pin'[e] = IF TargetOf[e] \in Courses THEN Current(TargetOf[e]) ELSE NoVersion
        /\ TargetOf[e] \in Courses => pin'[e] # NoVersion
        /\ Awards(e, {<<"enrollment-created", e, TargetOf[e]>>})

(* The course row exists afterwards, and a lesson of it may be started.    *)
Opens(e, c) ==
  /\ status[e] # "none" /\ status'[e] = status[e] /\ pin'[e] = pin[e]
  /\ TargetOf[e] \in Courses => TargetOf[e] = c
  /\ ResolvedVersion(e, c) # NoVersion
  /\ courseRow'[e] = WithCourseRow(e, c)
  /\ \/ /\ lessonRow'[e] = lessonRow[e]
        /\ \E keys \in SUBSET CourseStartKeys(e, c) : Awards(e, keys)
     \/ \E l \in Lessons :
          /\ CourseOf[l] = c /\ InPinnedVersion(e, l)
          /\ lessonRow[e][l].status = "none"
          /\ lessonRow'[e] = [lessonRow[e] EXCEPT ![l].status = "in_progress",
                                                  ![l].version = ResolvedVersion(e, c)]
          /\ Awards(e, CourseStartKeys(e, c) \cup {<<"lesson-started", e, l>>})

(* The reasons for which SequenceRespected lets l be finished by `row'.    *)
MayFinish(e, l, row) ==
  LET c == CourseOf[l]
  IN \/ row = lessonRow[e][l]
     \/ row.overridden
     \/ \E a \in Completing : AssignedTo[a] = l /\ attempt'[e][a] = "passed"
     \/ c \in SequencedCourses =>
          EarlierRequired(Snapshot(ResolvedVersion(e, c)), l) \subseteq Done(lessonRow[e])

(* Lesson l is finished and the completion cascade runs.                   *)
Finishes(e, l) ==
  LET c == CourseOf[l]
  IN /\ status[e] # "none" /\ InPinnedVersion(e, l)
     /\ \E lessons \in [Lessons -> LessonRows], keys \in SUBSET EventKeys,
           rules \in SUBSET Certificates :
          /\ \A k \in Lessons \ {l} : lessons[k] = lessonRow[e][k]
          /\ lessons[l].status \in Finished
          /\ lessons[l].version =
               IF lessonRow[e][l].version = NoVersion THEN ResolvedVersion(e, c)
               ELSE lessonRow[e][l].version
          /\ MayFinish(e, l, lessons[l])
          /\ keys \subseteq CourseStartKeys(e, c) \cup {<<"lesson-completed", e, l>>}
                            \cup ({"assessment-completion"} \X {e} \X Assignments)
          /\ PassedRules(e, rules)
          /\ EvaluateCourse(e, c, WithCourseRow(e, c), lessons, keys, rules)

(* The row of a lesson that WithLessonCompleted finishes.                  *)
LEMMA CompletedRow ==
  ASSUME PinsInv, NEW e \in Enrollments, NEW l \in Lessons
  PROVE  LET lessons == WithLessonCompleted(e, l)
         IN /\ \A k \in Lessons \ {l} : lessons[k] = lessonRow[e][k]
            /\ lessons[l].status \in Finished
            /\ lessons[l].version =
                 IF lessonRow[e][l].version = NoVersion
                 THEN ResolvedVersion(e, CourseOf[l]) ELSE lessonRow[e][l].version
            /\ lessonRow[e][l].status \in Finished => lessons[l] = lessonRow[e][l]
<1>0. TypeOK /\ RowsSound(e) /\ PinsAgreeOf(e) /\ CatalogTypeOK /\ PublishedOwn
  BY DEF PinsInv, TypeOK
<1>1. lessonRow[e] \in [Lessons -> LessonRows] /\ CourseOf[l] \in Courses
  BY <1>0, CatalogAssumption DEF TypeOK
<1>2. CASE lessonRow[e][l].status \in Finished
  <2>1. lessonRow[e][l].status # "none"
    BY <1>2 DEF Finished
  <2>2. lessonRow[e][l].version # NoVersion
    BY <1>0, <1>1, <2>1, ExistingVersion DEF PinsAgreeOf, RowsSound
  <2> QED
    BY <1>1, <1>2, <2>2 DEF WithLessonCompleted
<1>3. CASE lessonRow[e][l].status \notin Finished
  <2> DEFINE v == IF lessonRow[e][l].version = NoVersion
                  THEN ResolvedVersion(e, CourseOf[l]) ELSE lessonRow[e][l].version
             row == [lessonRow[e][l] EXCEPT !.status = "completed", !.version = v]
  <2>1. WithLessonCompleted(e, l) = [lessonRow[e] EXCEPT ![l] = row]
    BY <1>1, <1>3 DEF WithLessonCompleted, LessonRows
  <2>2. row.status = "completed" /\ row.version = v
    BY <1>1 DEF LessonRows
  <2> HIDE DEF row, v
  <2>3. /\ WithLessonCompleted(e, l)[l] = row
        /\ \A k \in Lessons \ {l} : WithLessonCompleted(e, l)[k] = lessonRow[e][k]
    BY <1>1, <2>1
  <2> QED
    BY <1>3, <2>2, <2>3 DEF Finished, v
<1> QED
  BY <1>2, <1>3

(* No certificate is earned: an empty set of rules.                        *)
LEMMA NoAward ==
  ASSUME NEW e \in Enrollments, NEW keys, credentials' = credentials,
         events' = events \cup keys
  PROVE  Awards(e, keys)
<1>1. NewCredentials({}, MemberOf[e], e) = {} /\ IssueKeys({}) = {}
  BY DEF NewCredentials, IssueKeys
<1>2. PassedRules(e, {})
  BY DEF PassedRules
<1> QED
  BY <1>1, <1>2 DEF Awards

LEMMA StepKind ==
  ASSUME PinsInv, NEW e \in Enrollments, Learning(e), TypeOK'
  PROVE  \/ RowsQuiet(e)
         \/ \E c \in Courses : Opens(e, c)
         \/ \E l \in Lessons : Finishes(e, l)
<1>0. TypeOK /\ RowsSound(e) /\ PinsAgreeOf(e) /\ CatalogTypeOK
  BY DEF PinsInv, TypeOK
<1>1. CASE CreateEnrollment(e)
  <2>1. /\ status[e] = "none" /\ status'[e] = "active"
        /\ pin'[e] = IF TargetOf[e] \in Courses THEN Current(TargetOf[e]) ELSE NoVersion
        /\ TargetOf[e] \in Courses => pin'[e] # NoVersion
        /\ courseRow'[e] = courseRow[e] /\ lessonRow'[e] = lessonRow[e]
    BY <1>0, <1>1 DEF CreateEnrollment, TypeOK
  <2>2. Awards(e, {<<"enrollment-created", e, TargetOf[e]>>})
    BY <1>1, NoAward DEF CreateEnrollment
  <2> QED
    BY <2>1, <2>2 DEF RowsQuiet
<1>2. ASSUME NEW s \in {"active", "withdrawn", "expired"}, SetEnrollmentStatus(e, s)
      PROVE  RowsQuiet(e)
  <2>1. Awards(e, {})
    BY <1>2, NoAward DEF SetEnrollmentStatus
  <2> QED
    BY <1>0, <1>2, <2>1 DEF SetEnrollmentStatus, TypeOK, RowsQuiet
<1>3. ASSUME NEW l \in Lessons, StartLesson(e, l)
      PROVE  Opens(e, CourseOf[l])
  <2> DEFINE c == CourseOf[l]
  <2>1. /\ status[e] # "none" /\ InPinnedVersion(e, l) /\ status' = status /\ pin' = pin
        /\ courseRow'[e] = WithCourseRow(e, c)
    BY <1>0, <1>3 DEF StartLesson, MayRecord, Live, TypeOK
  <2>2. (TargetOf[e] \in Courses => TargetOf[e] = c) /\ ResolvedVersion(e, c) # NoVersion
    BY <2>1, PinnedLessonCovered
  <2>3. CASE StartsLesson(e, l)
    <3>1. lessonRow'[e] = [lessonRow[e] EXCEPT ![l].status = "in_progress",
                                               ![l].version = ResolvedVersion(e, c)]
      BY <1>0, <1>3, <2>3 DEF StartLesson, TypeOK
    <3>2. Awards(e, CourseStartKeys(e, c) \cup {<<"lesson-started", e, l>>})
      <4>1. LessonStartKeys(e, l) = {<<"lesson-started", e, l>>}
        BY <2>3 DEF LessonStartKeys
      <4>2. events' = events \cup (CourseStartKeys(e, c) \cup {<<"lesson-started", e, l>>})
        BY <1>3, <4>1 DEF StartLesson
      <4> QED
        BY <1>3, <4>2, NoAward DEF StartLesson
    <3> QED
      BY <2>1, <2>2, <2>3, <3>1, <3>2 DEF Opens, StartsLesson
  <2>4. CASE ~StartsLesson(e, l)
    <3>1. lessonRow'[e] = lessonRow[e]
      BY <1>3, <2>4 DEF StartLesson
    <3>2. \E keys \in SUBSET CourseStartKeys(e, c) : Awards(e, keys)
      <4>1. LessonStartKeys(e, l) = {}
        BY <2>4 DEF LessonStartKeys
      <4>2. events' = events \cup CourseStartKeys(e, c)
        BY <1>3, <4>1 DEF StartLesson
      <4> QED
        BY <1>3, <4>2, NoAward DEF StartLesson
    <3> QED
      BY <2>1, <2>2, <3>1, <3>2 DEF Opens
  <2> QED
    BY <2>3, <2>4
<1>4. ASSUME NEW l \in Lessons, CompleteLesson(e, l)
      PROVE  Finishes(e, l)
  <2> DEFINE c == CourseOf[l]
             keys == CourseStartKeys(e, c) \cup {<<"lesson-completed", e, l>>}
  <2>1. /\ status[e] # "none" /\ InPinnedVersion(e, l)
        /\ c \in SequencedCourses =>
             EarlierRequired(Snapshot(ResolvedVersion(e, c)), l) \subseteq Done(lessonRow[e])
        /\ EvaluateCourse(e, c, WithCourseRow(e, c), WithLessonCompleted(e, l), keys, {})
    BY <1>4 DEF CompleteLesson, MayRecord, Live, SequenceMet
  <2>2. keys \in SUBSET EventKeys
    BY CatalogAssumption DEF CourseStartKeys, EventKeys, EventKinds, Targets
  <2>3. PassedRules(e, {})
    BY DEF PassedRules
  <2>4. WithLessonCompleted(e, l) \in [Lessons -> LessonRows]
    BY <1>0, WithLessonCompletedType
  <2> HIDE DEF keys
  <2> QED
    BY <2>1, <2>2, <2>3, <2>4, CompletedRow DEF Finishes, MayFinish, keys
<1>5. ASSUME NEW l \in Lessons, NEW s \in Finished, OverrideProgress(e, l, s)
      PROVE  Finishes(e, l)
  <2> DEFINE c == CourseOf[l]
             v == IF lessonRow[e][l].version = NoVersion THEN ResolvedVersion(e, c)
                  ELSE lessonRow[e][l].version
             row == [status |-> s, version |-> v, overridden |-> TRUE]
             rows == [lessonRow[e] EXCEPT ![l] = row]
  <2>1. lessonRow[e] \in [Lessons -> LessonRows] /\ c \in Courses
    BY <1>0, CatalogAssumption DEF TypeOK
  <2>2. rows = [lessonRow[e] EXCEPT
                  ![l].status = s,
                  ![l].version = IF @ = NoVersion THEN ResolvedVersion(e, c) ELSE @,
                  ![l].overridden = TRUE]
    BY <2>1 DEF LessonRows
  <2>3. /\ status[e] # "none" /\ InPinnedVersion(e, l)
        /\ EvaluateCourse(e, c, WithCourseRow(e, c), rows, {}, {})
    BY <1>5, <2>2 DEF OverrideProgress
  <2>4. PassedRules(e, {})
    BY DEF PassedRules
  <2>5. row \in LessonRows
    BY <1>0, <2>1, ResolvedVersionType DEF LessonRows
  <2> HIDE DEF row
  <2>6. /\ rows \in [Lessons -> LessonRows]
        /\ \A k \in Lessons \ {l} : rows[k] = lessonRow[e][k]
        /\ rows[l] = row
    BY <2>1, <2>5
  <2>7. rows[l].status \in Finished /\ rows[l].version = v /\ rows[l].overridden
    BY <2>6 DEF row
  <2> HIDE DEF rows
  <2> QED
    BY <2>3, <2>4, <2>6, <2>7 DEF Finishes, MayFinish
<1>6. ASSUME NEW a \in Assignments, StartAttempt(e, a) \/ EndAttemptUnpassed(e, a)
      PROVE  RowsQuiet(e)
  <2>1. UNCHANGED enrollmentVars /\ credentials' = credentials /\ events' = events
    BY <1>6 DEF StartAttempt, EndAttemptUnpassed
  <2>2. Awards(e, {})
    BY <2>1, NoAward
  <2> QED
    BY <2>1, <2>2 DEF enrollmentVars, RowsQuiet
<1>7. ASSUME NEW a \in Assignments, PassAttempt(e, a)
      PROVE  \/ RowsQuiet(e)
             \/ Opens(e, CourseOf[AssignedTo[a]])
             \/ Finishes(e, AssignedTo[a])
  <2> DEFINE l == AssignedTo[a]
             c == CourseOf[l]
             rules == CertificatesFor(a)
  <2>1. l \in Lessons /\ c \in Courses /\ rules \in SUBSET Certificates
    BY CatalogAssumption, ProgressAssumption DEF CertificatesFor
  <2>2. attempt'[e][a] = "passed" /\ attempt[e][a] = "open"
    BY <1>0, <1>7 DEF PassAttempt, TypeOK
  <2>3. status[e] # "none" /\ (TargetOf[e] \in Courses => TargetOf[e] = c)
    BY <1>0, <2>2 DEF RowsSound
  <2>4. PassedRules(e, rules)
    BY <2>2 DEF PassedRules, CertificatesFor
  <2>5. CASE PassCompletingAttempt(e, a)
    <3> DEFINE keys == {<<"assessment-completion", e, a>>, <<"lesson-completed", e, l>>}
    <3>1. /\ a \in Completing /\ InPinnedVersion(e, l)
          /\ EvaluateCourse(e, c, WithCourseRow(e, c), WithLessonCompleted(e, l), keys, rules)
      BY <2>5 DEF PassCompletingAttempt
    <3>2. keys \in SUBSET EventKeys
      BY <2>1 DEF EventKeys, EventKinds
    <3>3. keys \subseteq CourseStartKeys(e, c) \cup {<<"lesson-completed", e, l>>}
                         \cup ({"assessment-completion"} \X {e} \X Assignments)
      OBVIOUS
    <3>4. WithLessonCompleted(e, l) \in [Lessons -> LessonRows]
      BY <1>0, <2>1, WithLessonCompletedType
    <3> HIDE DEF keys, rules
    <3> QED
      BY <2>1, <2>2, <2>3, <2>4, <3>1, <3>2, <3>3, <3>4, CompletedRow DEF Finishes, MayFinish
  <2>6. CASE PassOtherAttempt(e, a)
    <3>1. /\ status' = status /\ pin' = pin /\ lessonRow' = lessonRow
          /\ credentials' = credentials \cup NewCredentials(rules, MemberOf[e], e)
          /\ events' = events \cup IssueKeys(NewCredentials(rules, MemberOf[e], e))
      BY <2>6 DEF PassOtherAttempt
    <3>2. Awards(e, {})
      <4>1. events' = events \cup {} \cup IssueKeys(NewCredentials(rules, MemberOf[e], e))
        BY <3>1
      <4> HIDE DEF rules
      <4> QED
        BY <2>1, <2>4, <3>1, <4>1 DEF Awards
    <3>3. CASE courseRow' = courseRow
      BY <3>1, <3>2, <3>3 DEF RowsQuiet
    <3>4. CASE courseRow' # courseRow
      <4>1. /\ courseRow'[e] = WithCourseRow(e, c)
            /\ ResolvedVersion(e, c) # NoVersion
        BY <1>0, <2>6, <3>4 DEF PassOtherAttempt, TypeOK
      <4> QED
        BY <2>3, <3>1, <3>2, <4>1 DEF Opens
    <3> QED
      BY <3>3, <3>4
  <2> QED
    BY <1>7, <2>5, <2>6 DEF PassAttempt
<1>8. ASSUME NEW l \in PracticalLessons, NEW r \in {"passed", "unpassed"},
             RecordPractical(e, l, r)
      PROVE  RowsQuiet(e) \/ Finishes(e, l)
  <2> DEFINE c == CourseOf[l]
             keys == {<<"lesson-completed", e, l>>}
  <2>1. l \in Lessons /\ c \in Courses
    BY CatalogAssumption, ProgressAssumption
  <2>2. CASE r = "passed"
    <3>1. /\ status[e] # "none" /\ InPinnedVersion(e, l)
          /\ courseRow[e][c].status # "none"
          /\ EarlierRequired(Snapshot(courseRow[e][c].version), l) \subseteq Done(lessonRow[e])
          /\ EvaluateCourse(e, c, courseRow[e], WithLessonCompleted(e, l), keys, {})
      BY <1>8, <2>2 DEF RecordPractical, Live
    <3>2. /\ courseRow[e] = WithCourseRow(e, c)
          /\ ResolvedVersion(e, c) = courseRow[e][c].version
      BY <3>1 DEF WithCourseRow, ResolvedVersion
    <3>3. keys \in SUBSET EventKeys
      BY <2>1 DEF EventKeys, EventKinds
    <3>4. PassedRules(e, {})
      BY DEF PassedRules
    <3>5. WithLessonCompleted(e, l) \in [Lessons -> LessonRows]
      BY <1>0, <2>1, WithLessonCompletedType
    <3>6. EvaluateCourse(e, c, WithCourseRow(e, c), WithLessonCompleted(e, l), keys, {})
      BY <3>1, <3>2
    <3>7. EarlierRequired(Snapshot(ResolvedVersion(e, c)), l) \subseteq Done(lessonRow[e])
      BY <3>1, <3>2
    <3>8. keys \subseteq CourseStartKeys(e, c) \cup {<<"lesson-completed", e, l>>}
                         \cup ({"assessment-completion"} \X {e} \X Assignments)
      OBVIOUS
    <3> HIDE DEF keys
    <3> QED
      BY <2>1, <3>1, <3>3, <3>4, <3>5, <3>6, <3>7, <3>8, CompletedRow DEF Finishes, MayFinish
  <2>3. CASE r # "passed"
    <3>1. UNCHANGED enrollmentVars /\ credentials' = credentials /\ events' = events
      BY <1>8, <2>3 DEF RecordPractical
    <3>2. Awards(e, {})
      BY <3>1, NoAward
    <3> QED
      BY <3>1, <3>2 DEF enrollmentVars, RowsQuiet
  <2> QED
    BY <2>2, <2>3
<1> QED
  BY <1>1, <1>2, <1>3, <1>4, <1>5, <1>6, <1>7, <1>8, CatalogAssumption, ProgressAssumption
  DEF Learning

-----------------------------------------------------------------------------
(* The rows of course c were written: its row names the resolved version R, *)
(* and so does every lesson row that changed.                              *)
Advances(e, c) ==
  LET R == ResolvedVersion(e, c)
  IN /\ VersionExists(R) /\ R[1] = c
     /\ TargetOf[e] \in Courses => TargetOf[e] = c /\ R = pin[e]
     /\ status[e] # "none" /\ status'[e] # "none" /\ pin'[e] = pin[e]
     /\ \A d \in Courses \ {c} : courseRow'[e][d] = courseRow[e][d]
     /\ courseRow'[e][c].version = R
     /\ courseRow'[e][c].status \in {"in_progress", "completed"}
     /\ courseRow[e][c].status = "completed" => courseRow'[e][c].status = "completed"
     /\ \A k \in Lessons :
          \/ lessonRow'[e][k] = lessonRow[e][k]
          \/ /\ CourseOf[k] = c /\ k \in LessonsOf(Snapshot(R))
             /\ lessonRow'[e][k].status # "none" /\ lessonRow'[e][k].version = R

LEMMA RowOfCourse ==
  ASSUME TypeOK, NEW e \in Enrollments, NEW c \in Courses
  PROVE  LET rows == WithCourseRow(e, c)
         IN /\ rows \in [Courses -> CourseRows]
            /\ \A d \in Courses \ {c} : rows[d] = courseRow[e][d]
            /\ rows[c].version = ResolvedVersion(e, c)
            /\ rows[c].status =
                 IF courseRow[e][c].status = "none" THEN "in_progress" ELSE courseRow[e][c].status
<1>1. courseRow[e] \in [Courses -> CourseRows]
  BY DEF TypeOK
<1> QED
  BY <1>1, WithCourseRowType DEF WithCourseRow, ResolvedVersion

LEMMA OpensAdvances ==
  ASSUME PinsInv, NEW e \in Enrollments, NEW c \in Courses, Opens(e, c)
  PROVE  /\ Advances(e, c)
         /\ courseRow'[e][c].status = "completed" <=> courseRow[e][c].status = "completed"
         /\ Done(lessonRow'[e]) = Done(lessonRow[e])
         /\ \A k \in Lessons :
              lessonRow'[e][k].status \in Finished => lessonRow'[e][k] = lessonRow[e][k]
<1> DEFINE R == ResolvedVersion(e, c)
<1>0. TypeOK /\ CatalogTypeOK /\ PublishedOwn
  BY DEF PinsInv, TypeOK
<1>1. /\ VersionExists(R) /\ R[1] = c
      /\ TargetOf[e] \in Courses => TargetOf[e] = c /\ R = pin[e]
      /\ status[e] # "none" /\ status'[e] # "none" /\ pin'[e] = pin[e]
  BY ResolvedExists DEF Opens
<1>2. /\ courseRow'[e] = WithCourseRow(e, c)
      /\ courseRow[e][c].status \in {"none", "in_progress", "completed"}
  BY <1>0 DEF Opens, TypeOK, CourseRows
<1>3. /\ \A d \in Courses \ {c} : courseRow'[e][d] = courseRow[e][d]
      /\ courseRow'[e][c].version = R
      /\ courseRow'[e][c].status \in {"in_progress", "completed"}
      /\ courseRow'[e][c].status = "completed" <=> courseRow[e][c].status = "completed"
  BY <1>0, <1>2, RowOfCourse
<1>4. CASE lessonRow'[e] = lessonRow[e]
  BY <1>1, <1>3, <1>4 DEF Advances
<1>5. CASE lessonRow'[e] # lessonRow[e]
  <2>1. PICK l \in Lessons :
          /\ CourseOf[l] = c /\ InPinnedVersion(e, l)
          /\ lessonRow[e][l].status = "none"
          /\ lessonRow'[e] = [lessonRow[e] EXCEPT ![l].status = "in_progress",
                                                  ![l].version = R]
    BY <1>5 DEF Opens
  <2>2. l \in LessonsOf(Snapshot(R))
    BY <2>1 DEF InPinnedVersion
  <2>3. lessonRow[e] \in [Lessons -> LessonRows]
    BY <1>0 DEF TypeOK
  <2>4. /\ \A k \in Lessons \ {l} : lessonRow'[e][k] = lessonRow[e][k]
        /\ lessonRow'[e][l].status = "in_progress" /\ lessonRow'[e][l].version = R
    BY <2>1, <2>3 DEF LessonRows
  <2>5. \A k \in Lessons :
          \/ lessonRow'[e][k] = lessonRow[e][k]
          \/ /\ CourseOf[k] = c /\ k \in LessonsOf(Snapshot(R))
             /\ lessonRow'[e][k].status # "none" /\ lessonRow'[e][k].version = R
    BY <2>1, <2>2, <2>4
  <2>6. Advances(e, c)
    BY <1>1, <1>3, <2>5 DEF Advances
  <2>7. /\ Done(lessonRow'[e]) = Done(lessonRow[e])
        /\ \A k \in Lessons :
             lessonRow'[e][k].status \in Finished => lessonRow'[e][k] = lessonRow[e][k]
    BY <2>1, <2>4 DEF Done, Finished
  <2> QED
    BY <1>3, <2>6, <2>7
<1> QED
  BY <1>3, <1>4, <1>5

LEMMA FinishesAdvances ==
  ASSUME PinsInv, NEW e \in Enrollments, NEW l \in Lessons, Finishes(e, l)
  PROVE  /\ CourseOf[l] \in Courses
         /\ Advances(e, CourseOf[l])
         /\ courseRow'[e][CourseOf[l]].status = "completed" <=>
              \/ courseRow[e][CourseOf[l]].status = "completed"
              \/ RuleMet(Snapshot(ResolvedVersion(e, CourseOf[l])), Done(lessonRow'[e]))
         /\ Done(lessonRow'[e]) = Done(lessonRow[e]) \cup {l}
         /\ \A k \in Lessons \ {l} : lessonRow'[e][k] = lessonRow[e][k]
         /\ lessonRow'[e][l].version = ResolvedVersion(e, CourseOf[l])
         /\ MayFinish(e, l, lessonRow'[e][l])
<1> DEFINE c == CourseOf[l]
           R == ResolvedVersion(e, c)
<1>0. TypeOK /\ CatalogTypeOK /\ PublishedOwn /\ RowsSound(e) /\ PinsAgreeOf(e)
  BY DEF PinsInv, TypeOK
<1>1. PICK lessons \in [Lessons -> LessonRows], keys \in SUBSET EventKeys,
           rules \in SUBSET Certificates :
        /\ \A k \in Lessons \ {l} : lessons[k] = lessonRow[e][k]
        /\ lessons[l].status \in Finished
        /\ lessons[l].version =
             IF lessonRow[e][l].version = NoVersion THEN R ELSE lessonRow[e][l].version
        /\ MayFinish(e, l, lessons[l])
        /\ EvaluateCourse(e, c, WithCourseRow(e, c), lessons, keys, rules)
  BY DEF Finishes
<1>2. /\ status[e] # "none" /\ InPinnedVersion(e, l)
      /\ c \in Courses /\ R # NoVersion /\ l \in LessonsOf(Snapshot(R))
      /\ TargetOf[e] \in Courses => TargetOf[e] = c
  BY PinnedLessonCovered DEF Finishes
<1>3. /\ VersionExists(R) /\ R[1] = c
      /\ TargetOf[e] \in Courses => R = pin[e]
  BY <1>2, ResolvedExists
<1> DEFINE courses == WithCourseRow(e, c)
           finishes == /\ courses[c].status = "in_progress"
                       /\ RuleMet(Snapshot(courses[c].version), Done(lessons))
           after == IF finishes THEN [courses EXCEPT ![c].status = "completed"]
                    ELSE courses
           reached == finishes /\ TargetReached(e, after)
<1>4. /\ courseRow' = [courseRow EXCEPT ![e] = after]
      /\ lessonRow' = [lessonRow EXCEPT ![e] = lessons]
      /\ status' = [status EXCEPT ![e] = StatusAfter(e, reached)]
      /\ pin' = pin
  BY <1>1 DEF EvaluateCourse
<1>5. /\ courses \in [Courses -> CourseRows]
      /\ \A d \in Courses \ {c} : courses[d] = courseRow[e][d]
      /\ courses[c].version = R
      /\ courses[c].status =
           IF courseRow[e][c].status = "none" THEN "in_progress" ELSE courseRow[e][c].status
  BY <1>0, <1>2, RowOfCourse
<1>6. courseRow[e][c].status \in {"none", "in_progress", "completed"}
  BY <1>0, <1>2 DEF TypeOK, CourseRows
<1>7. finishes <=> /\ courseRow[e][c].status # "completed"
                   /\ RuleMet(Snapshot(R), Done(lessons))
  BY <1>5, <1>6
<1>8. /\ \A d \in Courses \ {c} : after[d] = courseRow[e][d]
      /\ after[c].version = R
      /\ after[c].status = IF finishes THEN "completed" ELSE courses[c].status
  BY <1>2, <1>5 DEF CourseRows
<1> HIDE DEF after, reached
<1>9. courseRow'[e] = after /\ lessonRow'[e] = lessons /\ pin'[e] = pin[e]
      /\ status'[e] = StatusAfter(e, reached)
  BY <1>0, <1>4 DEF TypeOK
<1>10. status'[e] # "none"
  BY <1>2, <1>9 DEF StatusAfter
<1> HIDE DEF finishes, courses
<1>11. /\ \A d \in Courses \ {c} : courseRow'[e][d] = courseRow[e][d]
       /\ courseRow'[e][c].version = R
       /\ courseRow'[e][c].status \in {"in_progress", "completed"}
       /\ courseRow'[e][c].status = "completed" <=>
            courseRow[e][c].status = "completed" \/ RuleMet(Snapshot(R), Done(lessonRow'[e]))
  BY <1>5, <1>6, <1>7, <1>8, <1>9
<1>12. lessonRow'[e][l].version = R /\ lessonRow'[e][l].status \in Finished
  <2>1. CASE lessonRow[e][l].version = NoVersion
    BY <1>1, <1>9, <2>1
  <2>2. CASE lessonRow[e][l].version # NoVersion
    <3>1. lessonRow[e][l].status # "none"
      BY <1>0, <2>2 DEF RowsSound
    <3>2. courseRow[e][c].status # "none" /\ lessonRow[e][l].version = courseRow[e][c].version
      BY <1>0, <3>1 DEF PinsAgreeOf
    <3>3. lessonRow[e][l].version = R
      BY <3>2 DEF ResolvedVersion
    <3> QED
      BY <1>1, <1>9, <2>2, <3>3
  <2> QED
    BY <2>1, <2>2
<1>13. \A k \in Lessons \ {l} : lessonRow'[e][k] = lessonRow[e][k]
  BY <1>1, <1>9
<1>14. Done(lessonRow'[e]) = Done(lessonRow[e]) \cup {l}
  BY <1>12, <1>13 DEF Done
<1>15. \A k \in Lessons :
         \/ lessonRow'[e][k] = lessonRow[e][k]
         \/ /\ CourseOf[k] = c /\ k \in LessonsOf(Snapshot(R))
            /\ lessonRow'[e][k].status # "none" /\ lessonRow'[e][k].version = R
  BY <1>2, <1>12, <1>13 DEF Finished
<1>16. Advances(e, c)
  BY <1>2, <1>3, <1>9, <1>10, <1>11, <1>15 DEF Advances
<1>17. MayFinish(e, l, lessonRow'[e][l])
  BY <1>1, <1>9
<1> QED
  BY <1>2, <1>11, <1>12, <1>13, <1>14, <1>16, <1>17

-----------------------------------------------------------------------------
(* What a step leaves of the enrollments it is not about.                  *)
Untouched(f) ==
  /\ courseRow'[f] = courseRow[f] /\ lessonRow'[f] = lessonRow[f]
  /\ status'[f] = status[f] /\ pin'[f] = pin[f] /\ attempt'[f] = attempt[f]

LEMMA LearningTouchesOne ==
  ASSUME TypeOK, NEW e \in Enrollments, Learning(e), NEW f \in Enrollments, f # e
  PROVE  Untouched(f)
<1>1. ASSUME NEW c, NEW courses, NEW lessons, NEW keys, NEW rules,
             EvaluateCourse(e, c, courses, lessons, keys, rules),
             attempt'[f] = attempt[f]
      PROVE  Untouched(f)
  BY <1>1 DEF EvaluateCourse, Untouched, TypeOK
<1>2. CASE \/ CreateEnrollment(e)
           \/ \E s \in {"active", "withdrawn", "expired"} : SetEnrollmentStatus(e, s)
           \/ \E l \in Lessons : StartLesson(e, l)
  BY <1>2 DEF CreateEnrollment, SetEnrollmentStatus, StartLesson, evidenceVars, TypeOK, Untouched
<1>3. CASE \E l \in Lessons : CompleteLesson(e, l) \/ \E s \in Finished : OverrideProgress(e, l, s)
  BY <1>1, <1>3 DEF CompleteLesson, OverrideProgress, evidenceVars
<1>4. CASE \E a \in Assignments : StartAttempt(e, a) \/ EndAttemptUnpassed(e, a)
  BY <1>4 DEF StartAttempt, EndAttemptUnpassed, enrollmentVars, TypeOK, Untouched
<1>5. ASSUME NEW a \in Assignments, PassAttempt(e, a)
      PROVE  Untouched(f)
  <2>1. attempt'[f] = attempt[f]
    BY <1>5 DEF PassAttempt, TypeOK
  <2>2. CASE PassCompletingAttempt(e, a)
    BY <1>1, <2>1, <2>2 DEF PassCompletingAttempt
  <2>3. CASE PassOtherAttempt(e, a)
    BY <2>1, <2>3 DEF PassOtherAttempt, TypeOK, Untouched
  <2> QED
    BY <1>5, <2>2, <2>3 DEF PassAttempt
<1>6. ASSUME NEW l \in PracticalLessons, NEW r \in {"passed", "unpassed"},
             RecordPractical(e, l, r)
      PROVE  Untouched(f)
  BY <1>1, <1>6 DEF RecordPractical, enrollmentVars, TypeOK, Untouched
<1> QED
  BY <1>2, <1>3, <1>4, <1>5, <1>6 DEF Learning

LEMMA LearningKeepsCatalog ==
  ASSUME NEW e \in Enrollments, Learning(e)
  PROVE  UNCHANGED catalogVars /\ UNCHANGED settingVars
BY DEF Learning, CreateEnrollment, SetEnrollmentStatus, StartLesson, CompleteLesson,
       OverrideProgress, StartAttempt, PassAttempt, EndAttemptUnpassed, RecordPractical

LEMMA StepsOfOthers ==
  ASSUME TypeOK, [Next]_vars, NEW f \in Enrollments
  PROVE  Learning(f) \/ Untouched(f)
<1>1. UNCHANGED <<enrollmentVars, attempt>> \/ \E e \in Enrollments : Learning(e)
  BY DEF Next, vars, Authoring, SetAssignmentStatus, WindowEnds, SetMembershipStatus,
         IssueCredential, RevokeCredential, evidenceVars
<1>2. UNCHANGED <<enrollmentVars, attempt>> => Untouched(f)
  BY DEF enrollmentVars, Untouched
<1> QED
  BY <1>1, <1>2, LearningTouchesOne

(* A passed attempt stays, and one is only begun by who is enrolled.       *)
LEMMA AttemptsStep ==
  ASSUME TypeOK, [Next]_vars, NEW e \in Enrollments, NEW a \in Assignments
  PROVE  /\ attempt[e][a] = "passed" => attempt'[e][a] = "passed"
         /\ attempt'[e][a] # "none" =>
              \/ attempt[e][a] # "none"
              \/ status[e] = "active" /\ Covers(e, CourseOf[AssignedTo[a]])
<1>1. ASSUME NEW f \in Enrollments, NEW b \in Assignments,
             StartAttempt(f, b) \/ PassAttempt(f, b) \/ EndAttemptUnpassed(f, b)
      PROVE  /\ attempt[e][a] = "passed" => attempt'[e][a] = "passed"
             /\ attempt'[e][a] # "none" =>
                  \/ attempt[e][a] # "none"
                  \/ status[e] = "active" /\ Covers(e, CourseOf[AssignedTo[a]])
  <2>1. PICK o \in {"open", "passed", "unpassed"} :
          attempt' = [attempt EXCEPT ![f][b] = o]
    BY <1>1 DEF StartAttempt, PassAttempt, EndAttemptUnpassed
  <2>2. CASE f = e /\ b = a
    <3>1. attempt[e][a] # "passed"
      BY <1>1, <2>2 DEF StartAttempt, PassAttempt, EndAttemptUnpassed
    <3>2. \/ attempt[e][a] # "none"
          \/ status[e] = "active" /\ Covers(e, CourseOf[AssignedTo[a]])
      BY <1>1, <2>2 DEF StartAttempt, PassAttempt, EndAttemptUnpassed
    <3> QED
      BY <3>1, <3>2
  <2>3. CASE ~(f = e /\ b = a)
    <3>1. attempt'[e][a] = attempt[e][a]
      BY <2>1, <2>3 DEF TypeOK
    <3> QED
      BY <3>1
  <2> QED
    BY <2>2, <2>3
<1>2. ASSUME NEW f \in Enrollments, Learning(f)
      PROVE  \/ attempt' = attempt
             \/ \E b \in Assignments :
                  StartAttempt(f, b) \/ PassAttempt(f, b) \/ EndAttemptUnpassed(f, b)
  BY <1>2
  DEF Learning, CreateEnrollment, SetEnrollmentStatus, StartLesson, CompleteLesson,
      OverrideProgress, RecordPractical, evidenceVars
<1>3. attempt' = attempt \/ \E f \in Enrollments : Learning(f)
  BY DEF Next, vars, Authoring, SetAssignmentStatus, WindowEnds, SetMembershipStatus, IssueCredential,
         RevokeCredential, evidenceVars
<1> QED
  BY <1>1, <1>2, <1>3

(* Versions are never withdrawn or rewritten.                              *)
LEMMA PublishedGrows ==
  ASSUME CatalogTypeOK, PublishedOwn, [CatalogNext]_catalogVars
  PROVE  /\ PublishedOwn'
         /\ \A v : VersionExists(v) => VersionExists(v)' /\ Snapshot(v)' = Snapshot(v)
<1>1. CASE published' = published
  BY <1>1 DEF PublishedOwn, VersionExists, Snapshot
<1>2. ASSUME NEW s \in Structures, PublishCourse(s)
      PROVE  /\ PublishedOwn'
             /\ \A v : VersionExists(v) => VersionExists(v)' /\ Snapshot(v)' = Snapshot(v)
  <2> DEFINE c == s.course
  <2>1. c \in Courses
    BY CatalogAssumption DEF IsStructure
  <2>2. /\ published[c] \in Seq(Structures) /\ published'[c] = Append(published[c], s)
        /\ \A d \in Courses \ {c} : published'[d] = published[d]
    BY <1>2, <2>1 DEF PublishCourse, CatalogTypeOK
  <2>3. /\ Len(published'[c]) = Len(published[c]) + 1 /\ Len(published[c]) \in Nat
        /\ \A i \in 1..Len(published[c]) : published'[c][i] = published[c][i]
        /\ published'[c][Len(published[c]) + 1] = s
    BY <2>2
  <2>4. \A d \in Courses : \A i \in 1..Len(published'[d]) : published'[d][i].course = d
    <3> SUFFICES ASSUME NEW d \in Courses, NEW i \in 1..Len(published'[d])
                 PROVE  published'[d][i].course = d
      OBVIOUS
    <3>1. CASE d # c
      BY <2>2, <3>1 DEF PublishedOwn
    <3>2. CASE d = c /\ i = Len(published[c]) + 1
      BY <2>3, <3>2
    <3>3. CASE d = c /\ i # Len(published[c]) + 1
      <4>1. i \in 1..Len(published[c])
        BY <2>3, <3>3
      <4> QED
        BY <2>1, <2>3, <3>3, <4>1 DEF PublishedOwn
    <3> QED
      BY <3>1, <3>2, <3>3
  <2>5. ASSUME NEW v, VersionExists(v)
        PROVE  VersionExists(v)' /\ Snapshot(v)' = Snapshot(v)
    <3>1. v \in Version /\ v[1] \in Courses /\ v[2] \in 1..Len(published[v[1]])
      BY <2>5 DEF VersionExists, Version
    <3>2. CASE v[1] = c
      BY <2>3, <3>1, <3>2 DEF VersionExists, Snapshot
    <3>3. CASE v[1] # c
      BY <2>2, <3>1, <3>3 DEF VersionExists, Snapshot
    <3> QED
      BY <3>2, <3>3
  <2> QED
    BY <2>4, <2>5 DEF PublishedOwn
<1>3. published' = published \/ \E s \in Structures : PublishCourse(s)
  BY DEF CatalogNext, catalogVars, CloseTarget, OpenTarget, AddPathNode, RemovePathNode,
         CheckPrerequisite, CommitPrerequisite, AbortPrerequisite, RemovePrerequisite
<1> QED
  BY <1>1, <1>2, <1>3

-----------------------------------------------------------------------------
(* Rows sound and pins agreeing: one enrollment, one step.                 *)
LEMMA PinsKept ==
  ASSUME TypeOK, NEW e \in Enrollments, RowsSound(e), PinsAgreeOf(e),
         \A v : VersionExists(v) => VersionExists(v)' /\ Snapshot(v)' = Snapshot(v),
         Untouched(e)
  PROVE  RowsSound(e)' /\ PinsAgreeOf(e)'
<1>1. RowsSound(e)'
  BY DEF RowsSound, Untouched
<1>2. \A l \in Lessons : CourseOf[l] \in Courses
  BY CatalogAssumption
<1>3. PinsAgreeOf(e)'
  BY <1>2 DEF PinsAgreeOf, RowsSound, Untouched
<1> QED
  BY <1>1, <1>3

LEMMA PinsLearningStep ==
  ASSUME PinsInv, TypeOK', [Next]_vars, NEW e \in Enrollments, Learning(e)
  PROVE  RowsSound(e)' /\ PinsAgreeOf(e)'
<1>0. /\ TypeOK /\ CatalogTypeOK /\ PublishedOwn /\ RowsSound(e) /\ PinsAgreeOf(e)
      /\ \A l \in Lessons : CourseOf[l] \in Courses
      /\ \A a \in Assignments : AssignedTo[a] \in Lessons
  BY CatalogAssumption, ProgressAssumption DEF PinsInv, TypeOK
<1>1. published' = published
  BY LearningKeepsCatalog DEF catalogVars
<1>2. \A v : (VersionExists(v)' <=> VersionExists(v)) /\ Snapshot(v)' = Snapshot(v)
  BY <1>1 DEF VersionExists, Snapshot
<1>3. \A a \in Assignments :
        attempt'[e][a] # "none" /\ TargetOf[e] \in Courses =>
          TargetOf[e] = CourseOf[AssignedTo[a]]
  <2> SUFFICES ASSUME NEW a \in Assignments, attempt'[e][a] # "none", TargetOf[e] \in Courses
               PROVE  TargetOf[e] = CourseOf[AssignedTo[a]]
    OBVIOUS
  <2>1. attempt[e][a] # "none" \/ Covers(e, CourseOf[AssignedTo[a]])
    BY <1>0, AttemptsStep
  <2> QED
    BY <1>0, <2>1, CatalogAssumption DEF RowsSound, Covers
<1>4. CASE RowsQuiet(e)
  <2>1. courseRow'[e] = courseRow[e] /\ lessonRow'[e] = lessonRow[e]
    BY <1>4 DEF RowsQuiet
  <2>2. CASE /\ pin'[e] = pin[e]
             /\ status[e] = "none" <=> status'[e] = "none"
    <3>1. status'[e] = "none" => \A a \in Assignments : attempt'[e][a] = "none"
      BY <1>0, <2>2, AttemptsStep DEF RowsSound
    <3>2. RowsSound(e)'
      BY <1>0, <1>2, <1>3, <2>1, <2>2, <3>1 DEF RowsSound
    <3>3. PinsAgreeOf(e)'
      BY <1>0, <1>2, <2>1, <2>2 DEF PinsAgreeOf
    <3> QED
      BY <3>2, <3>3
  <2>3. CASE /\ status[e] = "none" /\ status'[e] = "active"
             /\ pin'[e] = IF TargetOf[e] \in Courses THEN Current(TargetOf[e]) ELSE NoVersion
             /\ TargetOf[e] \in Courses => pin'[e] # NoVersion
    <3>1. pin'[e] # NoVersion => VersionExists(pin'[e]) /\ pin'[e][1] = TargetOf[e]
      BY <1>0, <2>3, CurrentType DEF VersionExists
    <3>2. \A c \in Courses : courseRow[e][c].status = "none"
      BY <1>0, <2>3 DEF RowsSound
    <3>3. RowsSound(e)'
      BY <1>0, <1>2, <1>3, <2>1, <2>3, <3>1 DEF RowsSound
    <3>4. PinsAgreeOf(e)'
      BY <1>0, <1>2, <2>1, <3>2 DEF PinsAgreeOf
    <3> QED
      BY <3>3, <3>4
  <2> QED
    BY <1>4, <2>2, <2>3 DEF RowsQuiet
<1>5. ASSUME NEW c \in Courses, Advances(e, c)
      PROVE  RowsSound(e)' /\ PinsAgreeOf(e)'
  <2> DEFINE R == ResolvedVersion(e, c)
  <2>1. /\ VersionExists(R) /\ R[1] = c
        /\ TargetOf[e] \in Courses => TargetOf[e] = c /\ R = pin[e]
        /\ status[e] # "none" /\ status'[e] # "none" /\ pin'[e] = pin[e]
        /\ \A d \in Courses \ {c} : courseRow'[e][d] = courseRow[e][d]
        /\ courseRow'[e][c].version = R
        /\ courseRow'[e][c].status \in {"in_progress", "completed"}
        /\ \A k \in Lessons :
             \/ lessonRow'[e][k] = lessonRow[e][k]
             \/ /\ CourseOf[k] = c /\ k \in LessonsOf(Snapshot(R))
                /\ lessonRow'[e][k].status # "none" /\ lessonRow'[e][k].version = R
    BY <1>5 DEF Advances
  <2>2. courseRow[e][c].status # "none" => courseRow[e][c].version = R
    BY DEF ResolvedVersion
  <2> HIDE DEF R
  <2>3. RowsSound(e)'
    BY <1>0, <1>2, <1>3, <2>1 DEF RowsSound
  <2>4. \A d \in Courses :
          courseRow'[e][d].status # "none" /\ TargetOf[e] \in Courses =>
            TargetOf[e] = d /\ courseRow'[e][d].version = pin'[e]
    BY <1>0, <2>1 DEF PinsAgreeOf
  <2>5. ASSUME NEW l \in Lessons, lessonRow'[e][l].status # "none"
        PROVE  /\ courseRow'[e][CourseOf[l]].status # "none"
               /\ lessonRow'[e][l].version = courseRow'[e][CourseOf[l]].version
               /\ l \in LessonsOf(Snapshot(courseRow'[e][CourseOf[l]].version))
    <3>1. CASE lessonRow'[e][l] = lessonRow[e][l]
      <4>1. /\ courseRow[e][CourseOf[l]].status # "none"
            /\ lessonRow[e][l].version = courseRow[e][CourseOf[l]].version
            /\ l \in LessonsOf(Snapshot(courseRow[e][CourseOf[l]].version))
        BY <1>0, <2>5, <3>1 DEF PinsAgreeOf
      <4> QED
        BY <1>0, <2>1, <2>2, <3>1, <4>1
    <3>2. CASE lessonRow'[e][l] # lessonRow[e][l]
      BY <2>1, <3>2
    <3> QED
      BY <3>1, <3>2
  <2>6. PinsAgreeOf(e)'
    BY <1>2, <2>4, <2>5 DEF PinsAgreeOf
  <2> QED
    BY <2>3, <2>6
<1> QED
  BY <1>4, <1>5, StepKind, OpensAdvances, FinishesAdvances

LEMMA PinsStep ==
  ASSUME PinsInv, [Next]_vars
  PROVE  PinsInv'
<1>0. TypeOK /\ TypeOK' /\ CatalogTypeOK /\ PublishedOwn
  BY ProgressTypeStep DEF PinsInv, TypeOK
<1>1. /\ PublishedOwn'
      /\ \A v : VersionExists(v) => VersionExists(v)' /\ Snapshot(v)' = Snapshot(v)
  BY <1>0, StepKeepsCatalog, PublishedGrows
<1>2. ASSUME NEW f \in Enrollments
      PROVE  RowsSound(f)' /\ PinsAgreeOf(f)'
  <2>1. RowsSound(f) /\ PinsAgreeOf(f)
    BY DEF PinsInv
  <2>2. CASE Learning(f)
    BY <1>0, <2>2, PinsLearningStep
  <2>3. CASE Untouched(f)
    BY <1>0, <1>1, <2>1, <2>3, PinsKept
  <2>4. Learning(f) \/ Untouched(f)
    BY <1>0, StepsOfOthers
  <2> QED
    BY <2>2, <2>3, <2>4
<1> QED
  BY <1>0, <1>1, <1>2 DEF PinsInv

LEMMA PinsInit == Init => PinsInv
<1> SUFFICES ASSUME Init PROVE PinsInv
  OBVIOUS
<1>1. TypeOK /\ PublishedOwn
  BY ProgressTypeInit DEF Init, CatalogInit, PublishedOwn
<1>2. \A l \in Lessons : CourseOf[l] \in Courses
  BY CatalogAssumption
<1> QED
  BY <1>1, <1>2
  DEF Init, PinsInv, RowsSound, PinsAgreeOf, NoCourseRow, NoLessonRow

(* Evidence names the version the learner was given, whatever is published *)
(* meanwhile.                                                              *)
THEOREM PinsAlwaysAgree == Spec => []PinsAgree
<1>1. PinsInv => PinsAgree
  BY DEF PinsInv, PinsAgreeOf, PinsAgree
<1> QED
  BY <1>1, PinsInit, PinsStep, PTL DEF Spec

-----------------------------------------------------------------------------
(* Facts of the completion rule: finished lessons never unmeet it, only    *)
(* required lessons count, and a version with none finished does not meet  *)
(* it, since completion_threshold_percent is at least 1.                   *)
LEMMA RequiredFinite ==
  ASSUME NEW s, IsStructure(s)
  PROVE  /\ s.required \subseteq Lessons /\ IsFiniteSet(s.required)
         /\ LessonsOf(s) \subseteq Lessons
<1>1. LessonsOf(s) \subseteq Lessons
  BY DEF IsStructure, LessonsOf
<1>2. s.required \subseteq Lessons
  BY <1>1 DEF IsStructure
<1> QED
  BY <1>1, <1>2, CatalogAssumption, FS_Subset

LEMMA RuleMonotone ==
  ASSUME NEW s, IsStructure(s), NEW done, NEW later, s.required \cap done \subseteq later,
         RuleMet(s, done)
  PROVE  RuleMet(s, later)
<1> DEFINE A == s.required \cap done
           B == s.required \cap later
<1>1. IsFiniteSet(s.required)
  BY RequiredFinite
<1>2. IsFiniteSet(B) /\ IsFiniteSet(A) /\ A \subseteq B
  BY <1>1, FS_Subset
<1>3. Cardinality(A) <= Cardinality(B) /\ Cardinality(A) \in Nat /\ Cardinality(B) \in Nat
  BY <1>2, FS_Subset, FS_CardinalityType
<1>4. s.percent * Cardinality(s.required) \in Int
  <2>1. s.percent \in 1..100
    BY DEF IsStructure
  <2> DEFINE p == s.percent
             n == Cardinality(s.required)
  <2>2. Cardinality(s.required) \in Nat
    BY <1>1, FS_CardinalityType
  <2>3. p \in Int /\ n \in Int
    BY <2>1, <2>2
  <2> HIDE DEF p, n
  <2>4. p * n \in Int
    BY <2>3
  <2> QED
    BY <2>4 DEF p, n
<1> QED
  BY <1>3, <1>4 DEF RuleMet

LEMMA ProductPositive ==
  ASSUME NEW p \in Nat \ {0}, NEW n \in Nat \ {0}
  PROVE  p * n > 0 /\ p * n \in Int
  OBVIOUS

LEMMA RuleNeedsDone ==
  ASSUME NEW s, IsStructure(s), NEW done, s.required \cap done = {}
  PROVE  ~RuleMet(s, done)
<1>1. 100 * Cardinality(s.required \cap done) = 0
  BY FS_EmptySet
<1>2. ASSUME s.required # {}
      PROVE  /\ s.percent * Cardinality(s.required) > 0
             /\ s.percent * Cardinality(s.required) \in Int
  <2>1. Cardinality(s.required) \in Nat \ {0}
    BY <1>2, RequiredFinite, FS_CardinalityType, FS_EmptySet
  <2>2. s.percent \in 1..100
    BY DEF IsStructure
  <2> DEFINE p == s.percent
             n == Cardinality(s.required)
  <2>3. p \in Nat \ {0}
    BY <2>2
  <2> HIDE DEF p, n
  <2>4. p * n > 0 /\ p * n \in Int
    BY <2>1, <2>3, ProductPositive DEF n
  <2> QED
    BY <2>4 DEF p, n
<1> QED
  BY <1>1, <1>2 DEF RuleMet

-----------------------------------------------------------------------------
(* CompletionExact for one enrollment.                                     *)
ExactOf(e) ==
  \A c \in Courses :
    courseRow[e][c].status # "none" =>
      (courseRow[e][c].status = "completed" <=>
         RuleMet(Snapshot(courseRow[e][c].version), Done(lessonRow[e])))

(* The rows of courses other than the one a step writes.                   *)
LEMMA ExactElsewhere ==
  ASSUME PinsInv, NEW e \in Enrollments, ExactOf(e), NEW c \in Courses,
         \A d \in Courses \ {c} : courseRow'[e][d] = courseRow[e][d],
         \A k \in Lessons : CourseOf[k] # c => lessonRow'[e][k] = lessonRow[e][k],
         NEW d \in Courses \ {c}, courseRow'[e][d].status # "none"
  PROVE  courseRow'[e][d].status = "completed" <=>
           RuleMet(Snapshot(courseRow'[e][d].version), Done(lessonRow'[e]))
<1> DEFINE s == Snapshot(courseRow[e][d].version)
<1>1. CatalogTypeOK /\ PublishedOwn /\ RowsSound(e)
  BY DEF PinsInv, TypeOK
<1>2. VersionExists(courseRow[e][d].version) /\ courseRow[e][d].version[1] = d
  BY <1>1 DEF RowsSound
<1>3. IsStructure(s) /\ \A k \in LessonsOf(s) : CourseOf[k] = d
  BY <1>1, <1>2, ExistingVersion
<1>4. s.required \cap Done(lessonRow'[e]) = s.required \cap Done(lessonRow[e])
  <2>1. \A k \in s.required : k \in Lessons /\ CourseOf[k] # c
    BY <1>3, RequiredFinite DEF IsStructure
  <2> QED
    BY <2>1 DEF Done
<1>5. RuleMet(s, Done(lessonRow'[e])) <=> RuleMet(s, Done(lessonRow[e]))
  BY <1>4 DEF RuleMet
<1> QED
  BY <1>5 DEF ExactOf

(* The lessons of a course without a row are not begun.                    *)
LEMMA NothingDoneBefore ==
  ASSUME PinsInv, NEW e \in Enrollments, NEW c \in Courses,
         courseRow[e][c].status = "none", NEW l \in Lessons, CourseOf[l] = c
  PROVE  lessonRow[e][l].status = "none"
  BY DEF PinsInv, PinsAgreeOf

LEMMA ExactLearningStep ==
  ASSUME PinsInv, TypeOK', [Next]_vars, NEW e \in Enrollments, Learning(e), ExactOf(e)
  PROVE  ExactOf(e)'
<1>0. TypeOK /\ CatalogTypeOK /\ PublishedOwn /\ RowsSound(e) /\ PinsAgreeOf(e)
  BY DEF PinsInv, TypeOK
<1>1. published' = published
  BY LearningKeepsCatalog DEF catalogVars
<1>2. \A v : Snapshot(v)' = Snapshot(v)
  BY <1>1 DEF Snapshot
<1>3. CASE RowsQuiet(e)
  BY <1>2, <1>3 DEF RowsQuiet, ExactOf
<1>4. ASSUME NEW c \in Courses, Opens(e, c)
      PROVE  ExactOf(e)'
  <2> DEFINE R == ResolvedVersion(e, c)
             s == Snapshot(R)
  <2>1. /\ Advances(e, c)
        /\ courseRow'[e][c].status = "completed" <=> courseRow[e][c].status = "completed"
        /\ Done(lessonRow'[e]) = Done(lessonRow[e])
    BY <1>4, OpensAdvances
  <2>2. courseRow'[e][c].version = R /\ VersionExists(R) /\ R[1] = c
    BY <2>1 DEF Advances
  <2>3. ASSUME courseRow[e][c].status # "none"
        PROVE  courseRow'[e][c].status = "completed" <=> RuleMet(s, Done(lessonRow'[e]))
    BY <2>1, <2>2, <2>3 DEF ExactOf, ResolvedVersion
  <2>4. ASSUME courseRow[e][c].status = "none"
        PROVE  courseRow'[e][c].status = "completed" <=> RuleMet(s, Done(lessonRow'[e]))
    <3>1. IsStructure(s) /\ \A k \in LessonsOf(s) : CourseOf[k] = c
      BY <1>0, <2>2, ExistingVersion
    <3>2. s.required \cap Done(lessonRow[e]) = {}
      BY <2>4, <3>1, NothingDoneBefore DEF IsStructure, Done, Finished
    <3>3. ~RuleMet(s, Done(lessonRow'[e]))
      BY <2>1, <3>1, <3>2, RuleNeedsDone
    <3> QED
      BY <2>1, <2>2, <2>4, <3>3
  <2>5. \A d \in Courses \ {c} :
          courseRow'[e][d].status # "none" =>
            (courseRow'[e][d].status = "completed" <=>
               RuleMet(Snapshot(courseRow'[e][d].version), Done(lessonRow'[e])))
    BY <2>1, ExactElsewhere DEF Advances
  <2> QED
    BY <1>2, <2>2, <2>3, <2>4, <2>5 DEF ExactOf
<1>5. ASSUME NEW l \in Lessons, Finishes(e, l)
      PROVE  ExactOf(e)'
  <2> DEFINE c == CourseOf[l]
             R == ResolvedVersion(e, c)
             s == Snapshot(R)
  <2>1. /\ c \in Courses /\ Advances(e, c)
        /\ courseRow'[e][c].status = "completed" <=>
             courseRow[e][c].status = "completed" \/ RuleMet(s, Done(lessonRow'[e]))
        /\ Done(lessonRow[e]) \subseteq Done(lessonRow'[e])
    BY <1>5, FinishesAdvances
  <2>2. courseRow'[e][c].version = R /\ VersionExists(R) /\ R[1] = c
    BY <2>1 DEF Advances
  <2>3. ASSUME courseRow[e][c].status = "completed"
        PROVE  RuleMet(s, Done(lessonRow'[e]))
    <3>1. R = courseRow[e][c].version
      BY <2>3 DEF ResolvedVersion
    <3>2. RuleMet(s, Done(lessonRow[e]))
      BY <2>1, <2>3, <3>1 DEF ExactOf
    <3>3. IsStructure(s)
      BY <1>0, <2>2, ExistingVersion
    <3> QED
      BY <2>1, <3>2, <3>3, RuleMonotone
  <2>4. \A d \in Courses \ {c} :
          courseRow'[e][d].status # "none" =>
            (courseRow'[e][d].status = "completed" <=>
               RuleMet(Snapshot(courseRow'[e][d].version), Done(lessonRow'[e])))
    BY <2>1, ExactElsewhere DEF Advances
  <2> QED
    BY <1>2, <2>1, <2>2, <2>3, <2>4 DEF ExactOf
<1> QED
  BY <1>3, <1>4, <1>5, StepKind, <1>0

(* No writer of lesson progress completes a course early, and none leaves  *)
(* open a course whose last required lesson it finished: learner, reviewer, *)
(* evaluator and administrator alike, in any order, under any rule.        *)
THEOREM CompletionAlwaysExact == Spec => []CompletionExact
<1> DEFINE Inv == PinsInv /\ \A e \in Enrollments : ExactOf(e)
<1>1. Init => Inv
  <2>1. Init => PinsInv
    BY PinsInit
  <2>2. Init => \A e \in Enrollments : ExactOf(e)
    BY DEF Init, ExactOf, NoCourseRow
  <2> QED
    BY <2>1, <2>2
<1>2. Inv /\ [Next]_vars => Inv'
  <2> SUFFICES ASSUME Inv, [Next]_vars
               PROVE  Inv'
    OBVIOUS
  <2>1. PinsInv /\ PinsInv' /\ TypeOK /\ TypeOK' /\ CatalogTypeOK /\ PublishedOwn
    BY PinsStep DEF PinsInv, TypeOK
  <2>2. ASSUME NEW e \in Enrollments
        PROVE  ExactOf(e)'
    <3>1. CASE Learning(e)
      BY <2>1, <3>1, ExactLearningStep
    <3>2. CASE Untouched(e)
      <4>1. \A v : VersionExists(v) => Snapshot(v)' = Snapshot(v)
        BY <2>1, StepKeepsCatalog, PublishedGrows
      <4>2. RowsSound(e)
        BY <2>1 DEF PinsInv
      <4> QED
        BY <3>2, <4>1, <4>2 DEF Untouched, RowsSound, ExactOf
    <3> QED
      BY <2>1, <3>1, <3>2, StepsOfOthers
  <2> QED
    BY <2>1, <2>2
<1>3. Inv => CompletionExact
  BY DEF ExactOf, CompletionExact
<1> QED
  BY <1>1, <1>2, <1>3, PTL DEF Spec

-----------------------------------------------------------------------------
(* SequenceRespected for one enrollment.                                   *)
SequenceOf(e) ==
  \A l \in Lessons :
    /\ CourseOf[l] \in SequencedCourses
    /\ lessonRow[e][l].status \in Finished
    /\ ~lessonRow[e][l].overridden
    /\ \A a \in Completing : AssignedTo[a] = l => attempt[e][a] # "passed"
    => EarlierRequired(Snapshot(lessonRow[e][l].version), l) \subseteq Done(lessonRow[e])

(* A finished lesson names a version that exists.                          *)
LEMMA FinishedVersion ==
  ASSUME PinsInv, NEW e \in Enrollments, NEW l \in Lessons, lessonRow[e][l].status \in Finished
  PROVE  VersionExists(lessonRow[e][l].version)
<1>1. RowsSound(e) /\ PinsAgreeOf(e) /\ CourseOf[l] \in Courses
  BY CatalogAssumption DEF PinsInv
<1>2. lessonRow[e][l].status # "none"
  BY DEF Finished
<1> QED
  BY <1>1, <1>2 DEF RowsSound, PinsAgreeOf

LEMMA SequenceStep ==
  ASSUME PinsInv, PinsInv', [Next]_vars, NEW e \in Enrollments, SequenceOf(e)
  PROVE  SequenceOf(e)'
<1> SUFFICES ASSUME NEW l \in Lessons,
                    CourseOf[l] \in SequencedCourses,
                    lessonRow'[e][l].status \in Finished,
                    ~lessonRow'[e][l].overridden,
                    \A a \in Completing : AssignedTo[a] = l => attempt'[e][a] # "passed"
             PROVE  EarlierRequired(Snapshot(lessonRow[e][l].version)', l)
                      \subseteq Done(lessonRow'[e])
  BY DEF SequenceOf
<1>0. /\ TypeOK /\ TypeOK' /\ CatalogTypeOK /\ PublishedOwn
      /\ \A v : VersionExists(v) => Snapshot(v)' = Snapshot(v)
  BY StepKeepsCatalog, PublishedGrows DEF PinsInv, TypeOK
<1>1. \A a \in Completing : AssignedTo[a] = l => attempt[e][a] # "passed"
  BY <1>0, AttemptsStep, ProgressAssumption
<1>2. Done(lessonRow[e]) \subseteq Done(lessonRow'[e])
  BY <1>0, StepKeeps DEF Kept
<1>3. CASE lessonRow'[e][l] = lessonRow[e][l]
  <2>1. /\ VersionExists(lessonRow[e][l].version)
        /\ EarlierRequired(Snapshot(lessonRow[e][l].version), l) \subseteq Done(lessonRow[e])
    BY <1>1, <1>3, FinishedVersion DEF SequenceOf
  <2>2. Snapshot(lessonRow[e][l].version)' = Snapshot(lessonRow[e][l].version)
    BY <1>0, <1>3, <2>1 DEF Snapshot
  <2> QED
    BY <1>2, <2>1, <2>2
<1>4. CASE lessonRow'[e][l] # lessonRow[e][l]
  <2>1. Learning(e)
    BY <1>0, <1>4, StepsOfOthers DEF Untouched
  <2>2. ~RowsQuiet(e) /\ \A c \in Courses : ~Opens(e, c)
    BY <1>4, OpensAdvances DEF RowsQuiet
  <2>3. PICK k \in Lessons : Finishes(e, k)
    BY <1>0, <2>1, <2>2, StepKind
  <2>4. k = l
    BY <1>4, <2>3, FinishesAdvances
  <2> DEFINE R == ResolvedVersion(e, CourseOf[l])
  <2>5. /\ lessonRow'[e][l].version = R /\ VersionExists(R)
        /\ MayFinish(e, l, lessonRow'[e][l])
    BY <2>3, <2>4, FinishesAdvances DEF Advances
  <2>6. EarlierRequired(Snapshot(R), l) \subseteq Done(lessonRow[e])
    BY <1>4, <2>5 DEF MayFinish
  <2>7. Snapshot(lessonRow[e][l].version)' = Snapshot(R)
    BY <1>0, <2>5 DEF Snapshot
  <2> HIDE DEF R
  <2> QED
    BY <1>2, <2>6, <2>7
<1> QED
  BY <1>3, <1>4

(* Whoever comes first, learner or evaluator: a lesson of a sequenced      *)
(* course is finished out of order by overrides and assessments alone.     *)
THEOREM SequenceAlwaysRespected == Spec => []SequenceRespected
<1> DEFINE Inv == PinsInv /\ \A e \in Enrollments : SequenceOf(e)
<1>1. Init => Inv
  <2>1. Init => \A e \in Enrollments : SequenceOf(e)
    BY DEF Init, SequenceOf, NoLessonRow, Finished
  <2> QED
    BY <2>1, PinsInit
<1>2. Inv /\ [Next]_vars => Inv'
  <2> SUFFICES ASSUME Inv, [Next]_vars
               PROVE  Inv'
    OBVIOUS
  <2>1. PinsInv'
    BY PinsStep
  <2>2. ASSUME NEW e \in Enrollments
        PROVE  SequenceOf(e)'
    BY <2>1, SequenceStep
  <2> QED
    BY <2>1, <2>2
<1>3. Inv => SequenceRespected
  BY DEF SequenceOf, SequenceRespected
<1> QED
  BY <1>1, <1>2, <1>3, PTL DEF Spec

-----------------------------------------------------------------------------
(* What the cascade of Finishes records besides the rows: whether the step *)
(* completes the course of l, whether that fulfils the enrollment, and what *)
(* is issued and announced.                                                *)
Completes(e, l) ==
  /\ courseRow[e][CourseOf[l]].status # "completed"
  /\ courseRow'[e][CourseOf[l]].status = "completed"

Fulfils(e, l) == Completes(e, l) /\ TargetReached(e, courseRow'[e])

Issued(e, l, rules) ==
  NewCredentials(rules \cup EarnedRules(e, CourseOf[l], Completes(e, l), Fulfils(e, l)),
                 MemberOf[e], e)

Records(e, l, keys, rules) ==
  /\ keys \subseteq CourseStartKeys(e, CourseOf[l]) \cup {<<"lesson-completed", e, l>>}
                    \cup ({"assessment-completion"} \X {e} \X Assignments)
  /\ PassedRules(e, rules)
  /\ status'[e] = StatusAfter(e, Fulfils(e, l))
  /\ credentials' = credentials \cup Issued(e, l, rules)
  /\ events' = events \cup keys
                 \cup CascadeKeys(e, CourseOf[l], Completes(e, l), Fulfils(e, l))
                 \cup IssueKeys(Issued(e, l, rules))

LEMMA FinishesRecords ==
  ASSUME PinsInv, NEW e \in Enrollments, NEW l \in Lessons, Finishes(e, l)
  PROVE  \E keys, rules : Records(e, l, keys, rules)
<1> DEFINE c == CourseOf[l]
           R == ResolvedVersion(e, c)
<1>0. TypeOK /\ CatalogTypeOK /\ c \in Courses
  BY CatalogAssumption DEF PinsInv, TypeOK
<1>1. PICK lessons \in [Lessons -> LessonRows], keys \in SUBSET EventKeys,
           rules \in SUBSET Certificates :
        /\ keys \subseteq CourseStartKeys(e, c) \cup {<<"lesson-completed", e, l>>}
                          \cup ({"assessment-completion"} \X {e} \X Assignments)
        /\ PassedRules(e, rules)
        /\ EvaluateCourse(e, c, WithCourseRow(e, c), lessons, keys, rules)
  BY DEF Finishes
<1> DEFINE courses == WithCourseRow(e, c)
           finishes == /\ courses[c].status = "in_progress"
                       /\ RuleMet(Snapshot(courses[c].version), Done(lessons))
           after == IF finishes THEN [courses EXCEPT ![c].status = "completed"]
                    ELSE courses
           reached == finishes /\ TargetReached(e, after)
           issued == NewCredentials(rules \cup EarnedRules(e, c, finishes, reached),
                                    MemberOf[e], e)
<1>2. /\ courseRow' = [courseRow EXCEPT ![e] = after]
      /\ status' = [status EXCEPT ![e] = StatusAfter(e, reached)]
      /\ credentials' = credentials \cup issued
      /\ events' = events \cup keys \cup CascadeKeys(e, c, finishes, reached)
                          \cup IssueKeys(issued)
  BY <1>1 DEF EvaluateCourse
<1>3. courses \in [Courses -> CourseRows]
  BY <1>0, RowOfCourse
<1>4. courses[c].status =
        IF courseRow[e][c].status = "none" THEN "in_progress" ELSE courseRow[e][c].status
  BY <1>0, RowOfCourse
<1>5. after[c].status = IF finishes THEN "completed" ELSE courses[c].status
  BY <1>0, <1>3 DEF CourseRows
<1> HIDE DEF courses, after
<1>6. courseRow'[e] = after /\ status'[e] = StatusAfter(e, reached)
  BY <1>0, <1>2 DEF TypeOK
<1>7. finishes <=> /\ courseRow[e][c].status # "completed"
                   /\ courseRow'[e][c].status = "completed"
  BY <1>4, <1>5, <1>6
<1>8. finishes = Completes(e, l) /\ reached = Fulfils(e, l)
  BY <1>6, <1>7 DEF finishes, Completes, Fulfils
<1>9. issued = Issued(e, l, rules)
  BY <1>8 DEF Issued
<1> HIDE DEF issued
<1>10. Records(e, l, keys, rules)
  BY <1>1, <1>2, <1>6, <1>8, <1>9 DEF Records
<1> QED
  BY <1>10

-----------------------------------------------------------------------------
(* The events of opening a course row, and of starting a lesson with it.   *)
OpenKey(e, c, x) ==
  \/ x = <<"course-started", e, c>>
  \/ \E l \in Lessons :
       x = <<"lesson-started", e, l>> /\ lessonRow'[e][l].status # "none"

LEMMA OpensAwards ==
  ASSUME TypeOK, NEW e \in Enrollments, NEW c \in Courses, Opens(e, c)
  PROVE  \E keys : /\ Awards(e, keys)
                   /\ \A x \in keys : OpenKey(e, c, x) /\ x[2] = e
<1>1. CASE \E keys \in SUBSET CourseStartKeys(e, c) : Awards(e, keys)
  BY <1>1 DEF CourseStartKeys, OpenKey
<1>2. ASSUME NEW l \in Lessons,
             lessonRow'[e] = [lessonRow[e] EXCEPT ![l].status = "in_progress",
                                                  ![l].version = ResolvedVersion(e, c)],
             Awards(e, CourseStartKeys(e, c) \cup {<<"lesson-started", e, l>>})
      PROVE  \E keys : /\ Awards(e, keys)
                       /\ \A x \in keys : OpenKey(e, c, x) /\ x[2] = e
  <2>1. lessonRow[e] \in [Lessons -> LessonRows]
    BY DEF TypeOK
  <2>2. lessonRow'[e][l].status # "none"
    BY <1>2, <2>1 DEF LessonRows
  <2>3. \A x \in CourseStartKeys(e, c) \cup {<<"lesson-started", e, l>>} :
          OpenKey(e, c, x) /\ x[2] = e
    BY <2>2 DEF CourseStartKeys, OpenKey
  <2> QED
    BY <1>2, <2>3
<1> QED
  BY <1>1, <1>2 DEF Opens

(* Which events a step adds: none is withdrawn, and an event about an      *)
(* enrollment is added by a step of that enrollment.                       *)
LEMMA EventsStep ==
  ASSUME PinsInv, TypeOK', [Next]_vars
  PROVE  /\ events \subseteq events'
         /\ \A kind, f, t :
              /\ <<kind, f, t>> \in events' \ events
              /\ kind # "credential-issued"
              => f \in Enrollments /\ Learning(f)
<1>0. TypeOK
  BY DEF PinsInv
<1>1. ASSUME NEW rules, NEW m, NEW e, NEW kind, NEW f, NEW t,
             <<kind, f, t>> \in IssueKeys(NewCredentials(rules, m, e))
      PROVE  kind = "credential-issued"
  BY <1>1 DEF IssueKeys
<1>2. ASSUME NEW e \in Enrollments, Learning(e)
      PROVE  /\ events \subseteq events'
             /\ \A kind, f, t :
                  /\ <<kind, f, t>> \in events' \ events
                  /\ kind # "credential-issued"
                  => f = e
  <2>1. CASE RowsQuiet(e)
    <3>1. PICK keys \in {{}, {<<"enrollment-created", e, TargetOf[e]>>}} : Awards(e, keys)
      BY <2>1 DEF RowsQuiet
    <3> QED
      BY <1>1, <3>1 DEF Awards
  <2>2. ASSUME NEW c \in Courses, Opens(e, c)
        PROVE  /\ events \subseteq events'
               /\ \A kind, f, t :
                    /\ <<kind, f, t>> \in events' \ events
                    /\ kind # "credential-issued"
                    => f = e
    <3>1. PICK keys : Awards(e, keys) /\ \A x \in keys : x[2] = e
      BY <1>0, <2>2, OpensAwards
    <3> QED
      BY <1>1, <3>1 DEF Awards
  <2>3. ASSUME NEW l \in Lessons, Finishes(e, l)
        PROVE  /\ events \subseteq events'
               /\ \A kind, f, t :
                    /\ <<kind, f, t>> \in events' \ events
                    /\ kind # "credential-issued"
                    => f = e
    <3>1. PICK keys, rules : Records(e, l, keys, rules)
      BY <2>3, FinishesRecords
    <3>2. /\ \A x \in keys : x[2] = e
          /\ \A x \in CascadeKeys(e, CourseOf[l], Completes(e, l), Fulfils(e, l)) : x[2] = e
      BY <3>1 DEF Records, CourseStartKeys, CascadeKeys
    <3>3. events' = events \cup keys
                     \cup CascadeKeys(e, CourseOf[l], Completes(e, l), Fulfils(e, l))
                     \cup IssueKeys(Issued(e, l, rules))
      BY <3>1 DEF Records
    <3> QED
      BY <1>1, <3>2, <3>3 DEF Issued
  <2> QED
    BY <1>2, <2>1, <2>2, <2>3, StepKind
<1>3. CASE \E e \in Enrollments : Learning(e)
  BY <1>2, <1>3
<1>4. ASSUME NEW k \in Certificates, NEW m \in Members, IssueCredential(k, m)
      PROVE  /\ events \subseteq events'
             /\ \A kind, f, t : <<kind, f, t>> \in events' \ events => kind = "credential-issued"
  BY <1>1, <1>4 DEF IssueCredential
<1>5. CASE events' = events
  BY <1>5
<1>6. \/ events' = events
      \/ \E e \in Enrollments : Learning(e)
      \/ \E k \in Certificates, m \in Members : IssueCredential(k, m)
  BY DEF Next, vars, Authoring, SetAssignmentStatus, WindowEnds, SetMembershipStatus, RevokeCredential
<1> QED
  BY <1>3, <1>4, <1>5, <1>6

-----------------------------------------------------------------------------
(* EventsTruthful for one enrollment.                                      *)
EventsOf(e) ==
  /\ \A c \in Courses :
       <<"course-completed", e, c>> \in events <=> courseRow[e][c].status = "completed"
  /\ \A l \in Lessons :
       /\ <<"lesson-completed", e, l>> \in events => lessonRow[e][l].status \in Finished
       /\ <<"lesson-started", e, l>> \in events => lessonRow[e][l].status # "none"
  /\ status[e] = "completed" =>
       \/ <<"enrollment-completed", e, TargetOf[e]>> \in events
       \/ <<"path-completed", e, TargetOf[e]>> \in events

(* A row that exists stays, and a finished one stays finished.             *)
LEMMA LessonRowsStay ==
  ASSUME PinsInv, TypeOK', [Next]_vars, NEW e \in Enrollments, NEW l \in Lessons
  PROVE  /\ lessonRow[e][l].status \in Finished => lessonRow'[e][l].status \in Finished
         /\ lessonRow[e][l].status # "none" => lessonRow'[e][l].status # "none"
<1>1. TypeOK
  BY DEF PinsInv
<1>2. lessonRow[e][l].status \in Finished => lessonRow'[e][l].status \in Finished
  BY <1>1, StepKeeps DEF Kept, Done
<1>3. ASSUME lessonRow[e][l].status # "none"
      PROVE  lessonRow'[e][l].status # "none"
  <2>1. CASE Untouched(e) \/ RowsQuiet(e)
    BY <1>3, <2>1 DEF Untouched, RowsQuiet
  <2>2. ASSUME NEW c \in Courses, Advances(e, c)
        PROVE  lessonRow'[e][l].status # "none"
    BY <1>3, <2>2 DEF Advances
  <2> QED
    BY <1>1, <2>1, <2>2, StepsOfOthers, StepKind, OpensAdvances, FinishesAdvances
<1> QED
  BY <1>2, <1>3

LEMMA EventsLearningStep ==
  ASSUME PinsInv, TypeOK', [Next]_vars, NEW e \in Enrollments, Learning(e), EventsOf(e)
  PROVE  EventsOf(e)'
<1>0. TypeOK /\ events \subseteq events'
  BY EventsStep DEF PinsInv
<1>1. ASSUME NEW rules, NEW m, NEW kind, NEW t, kind # "credential-issued"
      PROVE  <<kind, e, t>> \notin IssueKeys(NewCredentials(rules, m, e))
  BY <1>1 DEF IssueKeys
<1>2. CASE RowsQuiet(e)
  <2>1. PICK keys \in {{}, {<<"enrollment-created", e, TargetOf[e]>>}} : Awards(e, keys)
    BY <1>2 DEF RowsQuiet
  <2>2. \A kind \in {"course-completed", "lesson-completed", "lesson-started"} : \A t :
          <<kind, e, t>> \in events' => <<kind, e, t>> \in events
    BY <1>1, <2>1 DEF Awards
  <2>3. /\ courseRow'[e] = courseRow[e] /\ lessonRow'[e] = lessonRow[e]
        /\ status'[e] = "completed" => status[e] = "completed"
    BY <1>2 DEF RowsQuiet
  <2> QED
    BY <1>0, <2>2, <2>3 DEF EventsOf
<1>3. ASSUME NEW c \in Courses, Opens(e, c)
      PROVE  EventsOf(e)'
  <2>1. PICK keys : /\ Awards(e, keys)
                    /\ \A x \in keys : OpenKey(e, c, x)
    BY <1>0, <1>3, OpensAwards
  <2>2. \A kind \in {"course-completed", "lesson-completed"} : \A t :
          <<kind, e, t>> \in events' => <<kind, e, t>> \in events
    <3> SUFFICES ASSUME NEW kind \in {"course-completed", "lesson-completed"}, NEW t,
                        <<kind, e, t>> \in events' \ events
                 PROVE  FALSE
      OBVIOUS
    <3>1. OpenKey(e, c, <<kind, e, t>>)
      BY <1>1, <2>1 DEF Awards
    <3> QED
      BY <3>1 DEF OpenKey
  <2>3. \A l \in Lessons :
          <<"lesson-started", e, l>> \in events' =>
            <<"lesson-started", e, l>> \in events \/ lessonRow'[e][l].status # "none"
    <3> SUFFICES ASSUME NEW l \in Lessons, <<"lesson-started", e, l>> \in events' \ events
                 PROVE  lessonRow'[e][l].status # "none"
      OBVIOUS
    <3>1. OpenKey(e, c, <<"lesson-started", e, l>>)
      BY <1>1, <2>1 DEF Awards
    <3> QED
      BY <3>1 DEF OpenKey
  <2>4. /\ Advances(e, c)
        /\ courseRow'[e][c].status = "completed" <=> courseRow[e][c].status = "completed"
    BY <1>3, OpensAdvances
  <2>5. \A d \in Courses :
          courseRow'[e][d].status = "completed" <=> courseRow[e][d].status = "completed"
    BY <2>4 DEF Advances
  <2>6. status'[e] = status[e]
    BY <1>3 DEF Opens
  <2> QED
    BY <1>0, <2>2, <2>3, <2>5, <2>6, LessonRowsStay DEF EventsOf
<1>4. ASSUME NEW l \in Lessons, Finishes(e, l)
      PROVE  EventsOf(e)'
  <2> DEFINE c == CourseOf[l]
             finishes == Completes(e, l)
             reached == Fulfils(e, l)
  <2>1. PICK keys, rules : Records(e, l, keys, rules)
    BY <1>4, FinishesRecords
  <2>2. /\ c \in Courses /\ Advances(e, c)
        /\ lessonRow'[e][l].status \in Finished
    <3>1. l \in Done(lessonRow'[e])
      BY <1>4, FinishesAdvances
    <3> QED
      BY <1>4, <3>1, FinishesAdvances DEF Done
  <2>3. \A d \in Courses :
          <<"course-completed", e, d>> \in events' <=>
            <<"course-completed", e, d>> \in events \/ (finishes /\ d = c)
    BY <1>1, <2>1 DEF Records, Issued, CascadeKeys, CourseStartKeys
  <2>4. \A k \in Lessons :
          /\ <<"lesson-completed", e, k>> \in events' =>
               <<"lesson-completed", e, k>> \in events \/ k = l
          /\ <<"lesson-started", e, k>> \in events' => <<"lesson-started", e, k>> \in events
    BY <1>1, <2>1 DEF Records, Issued, CascadeKeys, CourseStartKeys
  <2>5. \A d \in Courses :
          <<"course-completed", e, d>> \in events' <=> courseRow'[e][d].status = "completed"
    BY <2>2, <2>3 DEF EventsOf, Advances, Completes
  <2>6. ASSUME status'[e] = "completed"
        PROVE  \/ <<"enrollment-completed", e, TargetOf[e]>> \in events'
               \/ <<"path-completed", e, TargetOf[e]>> \in events'
    <3>1. CASE reached
      BY <2>1, <3>1 DEF Records, CascadeKeys
    <3>2. CASE ~reached
      BY <1>0, <2>1, <2>6, <3>2 DEF Records, StatusAfter, EventsOf
    <3> QED
      BY <3>1, <3>2
  <2>7. \A k \in Lessons :
          /\ <<"lesson-completed", e, k>> \in events' => lessonRow'[e][k].status \in Finished
          /\ <<"lesson-started", e, k>> \in events' => lessonRow'[e][k].status # "none"
    BY <2>2, <2>4, LessonRowsStay DEF EventsOf
  <2> QED
    BY <2>5, <2>6, <2>7 DEF EventsOf
<1> QED
  BY <1>0, <1>2, <1>3, <1>4, StepKind

(* The analytics events and the tables never disagree on what is completed. *)
THEOREM EventsAlwaysTruthful == Spec => []EventsTruthful
<1> DEFINE Inv == PinsInv /\ \A e \in Enrollments : EventsOf(e)
<1>1. Init => Inv
  <2>1. Init => \A e \in Enrollments : EventsOf(e)
    BY DEF Init, EventsOf, NoCourseRow
  <2> QED
    BY <2>1, PinsInit
<1>2. Inv /\ [Next]_vars => Inv'
  <2> SUFFICES ASSUME Inv, [Next]_vars
               PROVE  Inv'
    OBVIOUS
  <2>1. PinsInv /\ PinsInv' /\ TypeOK /\ TypeOK'
    BY PinsStep DEF PinsInv
  <2>2. ASSUME NEW e \in Enrollments
        PROVE  EventsOf(e)'
    <3>1. CASE Learning(e)
      BY <2>1, <3>1, EventsLearningStep
    <3>2. CASE ~Learning(e)
      <4>1. Untouched(e)
        BY <2>1, <3>2, StepsOfOthers
      <4>2. \A kind, t :
              kind # "credential-issued" =>
                (<<kind, e, t>> \in events' <=> <<kind, e, t>> \in events)
        BY <2>1, <3>2, EventsStep
      <4> QED
        BY <4>1, <4>2 DEF EventsOf, Untouched
    <3> QED
      BY <3>1, <3>2
  <2> QED
    BY <2>1, <2>2
<1>3. Inv => EventsTruthful
  BY DEF EventsOf, EventsTruthful
<1> QED
  BY <1>1, <1>2, <1>3, PTL DEF Spec

-----------------------------------------------------------------------------
(* What CredentialsEarned asks of a credential that cites an enrollment.   *)
EarnedBy(x) ==
  LET e == x.enrollment
      source == CertificateSource[x.certificate]
  IN /\ MemberOf[e] = x.member
     /\ \/ source \in CompletedCourses(courseRow[e])
        \/ source = TargetOf[e] /\ <<"path-completed", e, source>> \in events
        \/ source \in Assignments /\ attempt[e][source] = "passed"

(* Once earned, always earned.                                             *)
LEMMA EarnedStays ==
  ASSUME PinsInv, TypeOK', [Next]_vars, NEW x \in Credentials,
         x.enrollment # NoEnrollment, EarnedBy(x)
  PROVE  EarnedBy(x)'
<1> DEFINE e == x.enrollment
           source == CertificateSource[x.certificate]
<1>1. e \in Enrollments /\ TypeOK
  BY DEF Credentials, PinsInv
<1>2. CompletedCourses(courseRow[e]) \subseteq CompletedCourses(courseRow'[e])
  BY <1>1, StepKeeps DEF Kept
<1>3. events \subseteq events'
  BY EventsStep
<1>4. source \in Assignments /\ attempt[e][source] = "passed" => attempt'[e][source] = "passed"
  BY <1>1, AttemptsStep
<1> QED
  BY <1>2, <1>3, <1>4 DEF EarnedBy

(* Credentials awarded for assignments that e has passed.                  *)
LEMMA AwardedEarned ==
  ASSUME NEW e \in Enrollments, NEW rules, PassedRules(e, rules),
         NEW x \in NewCredentials(rules, MemberOf[e], e)
  PROVE  x.enrollment # NoEnrollment => EarnedBy(x)'
<1>1. PICK k \in rules : x = [certificate |-> k, member |-> MemberOf[e], enrollment |-> e]
  BY DEF NewCredentials
<1>2. CertificateSource[k] \in Assignments /\ attempt'[e][CertificateSource[k]] = "passed"
  BY DEF PassedRules
<1> QED
  BY <1>1, <1>2 DEF EarnedBy

(* Every credential a step adds is earned after it.                        *)
LEMMA NewlyEarned ==
  ASSUME PinsInv, TypeOK', [Next]_vars, NEW x \in credentials' \ credentials,
         x.enrollment # NoEnrollment
  PROVE  EarnedBy(x)'
<1>0. TypeOK
  BY DEF PinsInv
<1>1. ASSUME NEW e \in Enrollments, Learning(e)
      PROVE  EarnedBy(x)'
  <2>1. ASSUME NEW keys, Awards(e, keys)
        PROVE  EarnedBy(x)'
    BY <2>1, AwardedEarned DEF Awards
  <2>2. CASE RowsQuiet(e)
    BY <2>1, <2>2 DEF RowsQuiet
  <2>3. CASE \E c \in Courses : Opens(e, c)
    BY <1>0, <2>1, <2>3, OpensAwards
  <2>4. ASSUME NEW l \in Lessons, Finishes(e, l)
        PROVE  EarnedBy(x)'
    <3> DEFINE c == CourseOf[l]
    <3>1. PICK keys, rules : Records(e, l, keys, rules)
      BY <2>4, FinishesRecords
    <3>2. PICK k \in rules \cup EarnedRules(e, c, Completes(e, l), Fulfils(e, l)) :
            x = [certificate |-> k, member |-> MemberOf[e], enrollment |-> e]
      BY <3>1 DEF Records, Issued, NewCredentials
    <3>3. CASE k \in rules
      <4>1. CertificateSource[k] \in Assignments /\ attempt'[e][CertificateSource[k]] = "passed"
        BY <3>1, <3>3 DEF Records, PassedRules
      <4> QED
        BY <3>2, <4>1 DEF EarnedBy
    <3>4. CASE Completes(e, l) /\ CertificateSource[k] = c
      <4>1. c \in CompletedCourses(courseRow'[e])
        BY <3>4, CatalogAssumption DEF Completes, CompletedCourses
      <4> QED
        BY <3>2, <3>4, <4>1 DEF EarnedBy
    <3>5. CASE Fulfils(e, l) /\ CertificateSource[k] \in Paths /\ CertificateSource[k] = TargetOf[e]
      <4>1. <<"path-completed", e, TargetOf[e]>> \in events'
        BY <3>1, <3>5 DEF Records, CascadeKeys
      <4> QED
        BY <3>2, <3>5, <4>1 DEF EarnedBy
    <3> QED
      BY <3>2, <3>3, <3>4, <3>5 DEF EarnedRules
  <2> QED
    BY <1>1, <2>2, <2>3, <2>4, StepKind
<1>2. ASSUME NEW k \in Certificates, NEW m \in Members, IssueCredential(k, m)
      PROVE  FALSE
  BY <1>2 DEF IssueCredential, NewCredentials
<1>3. \/ credentials' \subseteq credentials
      \/ \E e \in Enrollments : Learning(e)
      \/ \E k \in Certificates, m \in Members : IssueCredential(k, m)
  BY DEF Next, vars, Authoring, SetAssignmentStatus, WindowEnds, SetMembershipStatus, RevokeCredential
<1> QED
  BY <1>1, <1>2, <1>3

-----------------------------------------------------------------------------
(* At most one unrevoked credential of a certificate for a member.         *)
OneEach ==
  \A x, y \in credentials : x.certificate = y.certificate /\ x.member = y.member => x = y

LEMMA IssuedOneEach ==
  ASSUME OneEach, NEW rules, NEW m, NEW e,
         credentials' = credentials \cup NewCredentials(rules, m, e)
  PROVE  OneEach'
<1> SUFFICES ASSUME NEW x \in credentials', NEW y \in credentials',
                    x.certificate = y.certificate, x.member = y.member
             PROVE  x = y
  BY DEF OneEach
<1>1. \A z \in NewCredentials(rules, m, e) :
        /\ z = [certificate |-> z.certificate, member |-> m, enrollment |-> e]
        /\ z.member = m
        /\ ~\E w \in credentials : w.certificate = z.certificate /\ w.member = m
  BY DEF NewCredentials
<1>2. CASE x \in credentials /\ y \in credentials
  BY <1>2 DEF OneEach
<1>3. CASE x \notin credentials /\ y \notin credentials
  BY <1>1, <1>3
<1>4. CASE x \in credentials <=> y \notin credentials
  BY <1>1, <1>4
<1> QED
  BY <1>2, <1>3, <1>4

LEMMA OneEachStep ==
  ASSUME PinsInv, TypeOK', [Next]_vars, OneEach
  PROVE  OneEach'
<1>0. TypeOK
  BY DEF PinsInv
<1>1. ASSUME NEW e \in Enrollments, Learning(e)
      PROVE  OneEach'
  <2>1. ASSUME NEW keys, Awards(e, keys)
        PROVE  OneEach'
    BY <2>1, IssuedOneEach DEF Awards
  <2>2. CASE RowsQuiet(e)
    BY <2>1, <2>2 DEF RowsQuiet
  <2>3. CASE \E c \in Courses : Opens(e, c)
    BY <1>0, <2>1, <2>3, OpensAwards
  <2>4. ASSUME NEW l \in Lessons, Finishes(e, l)
        PROVE  OneEach'
    BY <2>4, FinishesRecords, IssuedOneEach DEF Records, Issued
  <2> QED
    BY <1>1, <2>2, <2>3, <2>4, StepKind
<1>2. ASSUME NEW k \in Certificates, NEW m \in Members, IssueCredential(k, m)
      PROVE  OneEach'
  BY <1>2, IssuedOneEach DEF IssueCredential
<1>3. CASE credentials' \subseteq credentials
  BY <1>3 DEF OneEach
<1>4. \/ credentials' \subseteq credentials
      \/ \E e \in Enrollments : Learning(e)
      \/ \E k \in Certificates, m \in Members : IssueCredential(k, m)
  BY DEF Next, vars, Authoring, SetAssignmentStatus, WindowEnds, SetMembershipStatus, RevokeCredential
<1> QED
  BY <1>1, <1>2, <1>3, <1>4

(* No credential cites an enrollment that did not earn it, and nobody is   *)
(* given one twice, however it was issued, revoked and issued again.       *)
THEOREM CredentialsAlwaysEarned == Spec => []CredentialsEarned
<1> DEFINE Inv == /\ PinsInv /\ OneEach
                  /\ \A x \in credentials : x.enrollment # NoEnrollment => EarnedBy(x)
<1>1. Init => Inv
  <2>1. Init => credentials = {}
    BY DEF Init
  <2> QED
    BY <2>1, PinsInit DEF OneEach
<1>2. Inv /\ [Next]_vars => Inv'
  <2> SUFFICES ASSUME Inv, [Next]_vars
               PROVE  Inv'
    OBVIOUS
  <2>1. PinsInv /\ PinsInv' /\ TypeOK /\ TypeOK'
    BY PinsStep DEF PinsInv
  <2>2. OneEach'
    BY <2>1, OneEachStep
  <2>3. ASSUME NEW x \in credentials', x.enrollment # NoEnrollment
        PROVE  EarnedBy(x)'
    <3>1. CASE x \in credentials
      <4>1. x \in Credentials
        BY <2>1, <3>1 DEF TypeOK
      <4> QED
        BY <2>1, <2>3, <3>1, <4>1, EarnedStays
    <3>2. CASE x \notin credentials
      BY <2>1, <2>3, <3>2, NewlyEarned
    <3> QED
      BY <3>1, <3>2
  <2> QED
    BY <2>1, <2>2, <2>3
<1>3. Inv => CredentialsEarned
  BY DEF OneEach, EarnedBy, CredentialsEarned
<1> QED
  BY <1>1, <1>2, <1>3, PTL DEF Spec

-----------------------------------------------------------------------------
(* Every non-empty set of naturals has a least element.                    *)
LEMMA LeastNatural ==
  ASSUME NEW T, T \subseteq Nat, T # {}
  PROVE  \E m \in T : \A n \in T : m <= n
<1> DEFINE Less == {ss \in Nat \X Nat : ss[1] < ss[2]}
<1>1. IsWellFoundedOn(Less, Nat)
  BY NatLessThanWellFounded DEF OpToRel
<1>2. \A x, y \in Nat : x < y => <<x, y>> \in Less
  OBVIOUS
<1> HIDE DEF Less
<1>3. PICK m \in T : \A n \in T : <<n, m>> \notin Less
  BY <1>1, WFMin
<1>4. \A n \in T : ~(n < m)
  BY <1>2, <1>3
<1>5. \A n \in T : n \in Nat /\ m \in Nat
  OBVIOUS
<1> QED
  BY <1>4, <1>5

(* The loop of computeLessonAccess: its flag at i says whether an earlier  *)
(* required lesson is unfinished.                                          *)
LEMMA LoopFlag ==
  ASSUME NEW n \in Nat, NEW B, NEW f,
         f = [j \in 0..n |-> j > 0 /\ (f[j - 1] \/ j \in B)]
  PROVE  \A j \in 0..n : f[j] <=> \E k \in 1..j : k \in B
<1> DEFINE Wrong == {j \in 0..n : ~(f[j] <=> \E k \in 1..j : k \in B)}
<1> SUFFICES ASSUME Wrong # {} PROVE FALSE
  OBVIOUS
<1>1. PICK m \in Wrong : \A j \in Wrong : m <= j
  <2>1. Wrong \subseteq Nat
    OBVIOUS
  <2> QED
    BY <2>1, LeastNatural
<1>2. m \in 0..n /\ ~(f[m] <=> \E k \in 1..m : k \in B)
  OBVIOUS
<1>3. f[m] <=> m > 0 /\ (f[m - 1] \/ m \in B)
  BY <1>2, Zenon
<1>4. CASE m = 0
  BY <1>2, <1>3, <1>4
<1>5. CASE m > 0
  <2>1. m - 1 \in 0..n /\ m - 1 \notin Wrong
    BY <1>1, <1>2, <1>5
  <2>2. f[m - 1] <=> \E k \in 1..(m - 1) : k \in B
    BY <2>1
  <2>3. (\E k \in 1..m : k \in B) <=> m \in B \/ \E k \in 1..(m - 1) : k \in B
    BY <1>2, <1>5
  <2> QED
    BY <1>2, <1>3, <1>5, <2>2, <2>3
<1> QED
  BY <1>2, <1>4, <1>5

LEMMA BlockingMeans ==
  ASSUME NEW s, IsStructure(s), NEW done, NEW i \in 1..Len(s.order)
  PROVE  Blocking(s, done)[i] <=> \E k \in 1..(i - 1) : s.order[k] \in s.required \ done
<1> DEFINE B == {k \in 1..(i - 1) : s.order[k] \in s.required \ done}
           n == i - 1
           Eq(f) == f = [j \in 0..(i - 1) |-> j > 0 /\ (f[j - 1] \/ s.order[j] \in s.required \ done)]
           g == [j \in 0..(i - 1) |-> \E k \in 1..j : s.order[k] \in s.required \ done]
           f == CHOOSE h : Eq(h)
<1>1. n \in Nat
  <2>1. Len(s.order) \in Nat
    BY DEF IsStructure
  <2> QED BY <2>1
<1>2. Blocking(s, done)[i] = f[i - 1]
  BY DEF Blocking
<1>3. Eq(g)
  <2>1. ASSUME NEW j \in 0..(i - 1)
        PROVE  g[j] = (j > 0 /\ (g[j - 1] \/ s.order[j] \in s.required \ done))
    <3>1. CASE j = 0
      <4>1. g[j] = (\E k \in 1..j : s.order[k] \in s.required \ done)
        BY Zenon
      <4>2. 1..j = {}
        BY <3>1
      <4>3. (\E k \in 1..j : s.order[k] \in s.required \ done) = FALSE
        BY <4>2, Zenon
      <4>4. (j > 0 /\ (g[j - 1] \/ s.order[j] \in s.required \ done)) = FALSE
        BY <3>1
      <4> QED
        BY <4>1, <4>3, <4>4, Zenon
    <3>2. CASE j > 0
      <4>1. j - 1 \in 0..(i - 1)
        BY <1>1, <3>2
      <4>2. g[j - 1] = (\E k \in 1..(j - 1) : s.order[k] \in s.required \ done)
        BY <4>1, Zenon
      <4>3. g[j] = (\E k \in 1..j : s.order[k] \in s.required \ done)
        BY Zenon
      <4>4. 1..j = 1..(j - 1) \cup {j}
        BY <1>1, <3>2
      <4> QED
        BY <3>2, <4>2, <4>3, <4>4
    <3>3. j = 0 \/ j > 0
      BY <1>1
    <3> QED
      BY <3>1, <3>2, <3>3
  <2> QED
    BY <2>1, Zenon
<1>4. Eq(f)
  BY <1>3, Zenon
<1> HIDE DEF f
<1>5. f = [j \in 0..n |-> j > 0 /\ (f[j - 1] \/ j \in B)]
  <2>1. \A j \in 0..n : (j > 0 /\ (f[j - 1] \/ s.order[j] \in s.required \ done)) = (j > 0 /\ (f[j - 1] \/ j \in B))
    BY <1>1
  <2> QED BY <1>4, <2>1, Zenon
<1> HIDE DEF n, B
<1>6. \A j \in 0..n : f[j] <=> \E k \in 1..j : k \in B
  BY <1>1, <1>5, LoopFlag
<1>7. f[n] <=> \E k \in 1..n : k \in B
  BY <1>1, <1>6
<1> QED
  BY <1>2, <1>7 DEF n, B

-----------------------------------------------------------------------------
(* The required lessons before the i-th, in the order of the structure.    *)
LEMMA EarlierMeans ==
  ASSUME NEW s, IsStructure(s), NEW i \in 1..Len(s.order), NEW done
  PROVE  EarlierRequired(s, s.order[i]) \subseteq done
           <=> ~\E k \in 1..(i - 1) : s.order[k] \in s.required \ done
<1>1. Len(s.order) \in Nat
  BY DEF IsStructure
<1>2. ASSUME NEW k \in 1..Len(s.order), s.order[k] \in s.required
      PROVE  (\E j \in (k + 1)..Len(s.order) : s.order[j] = s.order[i]) <=> k < i
  <2>1. ASSUME NEW j \in (k + 1)..Len(s.order), s.order[j] = s.order[i]
        PROVE  k < i
    <3>1. j \in 1..Len(s.order)
      BY <1>1
    <3>2. j = i
      BY <2>1, <3>1 DEF IsStructure
    <3> QED
      BY <1>1, <3>2
  <2>2. k < i => i \in (k + 1)..Len(s.order)
    BY <1>1
  <2> QED
    BY <2>1, <2>2
<1>3. \A k \in 1..Len(s.order) : k < i <=> k \in 1..(i - 1)
  BY <1>1
<1>4. 1..(i - 1) \subseteq 1..Len(s.order)
  BY <1>1
<1> QED
  BY <1>2, <1>3, <1>4 DEF EarlierRequired

(* What the loop shows of the i-th lesson of a course in progress.         *)
LEMMA AccessShown ==
  ASSUME NEW s, IsStructure(s), NEW st \in Live, NEW done, NEW i \in 1..Len(s.order)
  PROVE  LET shown == LessonAccess(st, s, done)[i]
             earlier == EarlierRequired(s, s.order[i])
         IN /\ shown = "locked_by_sequence" => ~(earlier \subseteq done)
            /\ shown = "available" => earlier \subseteq done
            /\ s.order[i] \notin done /\ earlier \subseteq done => shown = "available"
<1>1. Blocking(s, done)[i] <=> ~(EarlierRequired(s, s.order[i]) \subseteq done)
  BY BlockingMeans, EarlierMeans
<1>2. LessonAccess(st, s, done)[i] =
        IF s.order[i] \in done THEN "completed"
        ELSE IF Blocking(s, done)[i] THEN "locked_by_sequence" ELSE "available"
  BY DEF LessonAccess
<1> QED
  BY <1>1, <1>2

(* The sequence gate of the database, for a lesson of the resolved version. *)
LEMMA GateOfLesson ==
  ASSUME PinsInv, NEW e \in Enrollments, NEW c \in Courses, status[e] # "none",
         TargetOf[e] \in Paths \cup {c}, ResolvedVersion(e, c) # NoVersion,
         NEW i \in 1..Len(Snapshot(ResolvedVersion(e, c)).order)
  PROVE  LET s == Snapshot(ResolvedVersion(e, c))
         IN /\ IsStructure(s) /\ s.order[i] \in Lessons /\ CourseOf[s.order[i]] = c
            /\ SequenceMet(e, s.order[i])
                 <=> (c \in SequencedCourses =>
                        EarlierRequired(s, s.order[i]) \subseteq Done(lessonRow[e]))
<1> DEFINE s == Snapshot(ResolvedVersion(e, c))
<1>1. CatalogTypeOK /\ PublishedOwn
  BY DEF PinsInv, TypeOK
<1>2. TargetOf[e] \in Courses => TargetOf[e] = c
  BY CatalogAssumption
<1>3. VersionExists(ResolvedVersion(e, c)) /\ ResolvedVersion(e, c)[1] = c
  BY <1>2, ResolvedExists
<1>4. IsStructure(s) /\ \A l \in LessonsOf(s) : CourseOf[l] = c
  BY <1>1, <1>3, ExistingVersion
<1>5. s.order[i] \in LessonsOf(s) /\ LessonsOf(s) \subseteq Lessons
  BY <1>4, RequiredFinite DEF LessonsOf
<1>6. CourseOf[s.order[i]] = c
  BY <1>4, <1>5
<1> QED
  BY <1>4, <1>5, <1>6 DEF SequenceMet

(* The pages and the database compute the same locks.                      *)
THEOREM DisplayAlwaysMatchesGate == Spec => []DisplayMatchesGate
<1>1. PinsInv /\ EdgesJoinNodes => DisplayMatchesGate
  <2> SUFFICES ASSUME PinsInv, EdgesJoinNodes, NEW e \in Enrollments, status[e] \in Live
               PROVE  /\ TargetOf[e] \in Paths =>
                           \A c \in nodes[TargetOf[e]] :
                             LET shown == PathAccess(status[e], TargetOf[e],
                                                     CompletedCourses(courseRow[e]), c)
                             IN /\ shown = "locked_by_prerequisite" => ~PrerequisitesMet(e, c)
                                /\ shown = "available" => PrerequisitesMet(e, c)
                      /\ \A c \in SequencedCourses :
                           /\ TargetOf[e] \in Paths \cup {c}
                           /\ ResolvedVersion(e, c) # NoVersion
                           => LET s == Snapshot(ResolvedVersion(e, c))
                              IN \A i \in 1..Len(s.order) :
                                   LET shown == LessonAccess(status[e], s, Done(lessonRow[e]))[i]
                                   IN /\ shown = "locked_by_sequence" => ~SequenceMet(e, s.order[i])
                                      /\ shown = "available" => SequenceMet(e, s.order[i])
    BY DEF DisplayMatchesGate
  <2>1. ASSUME TargetOf[e] \in Paths, NEW c \in nodes[TargetOf[e]]
        PROVE  LET shown == PathAccess(status[e], TargetOf[e],
                                       CompletedCourses(courseRow[e]), c)
               IN /\ shown = "locked_by_prerequisite" => ~PrerequisitesMet(e, c)
                  /\ shown = "available" => PrerequisitesMet(e, c)
    <3>1. \A x \in prereq[TargetOf[e]] : x[2] \in nodes[TargetOf[e]]
      BY <2>1 DEF EdgesJoinNodes
    <3>2. PrerequisitesMet(e, c) <=>
            UnmetNodes(TargetOf[e], CompletedCourses(courseRow[e]), c) = {}
      BY <2>1, <3>1 DEF PrerequisitesMet, UnmetNodes
    <3> QED
      BY <3>2 DEF PathAccess
  <2>2. ASSUME NEW c \in SequencedCourses, TargetOf[e] \in Paths \cup {c},
               ResolvedVersion(e, c) # NoVersion,
               NEW i \in 1..Len(Snapshot(ResolvedVersion(e, c)).order)
        PROVE  LET s == Snapshot(ResolvedVersion(e, c))
                   shown == LessonAccess(status[e], s, Done(lessonRow[e]))[i]
               IN /\ shown = "locked_by_sequence" => ~SequenceMet(e, s.order[i])
                  /\ shown = "available" => SequenceMet(e, s.order[i])
    <3>1. c \in Courses /\ status[e] # "none"
      BY ProgressAssumption DEF Live
    <3>2. LET s == Snapshot(ResolvedVersion(e, c))
          IN /\ IsStructure(s)
             /\ SequenceMet(e, s.order[i])
                  <=> EarlierRequired(s, s.order[i]) \subseteq Done(lessonRow[e])
      BY <2>2, <3>1, GateOfLesson
    <3> QED
      BY <3>2, AccessShown
  <2> QED
    BY <2>1, <2>2
<1>2. Spec => []EdgesJoinNodes
  BY ProgressKeepsCatalog, EdgesAlwaysJoinNodes, PTL
<1>3. Spec => []PinsInv
  BY PinsInit, PinsStep, PTL DEF Spec
<1> QED
  BY <1>1, <1>2, <1>3, PTL

-----------------------------------------------------------------------------
(* A version all of whose required lessons are finished meets its rule,    *)
(* since completion_threshold_percent is at most 100.                      *)
LEMMA ProductBounded ==
  ASSUME NEW p \in 1..100, NEW n \in Nat
  PROVE  100 * n >= p * n
  OBVIOUS

LEMMA AllDoneMeetsRule ==
  ASSUME NEW s, IsStructure(s), s.required # {}, NEW done, s.required \subseteq done
  PROVE  RuleMet(s, done)
<1> DEFINE p == s.percent
           n == Cardinality(s.required)
<1>1. p \in 1..100
  BY DEF IsStructure
<1>2. n \in Nat
  BY RequiredFinite, FS_CardinalityType
<1>3. s.required \cap done = s.required
  OBVIOUS
<1> HIDE DEF p, n
<1>4. 100 * n >= p * n
  BY <1>1, <1>2, ProductBounded
<1> QED
  BY <1>3, <1>4 DEF RuleMet, p, n

(* Some required lesson of an uncompleted course is unfinished, and so one *)
(* is the first of them.                                                   *)
LEMMA FirstUnfinished ==
  ASSUME NEW s, IsStructure(s), NEW done, ~(s.required \subseteq done)
  PROVE  \E i \in 1..Len(s.order) :
           /\ s.order[i] \in s.required \ done
           /\ EarlierRequired(s, s.order[i]) \subseteq done
<1> DEFINE T == {i \in 1..Len(s.order) : s.order[i] \in s.required \ done}
<1>1. Len(s.order) \in Nat
  BY DEF IsStructure
<1>2. T # {}
  BY DEF IsStructure, LessonsOf
<1>3. T \subseteq Nat
  OBVIOUS
<1>4. PICK i \in T : \A k \in T : i <= k
  BY <1>2, <1>3, LeastNatural
<1>5. \A k \in 1..(i - 1) : k \in 1..Len(s.order) /\ ~(i <= k)
  BY <1>1
<1>6. ~\E k \in 1..(i - 1) : s.order[k] \in s.required \ done
  BY <1>4, <1>5
<1> QED
  BY <1>6, EarlierMeans

(* An uncompleted course has a required lesson left.                       *)
LEMMA SomethingLeft ==
  ASSUME PinsInv, NEW e \in Enrollments, ExactOf(e), NEW c \in Courses,
         status[e] # "none", TargetOf[e] \in Courses => TargetOf[e] = c,
         courseRow[e][c].status # "completed", ResolvedVersion(e, c) # NoVersion
  PROVE  LET s == Snapshot(ResolvedVersion(e, c))
         IN /\ IsStructure(s)
            /\ s.required # {} => ~(s.required \subseteq Done(lessonRow[e]))
<1> DEFINE s == Snapshot(ResolvedVersion(e, c))
<1>1. CatalogTypeOK /\ PublishedOwn
  BY DEF PinsInv, TypeOK
<1>2. VersionExists(ResolvedVersion(e, c)) /\ ResolvedVersion(e, c)[1] = c
  BY ResolvedExists
<1>3. IsStructure(s) /\ \A l \in LessonsOf(s) : CourseOf[l] = c
  BY <1>1, <1>2, ExistingVersion
<1>4. ~RuleMet(s, Done(lessonRow[e]))
  <2>1. CASE courseRow[e][c].status # "none"
    BY <2>1 DEF ExactOf, ResolvedVersion
  <2>2. CASE courseRow[e][c].status = "none"
    <3>1. s.required \cap Done(lessonRow[e]) = {}
      BY <1>3, <2>2, NothingDoneBefore DEF IsStructure, Done, Finished
    <3> QED
      BY <1>3, <3>1, RuleNeedsDone
  <2> QED
    BY <2>1, <2>2
<1> QED
  BY <1>3, <1>4, AllDoneMeetsRule

(* The display, the page's gates, the evaluator's check and the database's *)
(* gates leave a lesson to work on in every course that is not completed,  *)
(* or leave its learner before an assessment that is shut for good.        *)
THEOREM AlwaysWayForward == Spec => []WayForward
<1>1. PinsInv /\ (\A e \in Enrollments : ExactOf(e)) => WayForward
  <2> SUFFICES ASSUME PinsInv, NEW e \in Enrollments, ExactOf(e), NEW c \in Courses,
                      status[e] = "active", Covers(e, c),
                      courseRow[e][c].status # "completed",
                      ResolvedVersion(e, c) # NoVersion,
                      Snapshot(ResolvedVersion(e, c)).required # {}
               PROVE  LET s == Snapshot(ResolvedVersion(e, c))
                      IN \E i \in 1..Len(s.order) :
                           /\ s.order[i] \in s.required
                           /\ LessonAccess(status[e], s, Done(lessonRow[e]))[i] = "available"
                           /\ Workable(e, s.order[i]) \/ ShutOut(e, s.order[i])
    BY DEF WayForward
  <2> DEFINE s == Snapshot(ResolvedVersion(e, c))
  <2>1. TargetOf[e] \in Paths \cup {c} /\ (TargetOf[e] \in Courses => TargetOf[e] = c)
    BY CatalogAssumption DEF Covers
  <2>2. status[e] # "none" /\ status[e] \in Live
    BY DEF Live
  <2>3. IsStructure(s) /\ ~(s.required \subseteq Done(lessonRow[e]))
    BY <2>1, <2>2, SomethingLeft
  <2>4. PICK i \in 1..Len(s.order) :
          /\ s.order[i] \in s.required \ Done(lessonRow[e])
          /\ EarlierRequired(s, s.order[i]) \subseteq Done(lessonRow[e])
    BY <2>3, FirstUnfinished
  <2>5. LessonAccess(status[e], s, Done(lessonRow[e]))[i] = "available"
    BY <2>2, <2>3, <2>4, AccessShown
  <2>6. /\ s.order[i] \in Lessons /\ CourseOf[s.order[i]] = c
        /\ SequenceMet(e, s.order[i])
    BY <2>1, <2>2, <2>4, GateOfLesson
  <2> DEFINE l == s.order[i]
  <2>7. CASE AssessmentGated(e, l)
    <3>1. \A a \in Assignments : attempt[e][a] \in {"none", "open", "passed", "unpassed"}
      BY DEF PinsInv, TypeOK
    <3>2. Workable(e, l) \/ ShutOut(e, l)
      BY <2>7, <3>1, ProgressAssumption DEF AssessmentGated, Workable, ShutOut
    <3> QED
      BY <2>4, <2>5, <3>2
  <2>8. CASE PracticalGated(e, l)
    <3>1. Workable(e, l)
      BY <2>4, <2>6, <2>8 DEF Workable
    <3> QED
      BY <2>4, <2>5, <3>1
  <2>9. CASE ~AssessmentGated(e, l) /\ ~PracticalGated(e, l)
    <3>1. ~AssessmentOwed(e, l) /\ ~PracticalOwed(e, l)
      BY <2>9 DEF AssessmentGated, AssessmentOwed, PracticalGated, PracticalOwed
    <3>2. Workable(e, l)
      BY <2>6, <2>9, <3>1 DEF Workable
    <3> QED
      BY <2>4, <2>5, <3>2
  <2> QED
    BY <2>7, <2>8, <2>9
<1>2. Spec => []PinsInv
  BY PinsInit, PinsStep, PTL DEF Spec
<1>3. CompletionExact <=> \A e \in Enrollments : ExactOf(e)
  BY DEF CompletionExact, ExactOf
<1> QED
  BY <1>1, <1>2, <1>3, CompletionAlwaysExact, PTL

-----------------------------------------------------------------------------
(* The lesson pages, for any number of tabs, learners and lessons: their   *)
(* steps are steps of LearningProgress, so what is proved above holds with *)
(* them, and a page that says "complete" says the truth.                   *)


(* The RPC of an accepted action is StartLesson, CompleteLesson or nothing. *)
LEMMA WriteStep ==
  ASSUME NEW t \in Tabs, Write(t),
         request[t].e \in Enrollments, request[t].l \in Lessons
  PROVE  [Next]_vars
<1>1. CASE WriteProgress(request[t])
  <2>1. StartLesson(request[t].e, request[t].l) => Next
    BY DEF Next, Learning
  <2>2. CompleteLesson(request[t].e, request[t].l) => Next
    BY DEF Next, Learning
  <2> QED BY <1>1, <2>1, <2>2 DEF WriteProgress
<1>2. CASE UNCHANGED vars
  BY <1>2
<1> QED BY <1>1, <1>2 DEF Write

LEMMA ServeStep ==
  ASSUME NEW t \in Tabs, Serve(t),
         request[t].e \in Enrollments, request[t].l \in Lessons
  PROVE  [Next]_vars
<1>1. CASE Write(t)
  BY <1>1, WriteStep
<1>2. CASE ~Write(t)
  BY <1>2 DEF Serve, ReadEnrollment, ReadCoverage, ReadProgress, ReadVersion, ReadGates
<1> QED BY <1>1, <1>2

-----------------------------------------------------------------------------
(* The inductive invariant: what a request has read and what a page says   *)
(* complete are finished in the rows.                                      *)
TrueRequest(r, rows) ==
  /\ r \in Requests
  /\ r.kind = "none" => r.at = "none"
  /\ r.kind # "none" =>
       /\ r.e \in Enrollments /\ r.l \in Lessons
       /\ r.done \subseteq Done(rows[r.e])
       /\ r.just => r.l \in Done(rows[r.e])

TruePage(p, rows) ==
  /\ p \in Pages
  /\ p.shown = "lesson" => p.e \in Enrollments /\ p.l \in Lessons
  /\ p.completed \/ p.just => p.shown = "lesson" /\ p.l \in Done(rows[p.e])

(* All but a load are about the lesson the page shows.                     *)
SameLesson(r, p) ==
  r.kind \in {"start", "complete", "refresh"} => p.e = r.e /\ p.l = r.l

SessionInv ==
  /\ TypeOK
  /\ request \in [Tabs -> Requests] /\ page \in [Tabs -> Pages]
  /\ \A t \in Tabs : TrueRequest(request[t], lessonRow) /\ TruePage(page[t], lessonRow)
  /\ \A t \in Tabs : SameLesson(request[t], page[t])

LEMMA AskedTyped ==
  ASSUME NEW kind \in {"open", "start", "complete", "refresh"}, NEW e \in Enrollments,
         NEW l \in Lessons, NEW just \in BOOLEAN
  PROVE  /\ Asked(kind, e, l, just) \in Requests
         /\ Asked(kind, e, l, just).kind = kind /\ Asked(kind, e, l, just).at = "enrollment"
         /\ Asked(kind, e, l, just).e = e /\ Asked(kind, e, l, just).l = l
         /\ Asked(kind, e, l, just).done = {} /\ Asked(kind, e, l, just).just = just
<1>1. CASE just = TRUE
  BY <1>1 DEF Asked, Requests
<1>2. CASE just = FALSE
  BY <1>2 DEF Asked, Requests
<1> QED BY <1>1, <1>2

LEMMA QuietTyped ==
  /\ Quiet \in Requests /\ Quiet.kind = "none" /\ Quiet.at = "none" /\ ~Quiet.just
  /\ Quiet.done = {}
  /\ ClosedPage \in Pages /\ ClosedPage.shown = "nothing"
  /\ ~ClosedPage.completed /\ ~ClosedPage.just
  BY DEF Quiet, Requests, ClosedPage, Pages

(* A request at a stage of being served is one that was made.              *)
LEMMA ServedTyped ==
  ASSUME SessionInv, NEW t \in Tabs, request[t].at # "none"
  PROVE  /\ request[t] \in Requests /\ request[t].kind # "none"
         /\ request[t].e \in Enrollments /\ request[t].l \in Lessons
         /\ CourseOf[request[t].l] \in Courses
         /\ request[t].done \subseteq Done(lessonRow[request[t].e])
         /\ request[t].just => request[t].l \in Done(lessonRow[request[t].e])
<1>1. TrueRequest(request[t], lessonRow)
  BY DEF SessionInv
<1> QED BY <1>1, CatalogAssumption DEF TrueRequest

(* Finished lessons stay finished, so what was true of the rows stays so.  *)
LEMMA StaysTrue ==
  ASSUME SessionInv, [Next]_vars
  PROVE  /\ TypeOK'
         /\ \A r : TrueRequest(r, lessonRow) => TrueRequest(r, lessonRow')
         /\ \A p : TruePage(p, lessonRow) => TruePage(p, lessonRow')
<1>1. \A e \in Enrollments : Done(lessonRow[e]) \subseteq Done(lessonRow'[e])
  BY StepKeeps DEF SessionInv, Kept
<1>2. TypeOK'
  BY ProgressTypeStep DEF SessionInv
<1>3. \A r : TrueRequest(r, lessonRow) => TrueRequest(r, lessonRow')
  BY <1>1 DEF TrueRequest
<1>4. \A p : TruePage(p, lessonRow) => TruePage(p, lessonRow')
  BY <1>1 DEF TruePage
<1> QED BY <1>2, <1>3, <1>4

(* A step of one tab.                                                      *)
LEMMA TabStep ==
  ASSUME SessionInv, [Next]_vars, NEW t \in Tabs, NEW r, NEW p,
         Asks(t, r), TrueRequest(r, lessonRow'),
         \/ UNCHANGED page /\ SameLesson(r, page[t])
         \/ Shows(t, p) /\ TruePage(p, lessonRow') /\ SameLesson(r, p)
  PROVE  SessionInv'
<1>1. request' = [request EXCEPT ![t] = r] /\ r \in Requests
  BY DEF Asks, TrueRequest
<1>2. request' \in [Tabs -> Requests] /\ \A u \in Tabs : TrueRequest(request'[u], lessonRow')
  BY <1>1, StaysTrue DEF SessionInv
<1>3. page' \in [Tabs -> Pages] /\ \A u \in Tabs : TruePage(page'[u], lessonRow')
  BY StaysTrue DEF SessionInv, Shows, TruePage
<1>4. \A u \in Tabs : SameLesson(request'[u], page'[u])
  BY <1>1 DEF SessionInv, Shows
<1> QED BY <1>2, <1>3, <1>4, StaysTrue DEF SessionInv

-----------------------------------------------------------------------------
(* Requests that are made                                                  *)

LEMMA AskedTrue ==
  ASSUME NEW kind \in {"open", "start", "complete", "refresh"}, NEW e \in Enrollments,
         NEW l \in Lessons, NEW just \in BOOLEAN, NEW rows, just => l \in Done(rows[e])
  PROVE  TrueRequest(Asked(kind, e, l, just), rows)
  BY AskedTyped DEF TrueRequest

LEMMA QuietTrue ==
  ASSUME NEW rows
  PROVE  /\ TrueRequest(Quiet, rows) /\ TruePage(ClosedPage, rows)
         /\ \A p : SameLesson(Quiet, p)
  BY QuietTyped DEF TrueRequest, TruePage, SameLesson

LEMMA OpenStep ==
  ASSUME SessionInv, NEW t \in Tabs, NEW e \in Enrollments, NEW l \in Lessons,
         OpenLesson(t, e, l)
  PROVE  SessionInv'
<1>1. UNCHANGED vars
  BY DEF OpenLesson
<1>2. TrueRequest(Asked("open", e, l, FALSE), lessonRow')
  BY AskedTrue
<1>3. SameLesson(Asked("open", e, l, FALSE), page[t])
  BY AskedTyped DEF SameLesson
<1> QED BY <1>1, <1>2, <1>3, TabStep DEF OpenLesson

LEMMA StartStep ==
  ASSUME SessionInv, NEW t \in Tabs, StartEffect(t)
  PROVE  SessionInv'
<1> DEFINE p == page[t]
           q == [p EXCEPT !.started = TRUE]
<1>1. UNCHANGED vars
  BY DEF StartEffect
<1>2. p \in Pages /\ TruePage(p, lessonRow) /\ p.shown = "lesson"
  BY DEF SessionInv, StartEffect
<1>3. p.e \in Enrollments /\ p.l \in Lessons
  BY <1>2 DEF TruePage
<1>4. TrueRequest(Asked("start", p.e, p.l, FALSE), lessonRow')
  BY <1>3, AskedTrue
<1> HIDE DEF p
<1>5. q \in Pages /\ q.shown = p.shown /\ q.e = p.e /\ q.l = p.l
  BY <1>2 DEF Pages
<1>6. (q.completed <=> p.completed) /\ (q.just <=> p.just)
  BY <1>2 DEF Pages
<1>7. TruePage(q, lessonRow')
  BY <1>1, <1>2, <1>3, <1>5, <1>6, StaysTrue DEF TruePage
<1>8. Asks(t, Asked("start", p.e, p.l, FALSE)) /\ Shows(t, q)
  BY DEF StartEffect, p
<1>9. SameLesson(Asked("start", p.e, p.l, FALSE), q)
  <2>1. Asked("start", p.e, p.l, FALSE).e = p.e /\ Asked("start", p.e, p.l, FALSE).l = p.l
    BY DEF Asked
  <2> QED BY <1>5, <2>1 DEF SameLesson
<1> QED BY <1>1, <1>4, <1>7, <1>8, <1>9, TabStep

LEMMA MarkStep ==
  ASSUME SessionInv, NEW t \in Tabs, MarkComplete(t)
  PROVE  SessionInv'
<1> DEFINE p == page[t]
<1>1. UNCHANGED vars /\ UNCHANGED page
  BY DEF MarkComplete
<1>2. p.e \in Enrollments /\ p.l \in Lessons
  BY DEF SessionInv, MarkComplete, TruePage
<1>3. TrueRequest(Asked("complete", p.e, p.l, FALSE), lessonRow')
  BY <1>2, AskedTrue
<1>4. SameLesson(Asked("complete", p.e, p.l, FALSE), p)
  BY DEF Asked, SameLesson
<1> QED BY <1>1, <1>3, <1>4, TabStep DEF MarkComplete

(* A refusal or a lost connection ends the request.                        *)
LEMMA EndStep ==
  ASSUME SessionInv, NEW t \in Tabs, UNCHANGED vars, Refused(t) \/ Lose(t)
  PROVE  SessionInv'
<1>1. TrueRequest(Quiet, lessonRow') /\ TruePage(ClosedPage, lessonRow')
  BY QuietTrue
<1>2. Asks(t, Quiet) /\ (UNCHANGED page \/ Shows(t, ClosedPage))
  BY DEF Refused, Lose, Shows
<1> QED BY <1>1, <1>2, QuietTrue, TabStep

-----------------------------------------------------------------------------
(* Reads                                                                   *)

LEMMA ReadTrue ==
  ASSUME NEW rows, NEW r, TrueRequest(r, rows), r.kind # "none", NEW p, SameLesson(r, p),
         NEW q \in Requests, q.kind = r.kind, q.e = r.e, q.l = r.l,
         q.done \subseteq Done(rows[r.e]), q.just <=> r.just
  PROVE  TrueRequest(q, rows) /\ SameLesson(q, p)
  BY DEF TrueRequest, SameLesson

LEMMA ReadEnrollmentStep ==
  ASSUME SessionInv, NEW t \in Tabs, ReadEnrollment(t)
  PROVE  SessionInv'
<1> DEFINE r == request[t]
           q == [r EXCEPT !.at = "coverage", !.status = status[r.e], !.version = pin[r.e]]
<1>1. UNCHANGED vars
  BY DEF ReadEnrollment
<1>2. r.kind # "none" /\ r \in Requests /\ r.e \in Enrollments /\ TrueRequest(r, lessonRow)
      /\ SameLesson(r, page[t])
  BY ServedTyped DEF ReadEnrollment, SessionInv
<1>3. /\ status[r.e] \in {"none", "withdrawn", "expired"} \cup Live
      /\ pin[r.e] \in Version \cup {NoVersion}
  BY <1>2 DEF SessionInv, TypeOK
<1>4. Refused(t) \/ (Asks(t, q) /\ UNCHANGED page)
  BY DEF ReadEnrollment
<1> HIDE DEF r
<1>5. q \in Requests
  BY <1>2, <1>3 DEF Requests
<1>6. q.kind = r.kind /\ q.e = r.e /\ q.l = r.l /\ q.done = r.done
  BY <1>2 DEF Requests
<1>7. q.just <=> r.just
  BY <1>2 DEF Requests
<1> HIDE DEF q
<1>8. TrueRequest(q, lessonRow') /\ SameLesson(q, page[t])
  BY <1>1, <1>2, <1>5, <1>6, <1>7, ReadTrue, StaysTrue DEF TrueRequest
<1> QED BY <1>1, <1>4, <1>8, EndStep, TabStep

LEMMA ReadCoverageStep ==
  ASSUME SessionInv, NEW t \in Tabs, ReadCoverage(t)
  PROVE  SessionInv'
<1> DEFINE r == request[t]
           q == [r EXCEPT !.at = "progress"]
<1>1. UNCHANGED vars
  BY DEF ReadCoverage
<1>2. r.kind # "none" /\ r \in Requests /\ TrueRequest(r, lessonRow)
      /\ SameLesson(r, page[t])
  BY ServedTyped DEF ReadCoverage, SessionInv
<1>3. Refused(t) \/ (Asks(t, q) /\ UNCHANGED page)
  BY DEF ReadCoverage
<1> HIDE DEF r
<1>4. q \in Requests
  BY <1>2 DEF Requests
<1>5. q.kind = r.kind /\ q.e = r.e /\ q.l = r.l /\ q.done = r.done
  BY <1>2 DEF Requests
<1>6. q.just <=> r.just
  BY <1>2 DEF Requests
<1> HIDE DEF q
<1>7. TrueRequest(q, lessonRow') /\ SameLesson(q, page[t])
  BY <1>1, <1>2, <1>4, <1>5, <1>6, ReadTrue, StaysTrue DEF TrueRequest
<1> QED BY <1>1, <1>3, <1>7, EndStep, TabStep

LEMMA ReadProgressStep ==
  ASSUME SessionInv, NEW t \in Tabs, ReadProgress(t)
  PROVE  SessionInv'
<1> DEFINE r == request[t]
           c == CourseOf[r.l]
           v == PinRead(r, courseRow[r.e][c])
           done == {l \in Done(lessonRow[r.e]) : CourseOf[l] = c}
           q == [r EXCEPT !.at = "version", !.version = v, !.done = done]
<1>1. UNCHANGED vars /\ UNCHANGED page
  BY DEF ReadProgress
<1>2. /\ r.kind # "none" /\ r \in Requests /\ TrueRequest(r, lessonRow)
      /\ r.e \in Enrollments /\ c \in Courses /\ SameLesson(r, page[t])
  BY ServedTyped DEF ReadProgress, SessionInv
<1>3. v \in Version \cup {NoVersion}
  BY <1>2 DEF SessionInv, TypeOK, CourseRows, PinRead, Requests
<1>4. done \subseteq Done(lessonRow[r.e]) /\ done \in SUBSET Lessons
  BY DEF Done
<1>5. Asks(t, q)
  BY DEF ReadProgress
<1> HIDE DEF r, v, done
<1>6. q \in Requests
  BY <1>2, <1>3, <1>4 DEF Requests
<1>7. q.kind = r.kind /\ q.e = r.e /\ q.l = r.l /\ q.done = done
  BY <1>2 DEF Requests
<1>8. q.just <=> r.just
  BY <1>2 DEF Requests
<1> HIDE DEF q
<1>9. TrueRequest(q, lessonRow') /\ SameLesson(q, page[t])
  BY <1>1, <1>2, <1>4, <1>6, <1>7, <1>8, ReadTrue, StaysTrue
<1> QED BY <1>1, <1>5, <1>9, TabStep

LEMMA ReadVersionStep ==
  ASSUME SessionInv, NEW t \in Tabs, ReadVersion(t)
  PROVE  SessionInv'
<1> DEFINE r == request[t]
           v == VersionRead(r)
           next == IF r.kind \in {"open", "refresh"} THEN "gates" ELSE "write"
           q == [r EXCEPT !.version = v, !.at = next]
<1>1. UNCHANGED vars
  BY DEF ReadVersion
<1>2. /\ r.kind # "none" /\ r \in Requests /\ TrueRequest(r, lessonRow)
      /\ r.e \in Enrollments /\ r.l \in Lessons /\ CourseOf[r.l] \in Courses
      /\ SameLesson(r, page[t])
  BY ServedTyped DEF ReadVersion, SessionInv
<1>3. v \in Version \cup {NoVersion}
  <2>1. Current(CourseOf[r.l]) \in Version \cup {NoVersion}
    BY <1>2, CurrentType DEF SessionInv, TypeOK
  <2>2. r.version \in Version \cup {NoVersion}
    BY <1>2 DEF Requests
  <2> QED BY <2>1, <2>2 DEF VersionRead
<1>4. \/ Refused(t)
      \/ Asks(t, q) /\ UNCHANGED page
      \/ Asks(t, Quiet) /\ Shows(t, LockedPage(r))
  BY DEF ReadVersion
<1>5. next \in {"gates", "write"}
  OBVIOUS
<1>6. TruePage(LockedPage(r), lessonRow')
  BY <1>2 DEF LockedPage, ClosedPage, TruePage, Pages
<1> HIDE DEF r, v, next
<1>7. q \in Requests
  BY <1>2, <1>3, <1>5 DEF Requests
<1>8. q.kind = r.kind /\ q.e = r.e /\ q.l = r.l /\ q.done = r.done
  BY <1>2 DEF Requests
<1>9. q.just <=> r.just
  BY <1>2 DEF Requests
<1> HIDE DEF q
<1>10. TrueRequest(q, lessonRow') /\ SameLesson(q, page[t])
  BY <1>1, <1>2, <1>7, <1>8, <1>9, ReadTrue, StaysTrue DEF TrueRequest
<1>11. CASE Refused(t)
  BY <1>1, <1>11, EndStep
<1>12. CASE Asks(t, q) /\ UNCHANGED page
  BY <1>1, <1>10, <1>12, TabStep
<1>13. CASE Asks(t, Quiet) /\ Shows(t, LockedPage(r))
  BY <1>1, <1>6, <1>13, QuietTrue, TabStep
<1> QED BY <1>4, <1>11, <1>12, <1>13

LEMMA ReadGatesStep ==
  ASSUME SessionInv, NEW t \in Tabs, ReadGates(t)
  PROVE  SessionInv'
<1> DEFINE r == request[t]
           old == page[t]
           done == r.l \in r.done
           gated == CanAccess(MemberOf[r.e], CourseOf[r.l])
                    /\ (AssessmentGated(r.e, r.l) \/ PracticalGated(r.e, r.l))
           started == r.kind = "refresh" /\ old.started
           just == r.kind = "refresh" /\ (old.just \/ r.just)
           q == PageRead(t, r)
<1>1. UNCHANGED vars /\ Asks(t, Quiet) /\ (Shows(t, q) \/ Shows(t, ClosedPage))
  BY DEF ReadGates
<1>2. /\ r.kind # "none" /\ r \in Requests /\ r.e \in Enrollments /\ r.l \in Lessons
      /\ r.done \subseteq Done(lessonRow[r.e])
      /\ r.just => r.l \in Done(lessonRow[r.e])
  BY ServedTyped DEF ReadGates
<1>3. SameLesson(r, old) /\ TruePage(old, lessonRow)
  BY DEF SessionInv
<1>4. q = [shown |-> "lesson", e |-> r.e, l |-> r.l, version |-> r.version,
           completed |-> done, gated |-> gated, started |-> started, just |-> just]
  BY DEF PageRead
<1>5. done \in BOOLEAN /\ gated \in BOOLEAN /\ started \in BOOLEAN /\ just \in BOOLEAN
  OBVIOUS
<1>6. r.version \in Version \cup {NoVersion}
  BY <1>2 DEF Requests
<1>7. done => r.l \in Done(lessonRow[r.e])
  BY <1>2
<1>8. just => r.l \in Done(lessonRow[r.e])
  <2>1. CASE r.kind = "refresh" /\ old.just
    <3>1. old.e = r.e /\ old.l = r.l
      BY <1>3, <2>1 DEF SameLesson
    <3> QED BY <1>3, <2>1, <3>1 DEF TruePage
  <2> QED BY <1>2, <2>1
<1> HIDE DEF r, done, gated, started, just, q
<1>9. q \in Pages /\ q.shown = "lesson" /\ q.e = r.e /\ q.l = r.l
  BY <1>2, <1>4, <1>5, <1>6 DEF Pages
<1>10. (q.completed <=> done) /\ (q.just <=> just)
  BY <1>4
<1>11. TruePage(q, lessonRow)
  BY <1>2, <1>7, <1>8, <1>9, <1>10 DEF TruePage
<1> QED BY <1>1, <1>11, QuietTrue, StaysTrue, TabStep

-----------------------------------------------------------------------------
(* The write                                                               *)

LEMMA LessonCompleted ==
  ASSUME TypeOK, NEW e \in Enrollments, NEW l \in Lessons,
         \/ CompleteLesson(e, l)
         \/ lessonRow[e][l].status \in Finished /\ UNCHANGED vars
  PROVE  l \in Done(lessonRow'[e])
<1>1. CASE CompleteLesson(e, l)
  <2>1. lessonRow' = [lessonRow EXCEPT ![e] = WithLessonCompleted(e, l)]
    BY <1>1 DEF CompleteLesson, EvaluateCourse
  <2>2. lessonRow \in [Enrollments -> [Lessons -> LessonRows]]
    BY DEF TypeOK
  <2>3. lessonRow'[e] = WithLessonCompleted(e, l)
    BY <2>1, <2>2
  <2>4. lessonRow[e] \in [Lessons -> LessonRows] /\ lessonRow[e][l] \in LessonRows
    BY <2>2
  <2>5. WithLessonCompleted(e, l)[l].status \in Finished
    BY <2>4 DEF WithLessonCompleted, LessonRows, Finished
  <2> QED BY <2>3, <2>5 DEF Done
<1>2. CASE lessonRow[e][l].status \in Finished /\ UNCHANGED vars
  BY <1>2 DEF Done, vars, enrollmentVars
<1> QED BY <1>1, <1>2

LEMMA WriteServeStep ==
  ASSUME SessionInv, NEW t \in Tabs, Write(t)
  PROVE  SessionInv'
<1> DEFINE r == request[t]
           just == r.kind = "complete"
           q == Asked("refresh", r.e, r.l, just)
<1>1. r.e \in Enrollments /\ r.l \in Lessons /\ SameLesson(r, page[t])
  BY ServedTyped DEF Write, SessionInv
<1>2. [Next]_vars
  BY <1>1, WriteStep
<1>3. CASE WriteProgress(r) /\ Asks(t, q) /\ UNCHANGED page
  <2>1. just \in BOOLEAN
    OBVIOUS
  <2>2. just => r.l \in Done(lessonRow'[r.e])
    BY <1>1, <1>3, LessonCompleted DEF WriteProgress, SessionInv
  <2>3. r.kind \in {"start", "complete"}
    BY <1>3 DEF WriteProgress
  <2>4. q.e = r.e /\ q.l = r.l
    BY DEF Asked
  <2>5. SameLesson(q, page[t])
    BY <1>1, <2>3, <2>4 DEF SameLesson
  <2> HIDE DEF r, just
  <2>6. TrueRequest(q, lessonRow')
    BY <1>1, <2>1, <2>2, AskedTrue
  <2> QED BY <1>2, <1>3, <2>5, <2>6, TabStep
<1>4. CASE UNCHANGED vars /\ Refused(t)
  BY <1>4, EndStep
<1> QED BY <1>3, <1>4 DEF Write

LEMMA MeanwhileStep ==
  ASSUME SessionInv, Meanwhile \/ UNCHANGED allVars
  PROVE  SessionInv'
<1>1. [Next]_vars /\ UNCHANGED sessionVars
  BY DEF Meanwhile, allVars
<1>2. request' = request /\ page' = page
  BY <1>1 DEF sessionVars
<1> QED BY <1>1, <1>2, StaysTrue DEF SessionInv

LEMMA SessionInvStep ==
  ASSUME SessionInv, [SessionNext]_allVars
  PROVE  SessionInv'
<1>1. CASE Meanwhile \/ UNCHANGED allVars
  BY <1>1, MeanwhileStep
<1>2. ASSUME NEW t \in Tabs, Serve(t)
      PROVE  SessionInv'
  BY <1>2, ReadEnrollmentStep, ReadCoverageStep, ReadProgressStep, ReadVersionStep,
     ReadGatesStep, WriteServeStep DEF Serve
<1>3. ASSUME NEW t \in Tabs, Lose(t)
      PROVE  SessionInv'
  BY <1>3, EndStep DEF Lose
<1> QED BY <1>1, <1>2, <1>3, OpenStep, StartStep, MarkStep DEF SessionNext

LEMMA SessionInvInit == SessionInit => SessionInv
<1> SUFFICES ASSUME SessionInit PROVE SessionInv
  OBVIOUS
<1>1. TypeOK
  BY ProgressTypeInit DEF SessionInit
<1>2. page = [t \in Tabs |-> ClosedPage] /\ request = [t \in Tabs |-> Quiet]
  BY DEF SessionInit
<1> QED BY <1>1, <1>2, QuietTyped, QuietTrue DEF SessionInv

-----------------------------------------------------------------------------
LEMMA SessionStepImplements ==
  ASSUME SessionInv, [SessionNext]_allVars
  PROVE  [Next]_vars
<1>1. ASSUME NEW t \in Tabs, Serve(t)
      PROVE  [Next]_vars
  <2>1. request[t].at # "none"
    BY <1>1 DEF Serve, ReadEnrollment, ReadCoverage, ReadProgress, ReadVersion,
                ReadGates, Write
  <2> QED BY <1>1, <2>1, ServeStep, ServedTyped
<1>2. CASE \E t \in Tabs :
             \/ \E e \in Enrollments, l \in Lessons : OpenLesson(t, e, l)
             \/ StartEffect(t) \/ MarkComplete(t) \/ Lose(t)
  BY <1>2 DEF OpenLesson, StartEffect, MarkComplete, Lose
<1>3. CASE Meanwhile \/ UNCHANGED allVars
  BY <1>3 DEF Meanwhile, allVars
<1> QED BY <1>1, <1>2, <1>3 DEF SessionNext

(* The pages and the action add no behaviour to the rows: their steps are  *)
(* steps of LearningProgress, whose theorems hold with the pages too.      *)
THEOREM SessionImplements == SessionSpec => Spec
<1>1. SessionInit => Init /\ SessionInv
  BY SessionInvInit DEF SessionInit
<1>2. SessionInv /\ [SessionNext]_allVars => SessionInv' /\ [Next]_vars
  BY SessionInvStep, SessionStepImplements
<1> QED BY <1>1, <1>2, PTL DEF SessionSpec, Spec

(* CompleteIsTrue: whatever is read when, whoever writes between the reads *)
(* and whichever answer is lost, no page says "complete" of a lesson that  *)
(* is not (LessonActions, recordProgressAction).                           *)
THEOREM PagesTellTheTruth == SessionSpec => []CompleteIsTrue
<1>1. SessionInit => SessionInv
  BY SessionInvInit
<1>2. SessionInv /\ [SessionNext]_allVars => SessionInv'
  BY SessionInvStep
<1>3. SessionInv => CompleteIsTrue
  BY DEF SessionInv, TruePage, Done, CompleteIsTrue
<1> QED BY <1>1, <1>2, <1>3, PTL DEF SessionSpec

-----------------------------------------------------------------------------
(* What the reads of a request have established by the stage it is at,     *)
(* for an enrollment in a course: the version is the pinned one, and the   *)
(* write is only called of a lesson whose access that version allowed.     *)
Reading == {"coverage", "progress", "version", "gates", "write"}

OrderRequest(r) ==
  r.at \in Reading /\ TargetOf[r.e] \in Courses =>
    /\ status[r.e] # "none" /\ r.version = pin[r.e]
    /\ r.at = "write" => Accessible(r, r.version)

OrderInv ==
  /\ SessionInv
  /\ PinsInv
  /\ \A t \in Tabs : OrderRequest(request[t])

(* The pin is written when the enrollment is created and never again.      *)
LEMMA PinStays ==
  ASSUME PinsInv, [Next]_vars, NEW e \in Enrollments, status[e] # "none"
  PROVE  status'[e] # "none" /\ pin'[e] = pin[e]
<1>0. TypeOK /\ TypeOK'
  BY ProgressTypeStep DEF PinsInv
<1>1. CASE Untouched(e)
  BY <1>1 DEF Untouched
<1>2. CASE Learning(e)
  <2>1. CASE RowsQuiet(e)
    BY <2>1 DEF RowsQuiet
  <2>2. ASSUME NEW c \in Courses, Opens(e, c)
        PROVE  status'[e] # "none" /\ pin'[e] = pin[e]
    BY <2>2 DEF Opens
  <2>3. ASSUME NEW l \in Lessons, Finishes(e, l)
        PROVE  status'[e] # "none" /\ pin'[e] = pin[e]
    <3>1. pin' = pin
      BY <2>3 DEF Finishes, EvaluateCourse
    <3>2. \E reached \in BOOLEAN : status' = [status EXCEPT ![e] = StatusAfter(e, reached)]
      BY <2>3 DEF Finishes, EvaluateCourse
    <3>3. status'[e] = status[e] \/ status'[e] = "completed"
      BY <1>0, <3>2 DEF TypeOK, StatusAfter
    <3> QED BY <3>1, <3>3
  <2> QED BY <1>0, <1>2, <2>1, <2>2, <2>3, StepKind
<1> QED BY <1>0, <1>1, <1>2, StepsOfOthers

(* A version that is there stays as it is, so what was read of it does.    *)
LEMMA VersionsStay ==
  ASSUME PinsInv, [Next]_vars, NEW v, VersionExists(v)
  PROVE  Snapshot(v)' = Snapshot(v)
<1>1. CatalogTypeOK /\ PublishedOwn /\ TypeOK
  BY DEF PinsInv, TypeOK
<1> QED BY <1>1, StepKeepsCatalog, PublishedGrows

LEMMA OrderStays ==
  ASSUME PinsInv, [Next]_vars, NEW r, OrderRequest(r), r.at \in Reading => r.e \in Enrollments
  PROVE  OrderRequest(r)'
<1> SUFFICES ASSUME r.at \in Reading, TargetOf[r.e] \in Courses
             PROVE  OrderRequest(r)'
  BY DEF OrderRequest
<1>1. r.e \in Enrollments /\ status[r.e] # "none" /\ r.version = pin[r.e]
  BY DEF OrderRequest
<1>2. status'[r.e] # "none" /\ r.version = pin'[r.e]
  BY <1>1, PinStays
<1>3. VersionExists(r.version)
  BY <1>1 DEF PinsInv, RowsSound
<1>4. Snapshot(r.version)' = Snapshot(r.version)
  BY <1>3, VersionsStay
<1>5. r.at = "write" => Accessible(r, r.version)'
  BY <1>4 DEF OrderRequest, Accessible
<1> QED BY <1>2, <1>5 DEF OrderRequest

(* Only the request of the tab that takes a step has to be looked at.      *)
LEMMA OrderTab ==
  ASSUME OrderInv, [Next]_vars, SessionInv', NEW t \in Tabs, NEW r,
         Asks(t, r), OrderRequest(r)'
  PROVE  OrderInv'
<1>1. PinsInv /\ PinsInv'
  BY PinsStep DEF OrderInv
<1>2. ASSUME NEW u \in Tabs
      PROVE  \A q : q = request'[u] => OrderRequest(q)'
  <2>1. CASE u = t
    <3>1. request'[u] = r
      BY <2>1 DEF Asks, OrderInv, SessionInv
    <3> QED BY <3>1
  <2>2. CASE u # t
    <3>1. request'[u] = request[u]
      BY <2>2 DEF Asks, OrderInv, SessionInv
    <3>2. OrderRequest(request[u]) /\ (request[u].at \in Reading => request[u].e \in Enrollments)
      BY ServedTyped DEF OrderInv, Reading
    <3>3. \A q : q = request[u] => OrderRequest(q)'
      BY <1>1, <3>2, OrderStays
    <3> QED BY <3>1, <3>3
  <2> QED BY <2>1, <2>2
<1>3. ASSUME NEW u \in Tabs
      PROVE  OrderRequest(request[u])'
  BY <1>2 DEF OrderRequest
<1> QED BY <1>1, <1>3 DEF OrderInv

(* A request that has read nothing yet, or is none.                        *)
LEMMA OrderFresh ==
  ASSUME NEW r, r.at \notin Reading
  PROVE  OrderRequest(r) /\ OrderRequest(r)'
BY DEF OrderRequest

LEMMA QuietFresh ==
  /\ Quiet.at \notin Reading
  /\ \A kind, e, l, just : Asked(kind, e, l, just).at \notin Reading
BY DEF Quiet, Asked, Reading

(* The reads: the enrollment's pin, then the version of its course row,    *)
(* which is the same, then whether that version lets the lesson be opened. *)
LEMMA OrderReads ==
  ASSUME OrderInv, SessionInv', NEW t \in Tabs, UNCHANGED vars,
         \/ ReadEnrollment(t) \/ ReadCoverage(t) \/ ReadProgress(t) \/ ReadVersion(t)
  PROVE  OrderInv'
<1> DEFINE r == request[t]
<1>0. r \in Requests /\ r.at # "none"
  BY DEF OrderInv, SessionInv, ReadEnrollment, ReadCoverage, ReadProgress, ReadVersion
<1>1. /\ r.e \in Enrollments /\ CourseOf[r.l] \in Courses /\ PinsInv /\ OrderRequest(r)
      /\ RowsSound(r.e) /\ PinsAgreeOf(r.e)
  BY <1>0, ServedTyped DEF OrderInv, PinsInv
<1>2. ASSUME NEW q, Asks(t, q), OrderRequest(q)
      PROVE  OrderInv'
  <2>1. OrderRequest(q)'
    BY <1>2 DEF OrderRequest, Accessible, vars, enrollmentVars, catalogVars, Snapshot
  <2> QED BY <1>2, <2>1, OrderTab
<1>3. CASE Asks(t, Quiet)
  BY <1>2, <1>3, OrderFresh, QuietFresh
<1>4. ASSUME NEW s, NEW v, NEW d, NEW q, q = [r EXCEPT !.status = s, !.version = v, !.done = d]
      PROVE  q.e = r.e /\ q.l = r.l
  BY <1>0, <1>4 DEF Requests
<1>5. CASE ReadEnrollment(t) /\ ~Asks(t, Quiet)
  <2> DEFINE q == [r EXCEPT !.at = "coverage", !.status = status[r.e], !.version = pin[r.e]]
  <2>1. Asks(t, q) /\ status[r.e] # "none"
    BY <1>5 DEF ReadEnrollment, Refused
  <2>2. q.at = "coverage" /\ q.e = r.e /\ q.version = pin[r.e]
    BY <1>0 DEF Requests
  <2>3. OrderRequest(q)
    BY <2>1, <2>2 DEF OrderRequest
  <2> QED BY <1>2, <2>1, <2>3
<1>6. CASE ReadCoverage(t) /\ ~Asks(t, Quiet)
  <2> DEFINE q == [r EXCEPT !.at = "progress"]
  <2>1. Asks(t, q) /\ r.at = "coverage"
    BY <1>6 DEF ReadCoverage, Refused
  <2>2. q.at = "progress" /\ q.e = r.e /\ q.version = r.version
    BY <1>0 DEF Requests
  <2>3. OrderRequest(q)
    BY <1>1, <2>1, <2>2 DEF OrderRequest, Reading
  <2> QED BY <1>2, <2>1, <2>3
<1>7. CASE ReadProgress(t)
  <2> DEFINE c == CourseOf[r.l]
             v == PinRead(r, courseRow[r.e][c])
             d == {l \in Done(lessonRow[r.e]) : CourseOf[l] = c}
             q == [r EXCEPT !.at = "version", !.version = v, !.done = d]
  <2>1. Asks(t, q) /\ r.at = "progress"
    BY <1>7 DEF ReadProgress
  <2>2. TargetOf[r.e] \in Courses =>
          status[r.e] # "none" /\ r.version = pin[r.e] /\ v = pin[r.e]
    BY <1>1, <2>1 DEF OrderRequest, Reading, PinRead, PinsAgreeOf
  <2> HIDE DEF v, d
  <2>3. q.at = "version" /\ q.e = r.e /\ q.version = v
    BY <1>0 DEF Requests
  <2>4. OrderRequest(q)
    BY <2>2, <2>3 DEF OrderRequest
  <2> QED BY <1>2, <2>1, <2>4
<1>8. CASE ReadVersion(t) /\ ~Asks(t, Quiet)
  <2> DEFINE v == VersionRead(r)
             at == IF r.kind \in {"open", "refresh"} THEN "gates" ELSE "write"
             q == [r EXCEPT !.version = v, !.at = at]
  <2>1. Asks(t, q) /\ r.at = "version" /\ Accessible(r, v)
    BY <1>8 DEF ReadVersion, Refused
  <2>2. TargetOf[r.e] \in Courses =>
          status[r.e] # "none" /\ r.version = pin[r.e] /\ pin[r.e] # NoVersion
    BY <1>1, <2>1 DEF OrderRequest, Reading, RowsSound
  <2>3. TargetOf[r.e] \in Courses => v = pin[r.e]
    BY <2>1, <2>2 DEF Accessible, VersionRead
  <2> HIDE DEF v, at
  <2>4. /\ q.e = r.e /\ q.l = r.l /\ q.status = r.status /\ q.done = r.done
        /\ q.version = v
    BY <1>0 DEF Requests
  <2>5. Accessible(q, v)
    BY <2>1, <2>4 DEF Accessible
  <2>6. OrderRequest(q)
    BY <2>2, <2>3, <2>4, <2>5 DEF OrderRequest
  <2> QED BY <1>2, <2>1, <2>6
<1> QED BY <1>3, <1>5, <1>6, <1>7, <1>8

LEMMA OrderInvStep ==
  ASSUME OrderInv, [SessionNext]_allVars
  PROVE  OrderInv'
<1>1. SessionInv /\ SessionInv' /\ [Next]_vars /\ PinsInv /\ PinsInv'
  BY SessionInvStep, SessionStepImplements, PinsStep DEF OrderInv
<1>2. CASE UNCHANGED request
  <2>1. ASSUME NEW t \in Tabs
        PROVE  OrderRequest(request[t])'
    <3>1. OrderRequest(request[t]) /\ (request[t].at \in Reading => request[t].e \in Enrollments)
      BY ServedTyped DEF OrderInv, Reading
    <3>2. \A q : q = request[t] => OrderRequest(q)'
      BY <1>1, <3>1, OrderStays
    <3> QED BY <1>2, <3>2 DEF OrderRequest
  <2> QED BY <1>1, <2>1 DEF OrderInv
<1>3. ASSUME NEW t \in Tabs, NEW q, Asks(t, q), q.at \notin Reading
      PROVE  OrderInv'
  BY <1>1, <1>3, OrderFresh, OrderTab
<1>4. ASSUME NEW t \in Tabs, Asks(t, Quiet)
      PROVE  OrderInv'
  BY <1>3, <1>4, QuietFresh
<1>5. ASSUME NEW t \in Tabs, Serve(t)
      PROVE  OrderInv'
  <2>1. CASE ReadEnrollment(t) \/ ReadCoverage(t) \/ ReadProgress(t) \/ ReadVersion(t)
    <3>1. UNCHANGED vars
      BY <2>1 DEF ReadEnrollment, ReadCoverage, ReadProgress, ReadVersion
    <3> QED BY <1>1, <2>1, <3>1, OrderReads
  <2>2. CASE ReadGates(t)
    BY <1>4, <2>2 DEF ReadGates
  <2>3. CASE Write(t)
    BY <1>3, <1>4, <2>3, QuietFresh DEF Write, Refused
  <2> QED BY <1>5, <2>1, <2>2, <2>3 DEF Serve
<1>6. ASSUME NEW t \in Tabs,
             \/ \E e \in Enrollments, l \in Lessons : OpenLesson(t, e, l)
             \/ StartEffect(t) \/ MarkComplete(t)
      PROVE  OrderInv'
  BY <1>3, <1>6, QuietFresh DEF OpenLesson, StartEffect, MarkComplete
<1>7. ASSUME NEW t \in Tabs, Lose(t)
      PROVE  OrderInv'
  BY <1>4, <1>7 DEF Lose
<1>8. CASE Meanwhile \/ UNCHANGED allVars
  BY <1>2, <1>8 DEF Meanwhile, allVars, sessionVars
<1> QED BY <1>5, <1>6, <1>7, <1>8 DEF SessionNext

(* What the access of a lesson says when it is not locked.                 *)
LEMMA AccessMeans ==
  ASSUME NEW s, IsStructure(s), NEW st, NEW done, NEW l \in LessonsOf(s),
         AccessTo(st, s, done, l) \in {"available", "completed"}
  PROVE  l \in done \/ EarlierRequired(s, l) \subseteq done
<1> DEFINE i == CHOOSE i \in 1..Len(s.order) : s.order[i] = l
<1>1. i \in 1..Len(s.order) /\ s.order[i] = l
  BY RequiredFinite DEF LessonsOf
<1>2. LessonAccess(st, s, done)[i] \in {"available", "completed"}
  BY DEF AccessTo
<1> HIDE DEF i
<1>3. st \in Live
  BY <1>1, <1>2 DEF LessonAccess
<1>4. CASE l \in done
  BY <1>4
<1>5. CASE l \notin done
  <2>1. LessonAccess(st, s, done)[i] = "available"
    BY <1>1, <1>2, <1>5 DEF LessonAccess
  <2> QED BY <1>1, <1>3, <2>1, AccessShown
<1> QED BY <1>4, <1>5

(* The lesson a step finishes while a request is answered is the lesson of *)
(* that request, which is at its write.                                    *)
LEMMA PageFinishes ==
  ASSUME OrderInv, [SessionNext]_allVars, request' # request,
         NEW e \in Enrollments, NEW l \in Lessons,
         lessonRow[e][l].status \notin Finished, lessonRow'[e][l].status \in Finished
  PROVE  \E t \in Tabs : /\ request[t].at = "write"
                         /\ request[t].e = e /\ request[t].l = l
<1>1. lessonRow' # lessonRow
  OBVIOUS
<1>2. PICK t \in Tabs : Write(t) /\ WriteProgress(request[t])
  BY <1>1 DEF SessionNext, Meanwhile, allVars, sessionVars, Serve, OpenLesson, StartEffect,
     MarkComplete, Lose, ReadEnrollment, ReadCoverage, ReadProgress, ReadVersion, ReadGates,
     Write, vars, enrollmentVars
<1> DEFINE r == request[t]
<1>3. r.at = "write" /\ r.e \in Enrollments /\ r.l \in Lessons
  BY <1>2, ServedTyped DEF Write, OrderInv
<1>4. TypeOK
  BY DEF OrderInv, PinsInv
<1>5. CASE StartLesson(r.e, r.l)
  <2>1. \/ lessonRow' = lessonRow
        \/ lessonRow' = [lessonRow EXCEPT ![r.e][r.l].status = "in_progress",
                           ![r.e][r.l].version = ResolvedVersion(r.e, CourseOf[r.l])]
    BY <1>5 DEF StartLesson
  <2> DEFINE v == ResolvedVersion(r.e, CourseOf[r.l])
  <2> HIDE DEF r, v
  <2>2. lessonRow \in [Enrollments -> [Lessons -> LessonRows]]
    BY <1>4 DEF TypeOK
  <2>3. lessonRow' = [lessonRow EXCEPT ![r.e][r.l].status = "in_progress", ![r.e][r.l].version = v]
    BY <1>1, <2>1 DEF v
  <2>4. CASE e = r.e /\ l = r.l
    <3>1. lessonRow[e][l] \in LessonRows
      BY <2>2
    <3>2. lessonRow'[e][l] =
            [lessonRow[e][l] EXCEPT !.status = "in_progress", !.version = v]
      BY <2>2, <2>3, <2>4
    <3>3. lessonRow'[e][l].status = "in_progress"
      BY <3>1, <3>2 DEF LessonRows
    <3> QED BY <3>3 DEF Finished
  <2>5. CASE ~(e = r.e /\ l = r.l)
    <3>1. lessonRow'[e][l] = lessonRow[e][l]
      BY <2>2, <2>3, <2>5
    <3> QED BY <3>1
  <2> QED BY <2>4, <2>5
<1>6. CASE CompleteLesson(r.e, r.l)
  <2>1. lessonRow' = [lessonRow EXCEPT ![r.e] = WithLessonCompleted(r.e, r.l)]
    BY <1>6 DEF CompleteLesson, EvaluateCourse
  <2>2. \A k \in Lessons \ {r.l} : WithLessonCompleted(r.e, r.l)[k] = lessonRow[r.e][k]
    BY <1>3, CompletedRow DEF OrderInv
  <2> HIDE DEF r
  <2>3. e = r.e
    BY <1>4, <2>1 DEF TypeOK
  <2>4. lessonRow'[e] = WithLessonCompleted(r.e, r.l)
    BY <1>4, <2>1, <2>3 DEF TypeOK
  <2>5. l = r.l
    BY <2>2, <2>3, <2>4
  <2> QED BY <1>3, <2>3, <2>5 DEF r
<1>7. StartLesson(r.e, r.l) \/ CompleteLesson(r.e, r.l)
  BY <1>1, <1>2 DEF WriteProgress, vars, enrollmentVars
<1> QED BY <1>5, <1>6, <1>7

(* LearnersKeepOrder: the display's lock is asked by the action, some      *)
(* reads before the transaction; nothing that happens in between makes its *)
(* answer wrong, since versions are frozen, the pin stays and finished     *)
(* lessons stay finished.                                                  *)
THEOREM OrderAlwaysKept == SessionSpec => LearnersKeepOrder
<1>1. SessionInit => OrderInv
  <2>1. SessionInit => SessionInv /\ PinsInv
    BY SessionInvInit, PinsInit DEF SessionInit
  <2>2. SessionInit => \A t \in Tabs : request[t] = Quiet
    BY DEF SessionInit
  <2> QED BY <2>1, <2>2, QuietFresh, OrderFresh DEF OrderInv
<1>2. ASSUME OrderInv, [SessionNext]_allVars
      PROVE  \A e \in Enrollments, l \in Lessons :
               /\ TargetOf[e] \in Courses
               /\ lessonRow[e][l].status \notin Finished /\ lessonRow'[e][l].status \in Finished
               /\ request' # request
               => EarlierRequired(Snapshot(lessonRow'[e][l].version), l) \subseteq Done(lessonRow[e])
  <2> SUFFICES ASSUME NEW e \in Enrollments, NEW l \in Lessons, TargetOf[e] \in Courses,
                      lessonRow[e][l].status \notin Finished,
                      lessonRow'[e][l].status \in Finished, request' # request
               PROVE  EarlierRequired(Snapshot(lessonRow'[e][l].version), l)
                        \subseteq Done(lessonRow[e])
    OBVIOUS
  <2>1. PICK t \in Tabs : request[t].at = "write" /\ request[t].e = e /\ request[t].l = l
    BY <1>2, PageFinishes
  <2> DEFINE r == request[t]
             s == Snapshot(pin[e])
  <2>2. /\ status[e] # "none" /\ r.version = pin[e] /\ Accessible(r, pin[e])
        /\ r.done \subseteq Done(lessonRow[e])
    BY <1>2, <2>1, ServedTyped DEF OrderInv, OrderRequest, Reading
  <2>3. VersionExists(pin[e]) /\ IsStructure(s)
    <3>1. VersionExists(pin[e]) /\ CatalogTypeOK /\ PublishedOwn
      BY <1>2, <2>2 DEF OrderInv, PinsInv, RowsSound, TypeOK
    <3> QED BY <3>1, ExistingVersion
  <2>4. lessonRow'[e][l].version = pin[e]
    <3>1. PinsInv /\ PinsInv' /\ [Next]_vars
      BY <1>2, SessionStepImplements, PinsStep DEF OrderInv
    <3>2. PinsAgreeOf(e)' /\ pin'[e] = pin[e] /\ CourseOf[l] \in Courses
      BY <2>2, <3>1, PinStays, CatalogAssumption DEF PinsInv
    <3>3. lessonRow'[e][l].status # "none"
      BY DEF Finished
    <3> QED BY <3>2, <3>3 DEF PinsAgreeOf
  <2>5. l \in LessonsOf(s) /\ AccessTo(r.status, s, r.done, l) \in {"available", "completed"}
    BY <2>1, <2>2 DEF Accessible
  <2>6. l \notin r.done
    BY <2>2 DEF Done
  <2>7. EarlierRequired(s, l) \subseteq r.done
    BY <2>3, <2>5, <2>6, AccessMeans
  <2> QED BY <2>2, <2>4, <2>7
<1> QED BY <1>1, <1>2, OrderInvStep, PTL DEF SessionSpec, LearnersKeepOrder
=============================================================================
