--------------------------- MODULE LearningCatalog ---------------------------
(***************************************************************************)
(* The published curriculum: courses with their immutable published        *)
(* versions, and learning paths with their course nodes and prerequisite   *)
(* edges.  Drafts (modules, lessons, blocks) appear only as the structure  *)
(* an author freezes when publishing.                                      *)
(*                                                                         *)
(* publish_course is one transaction under a row lock, hence one action.   *)
(* A prerequisite insert is not: its BEFORE trigger reads the edges that   *)
(* are committed, and the row becomes visible only at the commit, so the   *)
(* insert is a check step and a commit step with `inFlight' in between,    *)
(* which keeps the edges the trigger walked.  MaxAuthors bounds the        *)
(* inserts that may be in flight at once.                                  *)
(***************************************************************************)
EXTENDS Integers, FiniteSets, Sequences

CONSTANTS
  Courses, Paths, Lessons,
  CourseOf,      \* [Lessons -> Courses], lessons.course_id
  Structures,    \* the snapshots authors may freeze: records of Structure
  MaxVersions,   \* bound: versions published per course
  MaxAuthors,    \* bound: concurrent prerequisite inserts
  NoVersion      \* the SQL null of a version column

VARIABLES
  published,     \* course_versions of each course in version_number order
  open,          \* courses not archived and paths with status active
  nodes,         \* path_nodes: the courses of each path
  prereq,        \* prerequisites: <<node, required node>> per path, committed
  inFlight       \* inserts checked by the trigger and not yet committed:
                 \* path, edge, and the committed edges `seen' by the check

catalogVars == <<published, open, nodes, prereq, inFlight>>

Targets == Courses \cup Paths

Version == Courses \X (Nat \ {0})

Edges == Courses \X Courses

(* lessons of a structure in pinned order; percent = 100 is                *)
(* all_required_lessons, which compares the same counts.                   *)
LessonsOf(s) == {s.order[i] : i \in 1..Len(s.order)}

IsStructure(s) ==
  /\ s.course \in Courses
  /\ s.order \in Seq(Lessons) /\ s.order # <<>>
  /\ \A i, j \in 1..Len(s.order) : s.order[i] = s.order[j] => i = j
  /\ \A l \in LessonsOf(s) : CourseOf[l] = s.course
  /\ s.required \subseteq LessonsOf(s)
  /\ s.percent \in 1..100

ASSUME CatalogAssumption ==
  /\ CourseOf \in [Lessons -> Courses]
  /\ \A s \in Structures : IsStructure(s)
  /\ IsFiniteSet(Lessons)
  /\ Courses \cap Paths = {}
  /\ MaxVersions \in Nat /\ MaxAuthors \in Nat \ {0}
  /\ NoVersion \notin Version

-----------------------------------------------------------------------------
Snapshot(v) == published[v[1]][v[2]]

(* courses.current_published_version_id: the last version, or null.        *)
Current(c) ==
  IF published[c] = <<>> THEN NoVersion ELSE <<c, Len(published[c])>>

(* Mutant of Reaches: the CHECK against an edge to itself, and no more.    *)
ReachesItself(edges, r, n) == r = n

(* The recursive CTE of prevent_prerequisite_cycles: n is in every set     *)
(* that holds r and is closed under the edges.                             *)
Reaches(edges, r, n) ==
  \A S \in SUBSET Courses :
    r \in S /\ (\A x \in edges : x[1] \in S => x[2] \in S) => n \in S

CatalogInit ==
  /\ published = [c \in Courses |-> <<>>]
  /\ open = Targets
  /\ nodes = [p \in Paths |-> {}]
  /\ prereq = [p \in Paths |-> {}]
  /\ inFlight = {}

(* publish_course: archived courses are refused; the version number is     *)
(* max + 1 and becomes current.                                            *)
PublishCourse(s) ==
  /\ s.course \in open
  /\ Len(published[s.course]) < MaxVersions
  /\ published' = [published EXCEPT ![s.course] = Append(@, s)]
  /\ UNCHANGED <<open, nodes, prereq, inFlight>>

(* Archiving and restoring a course, activating and archiving a path.      *)
CloseTarget(t) ==
  /\ t \in open
  /\ open' = open \ {t}
  /\ UNCHANGED <<published, nodes, prereq, inFlight>>

OpenTarget(t) ==
  /\ t \notin open
  /\ open' = open \cup {t}
  /\ UNCHANGED <<published, nodes, prereq, inFlight>>

(* unique (path_id, course_id)                                             *)
AddPathNode(p, c) ==
  /\ c \notin nodes[p]
  /\ nodes' = [nodes EXCEPT ![p] = @ \cup {c}]
  /\ UNCHANGED <<published, open, prereq, inFlight>>

(* Mutant of RemovePathNode: no cascade to prerequisites.                  *)
RemovePathNodeOnly(p, c) ==
  /\ c \in nodes[p]
  /\ nodes' = [nodes EXCEPT ![p] = @ \ {c}]
  /\ UNCHANGED <<published, open, prereq, inFlight>>

(* Both foreign keys of prerequisites cascade.  The key-share lock that an *)
(* uncommitted edge holds on its nodes makes their deletion wait.          *)
RemovePathNode(p, c) ==
  /\ c \in nodes[p]
  /\ \A x \in inFlight : x.path = p => c \notin {x.edge[1], x.edge[2]}
  /\ nodes' = [nodes EXCEPT ![p] = @ \ {c}]
  /\ prereq' = [prereq EXCEPT ![p] = {x \in @ : c \notin {x[1], x[2]}}]
  /\ UNCHANGED <<published, open, inFlight>>

Insert(p, n, r) == [path |-> p, edge |-> <<n, r>>, seen |-> prereq[p]]

(* The insert reaches the trigger, which walks the committed edges.  A     *)
(* second insert of one edge waits for the first (unique index).           *)
CheckPrerequisite(p, n, r) ==
  /\ Cardinality(inFlight) < MaxAuthors
  /\ n \in nodes[p] /\ r \in nodes[p] /\ n # r
  /\ <<n, r>> \notin prereq[p]
  /\ ~\E x \in inFlight : x.path = p /\ x.edge = <<n, r>>
  /\ ~Reaches(prereq[p], r, n)
  /\ inFlight' = inFlight \cup {Insert(p, n, r)}
  /\ UNCHANGED <<published, open, nodes, prereq>>

CommitPrerequisite(x) ==
  /\ x \in inFlight
  /\ inFlight' = inFlight \ {x}
  /\ prereq' = [prereq EXCEPT ![x.path] = @ \cup {x.edge}]
  /\ UNCHANGED <<published, open, nodes>>

(* The transaction of an uncommitted insert rolls back.                    *)
AbortPrerequisite(x) ==
  /\ x \in inFlight
  /\ inFlight' = inFlight \ {x}
  /\ UNCHANGED <<published, open, nodes, prereq>>

RemovePrerequisite(p, x) ==
  /\ x \in prereq[p]
  /\ prereq' = [prereq EXCEPT ![p] = @ \ {x}]
  /\ UNCHANGED <<published, open, nodes, inFlight>>

CatalogNext ==
  \/ \E s \in Structures : PublishCourse(s)
  \/ \E t \in Targets : CloseTarget(t) \/ OpenTarget(t)
  \/ \E p \in Paths, c \in Courses : AddPathNode(p, c) \/ RemovePathNode(p, c)
  \/ \E p \in Paths, n, r \in Courses : CheckPrerequisite(p, n, r)
  \/ \E x \in inFlight : CommitPrerequisite(x) \/ AbortPrerequisite(x)
  \/ \E p \in Paths, x \in Edges : RemovePrerequisite(p, x)

CatalogSpec == CatalogInit /\ [][CatalogNext]_catalogVars

-----------------------------------------------------------------------------
CatalogTypeOK ==
  /\ published \in [Courses -> Seq(Structures)]
  /\ open \subseteq Targets
  /\ nodes \in [Paths -> SUBSET Courses]
  /\ prereq \in [Paths -> SUBSET Edges]
  /\ inFlight \subseteq [path : Paths, edge : Edges, seen : SUBSET Edges]

(* Every edge joins two nodes of its own path: removing a node takes its   *)
(* edges with it (path_nodes and prerequisites foreign keys).              *)
EdgesJoinNodes ==
  /\ \A p \in Paths : \A x \in prereq[p] : x[1] \in nodes[p] /\ x[2] \in nodes[p]
  /\ \A x \in inFlight :
       x.edge[1] \in nodes[x.path] /\ x.edge[2] \in nodes[x.path]

(* A set of edges without a cycle: every non-empty set of courses has one  *)
(* with no edge to another of the set.                                     *)
AcyclicEdges(edges) ==
  \A S \in SUBSET Courses :
    S # {} => \E n \in S : \A x \in edges : x[1] = n => x[2] \notin S

(* "Authoritative cycle prevention (DFS via recursive CTE)": the           *)
(* prerequisites of a path never form a cycle.  Two inserts may each pass  *)
(* the trigger before the other commits, so the code does not keep it.     *)
PrerequisitesAcyclic == \A p \in Paths : AcyclicEdges(prereq[p])

(* What the trigger of learning_foundation does keep, however many authors *)
(* insert and remove at once: a step that closes a cycle is the commit of  *)
(* an insert whose check did not see an edge that was committed since.     *)
CyclesOnlyRaced ==
  [][\A p \in Paths :
       AcyclicEdges(prereq[p]) /\ ~AcyclicEdges(prereq[p])' =>
         \E x \in inFlight \ inFlight' :
           /\ x.path = p /\ x.edge \in prereq[p]' \ prereq[p]
           /\ ~(prereq[p] \subseteq x.seen)]_catalogVars
=============================================================================
