------------------------------ MODULE Insights ------------------------------
(***************************************************************************)
(* What Nova says of an organization, on the Insights page                 *)
(* (lib/data/nova.ts, lib/nova-insights.ts) and on the Overview            *)
(* (admin/page.tsx): observations that a page derives from several         *)
(* statements, each of which sees its own moment, answers with the rows    *)
(* the reader may see, or does not answer and counts as no rows.           *)
(***************************************************************************)
EXTENDS Integers, Sequences, FiniteSets

CONSTANTS
  Courses, Paths, Learners,
  Worlds,     \* what the organization may hold at the start
  Opened,      \* the pages that are opened
  Directory,  \* the reader holds org.members.manage
  Overseer,   \* the reader holds enrollment.manage or progress.view.others
  Own,        \* the reader, where they learn as well
  CourseLimit, JourneyLimit, ReviewLimit,   \* rows that a statement asks for
  MaxChanges, \* bound on the changes of the organization
  MaxGrants,  \* bound on the changes of the reader's permissions
  MaxUnanswered   \* bound on statements without an answer

VARIABLES
  world,    \* the records of the organization
  analyst,  \* the reader holds analytics.view, besides content.view_draft
  load,     \* the page that is being loaded
  cache,    \* the report kept for the reader, per variant, as a sequence of none or one
  onPage,    \* what the reader has before them
  changes, grants, unanswered

insightsVars == << world, analyst, load, cache, onPage, changes, grants, unanswered >>

-----------------------------------------------------------------------------
(* The records *)

World == [state : [Courses -> {"draft", "live", "retired"}], journeys : SUBSET Paths,
          nodes : SUBSET (Paths \X Courses), requires : SUBSET (Paths \X Courses \X Courses),
          assigned : SUBSET Courses, reviews : SUBSET Courses, feedback : BOOLEAN,
          enrolled : [Learners -> {"none", "active", "completed"}], recent : SUBSET Learners]

ASSUME InsightsAssumption ==
  /\ IsFiniteSet(Courses) /\ IsFiniteSet(Paths) /\ IsFiniteSet(Learners)
  /\ Directory \in BOOLEAN /\ Overseer \in BOOLEAN /\ Own \subseteq Learners
  /\ Opened \subseteq {"report", "overview"}
  /\ CourseLimit \in Nat /\ JourneyLimit \in Nat /\ ReviewLimit \in Nat
  /\ Worlds # {} /\ Worlds \subseteq World
  /\ MaxChanges \in Nat /\ MaxGrants \in Nat /\ MaxUnanswered \in Nat

Live(w) == { c \in Courses : w.state[c] = "live" }
Kept(w) == { c \in Courses : w.state[c] # "retired" }

Toggled(s, x) == (s \cup {x}) \ (s \cap {x})
Possible(w) == { r \in Paths \X Courses \X Courses :
                   r[2] # r[3] /\ << r[1], r[2] >> \in w.nodes /\ << r[1], r[3] >> \in w.nodes }

\* One change of one record: of the curriculum, where the edges of a node go with
\* it, or of what is made of it.
Rebuilt(w) ==
  { [w EXCEPT !.state[x[1]] = x[2]] : x \in Courses \X {"draft", "live", "retired"} }
  \cup { [w EXCEPT !.journeys = Toggled(w.journeys, p)] : p \in Paths }
  \cup { [w EXCEPT !.nodes = w.nodes \cup {n}] : n \in Paths \X Courses }
  \cup { [w EXCEPT !.nodes = w.nodes \ {n},
                   !.requires = { r \in w.requires : n \notin {<< r[1], r[2] >>, << r[1], r[3] >>} }] :
           n \in w.nodes }
  \cup { [w EXCEPT !.requires = Toggled(w.requires, r)] : r \in Possible(w) }
Engaged(w) ==
  { [w EXCEPT !.assigned = Toggled(w.assigned, c)] : c \in Courses }
  \cup { [w EXCEPT !.reviews = Toggled(w.reviews, c)] : c \in Courses }
  \cup { [w EXCEPT !.feedback = ~w.feedback] }
  \cup { [w EXCEPT !.enrolled[x[1]] = x[2]] : x \in Learners \X {"active", "completed"} }
  \cup { [w EXCEPT !.recent = Toggled(w.recent, l)] : l \in Learners }
Changed(w) == Rebuilt(w) \cup Engaged(w)

\* Courses of a path that wait for one another.
hasCycle(edges, p) ==
  \E s \in SUBSET Courses \ {{}} : \A c \in s : \E d \in s : << p, c, d >> \in edges

\* What is so of them: the reference for what the pages say.
Incomplete(w, p) == \E c \in Courses : << p, c >> \in w.nodes /\ c \notin Live(w)
Unvalidated(w, p) ==
  /\ \E c \in Courses : << p, c >> \in w.nodes
  /\ \A c \in w.assigned : << p, c >> \notin w.nodes
Lonely(w) == { c \in Live(w) : \A p \in Paths : << p, c >> \notin w.nodes }
QuietLearners(w) == { l \in Learners : w.enrolled[l] = "active" /\ l \notin w.recent }
Drafts(w) == Kept(w) \ Live(w)

\* So many are so, if any; and what is said where nothing is.
Counted(name, s) == IF s = {} THEN {} ELSE { << name, Cardinality(s) >> }
OrClear(s) == IF s = {} THEN {<< "clear" >>} ELSE s

ObservationsOf(w, learner) ==
  OrClear({ << "cycle", p >> : p \in { q \in w.journeys : hasCycle(w.requires, q) } }
          \cup { << "broken", p >> : p \in { q \in w.journeys : Incomplete(w, q) } }
          \cup { << "noassess", p >> : p \in { q \in w.journeys : Unvalidated(w, q) } }
          \cup Counted("isolated", Lonely(w)) \cup Counted("reviews", w.reviews)
          \cup Counted("stalled", { l \in QuietLearners(w) : learner }))
ScoresOf(w, learner) ==
  { << "publishing", Cardinality(Live(w)), Cardinality(Kept(w)) >>,
    << "integrity", Cardinality({ p \in w.journeys : /\ \E c \in Courses : << p, c >> \in w.nodes
                                                     /\ ~Incomplete(w, p)
                                                     /\ ~hasCycle(w.requires, p) }),
       Cardinality(w.journeys) >>,
    << "coverage", Cardinality(Live(w) \cap w.assigned), Cardinality(Live(w)) >> }
  \cup { << "success", Cardinality({ l \in Learners : w.enrolled[l] = "completed" }),
           Cardinality({ l \in Learners : w.enrolled[l] # "none" }) >> : x \in { y \in {1} : learner } }
ReportOf(w, learner) == ObservationsOf(w, learner) \cup ScoresOf(w, learner)

\* That all is live is said where there is nothing else to say.
ConcernsOf(w, learner) ==
  Counted("reviews", w.reviews) \cup Counted("drafts", Drafts(w))
  \cup { << "feedback" >> : x \in { y \in {1} : learner /\ w.feedback } }
OverviewOf(w, learner) ==
  IF ConcernsOf(w, learner) # {} THEN ConcernsOf(w, learner)
                                 ELSE OrClear(Counted("healthy", Kept(w)))
Reference(page, w, learner) == IF page = "report" THEN ReportOf(w, learner) ELSE OverviewOf(w, learner)

\* What an Overview may have seen at one moment, each by itself: that so many
\* reviews at least are open, and that there are none of something.
Glimpses(w, learner) ==
  { << "reviews", n >> : n \in 1..Cardinality(w.reviews) }
  \cup Counted("drafts", Drafts(w))
  \cup { << "feedback" >> : x \in { y \in {1} : learner /\ w.feedback } }
  \cup { f \in Counted("healthy", Kept(w)) : Drafts(w) = {} }
  \cup { f \in {<< "noreviews" >>} : w.reviews = {} }
  \cup { f \in {<< "nocourses" >>} : Kept(w) = {} }
  \cup { f \in {<< "nofeedback" >>} : ~w.feedback }

-----------------------------------------------------------------------------
(* The statements of a page *)

\* Those that are sent at once, and those that follow for an analyst.
FirstWave(page) ==
  IF page = "report"
  THEN {"courses", "journeys", "nodes", "prereqs", "assignments", "reviews", "activity"}
  ELSE {"courses", "reviews", "feedback"}
SecondWave(page) == IF page = "report" THEN {"enrollments", "memberships"} ELSE {}
Queries == UNION { FirstWave(page) \cup SecondWave(page) : page \in {"report", "overview"} }

\* The rows the reader may see: of enrollments and memberships, their own at
\* least.
Rows(w, q) ==
  CASE q = "courses"     -> { << c, w.state[c] >> : c \in Kept(w) }
    [] q = "journeys"    -> w.journeys
    [] q = "nodes"       -> w.nodes
    [] q = "prereqs"     -> w.requires
    [] q = "assignments" -> w.assigned
    [] q = "reviews"     -> w.reviews
    [] q = "feedback"    -> { f \in {"open"} : analyst /\ w.feedback }
    [] q = "activity"    -> { l \in w.recent : analyst }
    [] q = "enrollments" -> { << l, w.enrolled[l] >> :
                                l \in { m \in Learners : /\ w.enrolled[m] # "none"
                                                         /\ Overseer \/ m \in Own } }
    [] q = "memberships" -> { l \in Learners : Directory \/ l \in Own }

\* A statement with a limit answers with so many of its rows.  Which ones the
\* pages do not tell apart.
Limited(page, q) == \/ page = "report" /\ q \in {"courses", "journeys"}
                    \/ page = "overview" /\ q = "reviews"
Limit(q) == CASE q = "courses"  -> CourseLimit
              [] q = "journeys" -> JourneyLimit
              [] OTHER          -> ReviewLimit
Cut(page, w, q) == Limited(page, q) /\ Cardinality(Rows(w, q)) > Limit(q)
ReadRows(page, w, q) ==
  IF Cut(page, w, q) THEN { r \in SUBSET Rows(w, q) : Cardinality(r) = Limit(q) }
                     ELSE { Rows(w, q) }

-----------------------------------------------------------------------------
(* The derivation: rows in, observations out *)

PublishedIds(got) == { c \in Courses : << c, "live" >> \in got["courses"] }
CoursesByPath(got, p) == { c \in Courses : << p, c >> \in got["nodes"] }
InJourney(got) == { c \in Courses : \E p \in Paths : << p, c >> \in got["nodes"] }

\* An enrollment whose member is not known counts as quiet; the slip counts
\* those that are completed as well.
QuietAll(got) ==
  { l \in Learners : /\ \E s \in {"active", "completed"} : << l, s >> \in got["enrollments"]
                     /\ ~(l \in got["memberships"] /\ l \in got["activity"]) }
Quiet(got) ==
  { l \in Learners : /\ << l, "active" >> \in got["enrollments"]
                     /\ ~(l \in got["memberships"] /\ l \in got["activity"]) }

\* Nothing to observe is an observation too.
deriveInsights(got, learner) ==
  OrClear(
    { << "cycle", p >> : p \in { q \in got["journeys"] : hasCycle(got["prereqs"], q) } }
    \cup { << "broken", p >> :
             p \in { q \in got["journeys"] :
                       ~(CoursesByPath(got, q) \subseteq PublishedIds(got)) } }
    \cup { << "noassess", p >> :
             p \in { q \in got["journeys"] :
                       /\ CoursesByPath(got, q) # {}
                       /\ CoursesByPath(got, q) \cap got["assignments"] = {} } }
    \cup Counted("isolated", PublishedIds(got) \ InJourney(got))
    \cup Counted("reviews", got["reviews"])
    \cup IF learner THEN Counted("stalled", Quiet(got)) ELSE {})

\* Each score is n of m.
deriveScorecard(got, learner) ==
  LET live == PublishedIds(got)
      intact == { p \in got["journeys"] : /\ CoursesByPath(got, p) # {}
                                         /\ CoursesByPath(got, p) \subseteq live
                                         /\ ~hasCycle(got["prereqs"], p) }
      completed == { x \in got["enrollments"] : x[2] = "completed" }
  IN { << "publishing", Cardinality(live), Cardinality(got["courses"]) >>,
       << "integrity", Cardinality(intact), Cardinality(got["journeys"]) >>,
       << "coverage", Cardinality(live \cap got["assignments"]), Cardinality(live) >> }
     \cup IF learner THEN { << "success", Cardinality(completed), Cardinality(got["enrollments"]) >> } ELSE {}

Concerns(got, learner) ==
  Counted("reviews", got["reviews"])
  \cup Counted("drafts", { c \in Courses : << c, "draft" >> \in got["courses"] })
  \cup IF learner /\ got["feedback"] # {} THEN { << "feedback" >> } ELSE {}

\* Without an observation the page says that everything looks healthy, and that
\* all is clear.
deriveOverviewInsights(got, learner) ==
  IF Concerns(got, learner) # {} THEN Concerns(got, learner)
                                 ELSE OrClear(Counted("healthy", got["courses"]))

Derived(page, got, learner) ==
  IF page = "report" THEN deriveInsights(got, learner) \cup deriveScorecard(got, learner)
                     ELSE deriveOverviewInsights(got, learner)

-----------------------------------------------------------------------------
\* The variant of a report: it says which statements were sent.
Variant(learner) == IF learner THEN "learner" ELSE "base"

NoLoad == [page |-> "none"]
Blank == [page |-> "none", learner |-> FALSE, said |-> {}]

InsightsTypeOK ==
  /\ world \in World /\ analyst \in BOOLEAN
  /\ load.page \in {"none", "report", "overview"}
  /\ \A v \in DOMAIN cache : Len(cache[v]) <= 1
  /\ onPage.page \in {"none", "report", "overview"} /\ onPage.learner \in BOOLEAN
  /\ changes \in 0..MaxChanges /\ grants \in 0..MaxGrants /\ unanswered \in 0..MaxUnanswered

InsightsInit ==
  /\ world \in Worlds /\ analyst \in BOOLEAN
  /\ load = NoLoad /\ cache = [v \in {"base", "learner"} |-> << >>] /\ onPage = Blank
  /\ changes = 0 /\ grants = 0 /\ unanswered = 0

\* Somebody changes a record; an authoring write on the reader's own instance
\* also clears what is kept.
Change ==
  /\ changes < MaxChanges
  /\ changes' = changes + 1
  /\ \E w \in Changed(world) \ {world} :
       /\ world' = w
       /\ load' = IF load = NoLoad THEN NoLoad
                  ELSE [load EXCEPT !.alone = FALSE, !.seen = @ \cup Glimpses(w, load.learner)]
  /\ cache' \in {cache, [v \in DOMAIN cache |-> << >>]}
  /\ UNCHANGED << analyst, onPage, grants, unanswered >>

\* The reader gains or loses analytics.view.
Grant ==
  /\ grants < MaxGrants
  /\ grants' = grants + 1
  /\ analyst' = ~analyst
  /\ load' = IF load = NoLoad THEN NoLoad ELSE [load EXCEPT !.alone = FALSE, !.steady = FALSE]
  /\ UNCHANGED << world, cache, onPage, changes, unanswered >>

-----------------------------------------------------------------------------
(* getNovaReport, OrgOverviewPage *)

Send(page) ==
  load' = [page |-> page, learner |-> analyst, pending |-> FirstWave(page), second |-> FALSE,
           got |-> [q \in Queries |-> {}], alone |-> TRUE, steady |-> TRUE, failed |-> FALSE,
           seen |-> Glimpses(world, analyst)]

OpenReport ==
  /\ load = NoLoad /\ "report" \in Opened
  /\ LET hit == cache[Variant(analyst)]
     IN IF hit # << >>
        THEN onPage' = [page |-> "report", learner |-> analyst, said |-> hit[1]] /\ UNCHANGED load
        ELSE Send("report") /\ onPage' = Blank
  /\ UNCHANGED << world, analyst, cache, changes, grants, unanswered >>

OpenOverview ==
  /\ load = NoLoad /\ "overview" \in Opened
  /\ Send("overview") /\ onPage' = Blank
  /\ UNCHANGED << world, analyst, cache, changes, grants, unanswered >>

Take(q, rows) ==
  load' = [load EXCEPT !.pending = @ \ {q}, !.got[q] = rows]

Receive(q) ==
  /\ load # NoLoad /\ q \in load.pending
  /\ \E rows \in ReadRows(load.page, world, q) : Take(q, rows)
  /\ UNCHANGED << world, analyst, cache, onPage, changes, grants, unanswered >>

\* data is null, and counts as no rows.
NoAnswer(q) ==
  /\ load # NoLoad /\ q \in load.pending /\ unanswered < MaxUnanswered
  /\ unanswered' = unanswered + 1
  /\ load' = [load EXCEPT !.pending = @ \ {q}, !.got[q] = {}, !.failed = TRUE]
  /\ UNCHANGED << world, analyst, cache, onPage, changes, grants >>

More ==
  /\ load # NoLoad /\ load.pending = {} /\ load.learner /\ ~load.second
  /\ SecondWave(load.page) # {}
  /\ load' = [load EXCEPT !.pending = SecondWave(load.page), !.second = TRUE]
  /\ UNCHANGED << world, analyst, cache, onPage, changes, grants, unanswered >>

Finish ==
  /\ load # NoLoad /\ load.pending = {}
  /\ load.second \/ ~load.learner \/ SecondWave(load.page) = {}
  /\ LET said == Derived(load.page, load.got, load.learner)
     IN /\ onPage' = [page |-> load.page, learner |-> load.learner, said |-> said]
        /\ cache' = IF load.page = "report" THEN [cache EXCEPT ![Variant(load.learner)] = << said >>]
                                            ELSE cache
  /\ load' = NoLoad
  /\ UNCHANGED << world, analyst, changes, grants, unanswered >>

\* The time to live has passed.
Expire(v) ==
  /\ cache[v] # << >>
  /\ cache' = [cache EXCEPT ![v] = << >>]
  /\ UNCHANGED << world, analyst, load, onPage, changes, grants, unanswered >>

InsightsNext ==
  \/ Change \/ Grant \/ OpenReport \/ OpenOverview \/ More \/ Finish
  \/ \E q \in Queries : Receive(q) \/ NoAnswer(q)
  \/ \E v \in {"base", "learner"} : Expire(v)

InsightsSpec == InsightsInit /\ [][InsightsNext]_insightsVars

-----------------------------------------------------------------------------
(* Properties *)

\* The reader sees all that the page is about, and its statements ask for all.
Whole(page) == /\ page = "overview" \/ (Directory /\ Overseer)
               /\ \A q \in FirstWave(page) : ~Cut(page, world, q)

\* A page whose statements were all answered and asked for all there is, and
\* while which nothing changed, says exactly what is so, and no more than its
\* reader may know.
QuietPagesTrue ==
  [][ (Finish /\ load.alone /\ ~load.failed /\ Whole(load.page))
        => onPage'.said = Reference(load.page, world, load.learner) ]_insightsVars

\* The Overview raises nothing that was not so at some moment of its loading,
\* and no more reviews than there were, also when statements fail, stop at
\* their limit, or records change between them.
OverviewNeverInvents ==
  [][ (Finish /\ load.page = "overview")
        => onPage'.said \ {<< "clear" >>} \subseteq load.seen ]_insightsVars

\* That all is clear is said where each thing the Overview would raise was seen
\* to be absent, at a moment of its own: if its statements were all answered and
\* the reader's permissions stayed what they were.
ClearWasSeen ==
  [][ (Finish /\ load.page = "overview" /\ ~load.failed /\ << "clear" >> \in onPage'.said)
        => /\ {<< "nocourses" >>} \subseteq load.seen
           /\ ReviewLimit > 0 => << "noreviews" >> \in load.seen
           /\ load.learner /\ load.steady => << "nofeedback" >> \in load.seen ]_insightsVars

\* The learners' part is shown to nobody who did not hold analytics.view when
\* they opened the page, also when they once did.
LearnersPartGuarded ==
  [][ \A n \in 0..Cardinality(Learners) :
        (onPage' # onPage /\ << "stalled", n >> \in onPage'.said) => onPage'.learner ]_insightsVars

\* What the pages say, together.
PagesTrue == QuietPagesTrue /\ OverviewNeverInvents /\ ClearWasSeen /\ LearnersPartGuarded

\* What the panel of observations is documented to do (command-center.tsx: it
\* never fabricates, an insight appears only when its real condition holds).  It
\* is false of the code: a statement without an answer is taken for one without
\* rows, so all is clear where nothing was read, and every journey is broken
\* where its courses were not.
NeverFabricates ==
  [][ (Finish /\ load.alone)
        => \A x \in onPage'.said \ ScoresOf(world, load.learner) :
             x[1] \in {"cycle", "broken", "noassess", "isolated", "clear", "healthy"}
               => x \in Reference(load.page, world, load.learner) ]_insightsVars
=============================================================================
