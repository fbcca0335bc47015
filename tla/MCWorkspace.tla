------------------------------ MODULE MCWorkspace ------------------------------
(***************************************************************************)
(* The workspace, for TLC: its navigation; the Overview and Insights pages; *)
(* every prerequisite graph over three nodes; and the lists of a course    *)
(* and of a path.  They share no state: a behaviour is about one of them,  *)
(* its scene, and the others stay as they begin.                           *)
(***************************************************************************)
EXTENDS Navigation, Insights, PathGraph, CurriculumOrder

CONSTANTS c1, c2, c3, l, i1, i2, i3
VARIABLE scene

\* Those of the seeded roles that differ most in what they open, and one of an
\* organization's own, about which table and pages do not agree.
SomeRoles ==
  [ academy_admin |-> {"academy.manage", "content.view_draft", "paths.manage", "assessment.author",
                       "assessment.publish", "assessment.grade", "enrollment.manage",
                       "sources.manage", "analytics.view"},
    manager |-> {"enrollment.manage", "progress.view.own", "progress.view.others",
                 "analytics.view"},
    learner |-> {"progress.view.own"},
    keeper |-> {"sources.manage"} ]
AnyRole == { {<< r, "org" >>} : r \in Roles }
SomeWords == {"Curriculum", "Builder"}
SomeTitles == {"Curriculum", "home", "knowledge"}

\* Organizations: with a second course in the path after the first, and a draft;
\* with a review of it open, outside of the path; with one course and a learner
\* who is done; with nothing at all.
Organization(kept, in, open, e) ==
  [ state |-> [c \in Courses |-> IF c \notin kept THEN "retired" ELSE IF c = c1 THEN "live" ELSE "draft"],
    journeys |-> { p \in Paths : in # {} }, nodes |-> Paths \X in,
    requires |-> { << p, c2, c1 >> : p \in { q \in Paths : c2 \in in } },
    assigned |-> {}, reviews |-> open, feedback |-> FALSE,
    enrolled |-> (l :> e), recent |-> {} ]
SmallWorlds == { Organization({c1, c2}, {c1, c2}, {}, "active"),
                 Organization({c1, c2}, {c1}, {c2}, "active"),
                 Organization({c1}, {c1}, {}, "completed"),
                 Organization({}, {}, {}, "none") }

TwoItems == << i1, i2 >>

workspaceVars == << scene, navVars, insightsVars, graphVars, orderVars >>

Pages == {"overview", "changes", "failures"}

WorkspaceInit ==
  /\ scene \in {"navigation", "graph", "order"} \cup Pages
  /\ NavInit /\ InsightsInit /\ Init /\ OrderInit
  /\ scene # "navigation" => seats = CHOOSE s \in Starts : TRUE
  /\ scene \notin Pages => world = CHOOSE w \in Worlds : TRUE
  /\ scene # "graph" => nodes = {} /\ prerequisites = {}
  /\ scene # "order" => kind = "path"

\* Changes of access that change nothing the member may do are left out.
InNavigation == /\ scene = "navigation" /\ UNCHANGED << scene, insightsVars, graphVars, orderVars >>
                /\ access' # access => << Effective, orgPermissions >>' # << Effective, orgPermissions >>
InPages == scene \in Pages /\ UNCHANGED << scene, navVars, graphVars, orderVars >>
InGraph == scene = "graph" /\ UNCHANGED << scene, navVars, insightsVars, orderVars >>
InOrder == scene = "order" /\ UNCHANGED << scene, navVars, insightsVars, graphVars >>

\* The Overview under changes, failures and grants together; the report under
\* changes and grants, or under failures.
Shown ==
  /\ scene = "overview" => load'.page # "report"
  /\ scene = "changes" => load'.page # "overview" /\ unanswered' = 0
  /\ scene = "failures" => load'.page # "overview" /\ changes' = 0 /\ grants' = 0

WorkspaceNext == \/ NavNext /\ InNavigation
                 \/ InsightsNext /\ InPages /\ Shown
                 \/ Next /\ InGraph
                 \/ OrderNext /\ InOrder

\* The fairness of navigation, in its scene.
WorkspaceSpec ==
  /\ WorkspaceInit /\ [][WorkspaceNext]_workspaceVars
  /\ WF_workspaceVars((Redirected \/ Rendered) /\ InNavigation)
================================================================================
