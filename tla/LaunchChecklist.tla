--------------------------- MODULE LaunchChecklist ---------------------------
(***************************************************************************)
(* The Academy Launch checklist of the dashboard: what is done is derived  *)
(* from the organization's own data each time the page is loaded           *)
(* (lib/data/onboarding.ts, lib/onboarding/steps.ts); stored are only the  *)
(* visits that no data can prove (components/onboarding/page-marker.tsx)   *)
(* and one row for the organization: hidden, celebrated                    *)
(* (lib/actions/onboarding.ts, components/onboarding/checklist.tsx).       *)
(***************************************************************************)
EXTENDS Integers, Sequences, FiniteSets, SequencesExt

CONSTANTS
  Members,   \* people of the organization
  Founder,   \* its owner, who stays
  Held,      \* the permissions of each
  Hidden,    \* steps that the use case does not offer
  Already,   \* what there is at the start
  Visits,    \* the visits that are made
  MaxTurns   \* bound on what is taken back, requests and statements that fail, and
             \* clicks on Hide and Restore

Permissions ==
  {"org.manage", "org.branding.manage", "paths.manage", "content.author", "content.view_draft",
   "content.publish", "org.members.manage", "enrollment.manage", "analytics.view"}

ASSUME HeldAssumption ==
  /\ Held \in [Members -> SUBSET Permissions]
  /\ Founder \in Members /\ Held[Founder] = Permissions
ASSUME SeesOwnWork ==  \* as the roles that the database seeds
  \A m \in Members : Held[m] \cap {"content.author", "content.publish", "paths.manage"} # {}
                       => "content.view_draft" \in Held[m]

-----------------------------------------------------------------------------
(* The steps *)

Steps == << "org-details", "branding", "journey", "program", "phase", "lesson", "publish",
            "preview", "invite", "progress" >>
StepsPublishFirst == << "org-details", "branding", "journey", "program", "phase", "publish",
                        "lesson", "preview", "invite", "progress" >>
CHECKLIST_STEPS == Steps

ASSUME HiddenAssumption == Hidden \subseteq {"branding", "preview"}
ASSUME VisitsAssumption == Visits \subseteq {"preview", "progress"}

needsAny(step) ==
  CASE step = "org-details" -> {"org.manage"}
    [] step = "branding" -> {"org.branding.manage"}
    [] step = "journey" -> {"paths.manage"}
    [] step \in {"program", "phase", "lesson"} -> {"content.author", "content.view_draft"}
    [] step = "publish" -> {"content.publish"}
    [] step = "preview" -> {"content.view_draft"}
    [] step = "invite" -> {"org.members.manage"}
    [] step = "progress" -> {"enrollment.manage", "analytics.view"}

\* What an organization has: at least one of each, not archived.
Facts == {"identity", "theme", "path", "course", "module", "lesson", "block", "lesson-live",
          "course-live", "preview", "progress", "others"}
DataFacts == Facts \ {"preview", "progress", "others"}
ASSUME AlreadyAssumption ==  \* a course is published with its published lessons
  /\ Already \subseteq Facts \ {"others"}
  /\ "course-live" \in Already => "lesson-live" \in Already

\* What completes a step, and complete: any published thing will do.
Evidence(step) ==
  CASE step = "org-details" -> {"identity"} [] step = "branding" -> {"theme"}
    [] step = "journey" -> {"path"} [] step = "program" -> {"course"}
    [] step = "phase" -> {"module"} [] step = "lesson" -> {"lesson", "block"}
    [] step = "invite" -> {"others"} [] OTHER -> {step}
Complete(step, signals) ==
  IF step = "publish" THEN {"lesson-live", "course-live"} \cap signals # {}
  ELSE Evidence(step) \subseteq signals

\* The list of one member, and their next step in it.
Listed ==
  [m \in Members |->
     { step \in ToSet(CHECKLIST_STEPS) : needsAny(step) \cap Held[m] # {} /\ step \notin Hidden }]
StepsOf(m) == Listed[m]
AllComplete(m, done) == StepsOf(m) # {} /\ StepsOf(m) \subseteq done
NextStep(m, done) ==
  LET open == SelectSeq(CHECKLIST_STEPS, LAMBDA step : step \in StepsOf(m) \ done)
  IN IF open = << >> THEN "none" ELSE Head(open)

-----------------------------------------------------------------------------
VARIABLES
  facts,     \* the organization's data, and the recorded visits
  seat,      \* memberships
  lifecycle, \* organization_onboarding: dismissed, celebrated
  tab,       \* the dashboard of each member: what is being read, what is shown
  marked,    \* the visits that each session storage has noted
  posted,    \* visits on their way to the database
  queue,     \* lifecycle actions on their way, in order
  ever,      \* history: every fact there has been
  turns

listVars == << facts, seat, lifecycle, tab, marked, posted, queue, ever, turns >>
lists == << tab, queue, lifecycle >>

Calls == {"dismiss", "restore", "celebrate"}
Lifecycle == [dismissed : BOOLEAN, celebrated : BOOLEAN]
\* after: a celebration had been recorded before this load began (history)
\* signals, lifecycle: what has been answered, as a sequence of none or one
\* unread: the statement that reads the row failed, which counts as no row
Idle == [on |-> FALSE, signals |-> << >>, lifecycle |-> << >>, after |-> FALSE, unread |-> FALSE]
Loading(after) == [Idle EXCEPT !.on = TRUE, !.after = after]
Untouched == [dismissed |-> FALSE, celebrated |-> FALSE]
NoView == [done |-> {}, lifecycle |-> Untouched, after |-> FALSE, unread |-> FALSE, shown |-> FALSE]
Away == [load |-> Idle, view |-> NoView, celebrateRef |-> FALSE]

ListTypeOK ==
  /\ facts \subseteq Facts /\ ever \subseteq Facts
  /\ seat \in [Members -> {"out", "invited", "active"}]
  /\ lifecycle \in Lifecycle
  /\ \A m \in Members : /\ tab[m].view.done \subseteq ToSet(Steps)
                        /\ tab[m].view.lifecycle \in Lifecycle
                        /\ tab[m].celebrateRef \in BOOLEAN
  /\ marked \in [Members -> SUBSET Visits] /\ posted \in [Members -> SUBSET Visits]
  /\ \A m \in Members : queue[m] \in Seq(Calls) /\ Len(queue[m]) <= 2
  /\ turns \in 0..MaxTurns

ListInit ==
  /\ facts = Already /\ ever = Already
  /\ seat = [m \in Members |-> IF m = Founder THEN "active" ELSE "out"]
  /\ lifecycle = Untouched
  /\ tab = [m \in Members |-> Away]
  /\ marked = [m \in Members |-> {}] /\ posted = [m \in Members |-> {}]
  /\ queue = [m \in Members |-> << >>]
  /\ turns = 0

Others(m) == \E n \in Members \ {m} : seat[n] # "out"
Signals(m) == facts \cup (IF Others(m) THEN {"others"} ELSE {})
canManage(m) == "org.manage" \in Held[m]
Active(m) == seat[m] = "active"

-----------------------------------------------------------------------------
(* The work: each operation by its permission, on what it needs. *)

Operations ==
  [identity |-> << "org.manage", {} >>, theme |-> << "org.branding.manage", {} >>,
   path |-> << "paths.manage", {} >>, course |-> << "content.author", {} >>,
   module |-> << "content.author", {"course"} >>, lesson |-> << "content.author", {"module"} >>,
   block |-> << "content.author", {"lesson"} >>]
PublishLesson == << "content.publish", {"block"} >>
PublishCourse == << "content.publish", {"lesson-live"} >>
OperationOf(fact) ==
  CASE fact = "lesson-live" -> PublishLesson [] fact = "course-live" -> PublishCourse
    [] OTHER -> Operations[fact]

Turns == turns < MaxTurns /\ turns' = turns + 1
Remember(now) == ever' = ever \cup now

Do(m, fact) ==
  /\ Active(m) /\ fact \in DataFacts
  /\ OperationOf(fact)[1] \in Held[m] /\ OperationOf(fact)[2] \subseteq facts
  /\ facts' = facts \cup {fact}
  /\ Remember({fact})
  /\ UNCHANGED << seat, lists, marked, posted, turns >>

Invite(m, n) ==
  /\ Active(m) /\ "org.members.manage" \in Held[m] /\ seat[n] = "out"
  /\ seat' = [seat EXCEPT ![n] = "invited"]
  /\ Remember({"others"})
  /\ UNCHANGED << facts, lists, marked, posted, turns >>

Join(n) ==
  /\ seat[n] = "invited"
  /\ seat' = [seat EXCEPT ![n] = "active"]
  /\ UNCHANGED << facts, lists, marked, posted, ever, turns >>

\* An identity saved empty, a lesson saved without blocks, a member removed.
Undo(m) ==
  /\ Active(m) /\ Turns
  /\ \/ /\ \E fact \in {"identity", "block"} \cap facts :
             OperationOf(fact)[1] \in Held[m] /\ facts' = facts \ {fact}
        /\ UNCHANGED seat
     \/ /\ "org.members.manage" \in Held[m]
        /\ \E n \in Members \ {m, Founder} :
             seat[n] # "out" /\ seat' = [seat EXCEPT ![n] = "out"]
        /\ UNCHANGED facts
  /\ UNCHANGED << lists, marked, posted, ever >>

-----------------------------------------------------------------------------
(* Visits.  The page renders the marker only for who can mean it.           *)

Marks(m, visit) ==
  IF visit = "preview" THEN "content.view_draft" \in Held[m]
  ELSE Held[m] \cap {"enrollment.manage", "analytics.view"} # {}

VisitPage(m, visit) ==
  /\ Active(m) /\ Marks(m, visit)
  /\ visit \notin marked[m]
  /\ marked' = [marked EXCEPT ![m] = @ \cup {visit}]
  /\ posted' = [posted EXCEPT ![m] = @ \cup {visit}]
  /\ UNCHANGED << facts, seat, lists, ever, turns >>

Recorded(m, visit) ==
  /\ visit \in posted[m]
  /\ posted' = [posted EXCEPT ![m] = @ \ {visit}]
  /\ facts' = IF Active(m) THEN facts \cup {visit} ELSE facts
  /\ Remember(IF Active(m) THEN {visit} ELSE {})
  /\ UNCHANGED << seat, lists, marked, turns >>

\* A new tab has a session storage of its own, and a dashboard mounted anew.
NewSession(m) ==
  /\ marked' = [marked EXCEPT ![m] = {}]
  /\ tab' = [tab EXCEPT ![m].celebrateRef = FALSE]
  /\ UNCHANGED << facts, seat, lifecycle, posted, queue, ever, turns >>

-----------------------------------------------------------------------------
(* The dashboard.  The queries of a load are answered one by one.           *)

Load(m) ==
  /\ Active(m) /\ StepsOf(m) # {} /\ ~tab[m].load.on
  /\ tab' = [tab EXCEPT ![m].load = Loading(lifecycle.celebrated)]
  /\ UNCHANGED << facts, seat, lifecycle, marked, posted, queue, ever, turns >>

Read(m) ==
  /\ tab[m].load.on
  /\ \/ /\ tab[m].load.signals = << >>
        /\ tab' = [tab EXCEPT ![m].load.signals =
                     << { step \in StepsOf(m) : Complete(step, Signals(m)) } >>]
     \/ /\ tab[m].load.lifecycle = << >>
        /\ tab' = [tab EXCEPT ![m].load.lifecycle = << lifecycle >>]
  /\ UNCHANGED << facts, seat, lifecycle, marked, posted, queue, ever, turns >>

\* A statement of the load fails: what it would have counted is none, and the row
\* is as if nobody had hidden or celebrated anything.
Fail(m) ==
  /\ tab[m].load.on /\ Turns
  /\ \/ /\ tab[m].load.signals = << >>
        /\ \E fact \in Signals(m) :
             tab' = [tab EXCEPT ![m].load.signals =
                       << { step \in StepsOf(m) : Complete(step, Signals(m) \ {fact}) } >>]
     \/ /\ tab[m].load.lifecycle = << >>
        /\ tab' = [tab EXCEPT ![m].load.lifecycle = << Untouched >>, ![m].load.unread = TRUE]
  /\ UNCHANGED << facts, seat, lifecycle, marked, posted, queue, ever >>

\* What is shown, and the effect that records the celebration.
Celebrates(m, done, row) == AllComplete(m, done) /\ ~row.celebrated
Render(m) ==
  LET load == tab[m].load
      done == load.signals[1]
      row == load.lifecycle[1]
      fires == Celebrates(m, done, row) /\ ~tab[m].celebrateRef /\ canManage(m)
  IN /\ load.signals # << >> /\ load.lifecycle # << >>
     /\ fires => Len(queue[m]) < 2
     /\ tab' = [tab EXCEPT ![m] =
                  [load |-> Idle, celebrateRef |-> @.celebrateRef \/ fires,
                   view |-> [done |-> done, lifecycle |-> row, after |-> load.after,
                             unread |-> load.unread, shown |-> TRUE]]]
     /\ queue' = IF fires THEN [queue EXCEPT ![m] = Append(@, "celebrate")] ELSE queue
     /\ UNCHANGED << facts, seat, lifecycle, marked, posted, ever, turns >>

Click(m) ==
  LET view == tab[m].view
  IN /\ view.shown /\ canManage(m) /\ ~AllComplete(m, view.done)
     /\ Turns /\ Len(queue[m]) < 2
     /\ queue' = [queue EXCEPT ![m] =
                    Append(@, IF view.lifecycle.dismissed THEN "restore" ELSE "dismiss")]
     /\ UNCHANGED << facts, seat, lifecycle, tab, marked, posted, ever, turns >>

\* upsertLifecycle
Patch(m, c) ==
  IF c = "celebrate" THEN [lifecycle EXCEPT !.celebrated = TRUE]
  ELSE [lifecycle EXCEPT !.dismissed = (c = "dismiss")]

\* The action of a manager who is still a member; the page is then read anew.
upsertLifecycle(m) ==
  /\ queue[m] # << >>
  /\ queue' = [queue EXCEPT ![m] = Tail(@)]
  /\ IF Active(m)
     THEN /\ lifecycle' = Patch(m, Head(queue[m]))
          /\ tab' = [tab EXCEPT ![m].load = Loading(lifecycle'.celebrated)]
     ELSE UNCHANGED << lifecycle, tab >>
  /\ UNCHANGED << facts, seat, marked, posted, ever, turns >>

Lose(m) ==
  /\ Turns
  /\ \/ /\ queue[m] # << >>
        /\ queue' = [queue EXCEPT ![m] = Tail(@)] /\ UNCHANGED posted
     \/ /\ posted[m] # {}
        /\ \E visit \in posted[m] : posted' = [posted EXCEPT ![m] = @ \ {visit}]
        /\ UNCHANGED queue
  /\ UNCHANGED << facts, seat, lifecycle, tab, marked, ever >>

-----------------------------------------------------------------------------
\* The step that a member is shown as the next.
Achieves(step) ==
  IF step = "publish" THEN {"lesson-live", "course-live"} ELSE Evidence(step) \cap DataFacts
FollowNext(m) ==
  LET view == tab[m].view
      step == NextStep(m, view.done)
  IN /\ view.shown /\ ~view.lifecycle.dismissed
     /\ \/ \E fact \in Achieves(step) : Do(m, fact)
        \/ step \in Visits /\ VisitPage(m, step)
        \/ step = "invite" /\ \E n \in Members : Invite(m, n)

Dashboard(m) == Load(m) \/ Read(m) \/ Render(m)

ListNext ==
  \E m \in Members :
    \/ \E fact \in DataFacts : Do(m, fact)
    \/ \E n \in Members : Invite(m, n)
    \/ \E visit \in Visits : VisitPage(m, visit) \/ Recorded(m, visit)
    \/ Join(m) \/ Undo(m) \/ NewSession(m)
    \/ Load(m) \/ Read(m) \/ Fail(m) \/ Render(m) \/ Click(m) \/ upsertLifecycle(m) \/ Lose(m)

\* Requests are answered, dashboards are opened and tabs closed again, and the
\* founder takes the step that is shown as the next.
ListFairness ==
  /\ WF_listVars(FollowNext(Founder))
  /\ \A m \in Members : /\ WF_listVars(Dashboard(m))
                        /\ \A visit \in Visits : WF_listVars(Recorded(m, visit))
                        /\ WF_listVars(upsertLifecycle(m)) /\ WF_listVars(NewSession(m))

ListSpec == ListInit /\ [][ListNext]_listVars /\ ListFairness

-----------------------------------------------------------------------------
(* Properties *)

\* The celebration, once recorded, is in no load that began afterwards:
\* whatever another manager hides or restores from a page rendered before; unless
\* the statement that reads the row fails (its error is not looked at).
CelebrationNeverReplays ==
  \A m \in Members :
    tab[m].view.shown /\ tab[m].view.after /\ ~tab[m].view.unread
      => ~Celebrates(m, tab[m].view.done, tab[m].view.lifecycle)

\* A recorded celebration was earned: for some manager every step on their list
\* has been taken by the organization, the members and the visits included.
Means ==
  [step \in ToSet(Steps) |->
     CASE step = "org-details" -> "identity" [] step = "branding" -> "theme"
       [] step = "journey" -> "path" [] step = "program" -> "course"
       [] step = "phase" -> "module" [] step = "lesson" -> "block"
       [] step = "publish" -> "lesson-live" [] step = "invite" -> "others"
       [] OTHER -> step]
CelebrationEarned ==
  lifecycle.celebrated =>
    \E m \in Members : canManage(m) /\ \A step \in StepsOf(m) : Means[step] \in ever

\* A founder who takes the next step, whenever one is shown, launches: unless
\* the list stays hidden, every step ends up done.
LaunchCompletes ==
  \/ <>[]lifecycle.dismissed
  \/ <>[](\A step \in StepsOf(Founder) : Complete(step, Signals(Founder)))
=============================================================================
