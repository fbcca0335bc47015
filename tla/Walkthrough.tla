----------------------------- MODULE Walkthrough -----------------------------
(***************************************************************************)
(* The guided tours of the admin workspace: the engine of                  *)
(* apps/web/src/components/onboarding/walkthrough.tsx running the          *)
(* registry of apps/web/src/lib/onboarding/registry.ts in the tabs of one  *)
(* browser, which share the place stored for the organization.             *)
(*                                                                         *)
(* React keeps two states apart: what setActive was last given (active)    *)
(* and what the overlay on the screen was rendered from (shown).  A click  *)
(* is rendered before anything else happens; what a timer sets is rendered *)
(* later, and every handler on the screen still computes from shown.       *)
(***************************************************************************)
EXTENDS Integers, Sequences

CONSTANTS Tabs,     \* tabs of one browser, on one organization
          Available,  \* walkthroughs the member's permissions make available
          Links     \* pages the member visits

NoTour == [id |-> "none", step |-> 0]

-----------------------------------------------------------------------------
(* The registry.  A step lives on a route, which is a prefix of the pages   *)
(* it accepts, and ends when the member says so ("next"), when a page is    *)
(* reached or when the page shows a count that the step waits for.          *)

navigationStep(path) == [route |-> "/", advance |-> "page", goal |-> path]
Work(path, key) == [route |-> path, advance |-> "state", goal |-> key]
ReadStep(path) == [route |-> path, advance |-> "next", goal |-> "none"]
openCourse == [route |-> "/courses", advance |-> "page", goal |-> "/courses/id"]

Configuring ==
  [ id \in {"org-details", "branding", "create-journey", "create-program"} |->
      CASE id = "org-details" ->
             << navigationStep("/organization"), Work("/organization", "identity") >>
        [] id = "branding" ->
             << navigationStep("/branding"), Work("/branding", "branding") >>
        [] id = "create-journey" ->
             << navigationStep("/learning"), Work("/learning", "paths") >>
        [] id = "create-program" ->
             << navigationStep("/courses"), Work("/courses", "courses") >> ]

Authoring ==
  [ id \in {"create-phase", "create-lesson", "publish-content"} |->
      CASE id = "create-phase" ->
             << navigationStep("/courses"), openCourse, Work("/courses/id", "modules") >>
        [] id = "create-lesson" -> << openCourse, Work("/courses/id", "lessons") >>
        [] id = "publish-content" -> << openCourse, Work("/courses/id", "published") >> ]

Operating ==
  [ id \in {"learner-preview", "invite-learner", "review-progress"} |->
      CASE id = "learner-preview" -> << navigationStep("learn"), ReadStep("learn") >>
        [] id = "invite-learner" ->
             << navigationStep("/members"), Work("/members", "others") >>
        [] id = "review-progress" ->
             << navigationStep("/enrollments"), ReadStep("/enrollments") >> ]

WALKTHROUGHS ==
  [ id \in DOMAIN Configuring \cup DOMAIN Authoring \cup DOMAIN Operating |->
      IF id \in DOMAIN Configuring THEN Configuring[id]
      ELSE IF id \in DOMAIN Authoring THEN Authoring[id] ELSE Operating[id] ]

ASSUME OfferedAssumption == Available \subseteq DOMAIN WALKTHROUGHS

\* Pages, and the pages below a page.  The learner's surface is not below the
\* admin workspace: it has a layout, and an engine, of its own.
TourPages == { "/", "/organization", "/branding", "/learning", "/learning/paths",
           "/courses", "/courses/id", "/members", "/enrollments", "learn" }
Below == [ p \in TourPages |->
             CASE p = "/" -> TourPages \ {"learn"}
               [] p = "/learning" -> {"/learning", "/learning/paths"}
               [] p = "/courses" -> {"/courses", "/courses/id"}
               [] OTHER -> {p} ]
Area(p) == IF p = "learn" THEN "learn" ELSE "admin"

ASSUME LinksAssumption == Links \subseteq TourPages

\* Where the engine sends a member for a route: a course is for them to choose.
RouteTarget(route) == IF route = "/courses/id" THEN "/courses" ELSE route

\* The counts a page stamps into its document.
TourState ==
  [ p \in TourPages |->
      CASE p = "/organization" -> {"identity"}   [] p = "/branding" -> {"branding"}
        [] p = "/learning/paths" -> {"paths"}    [] p = "/courses" -> {"courses"}
        [] p = "/courses/id" -> {"modules", "lessons", "published"}
        [] p = "/members" -> {"others"}          [] OTHER -> {} ]

-----------------------------------------------------------------------------
VARIABLES
  done,     \* what the organization has: the counts that are at least one
  page,     \* the page of each tab
  going,    \* the page a tab has asked for, or the one it is on
  dom,      \* the counts that the document of each tab shows as at least one
  stored,   \* the place in the browser's storage for this organization
  active,   \* the engine's state in each tab
  shown,    \* what the overlay of each tab was rendered from
  latched,  \* conditionFiredRef of that overlay
  status,   \* whether the overlay has found its target
  resuming, \* tabs whose engine has mounted and not yet read the storage
  left      \* history: steps of the tour that the member completed or skipped

tourVars == << done, page, going, dom, stored, active, shown, latched, status,
           resuming, left >>

Step(t) == WALKTHROUGHS[shown[t].id][shown[t].step]
OnScreen(t) == shown[t] # NoTour
OnRoute(t) == page[t] \in Below[Step(t).route]

\* completeWhen of a step, in a document that shows the counts c on page p
Met(s, p, c) == \/ s.advance = "page" /\ p \in Below[s.goal]
                \/ s.advance = "state" /\ s.goal \in c

Places == {NoTour} \cup { [id |-> id, step |-> i] : id \in Available, i \in 1..3 }

TourTypeOK ==
  /\ done \subseteq UNION { TourState[p] : p \in TourPages }
  /\ page \in [Tabs -> TourPages] /\ going \in [Tabs -> TourPages]
  /\ \A t \in Tabs : dom[t] \subseteq TourState[page[t]]
  /\ stored \in Places /\ active \in [Tabs -> Places] /\ shown \in [Tabs -> Places]
  /\ latched \in [Tabs -> BOOLEAN]
  /\ status \in [Tabs -> {"locating", "ready", "missing"}]
  /\ resuming \subseteq Tabs
  /\ left \in [Tabs -> SUBSET (1..3)]

TourInit ==
  /\ done = {}
  /\ page = [t \in Tabs |-> "/"] /\ going = page
  /\ dom = [t \in Tabs |-> {}]
  /\ stored = NoTour
  /\ active = [t \in Tabs |-> NoTour] /\ shown = active
  /\ latched = [t \in Tabs |-> FALSE]
  /\ status = [t \in Tabs |-> "locating"]
  /\ resuming = {}
  /\ left = [t \in Tabs |-> {}]

-----------------------------------------------------------------------------
(* Rendering.  The overlay is keyed by tour and step: rendered for another  *)
(* place it starts over, with its latch open and its target to be found     *)
(* (the slip keeps the latch when the step changes).                        *)

LatchKept(t, place) == latched[t]
Latch(t, place) == IF place = shown[t] THEN latched[t] ELSE FALSE

RenderAs(t, place) ==
  /\ shown' = [shown EXCEPT ![t] = place]
  /\ latched' = [latched EXCEPT ![t] = Latch(t, place)]
  /\ status' = [status EXCEPT ![t] = IF place = shown[t] THEN @ ELSE "locating"]

RenderTour(t) ==
  /\ active[t] # shown[t]
  /\ RenderAs(t, active[t])
  /\ UNCHANGED << done, page, going, dom, stored, active, resuming, left >>

\* router.push, when the page is not on the route already
Push(t, route) ==
  going' = [going EXCEPT ![t] = IF page[t] \in Below[route] THEN @ ELSE RouteTarget(route)]

\* The place an advance or a return leads to: counted from what is on the
\* screen (the slip counts from the latest state).
StepAfterLatest(t, by) == active[t].step + by
StepAfter(t, by) == shown[t].step + by

\* goToStep
GoToStep(t, i) ==
  IF i > Len(WALKTHROUGHS[shown[t].id])
  THEN /\ active' = [active EXCEPT ![t] = NoTour] /\ stored' = NoTour
       /\ UNCHANGED going
  ELSE LET place == [id |-> shown[t].id, step |-> i]
       IN /\ active' = [active EXCEPT ![t] = place] /\ stored' = place
          /\ Push(t, WALKTHROUGHS[place.id][i].route)

Leave(t) == left' = [left EXCEPT ![t] = @ \cup {shown[t].step}]

-----------------------------------------------------------------------------
(* The member. *)

\* Started on the step that is on the screen, a tour is not rendered anew: its
\* overlay keeps its latch.
Start(t, id) ==
  LET place == [id |-> id, step |-> 1]
  IN /\ Area(page[t]) = "admin" /\ t \notin resuming
     /\ active' = [active EXCEPT ![t] = place] /\ stored' = place
     /\ RenderAs(t, place)
     /\ Push(t, WALKTHROUGHS[id][1].route)
     /\ left' = [left EXCEPT ![t] = {}]
     /\ UNCHANGED << done, page, dom, resuming >>

\* A click on the overlay is rendered at once.
Clicked(t, i) ==
  /\ OnScreen(t)
  /\ GoToStep(t, i)
  /\ RenderAs(t, active'[t])
  /\ UNCHANGED << done, page, dom, resuming >>

\* What the coachmark offers; off the route of its step it is always locating.
effectiveStatus(t) == IF OnRoute(t) THEN status[t] ELSE "locating"
Buttons(t) ==
  {"exit"} \cup (IF shown[t].step > 1 THEN {"back"} ELSE {})
           \cup (IF effectiveStatus(t) # "missing" /\ Step(t).advance = "next"
                 THEN {"next"} ELSE {"skip"})

Next_(t) == OnScreen(t) /\ "next" \in Buttons(t) /\ Clicked(t, StepAfter(t, 1)) /\ Leave(t)
Skip(t) == OnScreen(t) /\ "skip" \in Buttons(t) /\ Clicked(t, StepAfter(t, 1)) /\ Leave(t)
Back(t) == OnScreen(t) /\ "back" \in Buttons(t) /\ Clicked(t, StepAfter(t, -1)) /\ UNCHANGED left

Exit(t) ==
  /\ OnScreen(t)
  /\ active' = [active EXCEPT ![t] = NoTour] /\ stored' = NoTour
  /\ RenderAs(t, NoTour)
  /\ UNCHANGED << done, page, going, dom, resuming, left >>

\* A link, or the address bar within the application.  A course can be opened
\* once there is one.
Navigate(t) ==
  \E p \in Links :
    /\ p = "/courses/id" => page[t] = "/courses" /\ "courses" \in done
    /\ going' = [going EXCEPT ![t] = p]
    /\ UNCHANGED << done, page, dom, stored, active, shown, latched, status, resuming, left >>

\* The action a step asks for.  The page it is done on is rendered again;
\* other tabs keep the document they have.
Achieve(t) ==
  \E k \in TourState[page[t]] \ done :
    /\ k \in {"lessons", "published"} => "modules" \in done
    /\ done' = done \cup {k}
    /\ dom' = [dom EXCEPT ![t] = done' \cap TourState[page[t]]]
    /\ UNCHANGED << page, going, stored, active, shown, latched, status, resuming, left >>

-----------------------------------------------------------------------------
(* The browser. *)

\* The state of the engine is lost with its layout, and read back from the
\* storage by the engine that mounts.
Remount(t) == /\ active' = [active EXCEPT ![t] = NoTour]
              /\ RenderAs(t, NoTour)
              /\ resuming' = resuming \cup {t}

Arrive(t) ==
  /\ going[t] # page[t]
  /\ page' = [page EXCEPT ![t] = going[t]]
  /\ dom' = [dom EXCEPT ![t] = done \cap TourState[going[t]]]
  /\ IF Area(going[t]) # Area(page[t])
     THEN Remount(t)
     ELSE RenderAs(t, active[t]) /\ UNCHANGED << active, resuming >>
  /\ UNCHANGED << done, going, stored, left >>

Reload(t) ==
  /\ Remount(t)
  /\ going' = [going EXCEPT ![t] = page[t]]
  /\ dom' = [dom EXCEPT ![t] = done \cap TourState[page[t]]]
  /\ UNCHANGED << done, page, stored, left >>

Resume(t) ==
  /\ t \in resuming /\ resuming' = resuming \ {t}
  /\ active' = [active EXCEPT ![t] = stored]
  /\ left' = [left EXCEPT ![t] = 1..(stored.step - 1)]
  /\ UNCHANGED << done, page, going, dom, stored, shown, latched, status >>

\* The target is looked for while the tab is on the step's route, and given up
\* after a few seconds.
Locate(t) ==
  /\ OnScreen(t) /\ OnRoute(t) /\ status[t] = "locating"
  /\ \E s \in {"ready", "missing"} : status' = [status EXCEPT ![t] = s]
  /\ UNCHANGED << done, page, going, dom, stored, active, shown, latched, resuming, left >>

\* The poll of a condition step.  What it sets is rendered later.
Poll(t) ==
  /\ OnScreen(t) /\ ~latched[t] /\ Met(Step(t), page[t], dom[t])
  /\ latched' = [latched EXCEPT ![t] = TRUE]
  /\ GoToStep(t, StepAfter(t, 1)) /\ Leave(t)
  /\ UNCHANGED << done, page, dom, shown, status, resuming >>

-----------------------------------------------------------------------------
Browser(t) == RenderTour(t) \/ Arrive(t) \/ Resume(t) \/ Poll(t)

TourNext ==
  \E t \in Tabs :
    \/ Browser(t) \/ Locate(t) \/ Reload(t)
    \/ \E id \in Available : Start(t, id)
    \/ Next_(t) \/ Skip(t) \/ Back(t) \/ Exit(t) \/ Navigate(t) \/ Achieve(t)

\* Timers fire and the browser renders, navigates and mounts.  The member may
\* do nothing at all.
TourFairness ==
  \A t \in Tabs :
    /\ WF_tourVars(RenderTour(t)) /\ WF_tourVars(Resume(t)) /\ WF_tourVars(Poll(t))
    /\ WF_tourVars(Arrive(t))

TourSpec == TourInit /\ [][TourNext]_tourVars /\ TourFairness

-----------------------------------------------------------------------------
(* Properties *)

\* No step is passed over: every step before the one the engine is at was
\* completed or skipped, also when the poll and a click answer the same step
\* before it is rendered anew.
NoStepPassedOver ==
  \A t \in Tabs : 1..(active[t].step - 1) \subseteq left[t]

\* The tour was started again on its first step after the poll of that step had
\* fired and before its advance was rendered: the engine is back at the step,
\* whose latch has nothing left to open it.
Stalled(t) == latched[t] /\ shown[t].step = 1 /\ active[t] = shown[t]

\* A member who has done what a step waits for is not kept at it: the engine
\* moves on by itself, however many steps were met in advance, unless they
\* leave the page or have stalled the first step by starting its tour again.
MetStepsPass ==
  \A t \in Tabs, id \in Available, i \in 1..3 :
    ( shown[t] = [id |-> id, step |-> i] /\ Met(Step(t), page[t], dom[t]) )
      ~> ( \/ shown[t] # [id |-> id, step |-> i] \/ ~Met(Step(t), page[t], dom[t])
           \/ Stalled(t) )

\* What the engine is meant to do (walkthrough.tsx, on its latches: no later
\* step silently stalls).  It is false of the code: see Stalled.
NoStepStalls ==
  \A t \in Tabs, id \in Available, i \in 1..3 :
    ( shown[t] = [id |-> id, step |-> i] /\ Met(Step(t), page[t], dom[t]) )
      ~> ( shown[t] # [id |-> id, step |-> i] \/ ~Met(Step(t), page[t], dom[t]) )

\* The place survives the tab that reached it: what the engine of a tab is at
\* is stored, unless another tab stored something since; so with one tab a
\* reload, or a visit to the learner's pages, brings the member back to it.
\* (Stated for one tab.)
PlaceIsStored ==
  \A t \in Tabs :
    Tabs = {t} /\ active[t] # NoTour => stored = active[t]

=============================================================================
