----------------------------- MODULE Navigation -----------------------------
(***************************************************************************)
(* Finding one's way in the workspace.  One table of destinations, filtered *)
(* by permission, feeds the navigation bar, the cards, the palette, the     *)
(* breadcrumbs and the choice between workspace and Academy                 *)
(* (lib/navigation/, components/shell/, app/[orgSlug]/admin/layout.tsx);    *)
(* every page then decides by itself whether it opens (requirePermission).  *)
(* A layout is rendered when it is entered or loaded, not when a link is    *)
(* followed inside it: what the shell offers may be older than the member's *)
(* roles.  Paths are sequences of segments.                                 *)
(***************************************************************************)
EXTENDS Integers, Sequences, FiniteSets, SequencesExt

CONSTANTS
  Granted,      \* the permissions of each role
  Starts,       \* assignments there may be at the start: a role, for "org" or an "academy"
  Words,        \* names an organization may give to its terms
  Titles,       \* titles of courses and paths
  MaxGrantChanges    \* bound on changes of access

Roles == DOMAIN Granted
Scopes == {"org", "academy"}
ASSUME StartsAssumption == \A seats \in Starts : seats \subseteq Roles \X Scopes

ViewOnly == {"content.view_draft", "progress.view.own", "progress.view.others",
             "analytics.view", "audit.view"}

-----------------------------------------------------------------------------
(* Places *)

Home == << "admin" >>
Denied == << "admin", "denied" >>
Studio == << "admin", "studio" >>
Learn == << "learn" >>
Outside == << "select-org" >>
Under(tail) == Home \o tail
Within(path, place) == IsPrefix(place, path)

Entry(domain, section, page, needs) ==
  [domain |-> domain, section |-> section, page |-> page, needs |-> needs]
Draft == {"content.view_draft"}
KnowledgeItems ==
  << Entry("knowledge", "Authoring", Studio, Draft),
     Entry("knowledge", "Authoring", Studio \o << "sources" >>, {"sources.manage"}),
     Entry("knowledge", "Authoring", Studio \o << "ai" >>, Draft),
     Entry("knowledge", "Reusable material", Studio \o << "library" >>, Draft),
     Entry("knowledge", "Reusable material", Studio \o << "templates" >>, Draft),
     Entry("knowledge", "Publishing", Studio \o << "review" >>, Draft) >>
Verification == "Assessment and verification"
LearningItems ==
  << Entry("learning", "Curriculum", Under(<< "learning", "paths" >>), {"paths.manage"}),
     Entry("learning", "Curriculum", Under(<< "courses" >>), Draft),
     Entry("learning", Verification, Under(<< "assessments" >>),
           {"assessment.author", "assessment.publish"}),
     Entry("learning", Verification, Under(<< "reviews" >>), {"assessment.grade"}),
     Entry("learning", Verification, Under(<< "practicals" >>), {"assessment.grade"}),
     Entry("learning", "Participation", Under(<< "enrollments" >>), {"enrollment.manage"}),
     Entry("learning", "Participation", Learn, Draft),
     Entry("learning", "Proof", Under(<< "credentials" >>), {"certificates.manage"}) >>
PeopleItems ==
  << Entry("people", "Membership", Under(<< "members" >>), {"org.members.manage"}),
     Entry("people", "Access and authority", Under(<< "roles" >>), {"org.roles.manage"}) >>
IntelligenceItems ==
  << Entry("intelligence", "Signals", Under(<< "intelligence", "insights" >>), Draft),
     Entry("intelligence", "Activity", Under(<< "ops" >>), {"analytics.view"}) >>
WorkspaceItems ==
  << Entry("workspace", "Identity", Under(<< "settings" >>), {"org.manage"}),
     Entry("workspace", "Identity", Under(<< "branding" >>), {"org.branding.manage"}),
     Entry("workspace", "Identity", Under(<< "terminology" >>), {"org.terminology.manage"}),
     Entry("workspace", "Identity", Under(<< "organization" >>), {"org.manage"}),
     Entry("workspace", "Structure", Under(<< "academies" >>), {"academy.manage"}) >>
Destinations ==
  KnowledgeItems \o LearningItems \o PeopleItems \o IntelligenceItems \o WorkspaceItems

Domains == {"knowledge", "learning", "people", "intelligence", "workspace"}
landing(domain) == IF domain = "home" THEN Home ELSE Under(<< domain >>)

\* Pages that only a title leads to.
CoursePage == Under(<< "courses", "C" >>)
LessonPage == CoursePage \o << "lessons", "L" >>
PathPage == Studio \o << "paths", "P" >>
AssessmentPage == Under(<< "assessments", "A" >>)
Details == {CoursePage, LessonPage, PathPage, AssessmentPage}

NavPages == { e.page : e \in ToSet(Destinations) } \cup { landing(d) : d \in Domains }
           \cup Details \cup {Home, Denied}

\* buildDomains: the entries a set of permissions opens.
buildDomains(held) == { e \in ToSet(Destinations) : e.needs \cap held # {} }
DomainKeys(held) == {"home"} \cup { e.domain : e \in buildDomains(held) }
hasAdminSurface(held) == buildDomains(held) # {}

\* Mutant of landingPathFor: any permission is taken for a place in the workspace.
landingByAnyPermission(held) == IF held # {} THEN Home ELSE Learn

\* landingPathFor
landingPathFor(held) == IF hasAdminSurface(held) THEN Home ELSE Learn

\* domainForPath: the longest match decides.
Candidates(held, path) ==
  { c \in { << d, landing(d) >> : d \in DomainKeys(held) }
            \cup { << e.domain, e.page >> : e \in buildDomains(held) } : IsPrefix(c[2], path) }
domainForPath(held, path) ==
  (CHOOSE c \in Candidates(held, path) :
     \A other \in Candidates(held, path) : Len(other[2]) <= Len(c[2]))[1]

\* Permissions about which the table of destinations and the pages agree: who makes
\* assessments or keeps sources sees drafts.  The roles that the platform gives to
\* every organization are like that (20260729001411:52-83); one of its own need not be.
Coherent(held) ==
  held \cap {"assessment.author", "assessment.publish", "sources.manage"} # {} => Draft \subseteq held

-----------------------------------------------------------------------------
(* What each page asks for.                                                 *)

PageNeeds(path) ==
  CASE path = Studio \o << "sources" >> -> {"sources.manage"}
    [] Within(path, Studio) /\ path \notin {Studio, Studio \o << "sources" >>} -> Draft
    [] Within(path, Under(<< "courses" >>)) \/ Within(path, Under(<< "assessments" >>))
         \/ path = Under(<< "intelligence", "insights" >>) -> Draft
    [] path \in {Under(<< "reviews" >>), Under(<< "practicals" >>)} -> {"assessment.grade"}
    [] path = Under(<< "learning", "paths" >>) -> {"paths.manage"}
    [] path = Under(<< "enrollments" >>) -> {"enrollment.manage"}
    [] path = Under(<< "credentials" >>) -> {"certificates.manage"}
    [] path = Under(<< "members" >>) -> {"org.members.manage"}
    [] path = Under(<< "roles" >>) -> {"org.roles.manage"}
    [] path = Under(<< "ops" >>) -> {"analytics.view"}
    [] path = Under(<< "settings" >>) -> {"org.manage"}
    [] path = Under(<< "branding" >>) -> {"org.branding.manage"}
    [] path = Under(<< "terminology" >>) -> {"org.terminology.manage"}
    [] OTHER -> {}  \* Home, organization, academies, denied, the landings, studio

\* The redirects of a request from a page; none when the page is rendered.  The
\* layouts and the page are rendered together: any of their redirects may win.
LayoutRuns(place, path, from, full) ==
  Within(path, place) /\ (full \/ ~Within(from, place))
DeniedGuarded(path, held) ==
  IF path = Denied \/ ~(PageNeeds(path) \subseteq held) THEN {Denied} ELSE {}
requirePermission(path, held) == IF PageNeeds(path) \subseteq held THEN {} ELSE {Denied}
DomainLanding(path, held) ==
  IF \E d \in Domains : path = landing(d) /\ d \notin DomainKeys(held) THEN {Home} ELSE {}
Redirects(path, from, full, held) ==
  (IF LayoutRuns(Home, path, from, full) /\ ~hasAdminSurface(held) THEN {Learn} ELSE {})
  \cup (IF LayoutRuns(Studio, path, from, full) /\ ~(Draft \subseteq held) THEN {Denied} ELSE {})
  \cup requirePermission(path, held)
  \cup DomainLanding(path, held)

-----------------------------------------------------------------------------
(* What is offered: by the shell from the permissions it was rendered with, *)
(* by Home from its own.                                                    *)

Shell(held) == { e.page : e \in buildDomains(held) } \cup { landing(d) : d \in DomainKeys(held) }

When(permission, held, pages) == IF permission \in held THEN pages ELSE {}
Creation(held) ==
  When("content.view_draft", held, {Under(<< "courses" >>), Studio})
  \cup When("paths.manage", held, {Under(<< "learning", "paths" >>)})
  \cup When("assessment.author", held, {Under(<< "assessments" >>)})
  \cup When("org.members.manage", held, {Under(<< "members" >>)})
Knowledge(held) == When("content.view_draft", held, Details)

createActions(held) ==
  Creation(held)
  \cup When("sources.manage", held, {Studio \o << "sources" >>})
  \cup When("content.view_draft", held, {Studio \o << "ai" >>, Learn})
  \cup When("org.branding.manage", held, {Under(<< "branding" >>)})

-----------------------------------------------------------------------------
(* Breadcrumbs.  A label is a sequence of words; a crumb without a link has *)
(* the empty path.                                                          *)

Terms == { << "learning", "paths" >>, << "courses" >>, << "assessments" >>, << "enrollments" >>,
           << "credentials" >>, << "academies" >> }
\* The organization calls term t by a word of its own.
LabelOf(page, t, word) ==
  CASE page = Under(t) -> << word >>
    [] page = Under(<< "reviews" >>) /\ t = << "assessments" >> -> << word, "reviews" >>
    [] OTHER -> Tail(page)
Crumb(label, link) == [label |-> label, link |-> link]

\* The leaves that the page supplies.
Trail(path, title) ==
  CASE path = CoursePage -> << Crumb(<< "Builder" >>, << >>) >>
    [] path = LessonPage -> << Crumb(<< title >>, CoursePage), Crumb(<< "A lesson" >>, << >>) >>
    [] path = PathPage -> << Crumb(<< title >>, << >>), Crumb(<< "Canvas" >>, << >>) >>
    [] path = AssessmentPage -> << Crumb(<< "Editor" >>, << >>) >>
    [] OTHER -> << >>

locate(held, path) ==
  LET inside == { e \in buildDomains(held) :
                    e.domain = domainForPath(held, path) /\ IsPrefix(e.page, path) }
  IN { e \in inside : \A other \in inside : Len(other.page) <= Len(e.page) }

\* All the crumbs of a place, before neighbours are compared.
crumbsOf(held, path, title, t, word) ==
  LET domain == domainForPath(held, path)
      trail == Trail(path, title)
      link(page) == IF path = page /\ trail = << >> THEN << >> ELSE page
      spine == { << Crumb(<< e.section >>, << >>), Crumb(LabelOf(e.page, t, word), link(e.page)) >> :
                   e \in locate(held, path) }
  IN << Crumb(<< domain >>, link(landing(domain))) >>
       \o (IF spine = {} THEN << >> ELSE CHOOSE s \in spine : TRUE) \o trail

\* Of neighbours with one label the later stays; what is shown keeps its place,
\* and the last is never a link.
KeptCrumbs(crumbs) ==
  { i \in DOMAIN crumbs : i = Len(crumbs) \/ crumbs[i].label # crumbs[i + 1].label }
buildBreadcrumbs(held, path, title, t, word) ==
  LET crumbs == crumbsOf(held, path, title, t, word)
  IN [i \in KeptCrumbs(crumbs) |-> IF i = Len(crumbs) THEN Crumb(crumbs[i].label, << >>) ELSE crumbs[i]]

-----------------------------------------------------------------------------
VARIABLES
  seats,     \* the member's assignments
  disabled,  \* roles that are not active
  orgStatus,    \* the organization's status
  at,        \* the page that is shown, the way that led there, whether it is what was
             \* asked for, and whether offer and page agreed about the member's
             \* permissions when it was rendered; and those Home was rendered with
  shell,     \* the permissions that the workspace's layout was rendered with: none or one
  fresh,     \* access is as it was when "shell" and "page" were rendered
  req,       \* the request on its way
  grantChanges

navVars == << seats, disabled, orgStatus, at, shell, fresh, req, grantChanges >>
access == << seats, disabled, orgStatus >>

Ways == {"none", "link", "create", "knowledge", "action", "arrive", "load"}
NoRequest == [to |-> << >>, asked |-> << >>, by |-> "none", full |-> FALSE, same |-> FALSE]

NavTypeOK ==
  /\ seats \subseteq Roles \X Scopes /\ disabled \subseteq Roles
  /\ orgStatus \in {"active", "suspended"}
  /\ at.path \in NavPages \cup {Learn, Outside} /\ at.by \in Ways
  /\ Len(shell) <= 1 /\ DOMAIN fresh = {"shell", "page"}
  /\ req.by \in Ways /\ req.to \in NavPages \cup {Learn, << >>}
  /\ grantChanges \in 0..MaxGrantChanges

Org == { r \in Roles : << r, "org" >> \in seats /\ r \notin disabled }
Effective == UNION { Granted[r] : r \in Org }
orgPermissions == IF orgStatus = "active" THEN Effective ELSE Effective \cap ViewOnly

\* What is offered and what decides agree about the member as they now are: the
\* table and the pages; and, of who arrives, the place that their permissions give
\* and the one that the organization's status leaves them.
Agreed(by) ==
  IF by = "arrive" THEN hasAdminSurface(Effective) => hasAdminSurface(orgPermissions)
  ELSE Coherent(orgPermissions)

NavInit ==
  /\ seats \in Starts /\ disabled = {} /\ orgStatus = "active"
  /\ at = [path |-> Outside, by |-> "none", asTold |-> TRUE, agreed |-> TRUE, held |-> {}]
  /\ shell = << >> /\ fresh = [shell |-> FALSE, page |-> FALSE]
  /\ req = NoRequest /\ grantChanges = 0

\* The member's access changes: everything rendered is older than it.
ChangeGrants ==
  /\ grantChanges < MaxGrantChanges
  /\ grantChanges' = grantChanges + 1
  /\ \/ \E seat \in Roles \X Scopes :
          /\ seats' = IF seat \in seats THEN seats \ {seat} ELSE seats \cup {seat}
          /\ UNCHANGED << disabled, orgStatus >>
     \/ \E r \in Roles :
          /\ disabled' = IF r \in disabled THEN disabled \ {r} ELSE disabled \cup {r}
          /\ UNCHANGED << seats, orgStatus >>
     \/ /\ orgStatus' = IF orgStatus = "active" THEN "suspended" ELSE "active"
        /\ UNCHANGED << seats, disabled >>
  /\ fresh' = [shell |-> FALSE, page |-> FALSE]
  /\ req' = [req EXCEPT !.same = FALSE]
  /\ UNCHANGED << at, shell >>

Request(path, by, full, same) ==
  /\ req.by = "none"
  /\ req' = [to |-> path, asked |-> path, by |-> by, full |-> full, same |-> same]
  /\ UNCHANGED << access, at, shell, fresh, grantChanges >>

\* Signing in leads here; from /select-org one goes where one belongs.
destinationFor == landingPathFor(Effective)
SelectOrg == at.path = Outside /\ Request(destinationFor, "arrive", FALSE, TRUE)
LeaveToSelect ==
  /\ req.by = "none" /\ at.path # Outside
  /\ at' = [path |-> Outside, by |-> "none", asTold |-> TRUE, agreed |-> TRUE, held |-> {}]
  /\ shell' = << >> /\ fresh' = [shell |-> FALSE, page |-> FALSE]
  /\ UNCHANGED << access, req, grantChanges >>

OfferedLinks(by, held) ==
  CASE by = "link" -> Shell(held) [] by = "create" -> Creation(held)
    [] by = "knowledge" -> Knowledge(held)
FollowLink(by) ==
  /\ shell # << >>
  /\ \E path \in OfferedLinks(by, shell[1]) : Request(path, by, FALSE, fresh.shell)
FollowAction ==
  /\ at.path = Home
  /\ \E path \in createActions(at.held) : Request(path, "action", FALSE, fresh.page)
LoadPage == \E path \in NavPages \cup {Learn} : Request(path, "load", TRUE, TRUE)

\* One answer of the server: a redirect, or the page with the layouts it enters.
Redirected ==
  /\ req.by # "none"
  /\ \E path \in Redirects(req.to, at.path, req.full, orgPermissions) :
       req' = [req EXCEPT !.to = path]
  /\ UNCHANGED << access, at, shell, fresh, grantChanges >>

Rendered ==
  LET runs == LayoutRuns(Home, req.to, at.path, req.full)
  IN /\ req.by # "none"
     /\ Redirects(req.to, at.path, req.full, orgPermissions) = {}
     /\ at' = [path |-> req.to, by |-> req.by, asTold |-> req.same => req.to = req.asked,
               agreed |-> Agreed(req.by), held |-> IF req.to = Home THEN orgPermissions ELSE {}]
     /\ shell' = IF ~Within(req.to, Home) THEN << >>
                 ELSE IF runs THEN << orgPermissions >> ELSE shell
     /\ fresh' = [shell |-> Within(req.to, Home) /\ (runs \/ fresh.shell), page |-> TRUE]
     /\ req' = NoRequest
     /\ UNCHANGED << access, grantChanges >>

NavNext ==
  \/ ChangeGrants \/ SelectOrg \/ LeaveToSelect
  \/ \E by \in {"link", "create", "knowledge"} : FollowLink(by)
  \/ FollowAction \/ LoadPage \/ Redirected \/ Rendered

\* The server answers.
NavFairness == WF_navVars(Redirected \/ Rendered)
NavSpec == NavInit /\ [][NavNext]_navVars /\ NavFairness

-----------------------------------------------------------------------------
(* Properties *)

\* What is offered opens: as long as no access has changed since it was
\* rendered, a link of the shell, of the palette or of Home leads to the page
\* it names, and never to a refusal or to another page; unless the member makes
\* assessments or keeps sources without seeing drafts, for whom the table offers
\* two pages that refuse them (Coherent).
LinksOpen ==
  at.by \in {"link", "create", "knowledge", "action"} /\ at.agreed => at.asTold

\* Where select-org sends a member is where the workspace would have them:
\* nobody is sent to the workspace to be bounced to the Academy, but those whom a
\* suspension leaves without any place of the workspace.
LandingAgrees == at.by = "arrive" /\ at.agreed => at.asTold

\* No redirect sends a request round in circles: every request ends on a page.
Settles == req.by # "none" ~> req.by = "none"

\* Wherever one is, whatever the words the organization uses and the titles of
\* its content: the trail starts at a domain, repeats no label, ends in the
\* current place, and leads back to the domain and to the destination above,
\* unless the page calls itself by that very name or the shell is older than the
\* access to the page.  (While a request is on its way the page is still the one
\* before.)
CrumbsOrient ==
  shell # << >> /\ req.by = "none" =>
    \A title \in Titles, t \in Terms, word \in Words :
      LET crumbs == buildBreadcrumbs(shell[1], at.path, title, t, word)
          shown == DOMAIN crumbs
          domain == domainForPath(shell[1], at.path)
          above == locate(shell[1], at.path)
          links == { crumbs[i].link : i \in shown }
          own(label) == Trail(at.path, title) # << >> /\ Trail(at.path, title)[1].label = label
      IN /\ \E first \in shown : /\ \A i \in shown : first <= i
                                 /\ crumbs[first].label = << domain >>
         /\ \E last \in shown : (\A i \in shown : i <= last) /\ crumbs[last].link = << >>
         /\ \A i, j \in shown : i < j /\ (\A k \in shown : k <= i \/ j <= k)
                                => crumbs[i].label # crumbs[j].label
         /\ (\E i, j \in shown : i < j) =>
              landing(domain) \in links \/ (above = {} /\ own(<< domain >>))
         /\ fresh.shell => \A e \in above :
              \/ at.path = e.page \/ e.page \in links
              \/ own(LabelOf(e.page, t, word))

\* What is offered opens, a member arrives where they were told they belong,
\* and a trail orients.
WayAround == LinksOpen /\ LandingAgrees /\ CrumbsOrient

=============================================================================
