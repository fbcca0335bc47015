# Formal model of NovaKore

NovaKore is a multi-tenant learning platform. A Next.js application
(`src/apps/web`) calls remote procedures written in PL/pgSQL
(`src/supabase/migrations`, 67 files), and two edge functions
(`src/supabase/functions`) deliver webhooks and accept learners from a partner.
The database is the authority: every rule of the product that matters is enforced
in a procedure, a trigger or an index, and everything concurrent meets there. The
modules in this directory model those procedures, at the version that the last
migration defining each of them leaves in force, and the parts of the application
that do more than call one: the editors, the pages of a learner, the read cache, the
generation of drafts, the worker, the guided tours, the launch checklist, navigation
and the reports.

All paths below are relative to the repository; migrations are named by their
timestamp.

## 1. The system

### Components

| Component | State it keeps | Operations | What is hard |
|---|---|---|---|
| Curriculum publication and paths | `courses`, `course_versions`, `learning_paths`, `path_nodes`, `prerequisites`, drafts | `publish_lesson`, `publish_course`, archive, activate, add/remove node, add/remove prerequisite, reorder | versions are immutable while drafts change; a trigger checks for cycles without a lock; deletions cascade |
| Enrollment, progress and completion | `enrollments`, `progress_records` | `create_enrollment`, `set_enrollment_status`, `record_lesson_progress`, `override_progress`, `evaluate_course_completion` | four writers of the same rows, each with its own gates; version pinning; the completion cascade; re-enrollment |
| Practical evaluations | `practical_evaluations` | `record_practical_evaluation` | a second person completes the learner's lesson |
| Assessment attempts and reviews | `assessment_assignments`, `assessment_attempts`, `assessment_responses`, `assessment_reviews` | start, save, submit, claim, complete review | expiry, limits and cooldowns, a late review, an outcome that completes lessons |
| Credentials | `certificates`, `issued_credentials` | issue (cascade, assessment, manual), revoke, verify | issue, revoke, issue again; several sources of one certificate |
| Outbox and webhook delivery | `outbox_events`, `webhook_endpoints`, `webhook_deliveries` | `emit_event`, claim, settle, retry; the worker | crash between claim and settle, concurrent settlement, events about deliveries |
| AI budget ledger | `ai_generations`, `ai_budgets` | reserve, settle, accept, reject; applying an output to drafts | check against a limit, an advisory lock, cost above its reservation, output applied by many inserts |
| Drafts and their publication | `content_blocks`, `assessment_items`, `organization_branding.theme_draft`, an editor's working copy | save, publish, revert, append | a save is several transactions; two tabs; validation and publication are separate calls |
| Read cache | per process: entries, loads under way | read through, invalidate by organization | shared loads, loads that outlive an invalidation, eviction, several instances |
| Learner pages | what a tab shows, what its reads returned | open a lesson, record the start, mark complete | every read is its own query, and the write comes last |
| Path graph validation | none | cycles, unreachable nodes, the preview of a new edge | three algorithms for one question, memoised depth-first searches |
| Review requests | `review_requests`, `review_decisions` | request, decide, reopen | separation of author and reviewer |
| Memberships, roles and invitations | `organization_memberships`, `organization_member_roles`, `organization_role_permissions` | invite, accept, suspend, assign and revoke roles, switch permissions, last-owner guard | a request reads its context before its transaction; the guard counts without a lock |
| Curriculum order | positions of modules, lessons and path courses | add, swap, remove | an action is several statements; text positions that grow; two editors |
| Guided tours | the place in the browser's storage, the engine of each tab | start, next, skip, back, poll, resume | handlers compute from what was rendered, timers from what is; several tabs |
| Launch checklist | `organization_onboarding`, visit events, session storage | work, visits, hide, restore, celebrate | everything is derived by a dozen reads; calls are late or lost |
| Navigation | what the shell and the page were rendered with | follow, load, redirect | layouts are older than the access of the member |
| Insights and overview | the cached report | observe, cache | several statements are joined, some of which fail |
| Built For Her integration | `external_identities`, `bfh_handoff_nonces`, `bfh_api_idempotency` | exchange handoff, enroll or assign, revoke identity | idempotency keys, retries under a rate limit, mappings that move while a call runs |
| Rate limits | `rate_limits` | `consume_rate_limit`, purge | window boundaries, row locks |
| Tenant lifecycle | `organizations`, requests for export and erasure | create, suspend, export, erase, delete | long procedures over every table |
| Row level security and permissions | none | `has_permission`, policies | stateless predicates |
| Domain mirrors, other pages, analytics, content, seeds | none of their own | pure functions, reads, rendering, generated data | no protocol |

### Interaction

The learner's browser and the staff's pages call server actions, which read in
several queries and then call procedures; a procedure is one transaction, a server
action is not. What a page shows, what an action judged by and what the procedure
finds may be three different states. `record_lesson_progress`, `override_progress`,
`record_practical_evaluation` and the outcome of an assessment all write lesson
progress and all end in `evaluate_course_completion`, which may complete the
course, then the enrollment, and then issues credentials. Every one of them calls
`emit_event`, which appends to `analytics_events` and `outbox_events` under an
idempotency key. The webhook worker claims outbox events, posts them and settles
each delivery; settlement emits events itself. Publication and path editing change
what the next step of every learner reads: the current version of a course, the
nodes of a path and its prerequisites. The editors replace the draft rows that
publication freezes, accepted outputs of the generator and templates are appended to
the same rows, and every page about an organization may be answered from the cache
of the process that serves it. A partner's server creates enrollments next to the
staff, in the same tables and under the same unique indexes.

The state each procedure relies on is protected in three ways: the enrollment's
row lock (`select ... for update` at the top of each writer of progress),
unique indexes (one live enrollment per member and target, one unrevoked
credential per member and certificate, one passed evaluation per enrollment and
requirement, one event per idempotency key), and triggers (immutability of
versions, cycles of prerequisites). The catalog rows a procedure reads are not
locked.

### What makes each component correct

* Catalog: published versions never change; prerequisites join nodes of their
  path, and only inserts that overlap can close a cycle of them.
* Progress: evidence names the version the learner was given, a course is
  completed exactly when its pinned version's rule is met, sequences and gates
  hold for whoever writes the lesson, evidence is permanent, and the enrollment
  completes in the step that completes its target.
* Credentials: each one was earned by the enrollment it cites, and no member
  holds two of one certificate.
* Events: what is announced is what the tables hold.
* Outbox: no delivery is in two hands, nothing counts as delivered that was not
  received, every delivery becomes terminal, every event whose deliveries are
  terminal is marked, and none is lost in a crash.
* Attempts: one open attempt at a time, within the limit; an outcome that is the one
  of the answers stored; no answer of an attempt overwritten by an older one.
* Drafts: a version is non-empty, valid and what its author sent.
* Learner pages: what a page calls complete is complete, what it locks the database
  refuses, and a learner who follows it is never stuck.
* Cache: nobody is shown another's rows, nor rows older than the time to live.
* Ledger: reservations are admitted one at a time and within the limit; what is
  accepted was applied, where its operation inserts anything.
* Path graph: the report is exact and hides no lock, and the checks of a new edge agree.
* Integration: one idempotency key, one outcome; a revoked member stays out; every
  request is answered.
* Memberships: an organization keeps an active owner, and nobody gives a role without
  the permission for it.
* Curriculum order: what an edit reports has happened, and what is added comes last.
* Onboarding: a tour skips no step and keeps its place; a celebration was earned and is
  shown once; who takes the step shown as the next launches.
* Navigation: what is offered opens, redirects end, trails lead back.
* Insights: a page says what is so, and no more than its reader may know.
* Reviews: nobody approves their own request. (Not modelled.)

## 2. Modules

| Module | Models | Extends |
|---|---|---|
| `LearningCatalog` | publication, archiving, path nodes, prerequisites and their trigger | |
| `LearningProgress` | enrollments, lesson and course progress, practicals, attempts, credentials, events | `LearningCatalog` |
| `LearnerAccess` | what the domain package shows a learner as open or locked | `LearningProgress` |
| `LearnerSession` | the lesson page and its two actions, query by query | `LearningProgress` |
| `AttemptLife` | what an attempt is to the learner's progress (abstract) | |
| `AssessmentAttempt` | the attempt page, its requests, submission, expiry, review | instantiates `AttemptLife` |
| `DraftEditor` | the three editors of drafts, their saves and publications, appends | |
| `RequestCache` | the read cache of the processes that serve pages | |
| `AiGeneration` | the ledger of generations and the application of their outputs | |
| `PathGraph` | `validatePathGraph` step by step, and the other two cycle checks | |
| `PartnerAccess` | handoffs, the partner's API under its rate limit, the staff next to it | |
| `AtLeastOnce` | what the outbox promises of each event and endpoint (abstract) | |
| `WebhookDelivery` | outbox, fan-out, claims, delivery, settlement, manual retry, crashes | instantiates `AtLeastOnce` |
| `Memberships` | invitations, statuses, roles and permissions, the context of a request | |
| `CurriculumOrder` | the lists of a course, a module and a path under two editors | |
| `Walkthrough` | the engine and the registry of the guided tours | |
| `LaunchChecklist` | the derived checklist, its markers and its lifecycle row | |
| `Onboarding` | tours and checklist side by side | `Walkthrough`, `LaunchChecklist` |
| `Navigation` | destinations, gates, redirects, what the shell offers, trails | |
| `Insights` | what the Insights page and the Overview derive from several statements | |
| `MC...` | small instances for TLC | the modules of their run (section 3) |
| `...Proofs` | theorems and proofs (section 4) | |

Proofs about a component are in the module of its name. `LearningProgressProofs` has
those of the catalog, progress, `LearnerAccess` and the sessions, `PartnerAccessProofs`
also those of `Memberships`, and `WorkspaceProofs` those of `PathGraph`,
`CurriculumOrder`, `Walkthrough`, `LaunchChecklist`, `Onboarding`, `Navigation` and
`Insights`.

### LearningCatalog

| Variable | Code |
|---|---|
| `published` | `course_versions` of each course in `version_number` order; each snapshot is the course, its lessons in pinned order, the required ones, and the percentage of the completion rule (`all_required_lessons` is 100) |
| `open` | courses that are not archived, paths with status `active` |
| `nodes`, `prereq` | `path_nodes` and `prerequisites` |
| `inFlight` | prerequisite inserts that the trigger has passed and that are not yet committed, each with the edges its check saw (history) |

`publish_course` (20260728203330:131-229) takes a row lock and is the one action
`PublishCourse`. Drafts appear as `Structures`, the snapshots an author may freeze:
`publish_course` requires at least one published lesson, and lessons pinned by two
modules of one version do not exist, which is what `IsStructure` says.

Inserting a prerequisite is two actions. The trigger
`prevent_prerequisite_cycles` (20260728203155:153) runs inside the insert and sees
the edges that are committed at that moment, without a lock on the path:
`CheckPrerequisite`. The edge becomes visible at the commit:
`CommitPrerequisite` (or `AbortPrerequisite`). `Reaches` is the recursive CTE of
the trigger, stated as membership in every set closed under the edges, which
needs no recursion. Two authors insert at once in every instance with a path, and
`PrerequisitesAcyclic`, what the trigger is documented to keep, is a run of its own that
finds it broken (section 3); `CyclesOnlyRaced` says that nothing else breaks it. Removing a node deletes its edges (foreign keys with
`on delete cascade`) and waits for uncommitted inserts on that node, which hold a
key-share lock on it.

### LearningProgress

| Variable | Code |
|---|---|
| `status`, `pin` | `enrollments.status`, `.pinned_course_version_id` |
| `courseRow`, `lessonRow` | the course-level and lesson-level `progress_records` of each enrollment |
| `attempt` | the latest attempt of an enrollment at an assignment: none, open, passed, unpassed |
| `evaluations` | `practical_evaluations` (`failed` and `remediation_required` are both "unpassed": nothing tells them apart) |
| `credentials` | unrevoked `issued_credentials` |
| `events` | idempotency keys present in `analytics_events` |
| `counted` | how many attempts of each enrollment count against the maximum, where there is one (`MaxAttempts`) |
| `activeMembers`, `openAssignments`, `over` | active memberships, active `assessment_assignments`, assignments whose `available_until` has passed |

| Action | Procedure |
|---|---|
| `CreateEnrollment`, `SetEnrollmentStatus` | `create_enrollment`, `set_enrollment_status` (20260728203330) |
| `StartLesson`, `CompleteLesson` | `record_lesson_progress` (20260824042809:177-404) |
| `OverrideProgress` | `override_progress` (20260728203330:626-731) |
| `StartAttempt`, `PassAttempt`, `EndAttemptUnpassed` | `start_assessment_attempt` (20260728230951), submission and review with `apply_assessment_outcome` (20260728225909:478-584) |
| `RecordPractical` | `record_practical_evaluation` (20260824042809) |
| `SetAssignmentStatus`, `SetMembershipStatus` | `set_assessment_assignment_status`, `set_membership_status` |
| `WindowEnds` | time: `available_until` of an assignment that has one (`Windowed`) |
| `IssueCredential`, `RevokeCredential` | `issue_credential`, `revoke_credential` (20260728225909) |
| `Authoring` | every action of the catalog |

`EvaluateCourse` is `evaluate_course_completion` (20260728225909:1341-1451) together
with the writes its caller made before the call; the four writers of lesson progress
hand it their rows. `ResolvedVersion` is the pin chain (course row, enrollment pin,
current version).

What the model assumes:

* Each procedure is one action. The writers of progress lock the enrollment row
  first, so two of them on one enrollment are serial; two enrollments share only
  `credentials` and `events`, whose unique indexes decide. Catalog rows are read
  without a lock within a procedure: an edit that commits between two reads of one
  procedure is not distinguished from one that commits before or after it.
* The actor of an action holds the permission the procedure asks for.
* A cooldown and `available_from` only postpone a start, and are left out. A maximum of
  attempts and `available_until` refuse for good (20260728230951:32-35, 74-76) and are
  in the model: `AttemptLeft`, `over`. An attempt that is abandoned, which does not
  count, is written by no operation. Submissions, drafts of answers and review claims are inside the step that ends
  the attempt; `AssessmentAttempt` has them, for one learner and one assignment.
* The practical requirements of lessons, the assignments' flags and the
  certificates are fixed; a certificate is active throughout.
* Events whose key carries a timestamp (withdrawal, overrides) are left out: they are
  never deduplicated.

### WebhookDelivery

| Variable | Code |
|---|---|
| `outbox` | `outbox_events.status` ("none" before `emit_event`) |
| `delivery`, `attempts` | `webhook_deliveries.status` ("none" before the fan-out) and `.attempt_count` |
| `cooling` | failed deliveries whose `next_attempt_at` is still ahead |
| `active` | endpoints with status `active` |
| `batch`, `job` | what an invocation of the worker claimed and has not begun, and the delivery it is at, with the outcome it will settle |
| `received` | requests that reached their endpoint |
| `announced` | idempotency keys `webhook-delivered:`/`webhook-dead:` that were used |
| `retries`, `crashes`, `toggles` | counters for the bounds of the instance |

| Action | Code |
|---|---|
| `Claim` | `claim_webhook_deliveries` (20260729001411:867-910): fan-out, events without subscribers, claim |
| `RefuseInactive`, `PostAccepted`, `PostRejected`, `PostFailed` | `processDelivery` of the worker (`src/supabase/functions/webhook-worker/index.ts:108-218`) up to its settlement call |
| `SettleDecides`, `SettleQuietly`, `SettleAnnouncing` | `settle_webhook_delivery` (20260729001411:913-979) |
| `SettlementLost`, `Crash` | a settlement call whose error nobody looks at; an invocation that ends early |
| `RetryDelivery` | `retry_webhook_delivery` (20260729001411:983-1008) |
| `Emit`, `ToggleEndpoint`, `BackoffElapses` | `emit_event` by some procedure; pausing or resuming an endpoint; time |

`claim_webhook_deliveries` serializes with itself on the rows it inserts and
claims, and is one action; `order by created_at limit` becomes any choice of as many
due rows. Settlement is two actions: under READ COMMITTED its last statement sees
only what is committed when that statement begins, and it locks nothing that
another settlement of the same event would wait for before it looks.
A payload that cannot be read is posted as `{}` and settles as delivered
(`index.ts:147`): what a request holds is not in the model, which speaks of whether
one was received.
`AfterFailure` is the worker's budget. The reasons for a permanent failure (4xx, a
blocked destination) are one action; the contents of requests and responses, the
signature and the length of the backoff are left out. Reading the endpoint's status
and posting are one step.

Settlement emits an event of its own. The ids in `Echoes` stand for these events and
are used again once their event is settled with all its deliveries; an id used again
drops the rows it had. Where nobody subscribes to such events they are never fanned
out and `Echoes = {}` leaves nothing out but their trip to `processed`.

`AtLeastOnce` has two variables, what is owed and what was received. Under the
mapping `Debt` a delivery is owed from its fan-out until it is delivered, or
abandoned as a dead letter, from which only a manual retry brings it back.

### LearnerAccess

Operators and properties only. `LessonAccess` and `AccessTo` are
`computeLessonAccess` of the domain package (`src/packages/domain/src/learning.ts`),
`PathAccess` is `computePathAccess`, `AssessmentGated` and `PracticalGated` are the
gates the lesson page adds. They are functions of the state of `LearningProgress` and
are compared with what its actions accept, in the same runs. `WayForward` excepts who is stuck
because of a required assessment that is shut for good (`ShutOut`): its attempts are used up
or its window is over. Then only its archiving or an override leads on, and the pages say so.
The domain package is asked
about the version of the learner's rows; a lesson of another version has no row to
show, so `DisplayMatchesGate` is about lessons of that version.

### LearnerSession

| Variable | Code |
|---|---|
| `page` | the lesson page of each tab: which lesson, of which version, completed, gated, whether its start was recorded |
| `request` | the request a tab waits for and what its reads returned so far |
| `opens` | page loads left, a bound |

A page load and `recordProgressAction` begin with the same reads, `getEnrolledCourse`
(`src/apps/web/src/lib/data/learning.ts:161-242`), and each of them is an action:
`ReadEnrollment`, `ReadCoverage`, `ReadProgress`, `ReadVersion`. The page then reads
its gates (`ReadGates`); the action calls `record_lesson_progress` (`Write`), which
judges again. Between any two of them `Meanwhile` lets anybody take any step of
`LearningProgress`. `StartEffect` is the effect that records a start when the page is
mounted, `MarkComplete` the button, `Lose` an answer that never arrives.

* A learner has a row in `can_access_course` for a completed enrollment too, so its
  lessons are shown as available although the procedure refuses them; and the nodes of
  a path that is no longer active are hidden by its policy, so the page answers
  "Enrollment not found". Both are in the model and harmless.
* A course target has its version by the enrollment's pin. In a path the version
  may be chosen between the read and the call, so `LearnersKeepOrder` is about
  courses. Neither the page of a course nor the URL of a lesson looks at the path's
  prerequisites; the procedure does.
* `SequencedCourses = {}` in its instance, so that the order a learner is held to
  is the action's check alone.

### AssessmentAttempt

| Variable | Code |
|---|---|
| `attempts` | `assessment_attempts` with their responses, the review and its scores, by attempt number |
| `access` | the gates that are open: membership, enrollment, assignment, its window and cooldown |
| `page` | what each tab shows: an attempt with its answers, or the overview |
| `queue` | requests of each tab that are not answered yet; an "orphan" is a save whose component is gone |
| `writer` | which tab wrote each stored answer (history, for `OwnAnswersKept`) |
| `toggles` | a bound |

| Action | Code |
|---|---|
| `Load`, `ClickStart`, `Answer`, `ClickSubmit` | the page (`attempt-flow.tsx`) |
| `StartAttempt`, `SaveResponse`, `SubmitAttempt` | the actions of `src/apps/web/src/lib/actions/assessments.ts` and the procedures they call |
| `Refuse`, `Refresh` | an answer that is an error; `router.refresh` after the others |
| `TimePasses` | the deadline with its half minute of grace |
| `ClaimReview`, `CompleteReview` | `claim_assessment_review`, `complete_assessment_review` |
| `ToggleAccess` | suspension, withdrawal, deactivation, the window |

The requests of a tab are served one after the other, as the framework does with the
server actions of a page; those of two tabs interleave. A full load drops what was not
sent; the save that is under way arrives nevertheless, after a page that shows what
was stored before it (`Orphaned`). When the attempt or the access changes under a page
its component is unmounted, and one that is mounted anew begins with what is stored
(`Kept`). An answer is a set of options or one text; scores are in hundredths and rounded
as the columns round them. `Grade`, `Submitted` and `Reviewed` are the procedures'
loops, `Outcome` is `computeAttemptOutcome` of the domain package, and
`OutcomeMatchesDomain` compares the two.

The documents and `REVIEW_TRANSITIONS` (`manual-review.md:9-10`) let a claim be
released; no operation does. A claim can be taken over, and completing a review asks
for none. A score given to a required item without a response is stored nowhere.

`AttemptLife` is the three-valued `attempt` of `LearningProgress` with a count: an
attempt is taken while none is open and none has passed, at most `Limit` times, and
concluded. It is implemented under the mapping `Result`.

### DraftEditor

| Variable | Code |
|---|---|
| `kind` | a lesson, an assessment or a brand: three editors with one shape and three ways to save |
| `stored` | the rows of the draft |
| `versions` | what was published, with what its author sent |
| `editor` | the working copy of each tab, its mark of unsaved edits, how its last call ended |
| `call` | the server action under way and its next step |
| `append` | calls that append blocks (templates, library, accepted outputs) |
| `edits` | a bound on edits and crashes |

Saving a lesson deletes its rows and inserts the new ones (`ClearLesson`,
`WriteLesson`: `src/apps/web/src/lib/actions/learning.ts:389-450`); saving an
assessment deletes what is gone and upserts the items one by one in order
(`ClearAssessment`, `WriteAssessment`); saving a brand is one update (`WriteBrand`).
Publishing saves first, then reads and validates (`Check`), then calls the procedure
that freezes what it finds (`Freeze`), for a brand what was validated. Each is its own
transaction. `Crash` ends a call anywhere. A position is its length: the editors
append an `n` to the last one, and the column holds `LastPosition` of them at most;
beyond it the insert fails after the delete.

`learning-content-model.md:98-100` says the studio publishes dirty lessons in "one
action, atomic transaction"; it is the three calls above. The number in "Version N is
live" can be another tab's. The metadata of an assessment, which is written before its
items and stays when they fail, is left out.

### RequestCache

| Variable | Code |
|---|---|
| `store`, `inflight` | the two maps of `src/apps/web/src/lib/cache.ts`, per process |
| `stamps`, `now` | when each change of an organization was committed; time |
| `pending`, `cleared` | writes that are committed and not invalidated yet; the version at the last invalidation (history) |
| `request` | who asked for what, where and when, and what was shown |

`Hit`, `Share`, `Load` are the three ways through `cached`; `LoadEnds` and `LoadFails`
its end, with the `finally` that forgets the load; `InvalidateOrg` is `invalidateOrg`
after a write, `Change` one of the many writes that invalidate nothing (those of
`studio.ts`, `ai.ts`, members). `Restart` replaces a process. The readers are the
palette (`orgCacheKey`) and the two reports of Nova (`memberCacheKey`). A query that
fails yields no rows, which are cached (`Missing`). The health route, which uses the
cache with a constant key, and the uncached path without a membership are left out.

### AiGeneration

| Variable | Code |
|---|---|
| `ledger` | `ai_generations`: status, reserved and actual cents, month |
| `limit` | `least(monthly_limit_cents, 5000)` of `ai_budgets` |
| `lock` | the advisory lock of the organization |
| `call` | the step of each server action, and what it has read |
| `applied`, `pieces` | whole applications and partial insertions of an output |
| `month`, `highest` | time; the highest limit in force in each month (history) |

`Enter`, `Lock`, `Count`, `Insert` are the statements of `reserve_ai_generation`
(20260729001411:597-657), `Provide` the provider's answer and its cost, `Settle` is
`settle_ai_generation`. `Accept` reads a generation, `Applied` or `ApplyFails` is
`acceptGenerationAction` inserting its output, `Advised` the branch of the operations that
insert nothing (`ai.ts:206-208, 362`: the generations in `Advisory`), `Resolve` is `resolve_ai_generation`;
`Reject` is the other button. `Crash` ends a server action or a session, which
releases the lock. An error of the settlement of a failed generation is ignored, as in
the code; a crash leaves a row reserved, which counts for its month.

`src/packages/domain/src/ai.ts` has its own rates (reservations of 14 and 7 cents)
where the procedure, whose comment (line 568) says that it mirrors them, has 9 and 2;
the model takes the procedure's. An accepted course outline that fails half-way can
never be accepted again: its slug is taken (`ApplyFails` with `pieces`).

### PathGraph

`validatePathGraph` (`src/packages/domain/src/studio.ts`) is two depth-first
searches: `Visit`, `Follow`, `Look`, `Retreat` colour the nodes and collect `inCycle`;
`Ask`, `AskRequired`, `Satisfied`, `Unsatisfied`, `Completed` are `canComplete` with
its cache and its set of nodes under way. The variables are the two stacks, the
colours, `inCycle` and the cache; the graph is chosen in `Init`. Loops run in any
order. `WouldCreateCycle` (domain), `TriggerRefuses` (the trigger) and `PreviewRefuses`
(the path builder, which validates the graph with the edge) are the three checks of
a new edge. `Circular` is what the report calls unreachable; `NeverUnlocks` is what
`computePathAccess` (`src/packages/domain/src/learning.ts:257-260`) never unlocks, which
includes the nodes with a missing one behind them (`Broken`). Orphans and start nodes are left out: they are one comprehension each.

### PartnerAccess

| Variable | Code |
|---|---|
| `identity`, `member` | `external_identities` and the membership, by user |
| `barred` | users whose mapping was revoked and not restored (history) |
| `nonces`, `offered` | used nonces; targets that are published and not archived |
| `enrollment` | the status of the enrollments of each user and target, by who created them |
| `ledger`, `keeper` | `bfh_api_idempotency`, and the API key whose call stored the answer (history) |
| `hits` | `rate_limits` of this minute and the last one, capped one above the limit |
| `call` | the transaction of each connection: the statement it is at, what it has read |
| `asked`, `heard` | what the partner has sent and what it was told (history) |

| Action | Code |
|---|---|
| `Handoff` | `bfh_exchange_handoff` |
| `SetIdentityStatus`, `SetMembershipStatus`, `SetOffered`, `EnrollByStaff`, `SetEnrollmentStatus` | the staff's operations |
| `Charge`, `Use`, `Lookup`, `Judge`, `FindTarget`, `FindExisting`, `Create`, `CreateRefused` | the statements of `bfh_enroll_or_assign_external` (20260819141251) |
| `Send`, `Hear`, `Lose`, `NextMinute` | the partner, its connections, time |

A call is one transaction at READ COMMITTED: each statement sees what is committed
when it begins, and rows it updates stay locked until it ends. Two locks matter: the
row of the rate limit, by API key and minute (`RowFree`), and the row of the API key,
whose `last_used_at` every call updates (`KeyFree`). The second serializes all calls
of one API key, though it is nobody's purpose: the procedure reads the ledger and
writes it at its end, and that a request has one outcome over one API key rests on this
lock alone. Two API keys of the organization do not share it (`ApiKeys`): a call may be
overtaken by one over the other (`Overtaken`). A 429
commits its charge and is not stored; 404 and 400 are not stored either, so a retry
after a lost 404 may be told something else; a unique violation is a 500 and is undone
with its charge.

The partner retries 429 and 500, may ask again after a 404 once the learner or the target
is there (`Findable`), and takes everything else as final. A minute is this
one or the last (`late`). Completed enrollments count as active, and the enrollments
that the staff create share one id. A handoff under a new name moves the user's
mapping, which keeps its status. Left out: the roles a handoff grants, claims refused
for their signature or times, the limits on failed handoffs and on the creation of
organizations, purges, and the revocation of an API key.

### Memberships

| Variable | Code |
|---|---|
| `mem`, `granted`, `perms` | `organization_memberships`, `organization_member_roles`, `organization_role_permissions` |
| `status`, `account`, `own` | the organization's status; who has signed up; who has an organization of their own |
| `request` | the call of each person: where it stands (`at`), what is called (`call`), whether another commit came between its statements (`raced`) |
| `held` | the permissions its caller held since the transaction began (history) |

`Ask`, `Context` and `Lock` are the request, the reading of its context
(`lib/org-context.ts`) and the beginning of its transaction; `Guard`, `SetStatus` are
the two statements of `set_membership_status`; `Invite`, `SetRole`, `Permit`,
`SetPermission` the other routes; `Fail` a refusal; `SignUp`, `AcceptInvitation`,
`CreateOrganization` what a person without an organization is offered. A call is one
transaction at READ COMMITTED.

### CurriculumOrder

`kind` says whether the list belongs to a course (unique positions) or a path
(positions may tie, items can be removed); `position` is the column, a text that is
compared as such; `call` is the action of each editor with what it has read. `ReadLast`
and `Insert` are the two statements of an addition, `Fetch`, `First`, `Second`, `Third`
the four of a swap, whose temporary position has a `~swap` appended. `Fault` is a
statement that fails (a failed read counts as an empty list, a failed first or second
update is not noticed), `Die` an action that ends half-way.

### Walkthrough

`active` is what `setActive` was last given and `shown` what the overlay on the screen
was rendered from: a click is rendered at once, what a timer sets is rendered later, and
every handler computes from `shown`. `stored` is the place in the browser's storage,
shared by the tabs; `latched` is `conditionFiredRef`; `resuming` are the tabs whose
engine has mounted and not yet read the storage. `Next_`, `Skip`, `Back`, `Exit`,
`Start` are clicks, `Poll` the timer that looks whether the goal of a step is met,
`RenderTour`, `Arrive`, `Resume`, `Reload`, `Navigate`, `Locate` the browser and the
router, `Achieve` the work itself. `left` is history. `Start` has no guard, as in the code: a tour that is started again on
its first step, between the poll that left this step and its rendering, keeps
`conditionFiredRef` of a step that is not mounted anew, and stays there although its goal
is met (`Stalled`). The storage is keyed by
organization and not by member.

### LaunchChecklist

`facts` is what the organization has, with the visits that are recorded; `lifecycle` is
the row of `organization_onboarding`; `tab` is the dashboard of each member: the load
under way with what its queries have answered, what is shown, and `celebrateRef`. `Do`,
`Invite`, `Join`, `Undo` are the work, `VisitPage` and `Recorded` a visit and its
arrival, `Load`, `Read`, `Render` the dashboard, `Fail` a statement of it without an answer, which
counts as nothing done or, for the lifecycle, as no row (`Untouched`), `Click` and `upsertLifecycle` the
lifecycle, `Lose` a request that never arrives. `ever` and `after` are history. The
lesson step counts blocks, as the code does. `AlreadyAssumption`: nothing unpublishes a
lesson, so an organization with a published course has published lessons.

### Navigation

The table of destinations (`lib/navigation/`), filtered by permission, is what the bar,
the cards, the palette and the trails are built from; `Redirects` are the gates of the
pages and layouts. `shell` holds the permissions that the workspace's layout was rendered
with, `fresh` whether nothing has changed since. `FollowLink`, `FollowAction`, `LoadPage` and
`SelectOrg` ask for a page, `Redirected` and `Rendered` are the server's answers,
`ChangeGrants` is a change of roles or of the organization's status. Layouts are rendered
when they are entered or loaded only. `crumbsOf` are the crumbs of a place and
`KeptCrumbs` those that stay when neighbours have one label; the trail is the function
`buildBreadcrumbs` on the places that are kept.

The table of destinations and the pages agree about a member who sees drafts if they make
assessments or keep sources (`Coherent`). It is so for the system roles
(20260729001411:52-83), which nobody can edit, and need not be so for a role that an
organization makes on its roles page (`createRoleAction`, `setRolePermissionAction`). Roles
are not restricted: `at.agreed` records, for each page that is reached, whether the two
agreed about the member at that moment.

### Insights

`load` is the page under way, with the statements that are pending and what the others
answered; `Receive` is a statement that sees its own moment, `NoAnswer` one without an answer,
which counts as no rows; `More` the second wave; `Finish` derives what is said. `cache`
keeps the report, per variant. `Rows` are those the reader's policies let through, of
enrollments for `enrollment.manage`, `progress.view.others` or oneself
(20260728203155:720-729) and of memberships for `org.members.manage` or oneself; `ReadRows` cuts
them at the statement's limit (`ReviewLimit` for the 8 reviews of the Overview, `CourseLimit` and
`JourneyLimit` for the 200 and 100 of the report). Where nothing is raised, `OrClear` and
`deriveOverviewInsights` say that all is clear, or healthy, as the code does, also when the
statements failed. `Reference` is what is so, of one moment, and `Glimpses` what a page may
have seen of it at one moment.

## 3. Runs

Every run is exhaustive over its instance. Deadlock is checked, but in `people` and
`workspace`, where the calls are counted and a system that has used them stops.

Three runs compose components that share no state (`people` two, `onboarding` two,
`workspace` four): a variable `scene` says which of them a behaviour is about, and the
others stay as they begin. Each is checked against every step of its own, and
nothing is said about them together, which do not meet. The scenes of `workspace` are
the member who navigates, the graph, the list, the Overview, and the report twice: with
changes of the records and with failures.

Where nothing in the code makes anybody act (learners, reviewers, authors, staff) no
fairness is assumed and what is stated is safety. Where something does, it is this:

* *Webhooks.* `pg_cron` invokes the worker every five minutes, whatever became of
  earlier invocations; an invocation works through its batch, whose requests time out
  after ten seconds; and `next_attempt_at` passes. `Fairness` says exactly this: weak
  fairness of the steps of each worker and of `BackoffElapses`. Nobody has to emit,
  retry, pause or crash.
* *Cache.* The platform ends a function that runs too long (`MaxLoad`), so a load ends
  or fails: weak fairness of the two for each request.
* *Ledger.* A server action goes on or dies: weak fairness of `Working`. Advisory locks
  are granted in the order of arrival: strong fairness of `Lock`. No provider has to
  answer within any time, and nobody has to accept.
* *Partner.* A call that can go on does; the partner repeats what has no answer, which
  the contract asks of it (section 7); minutes pass.
* *Tours.* Timers fire, and the browser renders, navigates and mounts. The member may do
  nothing at all.
* *Checklist.* Requests are answered, dashboards are opened and tabs closed, and the
  founder takes the step that is shown as the next: without that nobody launches.
* *Navigation.* The server answers.

| Run | Instance | Shows |
|---|---|---|
| `course_progress` | one enrollment in a sequenced course in two versions out of three structures with different rules and lessons, a practical, a required completing assessment with a certificate, two attempts and a window that may end | `CompletionExact`, `SequenceRespected`, `PinsAgree`, `EvidenceKept`, `CredentialsEarned`, `EventsTruthful`; `DisplayMatchesGate` (a lesson shows locked exactly when the database refuses to complete it out of order), `WayForward` (an unfinished course always shows a lesson open that the database accepts, once what its page asks for is done, unless a required assessment is shut for good) |
| `path_progress` | a path over two courses, edited by two authors while its learner progresses | `PathNeverLocked` (an unfinished path without a cycle has an unfinished course whose prerequisites are completed), `CyclesOnlyRaced` (only the commit of an insert that was overtaken closes a cycle) |
| `prerequisite_race` | the same | finds `PrerequisitesAcyclic` broken: two inserts, each checked before the other commits (a finding) |
| `learner_session` | one tab, two lessons, two versions with the lessons in either order, query by query, with everything else that can happen meanwhile (2.9 million states) | `CompleteIsTrue` (a page that says complete is right), `LearnersKeepOrder` (what is completed from a page has its required predecessors) |
| `assessment_attempts` | two tabs, a reviewer, an item with partial credit and a text, at most two attempts, a deadline, one change of access | `OwnAnswersKept` (a component's answer is not overwritten by an older one of its own), `ImplementsAttemptLife` |
| `draft_editing` | two tabs and an append on a draft of each kind, one publication, two edits or crashes (2.7 million states) | `VersionsValid`, `PublishedAsSent` |
| `request_cache` | two requests of two members on one process that keeps a single entry, three kinds of readers, one write | `AnswersAreOwn`, `StalenessBounded` (rows are at most the time to live and one load old), `ReadersAnswered` |
| `ai_ledger` | two calls, two generations, one of them advisory, two profiles, two months, a limit that changes | `ReservationsFit` (a month's reservations fit its highest limit: what passes it is what some generation cost above its own reservation), `AcceptedIsApplied` (of operations that insert), `ReservationsDecided` (a reservation is refused or made whoever dies) |
| `webhooks` | one event, an endpoint that is paused once and another, two overlapping invocations, two attempts, a crash or a lost settlement, a manual retry, the events settlement emits | `OneWorkerPerDelivery`, `ProcessedReachedAll` (the mark on an event is right although it rests on an old snapshot), `ImplementsAtLeastOnce`, `Drains` (without a crash every delivery is concluded, and while invocations do not overlap the outbox drains) |
| `people` | one user with two names, two requests of one enrollment over three connections of two API keys, limit 1, one operation of the staff, one loss; and two owners, one of the staff and a guest with two calls of every kind (955,583 states) | `OneOutcomePerKey` (what is stored for a key is what was done and never changes, and who is told otherwise is named), `RevokedStaysOut`, `ResultsArrive`; `LastOwnerOnlyRaced` (the last owner is lost only to a commit between the guard and the update), `GrantsByHolders` (an invitation is no cheaper route to a role) |
| `onboarding` | one tab and three tours; and a founder with a colleague to invite, one visit lost, statement failed or work undone | `NothingSkippedOrReplayed`, `MetStepsPass` (who has done what a step waits for is not kept at it), `FounderLaunches` |
| `workspace` | every graph over three nodes, some of which may be missing, searched in every order; two editors with three calls and one fault on lists of two or three items; a member with one of three system roles or one of the organization's own, whose access changes once; reports and Overviews over three courses, a path and a learner, with limits of two courses and one review, with one change, one grant and one statement without an answer (926,653 states) | `OkExact`, `UnreachableExact` (what is reported waits for itself; what else never unlocks has an invalid edge behind it); `EditsTrue` (an undisturbed swap that reports ok has exchanged the two and one that reports an error moved nothing; what is added comes last); `WayAround` (what is offered opens while access is unchanged, landings agree, trails orient), `Settles`; `PagesTrue` (an undisturbed page that asked for all says what is so, the Overview raises nothing that was not, and says that all is clear only where it was or a statement failed; the learners' part is guarded) |

Two lessons are enough for a sequence, for a
percentage rule that differs from "all", and for a lesson that a version lacks; two
versions are enough for a pin to be stale. Two courses have
the cycle that two inserts close; longer ones are the theorem's.
`MaxVersions` and `MaxAuthors` are the only bounds in guards there; the pools
(`Enrollments`, `Lessons`, `Certificates` ...) are sets given by the configuration.
Interchangeable tabs and reviewers are symmetric where a run checks
invariants only, or action properties.

Two tabs are the least that interfere, and one is enough for a session that everything
else interferes with. One entry makes every store evict. Two months are what a
reservation that is settled late distinguishes. Two names of one user are what a
handoff can confuse, two connections the least that race under one key, and a second API key lets a third race without a lock. A limit of
one throttles the second call of a minute. Two owners and two calls are the least that
can suspend each other. A tour of three steps has one that is neither first nor last, and
one tab is what `PlaceIsStored` is about. `MaxWidth` lets a position grow to where a
swap's temporary one no longer fits (`SwapWidth` more), so the run reaches the refusal.
Two courses and one review are less than an organization comes to hold by one change.
One fault is enough for each statement to be the one that fails. The roles
`academy_admin`, `manager` and `learner` are those of the seeded ones that differ most in
what they open. A word is the label of a page's own leaf ("Builder") and a title the name of a
domain ("home", "knowledge"), which is where trails are at risk.

Two endpoints are the least for which the verdict on an event depends on another
row, and two invocations the least that overlap; two attempts make a first failure
differ from the last one. `MaxRetries`, `MaxCrashes`, `MaxToggles`, `MaxStaff`,
`MaxLosses`, `MaxTurns`, `MaxFaults`, `MaxUnanswered`, `MaxCalls` and their like bound what people and
failures do; the code bounds attempts itself. Two echo ids are as many as the event has
deliveries; a settlement that finds none free waits until one is.

### Stated and not kept

The modules state the following as a document, a comment or a message has it, and
the code does not keep it. The first is a run and a finding of its own; each of the others
shows when it is given as the invariant or property of the configuration named, with the
values named.

| Property | Instance | What happens |
|---|---|---|
| `PrerequisitesAcyclic` | `PrerequisiteRace.cfg` (run `prerequisite_race`) | "Authoritative cycle prevention" (20260728203155:143): two inserts, each checked before the other commits, close a cycle: both courses are then locked to every learner of the path |
| `IssuanceAnnounced` | `CourseProgress.cfg` | a credential is revoked and earned again: the event key repeats, so no `credential.certificate.issued` is emitted |
| `CompletedWhenAnnounced` | `CourseProgress.cfg` | an override completes the course of a withdrawn enrollment: `enrollment.learner.completed` is emitted while the status stays `withdrawn` |
| `PracticalWithholds` | `CourseProgress.cfg`, `PracticalLessons = {l2}` | a completing assessment completes a lesson whose practical requirement nobody evaluated |
| `ActiveIsUnfinished` | `PathProgress.cfg` | the last open node is removed from a path: the enrollment stays `active` with every course completed, and nothing evaluates it again |
| `PrerequisitesGate` | `PathProgress.cfg`, `Assignments = {a1}`, `AssignedTo <- AssignedToLast`, `Completing = {a1}` | an assessment of a course locked by a prerequisite can be started and passed, and starts the course |
| `Drains` | `Webhooks.cfg`, `Listens <- ListensToAll` | an endpoint that subscribes to everything is sent the event about each delivery to it, and the outbox never drains |
| `ProcessedOwesNothing` | `Webhooks.cfg`, `MaxToggles = 2`, `MaxCrashes = 0` | endpoints are paused while a failed delivery awaits its retry: the event is marked processed, and the delivery is still sent or given up later |
| `DeadLettersAnnounced` | `Webhooks.cfg` | a dead letter is retried by hand and given up again: the event key repeats and `webhook.delivery.failed` is not emitted |
| `ShownIsStored` | `AssessmentAttempts.cfg`, `Timed = FALSE`, `MaxToggles = 0` | a refresh hands the page the next attempt and it keeps the answers it showed, which are not stored |
| `SavesReplaceDraft` | `DraftEditing.cfg`, `Kinds = {"assessment"}`, `Tabs = {t1}`, `First <- TwoItems`, `LastPosition = 2`, `Appends = {}` | two items change places: the first upsert finds its position taken (`unique (assessment_id, position)`), though the comment (`assessments.ts:144`) says that the draft items are replaced |
| `FailureKeepsDraft` | `DraftEditing.cfg` | a lesson's rows are deleted and the insert fails: no draft is left, and with forty blocks this is certain |
| `SavedIsStored` | `DraftEditing.cfg` | the author edits while a save is under way; its end clears the mark of unsaved edits |
| `LastSaveWins` | `DraftEditing.cfg` | two saves both delete before either inserts: the draft is the union of two |
| `AuthorsFindTheirOwn` | `RequestCache.cfg`, `Spec` | "authoring changes invalidate the entry outright" (`palette.ts:53-56`): a load under way stores its old rows after the invalidation (`cache.ts:95`) |
| `NoOverage` | `AiLedger.cfg`, `Spec`, `MaxMonth = 1` | "hard $50/month platform cap", "no silent overage" (`phase-2-report.md:47-48`): a generation that reserved 9 cents may cost 27 |
| `AppliedOnce`, `RejectedIsDiscarded` | `AiLedger.cfg`, `MaxMonth = 1` | two tabs accept one generation and both insert its output; one accepts what the other discards |
| `LimitIsCurrent` | `AiLedger.cfg`, `MaxMonth = 1` | the limit is read before the lock: a lower one set meanwhile does not count |
| `ReservationsSettle` | `AiLedger.cfg`, `MaxMonth = 1` | a call dies before it settles: its row stays reserved |
| `CyclesReported` | `Workspace.cfg` | for the edges 1-2, 1-3, 2-1, 3-2 node 3 is on a cycle and not reported (`studio.ts:29`); `ok` is right nevertheless |
| `BrokenIsUnreachable` | `Workspace.cfg` | "Nodes that can never unlock (prerequisite chain broken/circular)" (`studio.ts:31`): an edge to a missing node is dropped (`studio.ts:46-49`), so a node behind it is not reported, though `computePathAccess` locks it for good |
| `AcceptedIsContent` | `AiLedger.cfg`, `MaxMonth = 1` | "Accepted — the output is now draft content." (`ai.ts:375`): an advisory output is accepted and nothing is inserted |
| `SameOutcome` | `People.cfg` | retries "receive the same outcome" (`contract.md:122-124`): one key is told not found and then created; over two API keys one is told created, the other a conflict that is not stored |
| `NoStepStalls` | `Onboarding.cfg` | "no later step silently stalls" (`walkthrough.tsx:385-391`): a tour started again between the poll and the rendering of its first step stays there |
| `NeverFabricates` | `Workspace.cfg` | "never fabricates" (`command-center.tsx:39-47`): a statement without an answer counts as one without rows, so all is clear, or every journey broken |
| `ConflictsAreLive` | `People.cfg`, `MaxStaff = 2` | "409 on an existing live enrollment" (`enroll/route.ts:7`): an expired enrollment is in the way of the partner, though not of the staff |

The conditions in a property say where the code stops keeping it without them:

* `Drains` asks for no crash: an invocation that ends after its claim leaves a row
  delivering, which no claim takes and `retry_webhook_delivery` refuses. It also asks that
  invocations do not overlap: two settlements of one event at the same time each see the
  other row still delivering, and the event stays pending.
* `ProcessedReachedAll` speaks of outboxes none of whose endpoints was paused.
* `OneOutcomePerKey` excepts three answers, each by name: the throttled and undone, which
  are retried; a 404 while nothing is stored; and the conflict told to a call that one over
  another API key has overtaken. The contract (section 7) promises the original result in
  the last two as well (`SameOutcome`).
* `PathNeverLocked` speaks of paths without a cycle, and `CyclesOnlyRaced` says where cycles
  come from.
* `WayForward` excepts a required assessment that is shut for good (`ShutOut`).
* `MetStepsPass` excepts a first step that is started again between its poll and its
  rendering (`Stalled`).
* `CelebrationNeverReplays` speaks of pages whose read of the lifecycle row was answered.
* `LastOwnerOnlyRaced` is all there is: two owners who suspend each other at the same
  moment, or whose owner roles are revoked meanwhile, leave no active owner.
* `OwnAnswersKept` is about the component on the screen. A save that was under way at a
  full load arrives after the page has been read, and the page then shows the answer that
  was stored before.
* `PagesTrue` about the report is for readers of the member directory who see all
  enrollments: to one without the directory the active enrollments of others appear quiet
  (`nova.ts:511`, `command-center.tsx:45`). It is about pages whose statements asked for all
  there is: beyond eight the open reviews of the Overview are counted as eight. And the
  report, unlike the Overview, invents when a statement fails or something changes
  between two; of the Overview this is so of "all clear" only.
* A swap "with nobody else": two additions at the same time tie, and a pair that is tied
  cannot be swapped; publication may fall between the statements of a swap; a swap that
  dies leaves a `~swap` position; beyond 39 items a list refuses additions.
* `WayAround` leaves out, as the code is: members about whom the table and the pages disagree
  (`at.agreed`), as a role of the organization's own with `sources.manage` without
  `content.view_draft`, to which the bar offers Sources that the Studio's layout refuses, and
  whose holder `/select-org` sends to the workspace of a suspended organization, which sends
  them to the Academy; the palette's New assessment, offered for
  `assessment.author` though its page asks for `content.view_draft` (`layout.tsx:163`);
  an instructor's assessment page, which `domainForPath` takes for Home
  (`domains.ts:449`); the unconditional links of the curriculum map and the credentials
  metric. Of two neighbours with one label the later stays, so a path that is titled
  as its domain is, or a destination that is called as the page's own first crumb is
  ("Builder" on the page of a course), costs the trail the link above; the property excuses
  exactly these, and a shell that is older than the access to the page.
* `CelebrationEarned` is of a manager's own list: a manager with `org.manage` alone
  celebrates for the organization, and two managers may both see it. The step "progress" is
  offered for `analytics.view` though its link asks for `enrollment.manage`, and "program"
  for `content.author` though `/courses` asks for `content.view_draft`. A visit whose
  record is lost stays unrecorded for its session.

## 4. Proofs

Each theorem holds for every value of the constants that satisfies its module's
assumptions (the types of the constants, that structures and drafts are well formed,
that nulls are not values); TLC evaluates them in every run. Each safety invariant and
action property of a run has one; what is liveness stays with TLC.

*Catalog, progress and learners* (`LearningProgressProofs`)

| Theorem | Statement | Argument |
|---|---|---|
| `CatalogTypeCorrect` | `CatalogSpec => []CatalogTypeOK` | inductive, action by action |
| `EdgesAlwaysJoinNodes` | `CatalogSpec => []EdgesJoinNodes` | inductive with the type invariant; the conjunct on uncommitted edges is what the commit needs, and the lock on their nodes is what keeps it |
| `CyclesAlwaysRaced` | `CatalogSpec => CyclesOnlyRaced` | for any number of authors, with the invariant `InsertsChecked`: an edge in flight does not close a cycle with the edges its check saw; if no other was committed since, adding it to fewer edges keeps them acyclic (`FewerEdges`, `NewEdgeAcyclic`) |
| `ProgressKeepsCatalog` | `Spec => CatalogSpec` | every step outside `Authoring` leaves the catalog alone |
| `ProgressTypeCorrect` | `Spec => []TypeOK` | inductive, with the helpers' result types as lemmas |
| `PathsNeverLock` | `Spec => []PathNeverLocked` | for any number of authors, a consequence of the invariants above: the unfinished courses of a path, a non-empty set without cycles, contain one with no edge to another of them |
| `EvidenceAlwaysKept` | `Spec => EvidenceKept` | each step extends the rows it finds (`EvaluateCourseKeeps`) |
| `PinsAlwaysAgree` | `Spec => []PinsAgree` | inductive as `PinsInv` below |
| `CompletionAlwaysExact`, `SequenceAlwaysRespected` | `Spec => []CompletionExact`, `Spec => []SequenceRespected` | with `PinsInv`: a step leaves the rows of an enrollment alone, opens one, or finishes one and evaluates the course; only the last can complete anything, and it evaluates what it has written |
| `EventsAlwaysTruthful`, `CredentialsAlwaysEarned` | `Spec => []EventsTruthful`, `Spec => []CredentialsEarned` | the rows announced stay (`EvidenceAlwaysKept`); every issuance goes through the same condition |
| `DisplayAlwaysMatchesGate`, `AlwaysWayForward` | `Spec => []DisplayMatchesGate`, `Spec => []WayForward` | the locks are a recursive function over the order of the lessons; that the first unfinished required lesson blocks the rest follows from the least-number principle; what that lesson's page asks for is accepted, or refused for good by a required assessment that is shut |
| `SessionImplements` | `SessionSpec => Spec` | a step of a session is a step of the learner, of somebody else, or none; `Write` is the one that must be shown to be allowed |
| `PagesTellTheTruth` | `SessionSpec => []CompleteIsTrue` | a page is complete because a row was read that is never taken back, or because the call succeeded |
| `OrderAlwaysKept` | `SessionSpec => LearnersKeepOrder` | inductive as `OrderInv`: what a request has read about the enrollment, the version and the finished lessons is still so, or still finished (`PinStays`, `VersionsStay`, `OrderStays`), when it writes |

`PinsInv` says that the rows of an enrollment hang together: the versions they name are
published (`PublishedOwn`), their rows have the form the procedures give them
(`RowsSound`), and pins agree (`PinsAgreeOf`). It is the invariant under most of the
others, and was first confirmed by TLC as an invariant of `course_progress` and
`path_progress`.

*Attempts, drafts, cache, ledger* (the `...Proofs` of each)

| Theorem | Statement | Argument |
|---|---|---|
| `AttemptTypeCorrect` | `Spec => []TypeOK` | inductive |
| `AttemptLifeImplemented` | `Spec => ImplementsAttemptLife` | with the invariant that only the last attempt may be open and none before it has passed |
| `OwnAnswersAlwaysKept` | `Spec => []OwnAnswersKept` | inductive as `Agree`, which relates page, queue and writer: the last save of an item in a tab's queue carries what the tab shows, and where there is none and the tab wrote last, what is stored is what it shows; an orphan belongs to nobody's component |
| `DraftTypeCorrect` | `Spec => []TypeOK` | inductive; rows always fit their columns |
| `PublicationsValid` | `Spec => []VersionsValid` | every set of rows that is stored or on its way is acceptable and free of duplicates, whoever wrote it |
| `PublicationsAsSent` | `Spec => []PublishedAsSent` | while nobody else writes, what is stored and what is left to write make up what was sent |
| `CacheTypeCorrect`, `WaitersHaveALoad` | `Spec => []TypeOK`, `Spec => []LoadsUnderWay` | inductive; a waiting reader's load is under way |
| `OnlyOwnRowsShown` | `Spec => []AnswersAreOwn` | a key determines its audience, and what is stored, loaded or shown under a key is of its audience |
| `WritesAreForgotten` | `Spec => []InvalidationForgets` | an invalidation empties what it names, and a load remembers whether it was overtaken |
| `StalenessAlwaysBounded` | `Spec => StalenessBounded` | inductive: a load is younger than the longest one and saw what was current when it began (`LoadsRecent`), an entry is younger than the time to live and came from such a load (`EntriesRecent`) |
| `LedgerTypeCorrect`, `ReservationsSerialized` | `Spec => []TypeOK`, one call between the sum and the insertion | inductive |
| `LedgerFollowsDomain`, `AcceptedOutputsApplied` | `Spec => LedgerMoves`, `Spec => []AcceptedIsApplied` | every step that changes a row asks for its status; a call that reaches `Resolve` has applied its output, or its operation is advisory |
| `ReservationsAlwaysFit` | `Spec => []ReservationsFit` | the sum over a month's rows is the number of its reserved cents (a set of pairs), so that adding a row adds a finite set; what a call under the lock has counted is still the sum (`CountFits`) and the limit it read was in force (`LimitSeen`) |

*Outbox* (`WebhookDeliveryProofs`)

| Theorem | Statement | Argument |
|---|---|---|
| `DeliveryTypeCorrect` | `Spec => []TypeOK` | inductive |
| `ClaimsExclusive` | `Spec => []OneWorkerPerDelivery` | inductive: what is due is in nobody's hands (`DueIsFree`), every other step only lets go (`HandsKept`) |
| `BudgetKept` | `Spec => []AttemptBudget` | strengthened with `AttemptsLeft`: a row that may still be claimed has an attempt left, and a job that will be retried has one left without manual retries |
| `DebtImplemented` | `Echoes = {} => (Spec => ImplementsAtLeastOnce)` | step by step (`DebtStep`); `ReceivedFirst` says that what a row or a job calls delivered was received |
| `ProcessedAlwaysReachedAll` | `Spec => []ProcessedReachedAll` | strengthened with `ReachesAll`: while no endpoint was paused a verdict once reached stays true until it is written (`VerdictHolds`), and all subscribers of an event are fanned out together (`FannedOutTogether`) |

*The workspace* (`WorkspaceProofs`) and *people* (`PartnerAccessProofs`)

| Theorem | Statement | Argument |
|---|---|---|
| `GraphTypeCorrect`, `CycleIsFound` | the stacks are paths of the graph; after the first search `inCycle` is empty of exactly the graphs without a set of nodes that wait for each other | the stack is a chain of requirements without repetition, so what meets it again closes a stuck set (`TrailStuck`), and a node is left only when all it requires was |
| `UnreachableIsExact`, `OkIsExact` | `Spec => []UnreachableExact`, `Spec => []OkExact` | every answer in the cache is right: a node whose requirements are all free is free (`FreeUp`), and a "no" given while a caller is under way is of a stuck set; a node that is not stuck and never unlocks has an invalid edge behind it |
| `NoStepEverPassedOver`, `PlaceAlwaysStored` | `TourSpec => []NoStepPassedOver`, `TourSpec => []PlaceIsStored` | inductive as `TourInv`: the steps before the place of the engine, and those before the place of the overlay, which may be another, were left; a click and the poll both go one beyond the overlay's |
| `CelebrationShownOnce` | `ListSpec => []CelebrationNeverReplays` | inductive as `ListInv`: a recorded celebration stays, and a load that began after it, or the page rendered from it, has read a row with it, or failed to read one |
| `CelebrationAlwaysEarned` | `ListSpec => []CelebrationEarned` | `ListInv` again: what a load has found done, and all on the list of a member whose celebration is on its way, has been there (`Earned`); a dashboard other than the founder's is opened only after somebody was invited |
| `NothingEverSkippedOrReplayed` | `OnboardingSpec => []NothingSkippedOrReplayed` | the four before, of the two modules side by side |
| `EditsAlwaysTrue` | `OrderSpec => EditsTrue` | inductive as `OrderInv2`: positions are texts and calls keep the form of their operation (`OrderTyped`), no two items of a course share one (`Sound`); a swap that nobody disturbed is where its statements have brought it (`SwapStands`), an addition that nobody disturbed still has the successor of the last (`AddStands`). The greatest of a finite set of texts exists because `Before` orders them strictly; a text grows wider with each letter (`Cardinality` of its places) |
| `PagesAlwaysTrue` | `InsightsSpec => PagesTrue` | inductive as `PagesInv`: a load that nothing disturbed holds, for each statement that was answered, the rows of the world as it is; whatever the Overview would say of a part of its rows, or of their absence, was so at some moment of the load; a statement that is not cut has all rows; what is kept for readers without `analytics.view` has no learners' part |
| `TrailsAlwaysOrient` | `NavSpec => []CrumbsOrient` | inductive as `NavInv`; then over the table of destinations: each place has a longest match (`DomainFound`), the crumbs that are dropped have the label of one that stays (`OneLabel`), and place by place (`PlaceOriented`) the links above are among those that stay |
| `WayAlwaysKnown` | `NavSpec => []WayAround` | for any roles: `NavInv` also says that a request that something offered, with access as it was when it was offered, meets no redirect if the table and the pages agree about the member; it is so because every entry of the table asks for what its page asks for or more (`ShellOpens`, `ActionsOpen`, `DetailsOpen`) |
| `PartnerTypeCorrect` | `Spec => []TypeOK` | inductive, statement by statement |
| `RevokedUsersStayOut` | `Spec => RevokedStaysOut` | strengthened with `ClearedInv`: a barred user's mapping is revoked under whatever name, and a call is cleared for everybody who is not barred |
| `OneOutcomeForAKey` | `Spec => OneOutcomePerKey` | for any number of API keys, strengthened with `OutcomeInv`: the calls of one API key between `Use` and their end are one at a time, so what `Lookup` read still holds at `Create` unless a call over another API key stored its answer; a row names the API key that made it |
| `MembersTypeCorrect` | `MembersSpec => []MembersTypeOK` | inductive; a call that stands anywhere but at "idle" names an operation |
| `OwnerOnlyLostInRace` | `MembersSpec => LastOwnerOnlyRaced` | inductive as `Guarded`: a call past its guard that nobody has overtaken still has another active owner, and its row is locked |
| `GrantsOnlyByHolders` | `MembersSpec => GrantsByHolders` | inductive as `Granted`: a call past its permission check has its permission in `held` |

The theorems of `WebhookDelivery` hold for any number of events, endpoints
and overlapping invocations. `Echoes = {}` is needed because an id that is used again
starts from nothing, which the abstract specification does not allow; the run has
echoes that nobody subscribes to. No other theorem assumes anything of the constants
beyond its module's assumptions: the number of authors, API keys and tabs is any, and so are
the roles, limits and policies.

TLC confirms the invariants on the instances of the runs: `OrderInv2`, `NavInv` and
`PagesInv` on the scenes of `workspace`.
Proofs that failed corrected the statements: that trails orient was stated with an excuse
for titles only, and is false for a term that is called as a page's own leaf; that
what is offered opens rests on the roles, which no instance with seeded roles could show; and
that an attempt could always be repeated was an assumption of `WayForward`, which needs it not
once it names who is shut out.

What stays with TLC:

* Liveness: `Drains`, `ReadersAnswered`, `ReservationsDecided`, `ResultsArrive`,
  `MetStepsPass`, `FounderLaunches`, `Settles`. Liveness and `ENABLED` are beyond the prover.
* The properties that modules state and no run checks: `OutcomeMatchesDomain`,
  `LessonSavesSucceed`, `PagePinned`, `ChecksAgree`, `CascadeAtomic`.

## 5. Not modelled

* *Review requests*: one row, one decision, under the row's lock.
* *Tenant lifecycle*: erasure and export are long sequences over every table, without a
  protocol beyond their order.
* *Row level security and permissions*: stateless predicates; the actor of an action
  holds the permission it asks for. Two policies that learners meet are in
  `LearnerSession`; `Memberships` has those of the members and roles pages.
* *Memberships*: roles scoped to an academy, archived roles, sessions, and the limit on the
  creation of organizations. An accepted invitation leads to the workspace
  (`acceptInvitationAction`) although `landing.ts` sends learners to their Academy.
* *Insights*: duplicate titles, lengths, terminology, weekday and momentum observations,
  freshness, drop-off, evaluation rates and the age of reviews: single reads or arithmetic.
  Nodes of archived paths, which count as "in a journey" for the isolated courses, are left
  out with the archiving of paths.
* *Payloads*: what the requests of the webhook worker hold, `{}` included.
* *Analytics roll-ups*, *curriculum import and seeds*, generated types, media, templates
  beyond their application to a draft, and everything that
  only renders: they keep no state that others act on. They are also most of the lines:
  of 46,874 lines in 243 files, some 9,600 of TypeScript and the procedures of the
  migrations are what the modules stand for, and generated types, import scripts and
  markup are the larger part of the rest.

## 6. Plan

Done: the catalog and progress, the outbox, assessment attempts, the editors of drafts,
the learner's pages, the cache, the ledger of generations, the path graph, the
partner's API, memberships, onboarding, the curriculum's lists, navigation and the
reports, and the proofs of section 4. In this order from here:

1. **Proofs**: of what modules state and no run checks, `PagePinned` and `ChecksAgree`.
2. **Review requests** on top of the editors: what is approved and what is published.
3. **Tenant erasure** next to a session.
