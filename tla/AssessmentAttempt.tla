-------------------------- MODULE AssessmentAttempt --------------------------
(***************************************************************************)
(* The attempts of one learner at one assigned assessment: the pages on    *)
(* which the learner starts, answers and submits, the procedures behind    *)
(* them, the grading of objective items, and the review of the others.     *)
(*                                                                         *)
(* A procedure locks the attempt's row and is one action.  A tab sends the *)
(* requests of its page one after the other; the page goes on taking       *)
(* answers meanwhile.  Tabs share the attempts and nothing else.           *)
(*                                                                         *)
(* An answer is a set: the options chosen (one of them, or a truth value,  *)
(* for the single-choice types), or the one text of a subjective item.     *)
(***************************************************************************)
EXTENDS Integers, Sequences, FiniteSetsExt

CONSTANTS
  Tabs, Reviewers,
  Items, Objective, Required, Partial,   \* items of the version; three kinds of flags
  Offered,      \* [Items -> sets of answers the page can send]
  Key,          \* [Objective -> the correct set]
  Points,       \* [Items -> Nat]
  PassingPercent,
  MaxAttempts,  \* settings.maxAttempts
  Timed,        \* the version has a time limit
  Marks,        \* points a reviewer may give an item, -1 for none
  MaxRequests, MaxToggles,   \* bounds: requests waiting in all tabs, changes of access
  Blank, Nobody

Answers == {Blank} \cup (UNION {Offered[i] : i \in Items})
Subjective == Items \ Objective
Numbers == 1 .. MaxAttempts
Statuses == {"started", "pending_review", "passed", "failed", "expired"}
Open == {"started", "pending_review"}

(* The membership, the enrollment and the assignment are active; the       *)
(* assignment's window is open and the cooldown is over.                   *)
Gates == {"member", "enrolled", "assigned", "available"}

ASSUME AttemptAssumption ==
  /\ Objective \subseteq Items /\ Required \subseteq Items /\ Partial \subseteq Objective
  /\ IsFiniteSet(Items) /\ IsFiniteSet(Tabs)
  /\ Points \in [Items -> Nat] /\ PassingPercent \in 1 .. 100
  /\ Marks \subseteq Nat \cup {-1}
  /\ MaxAttempts \in Nat \ {0} /\ Timed \in BOOLEAN
  /\ MaxRequests \in Nat \ {0} /\ MaxToggles \in Nat
  /\ \A i \in Items : Blank \notin Offered[i]
  /\ Nobody \notin Tabs

VARIABLES
  attempts,  \* assessment_attempts, responses and reviews, by attempt number
  access,    \* the gates that are open
  page,      \* per tab: the attempt shown (0 for none), the answers shown
  queue,     \* per tab: requests in the order they were made, not answered yet; an
             \* "orphan" is the save of a component that is gone
  writer,    \* whose present component saved each stored answer of the latest attempt,
             \* and has not been refused another since
  toggles

vars == <<attempts, access, page, queue, writer, toggles>>

Unanswered == [i \in Items |-> Blank]
NoScores == [i \in Subjective |-> -1]
Overview == [attempt |-> 0, shown |-> Unanswered]

Request(k, n, i, v) == [kind |-> k, attempt |-> n, item |-> i, answer |-> v]
Refreshing == Request("refresh", 0, Nobody, Blank)

Latest == Len(attempts)
(* The attempt a page shows: the only one still started.                   *)
Started ==
  IF Latest > 0 /\ attempts[Latest].status = "started" THEN Latest ELSE 0

-----------------------------------------------------------------------------
(* Grading                                                                 *)

Total(S, f(_)) == MapThenSumSet(f, S)
Greater(a, b) == IF a > b THEN a ELSE b
Lesser(a, b) == IF a < b THEN a ELSE b
Rounded(a, b) == (2 * a + b) \div (2 * b)

(* grade_objective_response and gradeResponse, in hundredths of a point.   *)
Grade(i, v) ==
  LET right == Cardinality(v \cap Key[i])
      wrong == Cardinality(v \ Key[i])
  IN  IF wrong = 0 /\ right = Cardinality(Key[i]) THEN 100 * Points[i]
      ELSE IF i \in Partial
           THEN Lesser(100 * Points[i],
                       Rounded(100 * Points[i] * Greater(0, right - wrong), Cardinality(Key[i])))
           ELSE 0

Possible == 100 * Total(Items, LAMBDA i : Points[i])

(* The percentage in hundredths, rounded half up.                          *)
Percent(earned) == IF Possible = 0 THEN 0 ELSE Rounded(10000 * earned, Possible)

Passes(percent) == percent >= 100 * PassingPercent

ObjectiveEarned(answers) ==
  Total({i \in Objective : answers[i] # Blank}, LAMBDA i : Grade(i, answers[i]))

NeedsReview(answers) == \E i \in Subjective : answers[i] # Blank \/ i \in Required

(* The loop of submit_assessment_attempt.                                  *)
Submitted(at) ==
  LET percent == Percent(ObjectiveEarned(at.answers))
  IN  [at EXCEPT !.percent = percent,
         !.status = IF NeedsReview(at.answers) THEN "pending_review"
                    ELSE IF Passes(percent) THEN "passed" ELSE "failed",
         !.review = IF NeedsReview(at.answers) THEN "pending_review" ELSE "none"]

(* The loop of complete_assessment_review, and its updates.                *)
Earned(answers, scores) ==
  ObjectiveEarned(answers)
    + 100 * Total({i \in Subjective : scores[i] >= 0}, LAMBDA i : scores[i])

Reviewed(at, scores) ==
  LET percent == Percent(Earned(at.answers, scores))
  IN  [at EXCEPT !.percent = percent, !.scores = scores, !.review = "completed",
         !.status = IF Passes(percent) THEN "passed" ELSE "failed"]

(* What complete_assessment_review refuses.                                *)
ScoresFit(at, scores) ==
  \A i \in Subjective :
    /\ scores[i] <= Points[i]
    /\ scores[i] < 0 => at.answers[i] = Blank /\ i \notin Required

(* computeAttemptOutcome of the domain package, given the responses stored *)
(* and the scores the reviewer gave.                                       *)
Outcome(at) ==
  LET reviewed == {i \in Subjective : at.scores[i] >= 0}
      earned ==
        Total(Items, LAMBDA i :
              IF i \in reviewed THEN 100 * Lesser(Greater(at.scores[i], 0), Points[i])
              ELSE IF at.answers[i] = Blank \/ i \in Subjective THEN 0
              ELSE Grade(i, at.answers[i]))
  IN  [percent |-> Percent(earned),
       needsReview |-> \E i \in Subjective \ reviewed : at.answers[i] # Blank \/ i \in Required,
       passes |-> Passes(Percent(earned))]

-----------------------------------------------------------------------------
(* The pages                                                               *)

Waiting(t, kinds) == \E k \in DOMAIN queue[t] : queue[t][k].kind \in kinds
Room == Total(Tabs, LAMBDA t : Len(queue[t])) < MaxRequests
SendFirst(t, r) == queue' = [queue EXCEPT ![t] = <<r>> \o @]
Send(t, r) == queue' = [queue EXCEPT ![t] = Append(@, r)]

(* What a page loaded now would show; not found shows less than Overview.  *)
Loaded ==
  IF Started # 0 /\ {"member", "assigned"} \subseteq access
  THEN [attempt |-> Started, shown |-> attempts[Started].answers]
  ELSE Overview

(* A refresh keeps the component that shows an attempt, and its answers,   *)
(* whichever attempt it shows next.                                        *)
Kept(p) == p.attempt # 0 /\ Loaded.attempt # 0
Retained(p) == IF Kept(p) THEN [Loaded EXCEPT !.shown = p.shown] ELSE Loaded

Orphaned(q) ==
  [k \in DOMAIN q |-> IF q[k].kind = "save" THEN [q[k] EXCEPT !.kind = "orphan"] ELSE q[k]]

(* Whatever the tab had not sent yet is gone; the answer it was sending may *)
(* still arrive.                                                           *)
Load(t) ==
  /\ page' = [page EXCEPT ![t] = Loaded]
  /\ \/ queue' = [queue EXCEPT ![t] = <<>>]
     \/ /\ queue[t] # <<>> /\ Head(queue[t]).kind = "save"
        /\ queue' = [queue EXCEPT ![t] = Orphaned(<<Head(@)>>)]
  /\ UNCHANGED <<attempts, access, writer, toggles>>

ClickStart(t) ==
  /\ page[t].attempt = 0 /\ ~Waiting(t, {"start"})
  /\ Room
  /\ Send(t, Request("start", 0, Nobody, Blank))
  /\ UNCHANGED <<attempts, access, page, writer, toggles>>

Answer(t, i, v) ==
  /\ page[t].attempt # 0 /\ page[t].shown[i] # v
  /\ Room
  /\ page' = [page EXCEPT ![t].shown[i] = v]
  /\ Send(t, Request("save", page[t].attempt, i, v))
  /\ UNCHANGED <<attempts, access, writer, toggles>>

(* The button is disabled while its component is saving an answer.         *)
ClickSubmit(t) ==
  /\ page[t].attempt # 0 /\ ~Waiting(t, {"save", "submit"})
  /\ Room
  /\ Send(t, Request("submit", page[t].attempt, Nobody, Blank))
  /\ UNCHANGED <<attempts, access, page, writer, toggles>>

-----------------------------------------------------------------------------
(* The procedures.  A tab has its requests served one after the other.     *)

Served(t) == Head(queue[t])
Serving(t, k) == queue[t] # <<>> /\ Served(t).kind = k
Reply(t) == queue' = [queue EXCEPT ![t] = Tail(@)]
ReplyOk(t) == queue' = [queue EXCEPT ![t] = Append(Tail(@), Refreshing)]

Refresh(t) ==
  /\ Serving(t, "refresh")
  /\ page' = [page EXCEPT ![t] = Retained(@)]
  /\ queue' = [queue EXCEPT ![t] = IF Kept(page[t]) THEN Tail(@) ELSE Orphaned(Tail(@))]
  /\ UNCHANGED <<attempts, access, writer, toggles>>

MayStartUnlessStarted ==
  access = Gates /\ Started = 0 /\ Latest < MaxAttempts
MayStart ==
  /\ access = Gates
  /\ \A n \in DOMAIN attempts : attempts[n].status \notin Open \cup {"passed"}
  /\ Latest < MaxAttempts

NewAttempt ==
  [status |-> "started", answers |-> Unanswered, late |-> FALSE, percent |-> 0,
   review |-> "none", reviewer |-> Nobody, scores |-> NoScores]

StartAttempt(t) ==
  /\ Serving(t, "start") /\ MayStart /\ ReplyOk(t)
  /\ attempts' = Append(attempts, NewAttempt)
  /\ writer' = [i \in Items |-> Nobody]
  /\ UNCHANGED <<access, page, toggles>>

MaySaveAnytime(r) == "member" \in access
MaySave(r) ==
  /\ "member" \in access
  /\ attempts[r.attempt].status = "started" /\ ~attempts[r.attempt].late

ServingSave(t) == Serving(t, "save") \/ Serving(t, "orphan")

SaveResponse(t) ==
  /\ ServingSave(t) /\ MaySave(Served(t)) /\ Reply(t)
  /\ attempts' = [attempts EXCEPT ![Served(t).attempt].answers[Served(t).item] = Served(t).answer]
  /\ writer' = [writer EXCEPT ![Served(t).item] = IF Serving(t, "save") THEN t ELSE Nobody]
  /\ UNCHANGED <<access, page, toggles>>

(* Late, the attempt expires without a score; ended, nothing changes.      *)
SubmitAttempt(t) ==
  LET n == Served(t).attempt
  IN  /\ Serving(t, "submit") /\ "member" \in access /\ ReplyOk(t)
      /\ attempts' = IF attempts[n].status # "started" THEN attempts
                     ELSE [attempts EXCEPT ![n] =
                             IF @.late THEN [@ EXCEPT !.status = "expired"]
                             ELSE Submitted(@)]
      /\ UNCHANGED <<access, page, writer, toggles>>

Refuse(t) ==
  /\ \/ Serving(t, "start") /\ ~MayStart
     \/ ServingSave(t) /\ ~MaySave(Served(t))
     \/ Serving(t, "submit") /\ "member" \notin access
  /\ Reply(t)
  /\ writer' = IF Serving(t, "save") /\ writer[Served(t).item] = t
               THEN [writer EXCEPT ![Served(t).item] = Nobody] ELSE writer
  /\ UNCHANGED <<attempts, access, page, toggles>>

(* The deadline of the attempt, and the half minute of grace, go by.       *)
TimePasses ==
  /\ Timed /\ Started # 0 /\ ~attempts[Started].late
  /\ attempts' = [attempts EXCEPT ![Started].late = TRUE]
  /\ UNCHANGED <<access, page, queue, writer, toggles>>

(* A claim may be taken over; completing a review does not ask for one.    *)
ClaimReview(r, n) ==
  /\ attempts[n].review \in {"pending_review", "in_review"}
  /\ attempts' = [attempts EXCEPT ![n].review = "in_review", ![n].reviewer = r]
  /\ UNCHANGED <<access, page, queue, writer, toggles>>

CompleteReview(r, n, scores) ==
  /\ attempts[n].review \in {"pending_review", "in_review"}
  /\ attempts[n].status = "pending_review" /\ ScoresFit(attempts[n], scores)
  /\ attempts' = [attempts EXCEPT ![n] = [Reviewed(@, scores) EXCEPT !.reviewer = r]]
  /\ UNCHANGED <<access, page, queue, writer, toggles>>

(* A gate is closed or opened again.                                       *)
ToggleAccess(a) ==
  /\ toggles < MaxToggles /\ toggles' = toggles + 1
  /\ access' = IF a \in access THEN access \ {a} ELSE access \cup {a}
  /\ UNCHANGED <<attempts, page, queue, writer>>

-----------------------------------------------------------------------------
Init ==
  /\ attempts = <<>> /\ access = Gates
  /\ page = [t \in Tabs |-> Overview] /\ queue = [t \in Tabs |-> <<>>]
  /\ writer = [i \in Items |-> Nobody] /\ toggles = 0

Page(t) ==
  \/ Load(t) \/ ClickStart(t) \/ ClickSubmit(t)
  \/ \E i \in Items : \E v \in Offered[i] : Answer(t, i, v)

Serve(t) ==
  Refresh(t) \/ StartAttempt(t) \/ SaveResponse(t) \/ SubmitAttempt(t) \/ Refuse(t)

Review ==
  \E r \in Reviewers : \E n \in DOMAIN attempts :
    ClaimReview(r, n) \/ \E s \in [Subjective -> Marks] : CompleteReview(r, n, s)

Next ==
  \/ \E t \in Tabs : Page(t) \/ Serve(t)
  \/ TimePasses \/ Review
  \/ \E a \in Gates : ToggleAccess(a)

Spec == Init /\ [][Next]_vars

-----------------------------------------------------------------------------
(* Properties                                                              *)

Percents ==
  {0} \cup {Percent(ObjectiveEarned(a)) : a \in [Items -> Answers]}
      \cup {Percent(Earned(a, s)) : a \in [Items -> Answers], s \in [Subjective -> Marks]}

Attempt ==
  [status : Statuses, answers : [Items -> Answers], late : BOOLEAN, percent : Percents,
   review : {"none", "pending_review", "in_review", "completed"},
   reviewer : Reviewers \cup {Nobody}, scores : [Subjective -> Marks \cup {-1}]]

Requests ==
  [kind : {"save", "orphan"}, attempt : Numbers, item : Items, answer : Answers]
    \cup [kind : {"submit"}, attempt : Numbers, item : {Nobody}, answer : {Blank}]
    \cup [kind : {"start", "refresh"}, attempt : {0}, item : {Nobody}, answer : {Blank}]

(* Every variable has its type; a percentage is one that some answers and  *)
(* scores earn, the limit of attempts holds, and requests and pages name   *)
(* attempts that exist.                                                    *)
TypeOK ==
  /\ attempts \in Seq(Attempt) /\ Latest <= MaxAttempts
  /\ access \subseteq Gates
  /\ page \in [Tabs -> [attempt : 0 .. Latest, shown : [Items -> Answers]]]
  /\ queue \in [Tabs -> Seq(Requests)]
  /\ \A t \in Tabs : \A k \in DOMAIN queue[t] : queue[t][k].attempt <= Latest
  /\ writer \in [Items -> Tabs \cup {Nobody}]
  /\ toggles \in 0 .. MaxToggles

(* The stored result of a graded attempt is what the domain package's      *)
(* computeAttemptOutcome makes of its responses and scores: answers that   *)
(* arrive late, a second submission or a second review change neither.     *)
OutcomeMatchesDomain ==
  \A n \in DOMAIN attempts :
    LET at == attempts[n]  outcome == Outcome(at)
    IN  at.status \in {"pending_review", "passed", "failed"} =>
          /\ at.percent = outcome.percent
          /\ (at.status = "pending_review") <=> outcome.needsReview
          /\ (at.status = "passed") <=> (outcome.passes /\ ~outcome.needsReview)

(* Once a tab's requests are answered, the answers that the component it   *)
(* shows was the last to save are the ones it shows: saveResponseAction    *)
(* calls of one page overlap but are applied in the order they were made,  *)
(* across refreshes, lost access and later attempts.                       *)
OwnAnswersKept ==
  \A t \in Tabs : \A i \in Items :
    /\ page[t].attempt # 0 /\ page[t].attempt = Latest /\ queue[t] = <<>>
    /\ writer[i] = t
    => attempts[Latest].answers[i] = page[t].shown[i]

(* Without a deadline, what the page of an open attempt shows is what is   *)
(* stored, but for what another tab wrote (not so: the component keeps its *)
(* answers when it is handed the next attempt).                            *)
ShownIsStored ==
  \A t \in Tabs : \A i \in Items :
    /\ page[t].attempt # 0 /\ page[t].attempt = Started /\ queue[t] = <<>>
    /\ writer[i] \in {t, Nobody}
    => attempts[Started].answers[i] = page[t].shown[i]

(* To the rest of the program an assessment is a series of attempts, one   *)
(* at a time, within the limit, and none after a pass.                     *)
Result ==
  IF Latest = 0 THEN "none"
  ELSE IF attempts[Latest].status \in Open THEN "open"
  ELSE IF attempts[Latest].status = "passed" THEN "passed" ELSE "unpassed"

Life == INSTANCE AttemptLife WITH Limit <- MaxAttempts, result <- Result, taken <- Latest
ImplementsAttemptLife == Life!LifeSpec
=============================================================================
