----------------------- MODULE AssessmentAttemptProofs -----------------------
(***************************************************************************)
(* Type correctness of AssessmentAttempt, that it implements AttemptLife,  *)
(* and that a page's answers are kept, for every number of tabs, items,    *)
(* requests waiting and attempts.                                          *)
(***************************************************************************)
EXTENDS AssessmentAttempt, TLAPS

USE DEF Statuses, Open, Numbers

LEMMA UnansweredType == Unanswered \in [Items -> Answers]
BY DEF Unanswered, Answers

LEMMA NewAttemptType == NewAttempt \in Attempt
BY UnansweredType DEF NewAttempt, Attempt, NoScores, Percents

(* Submission and review leave a well-formed attempt.                      *)
LEMMA SubmittedType == ASSUME NEW at \in Attempt PROVE Submitted(at) \in Attempt
<1>1. Percent(ObjectiveEarned(at.answers)) \in Percents
  BY DEF Percents, Attempt
<1> QED
  BY <1>1 DEF Submitted, Attempt

LEMMA ReviewedType ==
  ASSUME NEW at \in Attempt, NEW s \in [Subjective -> Marks], NEW r \in Reviewers
  PROVE  [Reviewed(at, s) EXCEPT !.reviewer = r] \in Attempt
<1>1. Percent(Earned(at.answers, s)) \in Percents
  BY DEF Percents, Attempt
<1>2. s \in [Subjective -> Marks \cup {-1}]
  OBVIOUS
<1> QED
  BY <1>1, <1>2 DEF Reviewed, Attempt

LEMMA RequestFields ==
  ASSUME NEW q \in Requests
  PROVE  /\ q.attempt \in Nat
         /\ q.kind \in {"save", "orphan"} =>
              q.attempt \in Numbers /\ q.item \in Items /\ q.answer \in Answers
         /\ q.kind = "submit" => q.attempt \in Numbers
BY DEF Requests

LEMMA AttemptAt ==
  ASSUME attempts \in Seq(Attempt), NEW n \in 1 .. Latest
  PROVE  attempts[n] \in Attempt
BY DEF Latest

(* Started is 0 or the number of the latest attempt.                       *)
LEMMA StartedRange ==
  ASSUME attempts \in Seq(Attempt)
  PROVE  Started \in 0 .. Latest /\ Latest \in Nat
BY DEF Started, Latest

LEMMA LoadedType ==
  ASSUME attempts \in Seq(Attempt)
  PROVE  Loaded \in [attempt : 0 .. Latest, shown : [Items -> Answers]]
<1>1. Overview \in [attempt : 0 .. Latest, shown : [Items -> Answers]]
  BY UnansweredType, StartedRange DEF Overview
<1>2. ASSUME Started # 0 PROVE attempts[Started].answers \in [Items -> Answers]
  <2>1. attempts[Started] \in Attempt
    BY <1>2, StartedRange, AttemptAt
  <2> QED
    BY <2>1 DEF Attempt
<1> QED
  BY <1>1, <1>2, StartedRange DEF Loaded

(* Orphaned requests are the requests they were, but for their kind.       *)
LEMMA OrphanedType ==
  ASSUME NEW q \in Seq(Requests), NEW n \in Nat, \A k \in DOMAIN q : q[k].attempt <= n
  PROVE  /\ Orphaned(q) \in Seq(Requests)
         /\ DOMAIN Orphaned(q) = DOMAIN q
         /\ \A k \in DOMAIN q : Orphaned(q)[k].attempt <= n /\ Orphaned(q)[k].kind # "save"
<1>1. ASSUME NEW k \in 1 .. Len(q)
      PROVE  /\ Orphaned(q)[k] \in Requests
             /\ Orphaned(q)[k].attempt = q[k].attempt /\ Orphaned(q)[k].kind # "save"
  <2>1. q[k] \in Requests
    OBVIOUS
  <2>2. CASE q[k].kind = "save"
    <3>1. Orphaned(q)[k] = [q[k] EXCEPT !.kind = "orphan"]
      BY <2>2 DEF Orphaned
    <3> QED
      BY <2>1, <2>2, <3>1 DEF Requests
  <2>3. CASE q[k].kind # "save"
    BY <2>1, <2>3 DEF Orphaned
  <2> QED
    BY <2>2, <2>3
<1>2. Orphaned(q) = [k \in 1 .. Len(q) |-> Orphaned(q)[k]]
  BY DEF Orphaned
<1> QED
  BY <1>1, <1>2

LEMMA InitType == AttemptAssumption /\ Init => TypeOK
BY UnansweredType DEF AttemptAssumption, Init, TypeOK, Overview, Latest

(* A step that leaves the attempts alone and hands a tab the requests it   *)
(* had, some of them answered, or one more.                                *)
LEMMA StepType ==
  ASSUME AttemptAssumption, TypeOK, [Next]_vars PROVE TypeOK'
<1> USE AttemptAssumption DEF TypeOK, AttemptAssumption
<1>0. Latest \in Nat /\ Started \in 0 .. Latest
  BY StartedRange
<1>1. CASE UNCHANGED vars
  BY <1>1 DEF vars, Latest
<1>2. ASSUME NEW t \in Tabs, Load(t) PROVE TypeOK'
  <2>1. page' \in [Tabs -> [attempt : 0 .. Latest, shown : [Items -> Answers]]]
    BY <1>2, LoadedType DEF Load
  <2>2. CASE queue' = [queue EXCEPT ![t] = <<>>]
    BY <1>2, <2>1, <2>2 DEF Load, Latest
  <2>3. CASE queue[t] # <<>> /\ queue' = [queue EXCEPT ![t] = Orphaned(<<Head(@)>>)]
    <3> DEFINE sent == <<Head(queue[t])>>
    <3>1. sent \in Seq(Requests) /\ \A k \in DOMAIN sent : sent[k].attempt <= Latest
      BY <2>3
    <3>2. queue' = [queue EXCEPT ![t] = Orphaned(sent)]
      BY <2>3
    <3> HIDE DEF sent
    <3>3. /\ Orphaned(sent) \in Seq(Requests)
          /\ \A k \in DOMAIN Orphaned(sent) : Orphaned(sent)[k].attempt <= Latest
      BY <1>0, <3>1, OrphanedType
    <3> QED
      BY <1>2, <2>1, <3>2, <3>3 DEF Load, Latest
  <2> QED
    BY <1>2, <2>2, <2>3 DEF Load
<1>3. ASSUME NEW t \in Tabs, ClickStart(t) PROVE TypeOK'
  <2>1. Request("start", 0, Nobody, Blank) \in Requests
    BY DEF Request, Requests, Answers
  <2> QED
    BY <1>0, <1>3, <2>1 DEF ClickStart, Send, Latest, Request
<1>4. ASSUME NEW t \in Tabs, ClickSubmit(t) PROVE TypeOK'
  <2>1. page[t].attempt \in 1 .. Latest
    BY <1>0, <1>4 DEF ClickSubmit
  <2>2. Request("submit", page[t].attempt, Nobody, Blank) \in Requests
    BY <1>0, <2>1 DEF Request, Requests, Answers
  <2> QED
    BY <1>0, <1>4, <2>1, <2>2 DEF ClickSubmit, Send, Latest, Request
<1>5. ASSUME NEW t \in Tabs, NEW i \in Items, NEW v \in Offered[i], Answer(t, i, v)
      PROVE TypeOK'
  <2>0. v \in Answers
    BY DEF Answers
  <2>1. page[t].attempt \in 1 .. Latest
    BY <1>0, <1>5 DEF Answer
  <2>2. Request("save", page[t].attempt, i, v) \in Requests
    BY <1>0, <2>0, <2>1 DEF Request, Requests
  <2>3. page' \in [Tabs -> [attempt : 0 .. Latest, shown : [Items -> Answers]]]
    BY <1>5, <2>0 DEF Answer
  <2>4. Request("save", page[t].attempt, i, v).attempt <= Latest
    BY <1>0, <2>1 DEF Request
  <2>5. /\ queue' \in [Tabs -> Seq(Requests)]
        /\ \A u \in Tabs : \A k \in DOMAIN queue'[u] : queue'[u][k].attempt <= Latest
    BY <1>5, <2>2, <2>4 DEF Answer, Send
  <2> QED
    BY <1>5, <2>3, <2>5 DEF Answer, Latest
<1>6. ASSUME NEW t \in Tabs, queue[t] # <<>>
      PROVE  /\ Served(t) \in Requests /\ Served(t).attempt <= Latest
             /\ Tail(queue[t]) \in Seq(Requests)
             /\ \A k \in DOMAIN Tail(queue[t]) : Tail(queue[t])[k].attempt <= Latest
  BY <1>6 DEF Served
<1>7. ASSUME NEW t \in Tabs, Refresh(t) PROVE TypeOK'
  <2>1. Retained(page[t]) \in [attempt : 0 .. Latest, shown : [Items -> Answers]]
    BY LoadedType DEF Retained
  <2> DEFINE rest == IF Kept(page[t]) THEN Tail(queue[t]) ELSE Orphaned(Tail(queue[t]))
  <2>2. rest \in Seq(Requests) /\ \A k \in DOMAIN rest : rest[k].attempt <= Latest
    BY <1>0, <1>6, <1>7, OrphanedType DEF Refresh, Serving
  <2>3. queue' = [queue EXCEPT ![t] = rest]
    BY <1>7 DEF Refresh
  <2> HIDE DEF rest
  <2> QED
    BY <1>7, <2>1, <2>2, <2>3 DEF Refresh, Latest
<1>8. Refreshing \in Requests /\ Refreshing.attempt = 0
  BY DEF Refreshing, Request, Requests, Answers
<1>9. ASSUME NEW t \in Tabs, StartAttempt(t) PROVE TypeOK'
  <2>1. attempts' \in Seq(Attempt) /\ Latest' = Latest + 1
    BY <1>9, NewAttemptType DEF StartAttempt, Latest
  <2>2. Latest' <= MaxAttempts
    BY <1>0, <1>9, <2>1 DEF StartAttempt, MayStart
  <2>3. queue' \in [Tabs -> Seq(Requests)]
        /\ \A u \in Tabs : \A k \in DOMAIN queue'[u] : queue'[u][k].attempt <= Latest
    BY <1>0, <1>6, <1>8, <1>9 DEF StartAttempt, Serving, ReplyOk
  <2>4. \A u \in Tabs : \A k \in DOMAIN queue'[u] : queue'[u][k].attempt <= Latest'
    <3> SUFFICES ASSUME NEW u \in Tabs, NEW k \in DOMAIN queue'[u]
                 PROVE  queue'[u][k].attempt <= Latest'
      OBVIOUS
    <3>1. queue'[u][k] \in Requests
      BY <2>3
    <3>2. queue'[u][k].attempt \in Nat
      BY <3>1 DEF Requests
    <3> QED
      BY <1>0, <2>1, <2>3, <3>2
  <2>5. page' \in [Tabs -> [attempt : 0 .. Latest', shown : [Items -> Answers]]]
    BY <1>0, <1>9, <2>1 DEF StartAttempt
  <2> QED
    BY <1>9, <2>1, <2>2, <2>3, <2>4, <2>5 DEF StartAttempt
<1>10. ASSUME NEW t \in Tabs, SaveResponse(t) PROVE TypeOK'
  <2>1. Served(t).attempt \in 1 .. Latest /\ Served(t).item \in Items /\ Served(t).answer \in Answers
    BY <1>0, <1>6, <1>10, RequestFields DEF SaveResponse, ServingSave, Serving
  <2>2. attempts[Served(t).attempt] \in Attempt
    BY <2>1 DEF Latest
  <2>3. [attempts[Served(t).attempt] EXCEPT !.answers[Served(t).item] = Served(t).answer] \in Attempt
    BY <2>1, <2>2 DEF Attempt
  <2>4. attempts' \in Seq(Attempt) /\ Latest' = Latest
    BY <1>10, <2>1, <2>3 DEF SaveResponse, Latest
  <2> QED
    BY <1>6, <1>10, <2>1, <2>4 DEF SaveResponse, ServingSave, Serving, Reply
<1>11. ASSUME NEW t \in Tabs, SubmitAttempt(t) PROVE TypeOK'
  <2>1. Served(t).attempt \in 1 .. Latest
    BY <1>0, <1>6, <1>11, RequestFields DEF SubmitAttempt, Serving
  <2>2. attempts[Served(t).attempt] \in Attempt
    BY <2>1 DEF Latest
  <2>3. [attempts[Served(t).attempt] EXCEPT !.status = "expired"] \in Attempt
    BY <2>2 DEF Attempt
  <2>4. Submitted(attempts[Served(t).attempt]) \in Attempt
    BY <2>2, SubmittedType
  <2>5. attempts' \in Seq(Attempt) /\ Latest' = Latest
    BY <1>11, <2>1, <2>3, <2>4 DEF SubmitAttempt, Latest
  <2> QED
    BY <1>0, <1>6, <1>8, <1>11, <2>5 DEF SubmitAttempt, Serving, ReplyOk
<1>12. ASSUME NEW t \in Tabs, Refuse(t) PROVE TypeOK'
  <2>1. queue[t] # <<>>
    BY <1>12 DEF Refuse, ServingSave, Serving
  <2>2. writer' \in [Items -> Tabs \cup {Nobody}]
    BY <1>12 DEF Refuse
  <2> QED
    BY <1>6, <1>12, <2>1, <2>2 DEF Refuse, Reply, Latest
<1>13. ASSUME TimePasses PROVE TypeOK'
  <2>1. Started \in 1 .. Latest
    BY <1>0, <1>13 DEF TimePasses
  <2>2. [attempts[Started] EXCEPT !.late = TRUE] \in Attempt
    BY <2>1, AttemptAt DEF Attempt
  <2> QED
    BY <1>13, <2>1, <2>2 DEF TimePasses, Latest
<1>17. \A n \in DOMAIN attempts : attempts[n] \in Attempt
  OBVIOUS
<1>14. ASSUME NEW r \in Reviewers, NEW n \in DOMAIN attempts, ClaimReview(r, n) PROVE TypeOK'
  <2>1. [attempts[n] EXCEPT !.review = "in_review", !.reviewer = r] \in Attempt
    BY <1>17 DEF Attempt
  <2>2. attempts' = [attempts EXCEPT ![n] = [attempts[n] EXCEPT !.review = "in_review", !.reviewer = r]]
    BY <1>14 DEF ClaimReview
  <2>3. attempts' \in Seq(Attempt) /\ Latest' = Latest
    BY <2>1, <2>2 DEF Latest
  <2> QED
    BY <1>14, <2>3 DEF ClaimReview
<1>15. ASSUME NEW r \in Reviewers, NEW n \in DOMAIN attempts, NEW s \in [Subjective -> Marks],
              CompleteReview(r, n, s)
       PROVE TypeOK'
  <2>1. [Reviewed(attempts[n], s) EXCEPT !.reviewer = r] \in Attempt
    BY <1>17, ReviewedType
  <2> QED
    BY <1>15, <2>1 DEF CompleteReview, Latest
<1>16. ASSUME NEW a \in Gates, ToggleAccess(a) PROVE TypeOK'
  BY <1>16 DEF ToggleAccess, Latest
<1> QED
  BY <1>1, <1>2, <1>3, <1>4, <1>5, <1>7, <1>9, <1>10, <1>11, <1>12, <1>13, <1>14, <1>15, <1>16
  DEF Next, Page, Serve, Review

(* The types of AssessmentAttempt hold throughout: pages and requests      *)
(* name attempts that exist, and no learner takes more than the limit.     *)
THEOREM AttemptTypeCorrect == Spec => []TypeOK
<1>1. Init => TypeOK
  BY AttemptAssumption, InitType
<1>2. TypeOK /\ [Next]_vars => TypeOK'
  BY AttemptAssumption, StepType
<1> QED
  BY <1>1, <1>2, PTL DEF Spec

-----------------------------------------------------------------------------
(* An attempt is only begun when the ones before have ended unpassed, so   *)
(* whatever changes the status of an attempt changes the latest one.       *)

EarlierUnpassed == \A n \in 1 .. Latest - 1 : attempts[n].status \in {"failed", "expired"}

Ended == {"pending_review", "passed", "failed", "expired"}

Becomes(n, at) == attempts' = [attempts EXCEPT ![n] = at]

(* The step ends the latest attempt, or changes no status at all.          *)
Moves ==
  /\ Latest' = Latest
  /\ \A n \in 1 .. Latest - 1 : attempts'[n].status = attempts[n].status
  /\ Latest > 0 =>
       \/ attempts'[Latest].status = attempts[Latest].status
       \/ attempts[Latest].status \in Open /\ attempts'[Latest].status \in Ended

LEMMA UnchangedMoves == ASSUME TypeOK, UNCHANGED attempts PROVE Moves
BY DEF TypeOK, Moves, Latest

(* One attempt, still open, gets another status than "started".            *)
LEMMA OpenMoves ==
  ASSUME TypeOK, EarlierUnpassed, NEW n \in 1 .. Latest, NEW at,
         attempts[n].status \in Open, at.status \in Ended, Becomes(n, at)
  PROVE  Moves
<1>1. Latest \in Nat /\ Latest' = Latest /\ DOMAIN attempts = 1 .. Latest
  BY DEF TypeOK, Latest, Becomes
<1>2. n = Latest
  BY <1>1 DEF EarlierUnpassed
<1>3. attempts'[Latest] = at /\ \A m \in 1 .. Latest - 1 : attempts'[m] = attempts[m]
  BY <1>1, <1>2 DEF Becomes
<1> QED
  BY <1>1, <1>2, <1>3 DEF Moves

(* One attempt changes in something else than its status.                  *)
LEMMA SameStatusMoves ==
  ASSUME TypeOK, NEW n \in 1 .. Latest, NEW at, at.status = attempts[n].status,
         attempts' = [attempts EXCEPT ![n] = at]
  PROVE  Moves
<1>1. Latest \in Nat /\ Latest' = Latest /\ DOMAIN attempts = 1 .. Latest
  BY DEF TypeOK, Latest
<1>2. \A m \in 1 .. Latest : attempts'[m].status = attempts[m].status
  BY <1>1
<1> QED
  BY <1>1, <1>2 DEF Moves

LEMMA StepMoves ==
  ASSUME TypeOK, EarlierUnpassed, [Next]_vars,
         \A t \in Tabs : ~StartAttempt(t)
  PROVE  Moves
<1>1. CASE UNCHANGED attempts
  BY <1>1, UnchangedMoves
<1>2. Latest \in Nat /\ DOMAIN attempts = 1 .. Latest /\ Started \in 0 .. Latest
  BY StartedRange DEF TypeOK, Latest
<1>3. \A n \in 1 .. Latest : attempts[n] \in Attempt
  BY AttemptAt DEF TypeOK
<1>4. ASSUME NEW t \in Tabs, ServingSave(t) \/ Serving(t, "submit")
      PROVE  Served(t).attempt \in 1 .. Latest
  <2>1. Served(t) \in Requests /\ Served(t).attempt <= Latest /\ Served(t).kind \in {"save", "orphan", "submit"}
    BY <1>4 DEF TypeOK, ServingSave, Serving, Served
  <2> QED
    BY <1>2, <2>1, RequestFields
<1>5. ASSUME NEW t \in Tabs, SaveResponse(t) PROVE Moves
  <2> DEFINE n == Served(t).attempt
             at == [attempts[n] EXCEPT !.answers[Served(t).item] = Served(t).answer]
  <2>1. n \in 1 .. Latest /\ attempts' = [attempts EXCEPT ![n] = at]
    BY <1>4, <1>5 DEF SaveResponse
  <2>2. at.status = attempts[n].status
    BY <1>3, <2>1 DEF Attempt
  <2> QED
    BY <2>1, <2>2, SameStatusMoves
<1>6. ASSUME NEW t \in Tabs, SubmitAttempt(t) PROVE Moves
  <2> DEFINE n == Served(t).attempt
             at == IF attempts[n].late THEN [attempts[n] EXCEPT !.status = "expired"]
                   ELSE Submitted(attempts[n])
  <2>1. n \in 1 .. Latest
    BY <1>4, <1>6 DEF SubmitAttempt
  <2>2. CASE attempts[n].status # "started"
    BY <1>1, <1>6, <2>2 DEF SubmitAttempt
  <2>3. CASE attempts[n].status = "started"
    <3>1. Becomes(n, at)
      BY <1>6, <2>3 DEF SubmitAttempt, Becomes
    <3>2. at.status \in Ended
      BY <1>3, <2>1 DEF Submitted, Attempt, Ended
    <3>3. attempts[n].status \in Open
      BY <2>3
    <3> HIDE DEF at, n
    <3> QED
      BY <2>1, <3>1, <3>2, <3>3, OpenMoves
  <2> QED
    BY <2>2, <2>3
<1>7. ASSUME TimePasses PROVE Moves
  <2> DEFINE at == [attempts[Started] EXCEPT !.late = TRUE]
  <2>1. Started \in 1 .. Latest /\ attempts' = [attempts EXCEPT ![Started] = at]
    BY <1>2, <1>7 DEF TimePasses
  <2>2. at.status = attempts[Started].status
    BY <1>3, <2>1 DEF Attempt
  <2> QED
    BY <2>1, <2>2, SameStatusMoves
<1>8. ASSUME NEW r \in Reviewers, NEW n \in 1 .. Latest, ClaimReview(r, n) PROVE Moves
  <2> DEFINE at == [attempts[n] EXCEPT !.review = "in_review", !.reviewer = r]
  <2>1. attempts' = [attempts EXCEPT ![n] = at]
    BY <1>8 DEF ClaimReview
  <2>2. at.status = attempts[n].status
    BY <1>3 DEF Attempt
  <2> QED
    BY <2>1, <2>2, SameStatusMoves
<1>9. ASSUME NEW r \in Reviewers, NEW n \in 1 .. Latest, NEW s \in [Subjective -> Marks],
             CompleteReview(r, n, s)
      PROVE  Moves
  <2> DEFINE at == [Reviewed(attempts[n], s) EXCEPT !.reviewer = r]
  <2>1. Becomes(n, at) /\ attempts[n].status \in Open
    BY <1>9 DEF CompleteReview, Becomes
  <2>2. at.status \in {"passed", "failed"}
    BY <1>3 DEF Reviewed, Attempt
  <2>3. at.status \in Ended
    BY <2>2 DEF Ended
  <2> HIDE DEF at
  <2> QED
    BY <2>1, <2>3, OpenMoves
<1> QED
  BY <1>1, <1>2, <1>5, <1>6, <1>7, <1>8, <1>9
  DEF Next, Page, Serve, Review, Load, ClickStart, ClickSubmit, Answer, Refresh, Refuse, ToggleAccess, vars

LEMMA LifeStep ==
  ASSUME TypeOK, EarlierUnpassed, [Next]_vars
  PROVE  EarlierUnpassed' /\ [Life!LifeNext]_(Life!lifeVars)
<1>1. Latest \in Nat /\ DOMAIN attempts = 1 .. Latest
  BY DEF TypeOK, Latest
<1>2. \A n \in 1 .. Latest : attempts[n].status \in Statuses
  BY AttemptAt DEF TypeOK, Attempt
<1>3. ASSUME NEW t \in Tabs, StartAttempt(t)
      PROVE  EarlierUnpassed' /\ [Life!LifeNext]_(Life!lifeVars)
  <2>1. /\ Latest' = Latest + 1 /\ Latest < MaxAttempts
        /\ \A n \in 1 .. Latest : attempts[n].status \in {"failed", "expired"}
    BY <1>1, <1>2, <1>3 DEF StartAttempt, MayStart, Latest
  <2>2. /\ attempts'[Latest'].status = "started"
        /\ \A n \in 1 .. Latest : attempts'[n] = attempts[n]
    BY <1>1, <1>3 DEF StartAttempt, NewAttempt, Latest
  <2>3. EarlierUnpassed'
    BY <1>1, <2>1, <2>2 DEF EarlierUnpassed
  <2>4. Result \in {"none", "unpassed"} /\ Result' = "open"
    BY <1>1, <2>1, <2>2 DEF Result
  <2> QED
    BY <2>1, <2>3, <2>4 DEF Life!LifeNext, Life!Take
<1>4. CASE Moves
  <2>1. EarlierUnpassed'
    BY <1>1, <1>4 DEF Moves, EarlierUnpassed
  <2>2. \/ Result' = Result
        \/ Result = "open" /\ Result' \in {"open", "passed", "unpassed"}
    BY <1>1, <1>2, <1>4 DEF Moves, Result, Ended
  <2> QED
    BY <1>4, <2>1, <2>2 DEF Moves, Life!LifeNext, Life!Conclude, Life!lifeVars
<1> QED
  BY <1>3, <1>4, StepMoves

(* A learner takes one attempt at a time, no more than the limit, and none *)
(* after passing, whatever the tabs and reviewers do at the same time: the *)
(* locks of the procedures make AssessmentAttempt implement AttemptLife.   *)
THEOREM AttemptLifeImplemented == Spec => ImplementsAttemptLife
<1>1. Init => EarlierUnpassed /\ Life!LifeInit
  BY DEF Init, EarlierUnpassed, Life!LifeInit, Result, Latest
<1>2. TypeOK /\ EarlierUnpassed /\ [Next]_vars => EarlierUnpassed' /\ [Life!LifeNext]_(Life!lifeVars)
  BY LifeStep
<1> QED
  BY <1>1, <1>2, AttemptTypeCorrect, PTL DEF Spec, ImplementsAttemptLife, Life!LifeSpec

-----------------------------------------------------------------------------
(* A page and its waiting requests agree: the last save of an item sends   *)
(* what the page shows of it, and an item that the page was the last to    *)
(* save (it is in `mine') and has no save waiting for is stored as shown.  *)

IsSave(r) == r.kind = "save"

Agree(q, p, mine, stored, n) ==
  /\ \A k \in DOMAIN q : IsSave(q[k]) =>
       /\ p.attempt # 0 /\ q[k].attempt <= p.attempt
       /\ \/ q[k].answer = p.shown[q[k].item]
          \/ \E j \in DOMAIN q : j > k /\ IsSave(q[j]) /\ q[j].item = q[k].item
  /\ \A i \in mine :
       /\ p.attempt \in {0, n}
       /\ \/ p.attempt = 0 \/ stored[i] = p.shown[i]
          \/ \E k \in DOMAIN q : IsSave(q[k]) /\ q[k].item = i

Mine(t) == {i \in Items : writer[i] = t}
Stored == attempts[Latest].answers
PageAgrees(t) == Agree(queue[t], page[t], Mine(t), Stored, Latest)

(* The first request is answered and was not a save.                       *)
LEMMA AnsweredAgree ==
  ASSUME NEW q \in Seq(Requests), q # <<>>, ~IsSave(Head(q)),
         NEW p, NEW mine, NEW stored, NEW n, Agree(q, p, mine, stored, n)
  PROVE  Agree(Tail(q), p, mine, stored, n)
<1>1. /\ Len(q) \in Nat \ {0} /\ DOMAIN q = 1 .. Len(q) /\ DOMAIN Tail(q) = 1 .. (Len(q) - 1)
      /\ \A k \in 1 .. (Len(q) - 1) : Tail(q)[k] = q[k + 1]
      /\ ~IsSave(q[1])
  OBVIOUS
<1>2. ASSUME NEW k \in DOMAIN Tail(q), IsSave(Tail(q)[k])
      PROVE  /\ p.attempt # 0 /\ Tail(q)[k].attempt <= p.attempt
             /\ \/ Tail(q)[k].answer = p.shown[Tail(q)[k].item]
                \/ \E j \in DOMAIN Tail(q) :
                     j > k /\ IsSave(Tail(q)[j]) /\ Tail(q)[j].item = Tail(q)[k].item
  <2>1. k + 1 \in DOMAIN q /\ Tail(q)[k] = q[k + 1]
    BY <1>1
  <2>2. ASSUME NEW j \in DOMAIN q, j > k + 1, IsSave(q[j]), q[j].item = q[k + 1].item
        PROVE  /\ j - 1 \in DOMAIN Tail(q) /\ j - 1 > k
               /\ IsSave(Tail(q)[j - 1]) /\ Tail(q)[j - 1].item = Tail(q)[k].item
    BY <1>1, <2>1, <2>2
  <2> QED
    BY <1>2, <2>1, <2>2 DEF Agree
<1>3. ASSUME NEW i \in mine
      PROVE  /\ p.attempt \in {0, n}
             /\ \/ p.attempt = 0 \/ stored[i] = p.shown[i]
                \/ \E k \in DOMAIN Tail(q) : IsSave(Tail(q)[k]) /\ Tail(q)[k].item = i
  <2>1. ASSUME NEW k \in DOMAIN q, IsSave(q[k]), q[k].item = i
        PROVE  k - 1 \in DOMAIN Tail(q) /\ IsSave(Tail(q)[k - 1]) /\ Tail(q)[k - 1].item = i
    BY <1>1, <2>1
  <2> QED
    BY <2>1 DEF Agree
<1> QED
  BY <1>2, <1>3 DEF Agree

(* The first request is a save, which is stored or refused.                *)
LEMMA SavedAgree ==
  ASSUME NEW q \in Seq(Requests), q # <<>>, IsSave(Head(q)),
         NEW p, NEW mine, NEW stored, NEW n, Agree(q, p, mine, stored, n),
         NEW mine2, NEW stored2,
         \A i \in mine2 \ {Head(q).item} : i \in mine /\ stored2[i] = stored[i],
         Head(q).item \in mine2 => p.attempt \in {0, n} /\ stored2[Head(q).item] = Head(q).answer
  PROVE  Agree(Tail(q), p, mine2, stored2, n)
<1>1. /\ Len(q) \in Nat \ {0} /\ DOMAIN q = 1 .. Len(q) /\ DOMAIN Tail(q) = 1 .. (Len(q) - 1)
      /\ \A k \in 1 .. (Len(q) - 1) : Tail(q)[k] = q[k + 1]
      /\ Head(q) = q[1] /\ IsSave(q[1])
  OBVIOUS
<1>2. ASSUME NEW k \in DOMAIN Tail(q), IsSave(Tail(q)[k])
      PROVE  /\ p.attempt # 0 /\ Tail(q)[k].attempt <= p.attempt
             /\ \/ Tail(q)[k].answer = p.shown[Tail(q)[k].item]
                \/ \E j \in DOMAIN Tail(q) :
                     j > k /\ IsSave(Tail(q)[j]) /\ Tail(q)[j].item = Tail(q)[k].item
  <2>1. k + 1 \in DOMAIN q /\ Tail(q)[k] = q[k + 1]
    BY <1>1
  <2>2. ASSUME NEW j \in DOMAIN q, j > k + 1, IsSave(q[j]), q[j].item = q[k + 1].item
        PROVE  /\ j - 1 \in DOMAIN Tail(q) /\ j - 1 > k
               /\ IsSave(Tail(q)[j - 1]) /\ Tail(q)[j - 1].item = Tail(q)[k].item
    BY <1>1, <2>1, <2>2
  <2> QED
    BY <1>2, <2>1, <2>2 DEF Agree
<1>3. ASSUME NEW i \in mine2, i # Head(q).item
      PROVE  /\ p.attempt \in {0, n}
             /\ \/ p.attempt = 0 \/ stored2[i] = p.shown[i]
                \/ \E k \in DOMAIN Tail(q) : IsSave(Tail(q)[k]) /\ Tail(q)[k].item = i
  <2>1. ASSUME NEW k \in DOMAIN q, IsSave(q[k]), q[k].item = i
        PROVE  k - 1 \in DOMAIN Tail(q) /\ IsSave(Tail(q)[k - 1]) /\ Tail(q)[k - 1].item = i
    BY <1>1, <1>3, <2>1
  <2> QED
    BY <1>3, <2>1 DEF Agree
<1>4. ASSUME Head(q).item \in mine2
      PROVE  LET i == Head(q).item
             IN /\ p.attempt \in {0, n}
                /\ \/ p.attempt = 0 \/ stored2[i] = p.shown[i]
                   \/ \E k \in DOMAIN Tail(q) : IsSave(Tail(q)[k]) /\ Tail(q)[k].item = i
  <2>1. ASSUME NEW k \in DOMAIN q, k > 1, IsSave(q[k]), q[k].item = Head(q).item
        PROVE  /\ k - 1 \in DOMAIN Tail(q) /\ IsSave(Tail(q)[k - 1])
               /\ Tail(q)[k - 1].item = Head(q).item
    BY <1>1, <2>1
  <2> QED
    BY <1>1, <1>4, <2>1 DEF Agree
<1> QED
  BY <1>2, <1>3, <1>4 DEF Agree

(* A request is sent that is no save.                                      *)
LEMMA SentAgree ==
  ASSUME NEW q \in Seq(Requests), NEW r, ~IsSave(r),
         NEW p, NEW mine, NEW stored, NEW n, Agree(q, p, mine, stored, n)
  PROVE  Agree(Append(q, r), p, mine, stored, n)
<1>1. /\ Len(q) \in Nat /\ DOMAIN q = 1 .. Len(q) /\ DOMAIN Append(q, r) = 1 .. (Len(q) + 1)
      /\ \A k \in 1 .. Len(q) : Append(q, r)[k] = q[k]
      /\ Append(q, r)[Len(q) + 1] = r
  OBVIOUS
<1>2. \A k \in DOMAIN Append(q, r) :
        IsSave(Append(q, r)[k]) => k \in DOMAIN q /\ Append(q, r)[k] = q[k]
  BY <1>1
<1>3. \A k \in DOMAIN q : k \in DOMAIN Append(q, r) /\ Append(q, r)[k] = q[k]
  BY <1>1
<1> QED
  BY <1>2, <1>3 DEF Agree

(* An answer is shown and its save sent.                                   *)
LEMMA ShownAgree ==
  ASSUME NEW q \in Seq(Requests), NEW i \in Items, NEW v, NEW r,
         NEW p \in [attempt : Nat, shown : [Items -> Answers]],
         IsSave(r), r.item = i, r.answer = v, r.attempt = p.attempt, p.attempt # 0,
         NEW mine \in SUBSET Items, NEW stored, NEW n, Agree(q, p, mine, stored, n)
  PROVE  Agree(Append(q, r), [p EXCEPT !.shown[i] = v], mine, stored, n)
<1> DEFINE p2 == [p EXCEPT !.shown[i] = v]
<1>1. /\ Len(q) \in Nat /\ DOMAIN q = 1 .. Len(q) /\ DOMAIN Append(q, r) = 1 .. (Len(q) + 1)
      /\ \A k \in 1 .. Len(q) : Append(q, r)[k] = q[k]
      /\ Append(q, r)[Len(q) + 1] = r
  OBVIOUS
<1>2. p2.attempt = p.attempt /\ p2.shown[i] = v /\ \A j \in Items \ {i} : p2.shown[j] = p.shown[j]
  OBVIOUS
<1>3. ASSUME NEW k \in 1 .. Len(q), IsSave(q[k])
      PROVE  /\ q[k].attempt <= p.attempt /\ q[k].item \in Items
             /\ \/ q[k].item = i
                \/ q[k].answer = p2.shown[q[k].item]
                \/ \E j \in DOMAIN q : j > k /\ IsSave(q[j]) /\ q[j].item = q[k].item
  <2>1. q[k].item \in Items
    BY <1>3, RequestFields DEF IsSave
  <2> QED
    BY <1>2, <1>3, <2>1 DEF Agree
<1> HIDE DEF p2
<1>4. ASSUME NEW k \in DOMAIN Append(q, r), IsSave(Append(q, r)[k])
      PROVE  /\ p2.attempt # 0 /\ Append(q, r)[k].attempt <= p2.attempt
             /\ \/ Append(q, r)[k].answer = p2.shown[Append(q, r)[k].item]
                \/ \E j \in DOMAIN Append(q, r) :
                     j > k /\ IsSave(Append(q, r)[j])
                     /\ Append(q, r)[j].item = Append(q, r)[k].item
  <2>1. CASE k = Len(q) + 1
    BY <1>1, <1>2, <2>1
  <2>2. CASE k \in 1 .. Len(q)
    <3>1. Append(q, r)[k] = q[k] /\ Len(q) + 1 > k /\ Len(q) + 1 \in DOMAIN Append(q, r)
      BY <1>1, <2>2
    <3>2. \A j \in DOMAIN q : j \in DOMAIN Append(q, r) /\ Append(q, r)[j] = q[j]
      BY <1>1
    <3> QED
      BY <1>1, <1>2, <1>3, <1>4, <2>2, <3>1, <3>2
  <2> QED
    BY <1>1, <2>1, <2>2
<1>5. ASSUME NEW j \in mine
      PROVE  /\ p2.attempt \in {0, n}
             /\ \/ p2.attempt = 0 \/ stored[j] = p2.shown[j]
                \/ \E k \in DOMAIN Append(q, r) :
                     IsSave(Append(q, r)[k]) /\ Append(q, r)[k].item = j
  <2>1. CASE j = i
    BY <1>1, <1>2, <2>1 DEF Agree
  <2>2. CASE j # i
    <3>1. \A k \in DOMAIN q : k \in DOMAIN Append(q, r) /\ Append(q, r)[k] = q[k]
      BY <1>1
    <3> QED
      BY <1>2, <2>2, <3>1 DEF Agree
  <2> QED
    BY <2>1, <2>2
<1> QED
  BY <1>4, <1>5 DEF Agree, p2

(* Others save or the attempt changes elsewhere.                           *)
LEMMA FrameAgree ==
  ASSUME NEW q, NEW p, NEW mine, NEW stored, NEW n, Agree(q, p, mine, stored, n),
         NEW mine2, NEW stored2, NEW n2, mine2 \subseteq mine,
         \A i \in mine2 : n2 = n /\ stored2[i] = stored[i]
  PROVE  Agree(q, p, mine2, stored2, n2)
BY DEF Agree

(* A component begins with what is stored, and none of its saves wait.     *)
LEMMA FreshAgree ==
  ASSUME NEW q, \A k \in DOMAIN q : ~IsSave(q[k]),
         NEW p, NEW mine, NEW stored, NEW n,
         p.attempt \in {0, n}, p.attempt # 0 => \A i \in mine : p.shown[i] = stored[i]
  PROVE  Agree(q, p, mine, stored, n)
BY DEF Agree

(* A component is handed the latest attempt.                               *)
LEMMA KeptAgree ==
  ASSUME NEW q \in Seq(Requests), NEW p, NEW mine, NEW stored, NEW n \in Nat,
         Agree(q, p, mine, stored, n), p.attempt \in 1 .. n,
         NEW p2, p2.attempt = n, p2.shown = p.shown
  PROVE  Agree(q, p2, mine, stored, n)
<1>1. \A k \in DOMAIN q : q[k].attempt \in Nat
  BY RequestFields
<1> QED
  BY <1>1 DEF Agree

LEMMA LoadedAgrees ==
  ASSUME TypeOK
  PROVE  Loaded.attempt \in {0, Latest} /\ (Loaded.attempt # 0 => Loaded.shown = Stored)
BY DEF Loaded, Overview, Started, Stored

(* What leaves the page, the requests and the answers of a tab alone.      *)
LEMMA OtherAgrees ==
  ASSUME NEW u \in Tabs, PageAgrees(u), queue'[u] = queue[u], page'[u] = page[u],
         \A i \in Items : writer'[i] = u =>
           writer[i] = u /\ Latest' = Latest /\ Stored'[i] = Stored[i]
  PROVE  PageAgrees(u)'
<1> DEFINE mine2 == Mine(u)'
           stored2 == Stored'
           n2 == Latest'
<1>1. mine2 \subseteq Mine(u) /\ \A i \in mine2 : n2 = Latest /\ stored2[i] = Stored[i]
  BY DEF Mine
<1>2. Agree(queue[u], page[u], Mine(u), Stored, Latest)
  BY DEF PageAgrees
<1> HIDE DEF mine2, stored2, n2
<1>3. Agree(queue[u], page[u], mine2, stored2, n2)
  BY <1>1, <1>2, FrameAgree
<1> QED
  BY <1>3 DEF PageAgrees, mine2, stored2, n2

(* An attempt keeps its answers while its status, its deadline or its      *)
(* review change.                                                          *)
LEMMA AnswersStay ==
  ASSUME TypeOK, NEW n \in 1 .. Latest, NEW at, at.answers = attempts[n].answers,
         attempts' = [attempts EXCEPT ![n] = at]
  PROVE  Latest' = Latest /\ Stored' = Stored
<1>1. Latest \in Nat /\ DOMAIN attempts = 1 .. Latest /\ Latest' = Latest
  BY DEF TypeOK, Latest
<1>2. \A m \in 1 .. Latest : attempts'[m].answers = attempts[m].answers
  BY <1>1
<1>3. Latest \in 1 .. Latest
  BY <1>1
<1> QED
  BY <1>1, <1>2, <1>3 DEF Stored

(* Only a tab's own save changes the answers; a new attempt has none yet.  *)
LEMMA AnswersStep ==
  ASSUME TypeOK,
         \/ \E t \in Tabs : Page(t) \/ Refresh(t) \/ SubmitAttempt(t) \/ Refuse(t)
         \/ TimePasses \/ Review \/ (\E a \in Gates : ToggleAccess(a)) \/ UNCHANGED vars
  PROVE  Latest' = Latest /\ Stored' = Stored
<1>1. CASE UNCHANGED attempts
  BY <1>1 DEF Latest, Stored
<1>2. Latest \in Nat /\ DOMAIN attempts = 1 .. Latest /\ Started \in 0 .. Latest
  BY StartedRange DEF TypeOK, Latest
<1>3. \A n \in 1 .. Latest : attempts[n] \in Attempt
  BY AttemptAt DEF TypeOK
<1>4. ASSUME NEW t \in Tabs, SubmitAttempt(t)
      PROVE  Latest' = Latest /\ Stored' = Stored
  <2> DEFINE n == Served(t).attempt
             at == IF attempts[n].late THEN [attempts[n] EXCEPT !.status = "expired"]
                   ELSE Submitted(attempts[n])
  <2>1. n \in 1 .. Latest
    <3>1. Served(t) \in Requests /\ Served(t).attempt <= Latest /\ Served(t).kind = "submit"
      BY <1>4 DEF TypeOK, SubmitAttempt, Serving, Served
    <3> QED
      BY <1>2, <3>1, RequestFields
  <2>2. CASE attempts[n].status # "started"
    BY <1>1, <1>4, <2>2 DEF SubmitAttempt
  <2>3. CASE attempts[n].status = "started"
    <3>1. attempts' = [attempts EXCEPT ![n] = at]
      BY <1>4, <2>3 DEF SubmitAttempt
    <3>2. at.answers = attempts[n].answers
      BY <1>3, <2>1 DEF Submitted, Attempt
    <3> HIDE DEF at, n
    <3> QED
      BY <2>1, <3>1, <3>2, AnswersStay
  <2> QED
    BY <2>2, <2>3
<1>5. ASSUME TimePasses PROVE Latest' = Latest /\ Stored' = Stored
  <2> DEFINE at == [attempts[Started] EXCEPT !.late = TRUE]
  <2>1. Started \in 1 .. Latest /\ attempts' = [attempts EXCEPT ![Started] = at]
    BY <1>2, <1>5 DEF TimePasses
  <2>2. at.answers = attempts[Started].answers
    BY <1>3, <2>1 DEF Attempt
  <2> QED
    BY <2>1, <2>2, AnswersStay
<1>6. ASSUME NEW r \in Reviewers, NEW n \in 1 .. Latest, ClaimReview(r, n)
      PROVE  Latest' = Latest /\ Stored' = Stored
  <2> DEFINE at == [attempts[n] EXCEPT !.review = "in_review", !.reviewer = r]
  <2>1. attempts' = [attempts EXCEPT ![n] = at]
    BY <1>6 DEF ClaimReview
  <2>2. at.answers = attempts[n].answers
    BY <1>3 DEF Attempt
  <2> QED
    BY <2>1, <2>2, AnswersStay
<1>7. ASSUME NEW r \in Reviewers, NEW n \in 1 .. Latest, NEW s \in [Subjective -> Marks],
             CompleteReview(r, n, s)
      PROVE  Latest' = Latest /\ Stored' = Stored
  <2> DEFINE at == [Reviewed(attempts[n], s) EXCEPT !.reviewer = r]
  <2>1. attempts' = [attempts EXCEPT ![n] = at]
    BY <1>7 DEF CompleteReview
  <2>2. at.answers = attempts[n].answers
    BY <1>3 DEF Reviewed, Attempt
  <2> HIDE DEF at
  <2> QED
    BY <2>1, <2>2, AnswersStay
<1> QED
  BY <1>1, <1>2, <1>4, <1>5, <1>6, <1>7
  DEF Next, Page, Serve, Review, Load, ClickStart, ClickSubmit, Answer, Refresh, Refuse, ToggleAccess, vars

(* The answer a save stores, in the attempt that is started: the latest.   *)
LEMMA SaveStores ==
  ASSUME TypeOK, EarlierUnpassed, NEW t \in Tabs, SaveResponse(t)
  PROVE  /\ Served(t).attempt = Latest /\ Latest' = Latest /\ Served(t).item \in Items
         /\ Stored'[Served(t).item] = Served(t).answer
         /\ \A i \in Items \ {Served(t).item} : Stored'[i] = Stored[i]
<1> DEFINE r == Served(t)
           at == [attempts[r.attempt] EXCEPT !.answers[r.item] = r.answer]
<1>1. Latest \in Nat /\ DOMAIN attempts = 1 .. Latest
  BY DEF TypeOK, Latest
<1>2. r \in Requests /\ r.attempt <= Latest /\ r.kind \in {"save", "orphan"}
  BY DEF TypeOK, SaveResponse, ServingSave, Serving, Served
<1>3. r.attempt \in 1 .. Latest /\ r.item \in Items /\ r.answer \in Answers
  BY <1>1, <1>2, RequestFields
<1>4. r.attempt = Latest
  BY <1>1, <1>3 DEF SaveResponse, MaySave, EarlierUnpassed
<1>5. attempts' = [attempts EXCEPT ![Latest] = at]
  BY <1>4 DEF SaveResponse
<1>6. attempts[Latest] \in Attempt /\ Latest \in 1 .. Latest
  BY <1>1, <1>3, <1>4, AttemptAt DEF TypeOK
<1>7. /\ at.answers[r.item] = r.answer
      /\ \A i \in Items \ {r.item} : at.answers[i] = attempts[Latest].answers[i]
  BY <1>3, <1>4, <1>6 DEF Attempt
<1>8. Latest' = Latest /\ attempts'[Latest] = at
  BY <1>1, <1>5, <1>6 DEF Latest
<1> QED
  BY <1>3, <1>4, <1>7, <1>8 DEF Stored

(* The step of another tab.                                                *)
LEMMA OtherTabStep ==
  ASSUME AttemptAssumption, TypeOK, EarlierUnpassed,
         NEW u \in Tabs, NEW t \in Tabs \ {u}, PageAgrees(u), Page(t) \/ Serve(t)
  PROVE  PageAgrees(u)'
<1>1. queue'[u] = queue[u] /\ page'[u] = page[u]
  BY DEF TypeOK, Page, Serve, Load, ClickStart, ClickSubmit, Answer, Send, Refresh,
         StartAttempt, SaveResponse, SubmitAttempt, Refuse, Reply, ReplyOk
<1>2. writer \in [Items -> Tabs \cup {Nobody}] /\ u # Nobody /\ u # t
  BY DEF TypeOK, AttemptAssumption
<1>3. ASSUME NEW i \in Items, writer'[i] = u
      PROVE  writer[i] = u /\ Latest' = Latest /\ Stored'[i] = Stored[i]
  <2>1. CASE StartAttempt(t)
    BY <1>2, <1>3, <2>1 DEF StartAttempt
  <2>2. CASE SaveResponse(t)
    <3>1. writer' = [writer EXCEPT ![Served(t).item] = IF Serving(t, "save") THEN t ELSE Nobody]
      BY <2>2 DEF SaveResponse
    <3>2. i # Served(t).item
      BY <1>2, <1>3, <3>1
    <3> QED
      BY <1>2, <1>3, <2>2, <3>1, <3>2, SaveStores
  <2>3. CASE Page(t) \/ Refresh(t) \/ SubmitAttempt(t) \/ Refuse(t)
    <3>1. Latest' = Latest /\ Stored' = Stored
      BY <2>3, AnswersStep
    <3>2. writer' = writer \/ writer' = [writer EXCEPT ![Served(t).item] = Nobody]
      BY <2>3 DEF Page, Load, ClickStart, ClickSubmit, Answer, Refresh, SubmitAttempt, Refuse
    <3> QED
      BY <1>2, <1>3, <3>1, <3>2
  <2> QED
    BY <2>1, <2>2, <2>3 DEF Serve
<1> QED
  BY <1>1, <1>3, OtherAgrees

(* The page of the tab itself.                                             *)
LEMMA OwnPageStep ==
  ASSUME TypeOK, NEW t \in Tabs, PageAgrees(t), Page(t)
  PROVE  PageAgrees(t)'
<1>0. /\ Latest \in Nat /\ queue[t] \in Seq(Requests)
      /\ page[t] \in [attempt : Nat, shown : [Items -> Answers]]
      /\ page[t].attempt \in 0 .. Latest
      /\ queue \in [Tabs -> Seq(Requests)]
      /\ page \in [Tabs -> [attempt : 0 .. Latest, shown : [Items -> Answers]]]
  BY DEF TypeOK, Latest
<1>1. Agree(queue[t], page[t], Mine(t), Stored, Latest)
  BY DEF PageAgrees
<1>2. Latest' = Latest /\ Stored' = Stored
  BY AnswersStep
<1>3. writer' = writer /\ Mine(t)' = Mine(t)
  BY DEF Page, Load, ClickStart, ClickSubmit, Answer, Mine
<1>4. PageAgrees(t)' <=> Agree(queue'[t], page'[t], Mine(t), Stored, Latest)
  BY <1>2, <1>3 DEF PageAgrees
<1>5. CASE Load(t)
  <2> DEFINE sent == <<Head(queue[t])>>
  <2>1. page'[t] = Loaded
    BY <1>0, <1>5 DEF Load
  <2>2. \A k \in DOMAIN queue'[t] : ~IsSave(queue'[t][k])
    <3>1. CASE queue' = [queue EXCEPT ![t] = <<>>]
      BY <1>0, <3>1
    <3>2. CASE queue[t] # <<>> /\ queue' = [queue EXCEPT ![t] = Orphaned(sent)]
      <4>1. sent \in Seq(Requests) /\ \A k \in DOMAIN sent : sent[k].attempt <= Latest
        BY <3>2 DEF TypeOK
      <4>2. queue'[t] = Orphaned(sent)
        BY <1>0, <3>2
      <4> HIDE DEF sent
      <4> QED
        BY <1>0, <4>1, <4>2, OrphanedType DEF IsSave
    <3> QED
      BY <1>5, <3>1, <3>2 DEF Load
  <2> QED
    BY <1>4, <2>1, <2>2, LoadedAgrees, FreshAgree
<1>6. CASE ClickStart(t)
  <2>1. /\ page'[t] = page[t]
        /\ queue'[t] = Append(queue[t], Request("start", 0, Nobody, Blank))
        /\ ~IsSave(Request("start", 0, Nobody, Blank))
    BY <1>0, <1>6 DEF ClickStart, Send, IsSave, Request
  <2> QED
    BY <1>0, <1>1, <1>4, <2>1, SentAgree
<1>7. CASE ClickSubmit(t)
  <2>1. /\ page'[t] = page[t]
        /\ queue'[t] = Append(queue[t], Request("submit", page[t].attempt, Nobody, Blank))
        /\ ~IsSave(Request("submit", page[t].attempt, Nobody, Blank))
    BY <1>0, <1>7 DEF ClickSubmit, Send, IsSave, Request
  <2> QED
    BY <1>0, <1>1, <1>4, <2>1, SentAgree
<1>8. ASSUME NEW i \in Items, NEW v \in Offered[i], Answer(t, i, v)
      PROVE  PageAgrees(t)'
  <2> DEFINE r == Request("save", page[t].attempt, i, v)
  <2>1. /\ page'[t] = [page[t] EXCEPT !.shown[i] = v]
        /\ queue'[t] = Append(queue[t], r) /\ page[t].attempt # 0
    BY <1>0, <1>8 DEF Answer, Send
  <2>2. IsSave(r) /\ r.item = i /\ r.answer = v /\ r.attempt = page[t].attempt
    BY DEF IsSave, Request
  <2>3. Mine(t) \in SUBSET Items
    BY DEF Mine
  <2> HIDE DEF r
  <2>4. Agree(Append(queue[t], r), [page[t] EXCEPT !.shown[i] = v], Mine(t), Stored, Latest)
    BY <1>0, <1>1, <2>1, <2>2, <2>3, ShownAgree
  <2> QED
    BY <1>4, <2>1, <2>4
<1> QED
  BY <1>5, <1>6, <1>7, <1>8 DEF Page

(* A request of the tab itself is answered.                                *)
LEMMA OwnServeStep ==
  ASSUME AttemptAssumption, TypeOK, EarlierUnpassed, NEW t \in Tabs, PageAgrees(t), Serve(t)
  PROVE  PageAgrees(t)'
<1> DEFINE q == queue[t]
           r == Head(q)
<1>0. /\ Latest \in Nat /\ q \in Seq(Requests) /\ q # <<>> /\ r = Served(t)
      /\ page[t].attempt \in 0 .. Latest
      /\ queue \in [Tabs -> Seq(Requests)]
      /\ page \in [Tabs -> [attempt : 0 .. Latest, shown : [Items -> Answers]]]
      /\ writer \in [Items -> Tabs \cup {Nobody}] /\ t # Nobody
      /\ r \in Requests /\ r.attempt <= Latest /\ Tail(q) \in Seq(Requests)
      /\ \A k \in DOMAIN Tail(q) : Tail(q)[k].attempt <= Latest
  <2>1. q # <<>>
    BY DEF Serve, Refresh, StartAttempt, SaveResponse, SubmitAttempt, Refuse, ServingSave, Serving
  <2> QED
    BY <2>1 DEF TypeOK, Latest, Served, AttemptAssumption
<1>1. Agree(q, page[t], Mine(t), Stored, Latest)
  BY DEF PageAgrees
<1>2. ~IsSave(Refreshing)
  BY DEF IsSave, Refreshing, Request
<1>3. CASE Refresh(t)
  <2>1. Latest' = Latest /\ Stored' = Stored /\ Mine(t)' = Mine(t)
    BY <1>3, AnswersStep DEF Refresh, Mine
  <2>2. page'[t] = Retained(page[t]) /\ ~IsSave(r)
    BY <1>0, <1>3 DEF Refresh, Serving, IsSave
  <2>3. CASE Kept(page[t])
    <3>1. queue'[t] = Tail(q)
      BY <1>0, <1>3, <2>3 DEF Refresh
    <3>2. Agree(Tail(q), page[t], Mine(t), Stored, Latest)
      BY <1>0, <1>1, <2>2, AnsweredAgree
    <3>3. page'[t].attempt = Latest /\ page'[t].shown = page[t].shown /\ page[t].attempt \in 1 .. Latest
      <4>1. Loaded \in [attempt : 0 .. Latest, shown : [Items -> Answers]]
        BY LoadedType DEF TypeOK
      <4> QED
        BY <1>0, <2>2, <2>3, <4>1, LoadedAgrees DEF Retained, Kept
    <3> QED
      BY <1>0, <2>1, <3>1, <3>2, <3>3, KeptAgree DEF PageAgrees
  <2>4. CASE ~Kept(page[t])
    <3>1. queue'[t] = Orphaned(Tail(q)) /\ page'[t] = Loaded
      BY <1>0, <1>3, <2>2, <2>4 DEF Refresh, Retained
    <3>2. \A k \in DOMAIN queue'[t] : ~IsSave(queue'[t][k])
      BY <1>0, <3>1, OrphanedType DEF IsSave
    <3> QED
      BY <2>1, <3>1, <3>2, LoadedAgrees, FreshAgree DEF PageAgrees
  <2> QED
    BY <2>3, <2>4
<1>4. CASE StartAttempt(t)
  <2>1. queue'[t] = Append(Tail(q), Refreshing) /\ page'[t] = page[t] /\ ~IsSave(r)
    BY <1>0, <1>4 DEF StartAttempt, ReplyOk, Serving, IsSave
  <2>2. Mine(t)' = {}
    BY <1>0, <1>4 DEF StartAttempt, Mine
  <2> DEFINE stored2 == Stored'
             n2 == Latest'
  <2> HIDE DEF stored2, n2
  <2>3. Agree(q, page[t], {}, stored2, n2)
    BY <1>1, FrameAgree
  <2>4. Agree(Tail(q), page[t], {}, stored2, n2)
    BY <1>0, <2>1, <2>3, AnsweredAgree
  <2>5. Agree(Append(Tail(q), Refreshing), page[t], {}, stored2, n2)
    BY <1>0, <1>2, <2>4, SentAgree
  <2> QED
    BY <2>1, <2>2, <2>5 DEF PageAgrees, stored2, n2
<1>5. CASE SaveResponse(t)
  <2> DEFINE stored2 == Stored'
             mine2 == Mine(t)'
  <2>1. /\ r.attempt = Latest /\ Latest' = Latest /\ r.item \in Items
        /\ stored2[r.item] = r.answer
        /\ \A i \in Items \ {r.item} : stored2[i] = Stored[i]
    BY <1>0, <1>5, SaveStores
  <2>2. queue'[t] = Tail(q) /\ page'[t] = page[t]
    BY <1>0, <1>5 DEF SaveResponse, Reply
  <2>3. writer' = [writer EXCEPT ![r.item] = IF Serving(t, "save") THEN t ELSE Nobody]
    BY <1>0, <1>5 DEF SaveResponse
  <2>4. mine2 = IF Serving(t, "save") THEN Mine(t) \cup {r.item} ELSE Mine(t) \ {r.item}
    BY <1>0, <2>1, <2>3 DEF Mine
  <2>5. Serving(t, "save") <=> IsSave(r)
    BY <1>0 DEF Serving, IsSave
  <2>6. Mine(t) \subseteq Items
    BY DEF Mine
  <2> HIDE DEF stored2, mine2
  <2>7. CASE IsSave(r)
    <3>1. page[t].attempt = Latest
      <4>1. r.attempt <= page[t].attempt
        BY <1>0, <1>1, <2>7 DEF Agree
      <4> QED
        BY <1>0, <2>1, <4>1
    <3>2. \A i \in mine2 \ {r.item} : i \in Mine(t) /\ stored2[i] = Stored[i]
      BY <2>1, <2>4, <2>5, <2>6, <2>7
    <3>3. Agree(Tail(q), page[t], mine2, stored2, Latest)
      BY <1>0, <1>1, <2>1, <2>7, <3>1, <3>2, SavedAgree
    <3> QED
      BY <2>1, <2>2, <3>3 DEF PageAgrees, stored2, mine2
  <2>8. CASE ~IsSave(r)
    <3>1. mine2 \subseteq Mine(t) /\ \A i \in mine2 : stored2[i] = Stored[i]
      BY <2>1, <2>4, <2>5, <2>6, <2>8
    <3>2. Agree(q, page[t], mine2, stored2, Latest)
      BY <1>1, <3>1, FrameAgree
    <3>3. Agree(Tail(q), page[t], mine2, stored2, Latest)
      BY <1>0, <2>8, <3>2, AnsweredAgree
    <3> QED
      BY <2>1, <2>2, <3>3 DEF PageAgrees, stored2, mine2
  <2> QED
    BY <2>7, <2>8
<1>6. CASE SubmitAttempt(t)
  <2>1. Latest' = Latest /\ Stored' = Stored /\ Mine(t)' = Mine(t)
    BY <1>6, AnswersStep DEF SubmitAttempt, Mine
  <2>2. queue'[t] = Append(Tail(q), Refreshing) /\ page'[t] = page[t] /\ ~IsSave(r)
    BY <1>0, <1>6 DEF SubmitAttempt, ReplyOk, Serving, IsSave
  <2>3. Agree(Append(Tail(q), Refreshing), page[t], Mine(t), Stored, Latest)
    BY <1>0, <1>1, <1>2, <2>2, AnsweredAgree, SentAgree
  <2> QED
    BY <2>1, <2>2, <2>3 DEF PageAgrees
<1>7. CASE Refuse(t)
  <2> DEFINE mine2 == Mine(t)'
  <2>1. Latest' = Latest /\ Stored' = Stored
    BY <1>7, AnswersStep
  <2>2. queue'[t] = Tail(q) /\ page'[t] = page[t]
    BY <1>0, <1>7 DEF Refuse, Reply
  <2>3. mine2 \subseteq Mine(t) /\ (IsSave(r) => mine2 \subseteq Mine(t) \ {r.item})
    BY <1>0, <1>7 DEF Refuse, Serving, IsSave, Mine
  <2> HIDE DEF mine2
  <2>4. CASE IsSave(r)
    <3>1. Agree(Tail(q), page[t], mine2, Stored, Latest)
      BY <1>0, <1>1, <2>3, <2>4, SavedAgree
    <3> QED
      BY <2>1, <2>2, <3>1 DEF PageAgrees, mine2
  <2>5. CASE ~IsSave(r)
    <3>1. Agree(q, page[t], mine2, Stored, Latest)
      BY <1>1, <2>3, FrameAgree
    <3>2. Agree(Tail(q), page[t], mine2, Stored, Latest)
      BY <1>0, <2>5, <3>1, AnsweredAgree
    <3> QED
      BY <2>1, <2>2, <3>2 DEF PageAgrees, mine2
  <2> QED
    BY <2>4, <2>5
<1> QED
  BY <1>3, <1>4, <1>5, <1>6, <1>7 DEF Serve

LEMMA AgreeStep ==
  ASSUME AttemptAssumption, TypeOK, EarlierUnpassed, [Next]_vars, NEW u \in Tabs, PageAgrees(u)
  PROVE  PageAgrees(u)'
<1>1. ASSUME NEW t \in Tabs, Page(t) \/ Serve(t) PROVE PageAgrees(u)'
  <2>1. CASE t = u
    BY <1>1, <2>1, OwnPageStep, OwnServeStep
  <2>2. CASE t # u
    BY <1>1, <2>2, OtherTabStep
  <2> QED
    BY <2>1, <2>2
<1>2. CASE TimePasses \/ Review \/ (\E a \in Gates : ToggleAccess(a)) \/ UNCHANGED vars
  <2>1. Latest' = Latest /\ Stored' = Stored
    BY <1>2, AnswersStep
  <2>2. UNCHANGED <<page, queue, writer>>
    BY <1>2 DEF TimePasses, Review, ClaimReview, CompleteReview, ToggleAccess, vars
  <2> QED
    BY <2>1, <2>2, OtherAgrees
<1> QED
  BY <1>1, <1>2 DEF Next

(* What a component was the last to save and shows is what is stored once  *)
(* its requests are answered: with any number of tabs, requests waiting,   *)
(* attempts, and changes of access, whatever is refused in between.        *)
THEOREM OwnAnswersAlwaysKept == Spec => []OwnAnswersKept
<1> DEFINE Inv == EarlierUnpassed /\ \A t \in Tabs : PageAgrees(t)
<1>1. Init => Inv
  BY DEF Init, EarlierUnpassed, PageAgrees, Agree, Mine, Overview, Latest
<1>2. TypeOK /\ Inv /\ [Next]_vars => Inv'
  BY AttemptAssumption, LifeStep, AgreeStep
<1>3. Inv => OwnAnswersKept
  <2> SUFFICES ASSUME Inv, NEW t \in Tabs, NEW i \in Items,
                      page[t].attempt # 0, queue[t] = <<>>, writer[i] = t
               PROVE  attempts[Latest].answers[i] = page[t].shown[i]
    BY DEF OwnAnswersKept
  <2>1. Agree(queue[t], page[t], Mine(t), Stored, Latest) /\ i \in Mine(t)
    BY DEF PageAgrees, Mine
  <2> QED
    BY <2>1 DEF Agree, Stored
<1> QED
  BY <1>1, <1>2, <1>3, AttemptTypeCorrect, PTL DEF Spec
=============================================================================
