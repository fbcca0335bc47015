----------------------------- MODULE DraftEditor -----------------------------
(***************************************************************************)
(* Drafts and their publication.  A lesson, an assessment and a brand are  *)
(* edited the same way: a page keeps a working copy, the server stores the *)
(* draft when the author saves it, and publishing saves, validates what is *)
(* stored and freezes it.  They differ in how a save writes:               *)
(*   lesson       deletes all its rows, then inserts those it was sent;    *)
(*   assessment   deletes the rows it was not sent, then upserts the       *)
(*                others one by one, in order;                             *)
(*   brand        overwrites one document.                                 *)
(* Every request to the database is a transaction of its own, hence an     *)
(* action here, and nothing locks the draft between two of them.           *)
(*                                                                         *)
(* Blocks can also be appended to the rows of a lesson from elsewhere: the *)
(* library, or a generated draft that is accepted.                         *)
(***************************************************************************)
EXTENDS Integers, Sequences, FiniteSetsExt

CONSTANTS
  Kinds,        \* some of "lesson", "assessment", "brand"
  Tabs,
  Ids,          \* ids of items: those stored at first, then random ones
  First,        \* [1 .. n -> Ids], the stored items in order
  Bodies,       \* [Kinds -> sets of contents]
  Savable, Publishable,   \* contents a save accepts, a publication accepts
  Blankish,     \* what a new item holds
  LastPosition, \* the last position that fits its column
  Appends, Size, Content, \* calls that append, [Appends -> number of blocks], their content
  MaxEdits, MaxVersions   \* bounds; a crash counts as an edit

ASSUME DraftAssumption ==
  /\ Kinds \subseteq {"lesson", "assessment", "brand"}
  /\ Publishable \subseteq Savable /\ Content \in Savable
  /\ \A k \in Kinds : Blankish \in Bodies[k] /\ Publishable \cap Bodies[k] # {}
  /\ First \in Seq(Ids) /\ First # <<>>
  /\ \A m, n \in DOMAIN First : First[m] = First[n] => m = n
  /\ LastPosition \in Nat /\ Len(First) <= LastPosition + 1
  /\ Size \in [Appends -> Nat \ {0}]
  /\ MaxEdits \in Nat /\ MaxVersions \in Nat
  /\ IsFiniteSet(Ids) /\ IsFiniteSet(Tabs)

VARIABLES
  kind,     \* what the draft is of
  stored,   \* the rows of the draft
  versions, \* what was published, in order
  editor,   \* per tab: the working copy, whether it is dirty, how its last call ended
  call,     \* per tab: the server action under way
  append,   \* per append: how far it is
  edits     \* how many edits and crashes there were

vars == <<kind, stored, versions, editor, call, append, edits>>

(* A position is "a0" followed by as many "n"s.                            *)
Positions == 0 .. LastPosition + 1
AppendIds == UNION {{<<a, k>> : k \in 1 .. Size[a]} : a \in Appends}
Contents == (UNION {Bodies[k] : k \in Kinds}) \cup {Content}
Item == [id : Ids \cup AppendIds, pos : Positions, body : Contents]
Row(i, p, b) == [id |-> i, pos |-> p, body |-> b]

NextPosition(items) == IF items = {} THEN 0 ELSE Max({i.pos : i \in items}) + 1
Accepted(items) == \A i \in items : i.body \in Savable
Presentable(items) == \A i \in items : i.body \in Publishable

Fits(items) == \A i \in items : i.pos <= LastPosition

(* The database refuses two rows of one id or one position, and a position *)
(* that is too long.                                                       *)
Clash(r, s) == r.id = s.id \/ r.pos = s.pos
Insertable(items) ==
  Fits(items) /\ \A i \in items : \A r \in stored : ~Clash(r, i)
Upsertable(i) ==
  i.pos <= LastPosition /\ \A r \in stored : r.pos = i.pos => r.id = i.id

Idle == [step |-> "idle", publish |-> FALSE, sent |-> {}, left |-> {}, intact |-> TRUE]
Busy(t) == call[t].step # "idle"

(* A brand without a draft shows the base theme.                           *)
BaseTheme == Row(First[1], 0, CHOOSE b \in Publishable \cap Bodies["brand"] : TRUE)
Shown(rows) == IF kind = "brand" /\ rows = {} THEN {BaseTheme} ELSE rows
Fresh(items) == [items |-> items, dirty |-> FALSE, result |-> "none", intact |-> TRUE]
Loaded(rows) == Fresh(Shown(rows))

-----------------------------------------------------------------------------
(* Editing the working copy, also while a call is under way                *)

Changed(t, items) ==
  /\ edits < MaxEdits /\ edits' = edits + 1
  /\ editor' = [editor EXCEPT ![t] = [Fresh(items) EXCEPT !.dirty = TRUE]]
  /\ UNCHANGED <<kind, stored, versions, call, append>>

Rows(t) == editor[t].items

(* The fields of an item.                                                  *)
EditBody(t, i, b) ==
  b # i.body /\ Changed(t, (Rows(t) \ {i}) \cup {[i EXCEPT !.body = b]})

Next2(t, i, j) == i.pos < j.pos /\ \A k \in Rows(t) : ~(i.pos < k.pos /\ k.pos < j.pos)

(* Two neighbours exchange their positions.                                *)
Move(t, i, j) ==
  /\ kind # "brand" /\ Next2(t, i, j)
  /\ Changed(t, (Rows(t) \ {i, j})
                  \cup {[i EXCEPT !.pos = j.pos], [j EXCEPT !.pos = i.pos]})

Unused ==
  {i \in Ids : /\ \A r \in stored : r.id # i
               /\ \A t \in Tabs : \A r \in Rows(t) \cup call[t].sent : r.id # i
               /\ \A n \in DOMAIN versions : \A r \in versions[n].items : r.id # i}

Add(t, b) ==
  /\ kind # "brand" /\ NextPosition(Rows(t)) \in Positions
  /\ \E i \in Unused : Changed(t, Rows(t) \cup {Row(i, NextPosition(Rows(t)), b)})

Insert(t) == Add(t, Blankish)
Duplicate(t, i) == kind = "lesson" /\ Add(t, i.body)
Delete(t, i) == kind # "brand" /\ Changed(t, Rows(t) \ {i})

Reload(t) ==
  /\ ~Busy(t) /\ editor' = [editor EXCEPT ![t] = Loaded(stored)]
  /\ UNCHANGED <<kind, stored, versions, call, append, edits>>

-----------------------------------------------------------------------------
(* The buttons.  One call of a tab is under way at a time.                 *)

Click(t, step, publish) ==
  /\ ~Busy(t)
  /\ call' = [call EXCEPT ![t] = [Idle EXCEPT !.step = step, !.publish = publish,
                                    !.sent = Rows(t), !.left = Rows(t)]]
  /\ editor' = [editor EXCEPT ![t].result = "none", ![t].intact = TRUE]
  /\ UNCHANGED <<kind, stored, versions, append, edits>>

FirstStep == IF kind = "brand" THEN "write" ELSE "clear"

(* Both the button and saveLessonBlocksAction, saveAssessmentAction and    *)
(* saveBrandDraftAction ask this.                                          *)
MaySaveAnything(t) == TRUE
MaySave(t) == Accepted(Rows(t))

ClickSave(t) == MaySave(t) /\ Click(t, FirstStep, FALSE)

Publishing == {t \in Tabs : call[t].publish}

ClickPublish(t) ==
  /\ MaySave(t) /\ Rows(t) # {} /\ (kind = "brand" => Presentable(Rows(t)))
  /\ Len(versions) + Cardinality(Publishing) < MaxVersions
  /\ Click(t, FirstStep, TRUE)

ClickRevert(t) == kind = "brand" /\ Click(t, "look", FALSE)

-----------------------------------------------------------------------------
(* The steps of a server action                                            *)

Continue(t, c) == call' = [call EXCEPT ![t] = c]

(* Writing the draft, which the calls of other tabs do not notice.         *)
Write(t, rows, c) ==
  /\ stored' = rows
  /\ call' = [u \in Tabs |-> IF u = t THEN c
                             ELSE IF Busy(u) THEN [call[u] EXCEPT !.intact = FALSE]
                             ELSE call[u]]
  /\ UNCHANGED <<kind, versions, editor, append, edits>>

Finish(t, ok) ==
  /\ Continue(t, Idle)
  /\ editor' = [editor EXCEPT ![t].dirty = @ /\ ~ok,
                              ![t].result = IF ok THEN "ok"
                                            ELSE IF Fits(call[t].sent) THEN "failed" ELSE "long",
                              ![t].intact = call[t].intact]

Fail(t) == Finish(t, FALSE) /\ UNCHANGED <<kind, stored, versions, append, edits>>

At(t, k, step) == kind = k /\ call[t].step = step
To(t, step) == [call[t] EXCEPT !.step = step]
Least(items) == CHOOSE i \in items : \A j \in items : i.pos <= j.pos

ClearNothing(t) == At(t, "lesson", "clear") /\ Write(t, stored, To(t, "write"))
ClearLesson(t) == At(t, "lesson", "clear") /\ Write(t, {}, To(t, "write"))

ClearAssessment(t) ==
  /\ At(t, "assessment", "clear")
  /\ Write(t, {r \in stored : \E s \in call[t].sent : s.id = r.id}, To(t, "write"))

WriteLesson(t) ==
  /\ At(t, "lesson", "write") /\ Insertable(call[t].left)
  /\ Write(t, stored \cup call[t].left, [To(t, "saved") EXCEPT !.left = {}])

InsertNew(t, i) ==
  Write(t, IF \E r \in stored : r.id = i.id THEN stored ELSE stored \cup {i},
        [call[t] EXCEPT !.left = @ \ {i}])
Upsert(t, i) ==
  Write(t, {r \in stored : r.id # i.id} \cup {i}, [call[t] EXCEPT !.left = @ \ {i}])

WriteAssessment(t) ==
  /\ At(t, "assessment", "write") /\ call[t].left # {}
  /\ Upsertable(Least(call[t].left)) /\ Upsert(t, Least(call[t].left))

EndAssessment(t) ==
  /\ At(t, "assessment", "write") /\ call[t].left = {} /\ Continue(t, To(t, "saved"))
  /\ UNCHANGED <<kind, stored, versions, editor, append, edits>>

WriteBrand(t) ==
  At(t, "brand", "write") /\ Write(t, call[t].sent, [To(t, "saved") EXCEPT !.left = {}])

WriteFails(t) ==
  /\ \/ At(t, "lesson", "write") /\ ~Insertable(call[t].left)
     \/ /\ At(t, "assessment", "write") /\ call[t].left # {}
        /\ ~Upsertable(Least(call[t].left))
  /\ Fail(t)

(* A save is over; publishing goes on.                                     *)
EndSave(t) ==
  /\ call[t].step = "saved" /\ ~call[t].publish /\ Finish(t, TRUE)
  /\ UNCHANGED <<kind, stored, versions, append, edits>>

(* What publishLessonAction, publishAssessmentAction and                   *)
(* publishBrandAction read and validate.                                   *)
Passes(rows) ==
  CASE kind = "lesson" -> Accepted(rows)
    [] kind = "assessment" -> Accepted(rows) /\ rows # {}
    [] kind = "brand" -> Presentable(rows) /\ rows # {}

Check(t) ==
  /\ call[t].step = "saved" /\ call[t].publish /\ Passes(stored)
  /\ Continue(t, [To(t, "freeze") EXCEPT !.left = stored])
  /\ UNCHANGED <<kind, stored, versions, editor, append, edits>>

CheckFails(t) ==
  call[t].step = "saved" /\ call[t].publish /\ ~Passes(stored) /\ Fail(t)

(* publish_lesson and publish_assessment freeze the rows they find;        *)
(* publishBrandAction writes what it validated.                            *)
Frozen(t) == IF kind = "brand" THEN call[t].left ELSE stored

Freeze(t) ==
  /\ call[t].step = "freeze" /\ Frozen(t) # {} /\ Finish(t, TRUE)
  /\ versions' = Append(versions, [items |-> Frozen(t), sent |-> call[t].sent,
                                   intact |-> call[t].intact])
  /\ UNCHANGED <<kind, stored, append, edits>>

FreezeFails(t) == call[t].step = "freeze" /\ Frozen(t) = {} /\ Fail(t)

LiveTheme == IF versions = <<>> THEN {} ELSE versions[Len(versions)].items

RevertLooks(t) ==
  /\ call[t].step = "look" /\ Continue(t, [To(t, "revert") EXCEPT !.left = LiveTheme])
  /\ UNCHANGED <<kind, stored, versions, editor, append, edits>>

RevertWrites(t) ==
  /\ call[t].step = "revert" /\ Write(t, call[t].left, To(t, "reverted"))

(* The working copy is replaced, whatever was edited meanwhile.            *)
RevertEnds(t) ==
  /\ call[t].step = "reverted" /\ Continue(t, Idle)
  /\ editor' = [editor EXCEPT ![t] = Loaded(call[t].left)]
  /\ UNCHANGED <<kind, stored, versions, append, edits>>

(* The function or the connection dies; the page is loaded again.          *)
Crash(t) ==
  /\ Busy(t) /\ edits < MaxEdits /\ edits' = edits + 1
  /\ Continue(t, Idle) /\ editor' = [editor EXCEPT ![t] = Loaded(stored)]
  /\ UNCHANGED <<kind, stored, versions, append>>

-----------------------------------------------------------------------------
(* Appending to a lesson: the last position is read once.                  *)

Look(a) ==
  /\ kind = "lesson" /\ append[a].step = "none"
  /\ append' = [append EXCEPT ![a].step = "insert", ![a].at = NextPosition(stored)]
  /\ UNCHANGED <<kind, stored, versions, editor, call, edits>>

Appended(a) == Row(<<a, append[a].count + 1>>, append[a].at, Content)

LastOne(a) == append[a].count + 1 = Size[a]

AppendOne(a) ==
  /\ append[a].step = "insert" /\ Insertable({Appended(a)})
  /\ stored' = stored \cup {Appended(a)}
  /\ append' = [append EXCEPT ![a].at = @ + 1, ![a].count = @ + 1,
                  ![a].step = IF LastOne(a) THEN "done" ELSE "insert"]
  /\ call' = [u \in Tabs |-> IF Busy(u) THEN [call[u] EXCEPT !.intact = FALSE] ELSE call[u]]
  /\ UNCHANGED <<kind, versions, editor, edits>>

AppendFails(a) ==
  /\ append[a].step = "insert" /\ ~Insertable({Appended(a)})
  /\ append' = [append EXCEPT ![a].step = "failed"]
  /\ UNCHANGED <<kind, stored, versions, editor, call, edits>>

-----------------------------------------------------------------------------
Init ==
  /\ kind \in Kinds
  /\ \E b \in Publishable \cap Bodies[kind] :
       stored = {Row(First[n], n - 1, b) : n \in 1 .. IF kind = "brand" THEN 1 ELSE Len(First)}
  /\ versions = <<>>
  /\ editor = [t \in Tabs |-> Loaded(stored)] /\ call = [t \in Tabs |-> Idle]
  /\ append = [a \in Appends |-> [step |-> "none", at |-> 0, count |-> 0]]
  /\ edits = 0

Edit(t) ==
  \/ \E i \in Rows(t) : \/ \E b \in Bodies[kind] : EditBody(t, i, b)
                        \/ \E j \in Rows(t) : Move(t, i, j)
                        \/ Duplicate(t, i) \/ Delete(t, i)
  \/ Insert(t) \/ Reload(t)

Save(t) ==
  \/ ClickSave(t) \/ ClearLesson(t) \/ ClearAssessment(t)
  \/ WriteLesson(t) \/ WriteAssessment(t) \/ EndAssessment(t) \/ WriteBrand(t)
  \/ WriteFails(t) \/ EndSave(t) \/ Crash(t)

Publish(t) ==
  ClickPublish(t) \/ Check(t) \/ CheckFails(t) \/ Freeze(t) \/ FreezeFails(t)

Revert(t) == ClickRevert(t) \/ RevertLooks(t) \/ RevertWrites(t) \/ RevertEnds(t)

AppendStep(a) == Look(a) \/ AppendOne(a) \/ AppendFails(a)

Next ==
  \/ \E t \in Tabs : Edit(t) \/ Save(t) \/ Publish(t) \/ Revert(t)
  \/ \E a \in Appends : AppendStep(a)

Spec == Init /\ [][Next]_vars

-----------------------------------------------------------------------------
(* Properties                                                              *)

Steps ==
  {"idle", "clear", "write", "saved", "freeze", "look", "revert", "reverted"}

Editor ==
  [items : SUBSET Item, dirty : BOOLEAN, result : {"none", "ok", "failed", "long"},
   intact : BOOLEAN]
Call ==
  [step : Steps, publish : BOOLEAN, sent : SUBSET Item, left : SUBSET Item, intact : BOOLEAN]
Version == [items : SUBSET Item, sent : SUBSET Item, intact : BOOLEAN]

(* Every variable has its type; the rows stored fit their columns, and no  *)
(* append inserts more than it has.                                        *)
TypeOK ==
  /\ kind \in Kinds
  /\ stored \in SUBSET Item /\ Fits(stored)
  /\ versions \in Seq(Version)
  /\ editor \in [Tabs -> Editor]
  /\ call \in [Tabs -> Call]
  /\ append \in [Appends -> [step : {"none", "insert", "done", "failed"},
                             at : Positions, count : Nat]]
  /\ \A a \in Appends : append[a].count \in 0 .. Size[a]
  /\ edits \in 0 .. MaxEdits

Distinct(items) == \A i, j \in items : Clash(i, j) => i = j

(* What is published is never empty, has one item per id and per position, *)
(* and passed the validation of its kind, although the rows may change     *)
(* between the validation and publish_lesson or publish_assessment.        *)
VersionsValid ==
  \A n \in DOMAIN versions :
    LET items == versions[n].items
    IN  /\ items # {} /\ Accepted(items)
        /\ kind = "brand" => Presentable(items)
        /\ Distinct(items)

(* What publishNow publishes is what it was sent, item by item, unless     *)
(* someone else wrote the draft meanwhile; what the author edits while the *)
(* call is under way is not part of it.                                    *)
PublishedAsSent ==
  \A n \in DOMAIN versions : versions[n].intact => versions[n].items = versions[n].sent

(* Nothing but another writer, or a position that no longer fits its       *)
(* column, makes the save of a valid draft fail: that is so of lessons and *)
(* brands, whose saves replace the draft as a whole.                       *)
LessonSavesSucceed ==
  kind # "assessment" => \A t \in Tabs : editor[t].result = "failed" => ~editor[t].intact

(* saveAssessmentAction, too, says that it replaces the draft items (not   *)
(* so: it moves them one by one, and the position of an item that changed  *)
(* places with its neighbour is still taken).                              *)
SavesReplaceDraft == \A t \in Tabs : editor[t].result = "failed" => ~editor[t].intact

(* A save that is refused leaves a draft in place (not so of lessons: the  *)
(* rows are gone before the insert fails).                                 *)
FailureKeepsDraft ==
  \A t \in Tabs : editor[t].result \in {"failed", "long"} => stored # {}

(* A tab that shows "Saved" shows what is stored, when no other tab and    *)
(* nothing else writes the draft (not so: a save that ends clears the mark *)
(* although the author went on editing).                                   *)
SavedIsStored ==
  \A t \in Tabs :
    ~editor[t].dirty /\ editor[t].result = "ok" /\ editor[t].intact /\ ~Busy(t)
      => stored = editor[t].items

(* When every tab has saved, the draft is what one of them sent (not so:   *)
(* the deletions of two saves may both come before their insertions).      *)
LastSaveWins ==
  (\A t \in Tabs : editor[t].result = "ok" /\ ~editor[t].dirty /\ ~Busy(t))
    => \E t \in Tabs : stored = editor[t].items
=============================================================================
