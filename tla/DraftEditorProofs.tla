-------------------------- MODULE DraftEditorProofs --------------------------
(***************************************************************************)
(* Theorems about DraftEditor.                                             *)
(***************************************************************************)
EXTENDS DraftEditor, SequenceTheorems, WellFoundedInduction, TLAPS

(* An append that is not over has a block left, and what each call holds   *)
(* at each of its steps.                                                   *)
AppendsHaveLeft ==
  \A a \in Appends : append[a].step \in {"none", "insert"} => append[a].count < Size[a]

(* Rows that go back to the draft fit its column.                          *)
FitInv ==
  /\ \A n \in DOMAIN versions : Fits(versions[n].items)
  /\ \A t \in Tabs :
       call[t].step \in {"freeze", "revert", "reverted"} => Fits(call[t].left)
  /\ kind = "brand" => \A t \in Tabs : Fits(editor[t].items) /\ Fits(call[t].sent)

RowsSound == Distinct(stored) /\ Accepted(stored)
EditorsDistinct == \A t \in Tabs : Distinct(editor[t].items)

CallSound(c) ==
  /\ Distinct(c.sent)
  /\ c.step \in {"clear", "write"} => Accepted(c.sent) /\ c.left \subseteq c.sent
  /\ c.step \in {"freeze", "revert", "reverted"} => Distinct(c.left) /\ Accepted(c.left)
  /\ c.step = "freeze" /\ kind = "brand" => Presentable(c.left)
CallsSound == \A t \in Tabs : CallSound(call[t])

SoundInv == RowsSound /\ EditorsDistinct /\ CallsSound /\ VersionsValid

(* How the rows compare with what an undisturbed call sent.                *)
Reached(c, rows) ==
  c.intact =>
    /\ c.step = "write" /\ kind = "lesson" => rows = {} /\ c.left = c.sent
    /\ c.step = "write" /\ kind = "assessment" =>
         /\ c.sent \ c.left \subseteq rows
         /\ \A r \in rows : r \in c.sent \ c.left \/ \E s \in c.left : s.id = r.id
    /\ c.step \in {"saved", "freeze"} => rows = c.sent
    /\ c.step = "freeze" => c.left = c.sent
    /\ c.step = "clear" => c.left = c.sent
CallReached(c) == Reached(c, stored)
CallsReached == \A t \in Tabs : CallReached(call[t])
-----------------------------------------------------------------------------
(* Positions                                                               *)

(* A bounded, non-empty set of naturals has a maximum.                     *)
LEMMA MaxExists ==
  ASSUME NEW N \in Nat, NEW S \in SUBSET (0 .. N), S # {}
  PROVE  Max(S) \in S /\ \A y \in S : Max(S) >= y
<1> DEFINE R == OpToRel(<, Nat)
           T == {n \in Nat : \E s \in S : n = N - s}
<1>1. \E x \in T : \A y \in T : ~(<<y, x>> \in R)
  <2>1. T \subseteq Nat
    OBVIOUS
  <2>2. T # {}
    <3>1. PICK s \in S : TRUE
      OBVIOUS
    <3>2. N - s \in T
      BY <3>1
    <3>3. QED BY <3>2
  <2>3. IsWellFoundedOn(R, Nat)
    BY NatLessThanWellFounded
  <2> HIDE DEF R, T
  <2>4. QED BY <2>1, <2>2, <2>3, WFMin, Zenon
<1>2. \A x, y \in Nat : x < y => <<x, y>> \in R
  BY DEF OpToRel
<1>3. PICK x \in T : \A y \in T : ~(y < x)
  <2> HIDE DEF R
  <2>1. T \subseteq Nat
    OBVIOUS
  <2> HIDE DEF T
  <2>2. QED BY <1>1, <1>2, <2>1
<1>4. PICK s \in S : x = N - s
  BY <1>3
<1>5. \A y \in S : s >= y
  <2> SUFFICES ASSUME NEW y \in S, y > s PROVE FALSE
    BY <1>4
  <2>1. N - y \in T
    OBVIOUS
  <2>2. N - y < x
    BY <1>4
  <2> HIDE DEF T
  <2>3. QED BY <2>1, <2>2, <1>3
<1>6. QED BY <1>5 DEF Max

LEMMA NextPositionFree ==
  ASSUME NEW items \in SUBSET Item
  PROVE  /\ NextPosition(items) \in Nat
         /\ \A i \in items : i.pos < NextPosition(items)
         /\ Fits(items) => NextPosition(items) \in Positions
<1> DEFINE S == {i.pos : i \in items}
<1>1. LastPosition + 1 \in Nat
  BY DraftAssumption DEF DraftAssumption
<1>2. S \in SUBSET (0 .. LastPosition + 1)
  BY DEF Item, Positions
<1>3. CASE items = {}
  BY <1>1, <1>3 DEF NextPosition, Positions
<1>4. CASE items # {}
  <2>1. S # {}
    BY <1>4
  <2>2. NextPosition(items) = Max(S) + 1
    BY <1>4 DEF NextPosition
  <2>3. \A i \in items : i.pos \in S
    OBVIOUS
  <2>4. Fits(items) => \A p \in S : p <= LastPosition
    BY DEF Fits
  <2>0. LastPosition \in Nat
    BY DraftAssumption DEF DraftAssumption
  <2> HIDE DEF S
  <2>5. Max(S) \in S /\ \A y \in S : Max(S) >= y
    BY <1>1, <1>2, <2>1, MaxExists
  <2>6. Max(S) \in Nat /\ Max(S) <= LastPosition + 1 /\ LastPosition \in Nat
    <3>1. Max(S) \in 0 .. LastPosition + 1
      BY <1>2, <2>5, Zenon
    <3>2. QED BY <2>0, <3>1
  <2>7. \A i \in items : i.pos \in Nat /\ i.pos <= Max(S)
    <3> SUFFICES ASSUME NEW i \in items PROVE i.pos \in Nat /\ i.pos <= Max(S)
      OBVIOUS
    <3>1. i.pos \in S
      BY <2>3
    <3>2. i.pos \in 0 .. LastPosition + 1 /\ Max(S) >= i.pos
      BY <1>2, <2>5, <3>1, Zenon
    <3>3. QED BY <2>0, <2>6, <3>2
  <2>8. Fits(items) => Max(S) <= LastPosition
    BY <2>4, <2>5, Zenon
  <2>9. QED BY <2>2, <2>6, <2>7, <2>8 DEF Positions
<1>5. QED BY <1>3, <1>4

-----------------------------------------------------------------------------
(* Types                                                                   *)

LEMMA RowType ==
  ASSUME NEW i \in Ids \cup AppendIds, NEW p \in Positions, NEW b \in Contents
  PROVE  Row(i, p, b) \in Item
BY DEF Row, Item

LEMMA LoadedType ==
  ASSUME kind \in Kinds, NEW rows \in SUBSET Item
  PROVE  Loaded(rows) \in Editor
<1>1. CASE kind = "brand"
  <2>1. \E b : b \in Publishable \cap Bodies["brand"]
    BY <1>1, DraftAssumption DEF DraftAssumption
  <2>2. (CHOOSE b \in Publishable \cap Bodies["brand"] : TRUE) \in Bodies["brand"]
    BY <2>1
  <2>3. Bodies["brand"] \subseteq Contents
    BY <1>1 DEF Contents
  <2>4. First[1] \in Ids /\ 0 \in Positions
    BY DraftAssumption DEF DraftAssumption, Positions
  <2>5. BaseTheme \in Item
    BY <2>2, <2>3, <2>4 DEF BaseTheme, Row, Item
  <2>6. QED BY <2>5 DEF Loaded, Shown, Fresh, Editor
<1>2. CASE kind # "brand"
  BY <1>2 DEF Loaded, Shown, Fresh, Editor
<1>3. QED BY <1>1, <1>2

LEMMA InitTyped == Init => TypeOK /\ AppendsHaveLeft
<1> SUFFICES ASSUME Init PROVE TypeOK /\ AppendsHaveLeft
  OBVIOUS
<1> USE DraftAssumption
<1> DEFINE Length == IF kind = "brand" THEN 1 ELSE Len(First)
<1>1. PICK b \in Publishable \cap Bodies[kind] :
        stored = {Row(First[n], n - 1, b) : n \in 1 .. Length}
  BY DEF Init
<1>2. kind \in Kinds /\ b \in Contents
  BY DEF Init, Contents
<1>3. Length \in Nat /\ Length <= Len(First) /\ Len(First) <= LastPosition + 1
  BY DEF DraftAssumption
<1>4. \A n \in 1 .. Length : First[n] \in Ids /\ n - 1 \in Positions /\ n - 1 <= LastPosition
  BY <1>3 DEF DraftAssumption, Positions
<1>5. stored \in SUBSET Item
  BY <1>1, <1>2, <1>4 DEF Row, Item
<1>6. Fits(stored)
  BY <1>1, <1>4 DEF Row, Fits
<1>7. Idle \in Call
  BY DEF Idle, Call, Steps
<1>8. editor \in [Tabs -> Editor]
  BY <1>2, <1>5, LoadedType DEF Init
<1>9. versions \in Seq(Version) /\ edits \in 0 .. MaxEdits
  BY DEF Init, DraftAssumption
<1>10. append = [a \in Appends |-> [step |-> "none", at |-> 0, count |-> 0]]
  BY DEF Init
<1>11. 0 \in Positions /\ \A a \in Appends : Size[a] \in Nat \ {0}
  BY DEF DraftAssumption, Positions
<1>12. /\ append \in [Appends -> [step : {"none", "insert", "done", "failed"},
                                 at : Positions, count : Nat]]
       /\ \A a \in Appends : append[a].count \in 0 .. Size[a]
       /\ AppendsHaveLeft
  BY <1>10, <1>11 DEF AppendsHaveLeft
<1>13. call \in [Tabs -> Call]
  BY <1>7 DEF Init
<1>14. QED BY <1>2, <1>5, <1>6, <1>8, <1>9, <1>12, <1>13 DEF TypeOK

(* The facts about one tab that the type invariant gives.                  *)
LEMMA TabTyped ==
  ASSUME TypeOK, NEW t \in Tabs
  PROVE  /\ Rows(t) \in SUBSET Item /\ editor[t] \in Editor
         /\ call[t] \in Call /\ call[t].sent \in SUBSET Item
         /\ call[t].left \in SUBSET Item
         /\ call[t].publish \in BOOLEAN /\ call[t].intact \in BOOLEAN
<1>1. editor[t] \in Editor /\ call[t] \in Call
  BY DEF TypeOK
<1>2. QED BY <1>1 DEF Rows, Editor, Call

LEMMA ChangedTyped ==
  ASSUME TypeOK, AppendsHaveLeft, NEW t \in Tabs, NEW items \in SUBSET Item, Changed(t, items)
  PROVE  TypeOK' /\ AppendsHaveLeft'
<1>1. [Fresh(items) EXCEPT !.dirty = TRUE] \in Editor
  BY DEF Fresh, Editor
<1>2. editor' \in [Tabs -> Editor]
  BY <1>1 DEF Changed, TypeOK
<1>3. edits' \in 0 .. MaxEdits
  BY DraftAssumption DEF Changed, TypeOK, DraftAssumption
<1>4. UNCHANGED <<kind, stored, versions, call, append>>
  BY DEF Changed
<1>5. QED BY <1>2, <1>3, <1>4 DEF TypeOK, AppendsHaveLeft, Fits

LEMMA EditTyped ==
  ASSUME TypeOK, AppendsHaveLeft, NEW t \in Tabs, Edit(t)
  PROVE  TypeOK' /\ AppendsHaveLeft'
<1>1. Rows(t) \in SUBSET Item
  BY TabTyped
<1>2. ASSUME NEW i \in Rows(t), NEW b \in Bodies[kind], EditBody(t, i, b)
      PROVE  TypeOK' /\ AppendsHaveLeft'
  <2>1. b \in Contents
    BY DEF TypeOK, Contents
  <2>2. i \in Item
    BY <1>1
  <2>3. [i EXCEPT !.body = b] \in Item
    BY <2>1, <2>2 DEF Item
  <2>4. (Rows(t) \ {i}) \cup {[i EXCEPT !.body = b]} \in SUBSET Item
    BY <1>1, <2>3
  <2>5. QED BY <1>2, <2>4, ChangedTyped DEF EditBody
<1>3. ASSUME NEW i \in Rows(t), NEW j \in Rows(t), Move(t, i, j)
      PROVE  TypeOK' /\ AppendsHaveLeft'
  <2>1. i \in Item /\ j \in Item
    BY <1>1
  <2>2. [i EXCEPT !.pos = j.pos] \in Item /\ [j EXCEPT !.pos = i.pos] \in Item
    BY <2>1 DEF Item
  <2>3. (Rows(t) \ {i, j}) \cup {[i EXCEPT !.pos = j.pos], [j EXCEPT !.pos = i.pos]}
          \in SUBSET Item
    BY <1>1, <2>2
  <2>4. QED BY <1>3, <2>3, ChangedTyped DEF Move
<1>4. ASSUME NEW b \in Contents, Add(t, b)
      PROVE  TypeOK' /\ AppendsHaveLeft'
  <2>1. PICK i \in Unused : Changed(t, Rows(t) \cup {Row(i, NextPosition(Rows(t)), b)})
    BY <1>4 DEF Add
  <2>2. i \in Ids \cup AppendIds /\ NextPosition(Rows(t)) \in Positions
    BY <1>4 DEF Add, Unused
  <2>3. Rows(t) \cup {Row(i, NextPosition(Rows(t)), b)} \in SUBSET Item
    BY <1>1, <2>2, RowType
  <2>4. QED BY <2>1, <2>3, ChangedTyped
<1>5. ASSUME NEW i \in Rows(t), Duplicate(t, i)
      PROVE  TypeOK' /\ AppendsHaveLeft'
  <2>1. i.body \in Contents
    BY <1>1 DEF Item
  <2>2. QED BY <1>4, <1>5, <2>1 DEF Duplicate
<1>6. ASSUME NEW i \in Rows(t), Delete(t, i)
      PROVE  TypeOK' /\ AppendsHaveLeft'
  <2>1. Rows(t) \ {i} \in SUBSET Item
    BY <1>1
  <2>2. QED BY <1>6, <2>1, ChangedTyped DEF Delete
<1>7. CASE Insert(t)
  <2>1. Blankish \in Contents
    BY DraftAssumption DEF DraftAssumption, TypeOK, Contents
  <2>2. QED BY <1>4, <1>7, <2>1 DEF Insert
<1>8. CASE Reload(t)
  <2>1. Loaded(stored) \in Editor
    BY LoadedType DEF TypeOK
  <2>2. editor' \in [Tabs -> Editor]
    BY <1>8, <2>1 DEF Reload, TypeOK
  <2>3. QED BY <1>8, <2>2 DEF Reload, TypeOK, AppendsHaveLeft, Fits
<1>9. QED BY <1>2, <1>3, <1>5, <1>6, <1>7, <1>8 DEF Edit

-----------------------------------------------------------------------------
(* A step of a call changes the draft, the call, or both the call and the  *)
(* working copy.                                                           *)

LEMMA IdleTyped == Idle \in Call
BY DEF Idle, Call, Steps

LEMMA ToTyped ==
  ASSUME TypeOK, NEW t \in Tabs, NEW step \in Steps
  PROVE  To(t, step) \in Call
<1>1. call[t] \in Call
  BY DEF TypeOK
<1>2. QED BY <1>1 DEF To, Call

LEMMA WriteTyped ==
  ASSUME TypeOK, AppendsHaveLeft, NEW t \in Tabs,
         NEW rows \in SUBSET Item, Fits(rows), NEW c \in Call, Write(t, rows, c)
  PROVE  TypeOK' /\ AppendsHaveLeft'
<1>1. \A u \in Tabs : [call[u] EXCEPT !.intact = FALSE] \in Call
  <2> SUFFICES ASSUME NEW u \in Tabs PROVE [call[u] EXCEPT !.intact = FALSE] \in Call
    OBVIOUS
  <2>1. call[u] \in Call
    BY DEF TypeOK
  <2>2. QED BY <2>1 DEF Call
<1>2. call' \in [Tabs -> Call]
  BY <1>1 DEF Write, TypeOK
<1>3. stored' \in SUBSET Item /\ Fits(stored)'
  BY DEF Write, Fits
<1>4. UNCHANGED <<kind, versions, editor, append, edits>>
  BY DEF Write
<1>5. QED BY <1>2, <1>3, <1>4 DEF TypeOK, AppendsHaveLeft

LEMMA ContinueTyped ==
  ASSUME TypeOK, AppendsHaveLeft, NEW t \in Tabs, NEW c \in Call, Continue(t, c),
         editor' \in [Tabs -> Editor], edits' \in 0 .. MaxEdits,
         UNCHANGED <<kind, stored, append>>, versions' \in Seq(Version)
  PROVE  TypeOK' /\ AppendsHaveLeft'
<1>1. call' \in [Tabs -> Call]
  BY DEF Continue, TypeOK
<1>2. QED BY <1>1 DEF TypeOK, AppendsHaveLeft, Fits

LEMMA FinishTyped ==
  ASSUME TypeOK, AppendsHaveLeft, NEW t \in Tabs, NEW ok \in BOOLEAN, Finish(t, ok),
         UNCHANGED <<kind, stored, append, edits>>, versions' \in Seq(Version)
  PROVE  TypeOK' /\ AppendsHaveLeft'
<1>1. editor[t] \in Editor /\ call[t].intact \in BOOLEAN
  BY TabTyped
<1>2. editor' \in [Tabs -> Editor]
  BY <1>1 DEF Finish, TypeOK, Editor
<1>3. edits' \in 0 .. MaxEdits
  BY DEF TypeOK
<1>4. Continue(t, Idle)
  BY DEF Finish
<1>5. QED BY <1>2, <1>3, <1>4, IdleTyped, ContinueTyped

LEMMA MinExists ==
  ASSUME NEW S \in SUBSET Nat, S # {}
  PROVE  \E x \in S : \A y \in S : x <= y
<1> DEFINE R == OpToRel(<, Nat)
<1>1. \E x \in S : \A y \in S : ~(<<y, x>> \in R)
  <2>1. IsWellFoundedOn(R, Nat)
    BY NatLessThanWellFounded
  <2> HIDE DEF R
  <2>2. QED BY <2>1, WFMin, Zenon
<1>2. \A x, y \in Nat : x < y => <<x, y>> \in R
  BY DEF OpToRel
<1> HIDE DEF R
<1>3. PICK x \in S : \A y \in S : ~(<<y, x>> \in R)
  BY <1>1
<1>4. ASSUME NEW y \in S PROVE x <= y
  <2>1. x \in Nat /\ y \in Nat
    OBVIOUS
  <2>2. ~(y < x)
    BY <1>2, <1>3, <2>1, Zenon
  <2>3. QED BY <2>1, <2>2
<1>5. QED BY <1>4

LEMMA LeastExists ==
  ASSUME NEW items \in SUBSET Item, items # {}
  PROVE  Least(items) \in items /\ \A j \in items : Least(items).pos <= j.pos
<1> DEFINE S == {i.pos : i \in items}
<1>1. LastPosition \in Nat
  BY DraftAssumption DEF DraftAssumption
<1>2. S \subseteq Nat
  BY <1>1 DEF Item, Positions
<1>3. S # {}
  OBVIOUS
<1>4. PICK x \in S : \A y \in S : x <= y
  <2> HIDE DEF S
  <2>1. QED BY <1>2, <1>3, MinExists
<1>5. PICK i \in items : i.pos = x
  OBVIOUS
<1>6. \A j \in items : i.pos <= j.pos
  BY <1>4, <1>5
<1>7. QED BY <1>6 DEF Least

LEMMA SaveTyped ==
  ASSUME TypeOK, AppendsHaveLeft, FitInv, NEW t \in Tabs, Save(t)
  PROVE  TypeOK' /\ AppendsHaveLeft'
<1> DEFINE Goal == TypeOK' /\ AppendsHaveLeft'
<1>1. /\ call[t] \in Call /\ editor[t] \in Editor /\ Rows(t) \in SUBSET Item
      /\ call[t].sent \in SUBSET Item /\ call[t].left \in SUBSET Item
  BY TabTyped
<1>2. stored \in SUBSET Item /\ Fits(stored) /\ versions \in Seq(Version)
  BY DEF TypeOK
<1>3. CASE ClickSave(t)
  <2>1. [Idle EXCEPT !.step = FirstStep, !.publish = FALSE,
                     !.sent = Rows(t), !.left = Rows(t)] \in Call
    BY <1>1 DEF Idle, Call, Steps, FirstStep
  <2>2. call' \in [Tabs -> Call] /\ editor' \in [Tabs -> Editor]
    BY <1>1, <1>3, <2>1 DEF ClickSave, Click, TypeOK, Editor
  <2>3. QED BY <1>3, <2>2 DEF ClickSave, Click, TypeOK, AppendsHaveLeft, Fits
<1>4. CASE ClearLesson(t)
  <2>1. To(t, "write") \in Call
    BY ToTyped DEF Steps
  <2>2. Fits({})
    BY DEF Fits
  <2>3. QED BY <1>4, <2>1, <2>2, WriteTyped DEF ClearLesson
<1>5. CASE ClearAssessment(t)
  <2> DEFINE kept == {r \in stored : \E s \in call[t].sent : s.id = r.id}
  <2>1. To(t, "write") \in Call
    BY ToTyped DEF Steps
  <2>2. kept \in SUBSET Item /\ Fits(kept)
    BY <1>2 DEF Fits
  <2>3. QED BY <1>5, <2>1, <2>2, WriteTyped DEF ClearAssessment
<1>6. CASE WriteLesson(t)
  <2>1. To(t, "saved") \in Call
    BY ToTyped DEF Steps
  <2>2. [To(t, "saved") EXCEPT !.left = {}] \in Call
    BY <2>1 DEF Call
  <2>3. Fits(call[t].left)
    BY <1>6 DEF WriteLesson, Insertable
  <2>4. stored \cup call[t].left \in SUBSET Item /\ Fits(stored \cup call[t].left)
    BY <1>1, <1>2, <2>3 DEF Fits
  <2>5. QED BY <1>6, <2>2, <2>4, WriteTyped DEF WriteLesson
<1>7. CASE WriteAssessment(t)
  <2> DEFINE i == Least(call[t].left)
             rows == {r \in stored : r.id # i.id} \cup {i}
  <2>1. i \in call[t].left
    BY <1>1, <1>7, LeastExists DEF WriteAssessment
  <2>2. [call[t] EXCEPT !.left = @ \ {i}] \in Call
    BY <1>1 DEF Call
  <2>3. i.pos <= LastPosition
    BY <1>7 DEF WriteAssessment, Upsertable
  <2>4. rows \in SUBSET Item /\ Fits(rows)
    BY <1>1, <1>2, <2>1, <2>3 DEF Fits
  <2>5. Write(t, rows, [call[t] EXCEPT !.left = @ \ {i}])
    BY <1>7 DEF WriteAssessment, Upsert
  <2> HIDE DEF i, rows
  <2>6. QED BY <2>2, <2>4, <2>5, WriteTyped
<1>8. CASE EndAssessment(t)
  <2>1. To(t, "saved") \in Call
    BY ToTyped DEF Steps
  <2>2. editor' \in [Tabs -> Editor] /\ edits' \in 0 .. MaxEdits /\ versions' \in Seq(Version)
    BY <1>8 DEF EndAssessment, TypeOK
  <2>3. QED BY <1>8, <2>1, <2>2, ContinueTyped DEF EndAssessment
<1>9. CASE WriteBrand(t)
  <2>1. To(t, "saved") \in Call
    BY ToTyped DEF Steps
  <2>2. [To(t, "saved") EXCEPT !.left = {}] \in Call
    BY <2>1 DEF Call
  <2>3. Fits(call[t].sent)
    BY <1>9 DEF WriteBrand, At, FitInv
  <2>4. QED BY <1>1, <1>9, <2>2, <2>3, WriteTyped DEF WriteBrand
<1>10. CASE WriteFails(t)
  <2>1. Fail(t)
    BY <1>10 DEF WriteFails
  <2>2. QED BY <1>2, <2>1, FinishTyped DEF Fail
<1>11. CASE EndSave(t)
  BY <1>2, <1>11, FinishTyped DEF EndSave
<1>12. CASE Crash(t)
  <2>1. Loaded(stored) \in Editor
    BY <1>2, LoadedType DEF TypeOK
  <2>2. editor' \in [Tabs -> Editor] /\ edits' \in 0 .. MaxEdits /\ versions' \in Seq(Version)
    BY <1>2, <1>12, <2>1, DraftAssumption DEF Crash, TypeOK, DraftAssumption
  <2>3. QED BY <1>12, <2>2, IdleTyped, ContinueTyped DEF Crash
<1>13. QED
  BY <1>3, <1>4, <1>5, <1>6, <1>7, <1>8, <1>9, <1>10, <1>11, <1>12 DEF Save

LEMMA PublishTyped ==
  ASSUME TypeOK, AppendsHaveLeft, FitInv, NEW t \in Tabs, Publish(t)
  PROVE  TypeOK' /\ AppendsHaveLeft'
<1>1. /\ call[t] \in Call /\ editor[t] \in Editor /\ Rows(t) \in SUBSET Item
      /\ call[t].sent \in SUBSET Item /\ call[t].left \in SUBSET Item
      /\ call[t].intact \in BOOLEAN
  BY TabTyped
<1>2. stored \in SUBSET Item /\ versions \in Seq(Version)
  BY DEF TypeOK
<1>3. CASE ClickPublish(t)
  <2>1. [Idle EXCEPT !.step = FirstStep, !.publish = TRUE,
                     !.sent = Rows(t), !.left = Rows(t)] \in Call
    BY <1>1 DEF Idle, Call, Steps, FirstStep
  <2>2. call' \in [Tabs -> Call] /\ editor' \in [Tabs -> Editor]
    BY <1>1, <1>3, <2>1 DEF ClickPublish, Click, TypeOK, Editor
  <2>3. QED BY <1>3, <2>2 DEF ClickPublish, Click, TypeOK, AppendsHaveLeft, Fits
<1>4. CASE Check(t)
  <2>1. To(t, "freeze") \in Call
    BY ToTyped DEF Steps
  <2>2. [To(t, "freeze") EXCEPT !.left = stored] \in Call
    BY <1>2, <2>1 DEF Call
  <2>3. editor' \in [Tabs -> Editor] /\ edits' \in 0 .. MaxEdits /\ versions' \in Seq(Version)
    BY <1>4 DEF Check, TypeOK
  <2>4. QED BY <1>4, <2>2, <2>3, ContinueTyped DEF Check
<1>5. CASE CheckFails(t)
  BY <1>2, <1>5, FinishTyped DEF CheckFails, Fail
<1>6. CASE Freeze(t)
  <2>1. [items |-> Frozen(t), sent |-> call[t].sent, intact |-> call[t].intact] \in Version
    BY <1>1, <1>2 DEF Frozen, Version
  <2>2. versions' \in Seq(Version)
    BY <1>2, <1>6, <2>1, AppendProperties DEF Freeze
  <2>3. QED BY <1>6, <2>2, FinishTyped DEF Freeze
<1>7. CASE FreezeFails(t)
  BY <1>2, <1>7, FinishTyped DEF FreezeFails, Fail
<1>8. QED BY <1>3, <1>4, <1>5, <1>6, <1>7 DEF Publish

LEMMA RevertTyped ==
  ASSUME TypeOK, AppendsHaveLeft, FitInv, NEW t \in Tabs, Revert(t)
  PROVE  TypeOK' /\ AppendsHaveLeft'
<1>1. /\ call[t] \in Call /\ editor[t] \in Editor /\ Rows(t) \in SUBSET Item
      /\ call[t].left \in SUBSET Item
  BY TabTyped
<1>2. stored \in SUBSET Item /\ versions \in Seq(Version) /\ kind \in Kinds
      /\ edits \in 0 .. MaxEdits /\ editor \in [Tabs -> Editor]
  BY DEF TypeOK
<1>3. CASE ClickRevert(t)
  <2>1. [Idle EXCEPT !.step = "look", !.publish = FALSE,
                     !.sent = Rows(t), !.left = Rows(t)] \in Call
    BY <1>1 DEF Idle, Call, Steps
  <2>2. call' \in [Tabs -> Call] /\ editor' \in [Tabs -> Editor]
    BY <1>1, <1>3, <2>1 DEF ClickRevert, Click, TypeOK, Editor
  <2>3. QED BY <1>3, <2>2 DEF ClickRevert, Click, TypeOK, AppendsHaveLeft, Fits
<1>4. CASE RevertLooks(t)
  <2>1. To(t, "revert") \in Call
    BY ToTyped DEF Steps
  <2>2. LiveTheme \in SUBSET Item
    <3>1. CASE versions = <<>>
      BY <3>1 DEF LiveTheme
    <3>2. CASE versions # <<>>
      <4>1. versions[Len(versions)] \in Version
        BY <1>2, <3>2
      <4>2. QED BY <3>2, <4>1 DEF LiveTheme, Version
    <3>3. QED BY <3>1, <3>2
  <2>3. [To(t, "revert") EXCEPT !.left = LiveTheme] \in Call
    BY <2>1, <2>2 DEF Call
  <2>4. UNCHANGED <<kind, stored, versions, editor, append, edits>>
    BY <1>4 DEF RevertLooks
  <2>5. editor' \in [Tabs -> Editor] /\ edits' \in 0 .. MaxEdits /\ versions' \in Seq(Version)
    BY <1>2, <2>4
  <2>6. QED BY <1>4, <2>3, <2>4, <2>5, ContinueTyped DEF RevertLooks
<1>5. CASE RevertWrites(t)
  <2>1. To(t, "reverted") \in Call
    BY ToTyped DEF Steps
  <2>2. Fits(call[t].left)
    BY <1>5 DEF RevertWrites, FitInv
  <2>3. QED BY <1>1, <1>5, <2>1, <2>2, WriteTyped DEF RevertWrites
<1>6. CASE RevertEnds(t)
  <2>1. Loaded(call[t].left) \in Editor
    BY <1>1, <1>2, LoadedType
  <2>2. UNCHANGED <<kind, stored, versions, append, edits>>
    BY <1>6 DEF RevertEnds
  <2>3. editor' \in [Tabs -> Editor] /\ edits' \in 0 .. MaxEdits /\ versions' \in Seq(Version)
    BY <1>2, <1>6, <2>1, <2>2 DEF RevertEnds
  <2>4. QED BY <1>6, <2>2, <2>3, IdleTyped, ContinueTyped DEF RevertEnds
<1>7. QED BY <1>3, <1>4, <1>5, <1>6 DEF Revert

LEMMA AppendTyped ==
  ASSUME TypeOK, AppendsHaveLeft, NEW a \in Appends, AppendStep(a)
  PROVE  TypeOK' /\ AppendsHaveLeft'
<1> DEFINE State == [step : {"none", "insert", "done", "failed"}, at : Positions, count : Nat]
<1>1. append \in [Appends -> State] /\ stored \in SUBSET Item /\ Fits(stored)
  BY DEF TypeOK
<1>2. Size[a] \in Nat /\ LastPosition \in Nat
  BY DraftAssumption DEF DraftAssumption
<1>3. append[a] \in State /\ append[a].count \in 0 .. Size[a]
  BY <1>1 DEF TypeOK
<1>4. CASE Look(a)
  <2>1. NextPosition(stored) \in Positions
    BY <1>1, NextPositionFree
  <2>2. append' \in [Appends -> State]
    BY <1>1, <1>3, <1>4, <2>1 DEF Look
  <2>3. /\ \A b \in Appends : append'[b].count = append[b].count
        /\ \A b \in Appends : b # a => append'[b] = append[b]
    BY <1>1, <1>4 DEF Look
  <2>4. append[a].step = "none" /\ append[a].count < Size[a]
    BY <1>4 DEF Look, AppendsHaveLeft
  <2>5. QED BY <1>4, <2>2, <2>3, <2>4 DEF Look, TypeOK, AppendsHaveLeft, Fits
<1>5. CASE AppendOne(a)
  <2>1. append[a].count < Size[a]
    BY <1>5 DEF AppendOne, AppendsHaveLeft
  <2>2. <<a, append[a].count + 1>> \in AppendIds
    BY <1>2, <1>3, <2>1 DEF AppendIds
  <2>3. Appended(a) \in Item
    BY <1>3, <2>2, RowType DEF Appended, Contents
  <2>4. append[a].at <= LastPosition
    BY <1>5 DEF AppendOne, Insertable, Fits, Appended, Row
  <2>5. append[a].at + 1 \in Positions
    BY <1>2, <1>3, <2>4 DEF Positions
  <2>6. append[a].count + 1 \in 0 .. Size[a]
    BY <1>2, <1>3, <2>1
  <2>7. stored' \in SUBSET Item /\ Fits(stored)'
    BY <1>1, <1>5, <2>3 DEF AppendOne, Insertable, Fits
  <2>8. append' \in [Appends -> State]
    BY <1>1, <1>3, <1>5, <2>5, <2>6 DEF AppendOne
  <2>9. /\ append'[a].count = append[a].count + 1
        /\ append'[a].step \in {"none", "insert"} => append[a].count + 1 # Size[a]
        /\ \A b \in Appends : b # a => append'[b] = append[b]
    BY <1>1, <1>5 DEF AppendOne, LastOne
  <2>10. AppendsHaveLeft'
    BY <2>1, <2>6, <2>9, <1>2, <1>3 DEF AppendsHaveLeft
  <2>11. \A b \in Appends : append'[b].count \in 0 .. Size[b]
    BY <2>6, <2>9 DEF TypeOK
  <2>12. \A u \in Tabs : [call[u] EXCEPT !.intact = FALSE] \in Call
    <3> SUFFICES ASSUME NEW u \in Tabs PROVE [call[u] EXCEPT !.intact = FALSE] \in Call
      OBVIOUS
    <3>1. call[u] \in Call
      BY TabTyped
    <3>2. QED BY <3>1 DEF Call
  <2>13. call' \in [Tabs -> Call]
    BY <1>5, <2>12 DEF AppendOne, TypeOK
  <2>14. UNCHANGED <<kind, versions, editor, edits>>
    BY <1>5 DEF AppendOne
  <2>15. QED BY <2>7, <2>8, <2>10, <2>11, <2>13, <2>14 DEF TypeOK
<1>6. CASE AppendFails(a)
  <2>1. append' \in [Appends -> State]
    BY <1>1, <1>3, <1>6 DEF AppendFails
  <2>2. /\ \A b \in Appends : append'[b].count = append[b].count
        /\ \A b \in Appends : b # a => append'[b] = append[b]
        /\ append'[a].step = "failed"
    BY <1>1, <1>6 DEF AppendFails
  <2>3. QED BY <1>6, <2>1, <2>2 DEF AppendFails, TypeOK, AppendsHaveLeft, Fits
<1>7. QED BY <1>4, <1>5, <1>6 DEF AppendStep

(* What the parts of a step do to the rows that go back to the draft.      *)
LEMMA OthersFit ==
  ASSUME FitInv, NEW t \in Tabs, kind' = kind,
         \A n \in DOMAIN versions' : Fits(versions'[n].items),
         \A u \in Tabs : u # t =>
           /\ call'[u].step = call[u].step /\ call'[u].sent = call[u].sent
           /\ call'[u].left = call[u].left /\ editor'[u] = editor[u],
         call'[t].step \in {"freeze", "revert", "reverted"} => Fits(call'[t].left),
         kind = "brand" => Fits(editor'[t].items) /\ Fits(call'[t].sent)
  PROVE  FitInv'
BY DEF FitInv, Fits

LEMMA WriteFits ==
  ASSUME TypeOK, FitInv, NEW t \in Tabs, NEW rows, NEW c, Write(t, rows, c),
         c.sent = call[t].sent,
         c.step \in {"freeze", "revert", "reverted"} => Fits(c.left)
  PROVE  FitInv'
<1>1. UNCHANGED <<kind, versions, editor>>
  BY DEF Write
<1>2. \A u \in Tabs : call[u] \in Call
  BY DEF TypeOK
<1>3. call'[t] = c
  BY DEF Write
<1>4. \A u \in Tabs : u # t =>
        /\ call'[u].step = call[u].step /\ call'[u].sent = call[u].sent
        /\ call'[u].left = call[u].left
  BY <1>2 DEF Write, Call
<1>5. /\ \A n \in DOMAIN versions : Fits(versions[n].items)
      /\ kind = "brand" => Fits(editor[t].items) /\ Fits(call[t].sent)
  BY DEF FitInv
<1>6. QED BY <1>1, <1>3, <1>4, <1>5, OthersFit

(* The call of the tab is over or goes on, and its working copy fits.      *)
LEMMA ContinueFits ==
  ASSUME TypeOK, FitInv, NEW t \in Tabs, NEW c, Continue(t, c), kind' = kind,
         \A n \in DOMAIN versions' : Fits(versions'[n].items),
         \A u \in Tabs : u # t => editor'[u] = editor[u],
         c.step \in {"freeze", "revert", "reverted"} => Fits(c.left),
         kind = "brand" => Fits(editor'[t].items) /\ Fits(c.sent)
  PROVE  FitInv'
<1>1. call'[t] = c /\ \A u \in Tabs : u # t => call'[u] = call[u]
  BY DEF Continue, TypeOK
<1>2. QED BY <1>1, OthersFit

LEMMA FinishFits ==
  ASSUME TypeOK, FitInv, NEW t \in Tabs, NEW ok, Finish(t, ok), kind' = kind,
         \A n \in DOMAIN versions' : Fits(versions'[n].items)
  PROVE  FitInv'
<1>1. editor[t] \in Editor
  BY TabTyped
<1>2. editor'[t].items = editor[t].items /\ \A u \in Tabs : u # t => editor'[u] = editor[u]
  BY <1>1 DEF Finish, TypeOK, Editor
<1>3. Fits(Idle.sent) /\ ~(Idle.step \in {"freeze", "revert", "reverted"})
  BY DEF Idle, Fits
<1>4. kind = "brand" => Fits(editor[t].items)
  BY DEF FitInv
<1>5. Continue(t, Idle)
  BY DEF Finish
<1>6. QED BY <1>2, <1>3, <1>4, <1>5, ContinueFits

LEMMA LoadedFits ==
  ASSUME NEW rows, Fits(rows)
  PROVE  Fits(Loaded(rows).items)
<1>1. BaseTheme.pos = 0
  BY DEF BaseTheme, Row
<1>2. 0 <= LastPosition
  BY DraftAssumption DEF DraftAssumption
<1>3. QED BY <1>1, <1>2 DEF Loaded, Shown, Fresh, Fits

LEMMA EditFits ==
  ASSUME TypeOK, FitInv, NEW t \in Tabs, Edit(t)
  PROVE  FitInv'
<1>1. UNCHANGED <<kind, versions, call>>
  BY DEF Edit, EditBody, Move, Duplicate, Delete, Insert, Add, Reload, Changed
<1>2. \A u \in Tabs : u # t => editor'[u] = editor[u]
  BY DEF Edit, EditBody, Move, Duplicate, Delete, Insert, Add, Reload, Changed, TypeOK
<1>3. ASSUME kind = "brand" PROVE Fits(editor'[t].items)
  <2>1. Fits(editor[t].items)
    BY <1>3 DEF FitInv
  <2>2. CASE Reload(t)
    BY <2>2, LoadedFits DEF Reload, TypeOK
  <2>3. ASSUME NEW i \in Rows(t), NEW b \in Bodies[kind], EditBody(t, i, b)
        PROVE  Fits(editor'[t].items)
    <3>1. i \in Item
      BY TabTyped
    <3>2. [i EXCEPT !.body = b].pos = i.pos
      BY <3>1 DEF Item
    <3>3. editor'[t].items = (Rows(t) \ {i}) \cup {[i EXCEPT !.body = b]}
      BY <2>3 DEF EditBody, Changed, Fresh, TypeOK
    <3>4. QED BY <2>1, <3>2, <3>3 DEF Fits, Rows
  <2>4. QED BY <1>3, <2>2, <2>3 DEF Edit, Move, Duplicate, Delete, Insert, Add
<1>4. /\ \A n \in DOMAIN versions : Fits(versions[n].items)
      /\ call[t].step \in {"freeze", "revert", "reverted"} => Fits(call[t].left)
      /\ kind = "brand" => Fits(call[t].sent)
  BY DEF FitInv
<1>5. QED BY <1>1, <1>2, <1>3, <1>4, OthersFit

(* A button that starts a call.                                            *)
LEMMA ClickFits ==
  ASSUME TypeOK, FitInv, NEW t \in Tabs, NEW step \in {"clear", "write", "look"},
         NEW publish \in BOOLEAN, Click(t, step, publish)
  PROVE  FitInv'
<1> DEFINE c == [Idle EXCEPT !.step = step, !.publish = publish,
                             !.sent = Rows(t), !.left = Rows(t)]
<1>1. c.step = step /\ c.sent = editor[t].items
  BY DEF Idle, Rows
<1>2. Continue(t, c) /\ UNCHANGED <<kind, versions>>
  BY DEF Click, Continue
<1>3. editor'[t].items = editor[t].items /\ \A u \in Tabs : u # t => editor'[u] = editor[u]
  BY TabTyped DEF Click, TypeOK, Editor
<1>4. /\ \A n \in DOMAIN versions : Fits(versions[n].items)
      /\ kind = "brand" => Fits(editor[t].items)
  BY DEF FitInv
<1> HIDE DEF c
<1>5. QED BY <1>1, <1>2, <1>3, <1>4, ContinueFits

LEMMA SaveFits ==
  ASSUME TypeOK, FitInv, NEW t \in Tabs, Save(t)
  PROVE  FitInv'
<1>1. call[t] \in Call
  BY TabTyped
<1>2. \A step \in Steps : To(t, step).sent = call[t].sent /\ To(t, step).step = step
  BY <1>1 DEF To, Call
<1>3. /\ \A n \in DOMAIN versions : Fits(versions[n].items)
      /\ kind = "brand" => Fits(editor[t].items) /\ Fits(call[t].sent)
  BY DEF FitInv
<1>4. CASE ClickSave(t)
  BY <1>4, ClickFits DEF ClickSave, FirstStep
<1>5. CASE ClearLesson(t) \/ ClearAssessment(t)
  BY <1>2, <1>5, WriteFits DEF ClearLesson, ClearAssessment, Steps
<1>6. CASE WriteLesson(t) \/ WriteBrand(t)
  <2> DEFINE c == [To(t, "saved") EXCEPT !.left = {}]
  <2>1. c.sent = call[t].sent /\ c.step = "saved"
    BY <1>1 DEF To, Call
  <2>2. \E rows : Write(t, rows, c)
    BY <1>6 DEF WriteLesson, WriteBrand
  <2> HIDE DEF c
  <2>3. QED BY <2>1, <2>2, WriteFits
<1>7. CASE WriteAssessment(t)
  <2> DEFINE i == Least(call[t].left)
             c == [call[t] EXCEPT !.left = @ \ {i}]
             rows == {r \in stored : r.id # i.id} \cup {i}
  <2>1. c.sent = call[t].sent /\ c.step = "write"
    BY <1>1, <1>7 DEF Call, WriteAssessment, At
  <2>2. Write(t, rows, c)
    BY <1>7 DEF WriteAssessment, Upsert
  <2> HIDE DEF c, rows
  <2>3. QED BY <2>1, <2>2, WriteFits
<1>8. CASE EndAssessment(t)
  BY <1>2, <1>3, <1>8, ContinueFits DEF EndAssessment, Steps
<1>9. CASE WriteFails(t)
  BY <1>3, <1>9, FinishFits DEF WriteFails, Fail
<1>10. CASE EndSave(t)
  BY <1>3, <1>10, FinishFits DEF EndSave
<1>11. CASE Crash(t)
  <2>1. Fits(Loaded(stored).items)
    BY LoadedFits DEF TypeOK
  <2>2. editor'[t] = Loaded(stored) /\ \A u \in Tabs : u # t => editor'[u] = editor[u]
    BY <1>11 DEF Crash, TypeOK
  <2>3. Fits(Idle.sent) /\ Idle.step = "idle"
    BY DEF Idle, Fits
  <2>4. QED BY <1>3, <1>11, <2>1, <2>2, <2>3, ContinueFits DEF Crash
<1>12. QED BY <1>4, <1>5, <1>6, <1>7, <1>8, <1>9, <1>10, <1>11 DEF Save

LEMMA PublishFits ==
  ASSUME TypeOK, FitInv, NEW t \in Tabs, Publish(t)
  PROVE  FitInv'
<1>1. call[t] \in Call /\ versions \in Seq(Version)
  BY TabTyped DEF TypeOK
<1>2. /\ \A n \in DOMAIN versions : Fits(versions[n].items)
      /\ kind = "brand" => Fits(editor[t].items) /\ Fits(call[t].sent)
  BY DEF FitInv
<1>3. CASE ClickPublish(t)
  BY <1>3, ClickFits DEF ClickPublish, FirstStep
<1>4. CASE Check(t)
  <2> DEFINE c == [To(t, "freeze") EXCEPT !.left = stored]
  <2>1. c.sent = call[t].sent /\ c.left = stored
    BY <1>1 DEF To, Call
  <2>2. Fits(stored)
    BY DEF TypeOK
  <2>3. Continue(t, c) /\ UNCHANGED <<kind, versions, editor>>
    BY <1>4 DEF Check
  <2> HIDE DEF c
  <2>4. QED BY <1>2, <2>1, <2>2, <2>3, ContinueFits
<1>5. CASE CheckFails(t) \/ FreezeFails(t)
  BY <1>2, <1>5, FinishFits DEF CheckFails, FreezeFails, Fail
<1>6. CASE Freeze(t)
  <2> DEFINE v == [items |-> Frozen(t), sent |-> call[t].sent, intact |-> call[t].intact]
  <2>1. Fits(Frozen(t))
    BY <1>6 DEF Freeze, Frozen, FitInv, TypeOK
  <2>2. versions' = Append(versions, v) /\ v.items = Frozen(t)
    BY <1>6 DEF Freeze
  <2>3. \A n \in DOMAIN versions' : versions'[n] = v \/ (n \in DOMAIN versions /\ versions'[n] = versions[n])
    <3> HIDE DEF v
    <3>1. QED BY <1>1, <2>2
  <2>4. \A n \in DOMAIN versions' : Fits(versions'[n].items)
    BY <1>2, <2>1, <2>2, <2>3
  <2>5. QED BY <1>6, <2>4, FinishFits DEF Freeze
<1>7. QED BY <1>3, <1>4, <1>5, <1>6 DEF Publish

LEMMA RevertFits ==
  ASSUME TypeOK, FitInv, NEW t \in Tabs, Revert(t)
  PROVE  FitInv'
<1>1. call[t] \in Call /\ versions \in Seq(Version)
  BY TabTyped DEF TypeOK
<1>2. /\ \A n \in DOMAIN versions : Fits(versions[n].items)
      /\ kind = "brand" => Fits(editor[t].items) /\ Fits(call[t].sent)
      /\ call[t].step \in {"freeze", "revert", "reverted"} => Fits(call[t].left)
  BY DEF FitInv
<1>3. CASE ClickRevert(t)
  BY <1>3, ClickFits DEF ClickRevert
<1>4. CASE RevertLooks(t)
  <2> DEFINE c == [To(t, "revert") EXCEPT !.left = LiveTheme]
  <2>1. c.sent = call[t].sent /\ c.left = LiveTheme
    BY <1>1 DEF To, Call
  <2>2. Fits(LiveTheme)
    BY <1>1, <1>2 DEF LiveTheme, Fits
  <2>3. Continue(t, c) /\ UNCHANGED <<kind, versions, editor>>
    BY <1>4 DEF RevertLooks
  <2> HIDE DEF c
  <2>4. QED BY <1>2, <2>1, <2>2, <2>3, ContinueFits
<1>5. CASE RevertWrites(t)
  <2>1. /\ To(t, "reverted").sent = call[t].sent /\ To(t, "reverted").left = call[t].left
    BY <1>1 DEF To, Call
  <2>2. Fits(call[t].left)
    BY <1>2, <1>5 DEF RevertWrites
  <2>3. QED BY <1>5, <2>1, <2>2, WriteFits DEF RevertWrites
<1>6. CASE RevertEnds(t)
  <2>1. Fits(Loaded(call[t].left).items)
    BY <1>2, <1>6, LoadedFits DEF RevertEnds
  <2>2. editor'[t] = Loaded(call[t].left) /\ \A u \in Tabs : u # t => editor'[u] = editor[u]
    BY <1>6 DEF RevertEnds, TypeOK
  <2>3. Fits(Idle.sent) /\ Idle.step = "idle"
    BY DEF Idle, Fits
  <2>4. QED BY <1>2, <1>6, <2>1, <2>2, <2>3, ContinueFits DEF RevertEnds
<1>7. QED BY <1>3, <1>4, <1>5, <1>6 DEF Revert

LEMMA AppendFits ==
  ASSUME TypeOK, FitInv, NEW a \in Appends, AppendStep(a)
  PROVE  FitInv'
<1>1. \A u \in Tabs : call[u] \in Call
  BY DEF TypeOK
<1>2. UNCHANGED <<kind, versions, editor>>
  BY DEF AppendStep, Look, AppendOne, AppendFails
<1>3. \A u \in Tabs :
        call'[u].step = call[u].step /\ call'[u].sent = call[u].sent
          /\ call'[u].left = call[u].left
  BY <1>1 DEF AppendStep, Look, AppendOne, AppendFails, Call
<1>4. QED BY <1>2, <1>3 DEF FitInv, Fits

TypedInv == TypeOK /\ AppendsHaveLeft /\ FitInv

LEMMA TypedInit == Init => TypedInv
<1> SUFFICES ASSUME Init PROVE TypedInv
  OBVIOUS
<1>1. TypeOK /\ AppendsHaveLeft
  BY InitTyped
<1>2. /\ Fits(Loaded(stored).items) /\ Fits(Idle.sent) /\ Idle.step = "idle"
  BY <1>1, LoadedFits DEF TypeOK, Idle, Fits
<1>3. \A t \in Tabs : editor[t] = Loaded(stored) /\ call[t] = Idle
  BY DEF Init
<1>4. DOMAIN versions = {}
  BY DEF Init
<1>5. QED BY <1>1, <1>2, <1>3, <1>4 DEF TypedInv, FitInv

LEMMA TypedNext == TypedInv /\ [Next]_vars => TypedInv'
<1> SUFFICES ASSUME TypedInv, [Next]_vars PROVE TypedInv'
  OBVIOUS
<1>1. TypeOK /\ AppendsHaveLeft /\ FitInv
  BY DEF TypedInv
<1>2. CASE UNCHANGED vars
  BY <1>1, <1>2 DEF vars, TypedInv, TypeOK, AppendsHaveLeft, FitInv, Fits
<1>3. ASSUME NEW t \in Tabs, Edit(t) PROVE TypedInv'
  BY <1>1, <1>3, EditTyped, EditFits DEF TypedInv
<1>4. ASSUME NEW t \in Tabs, Save(t) PROVE TypedInv'
  BY <1>1, <1>4, SaveTyped, SaveFits DEF TypedInv
<1>5. ASSUME NEW t \in Tabs, Publish(t) PROVE TypedInv'
  BY <1>1, <1>5, PublishTyped, PublishFits DEF TypedInv
<1>6. ASSUME NEW t \in Tabs, Revert(t) PROVE TypedInv'
  BY <1>1, <1>6, RevertTyped, RevertFits DEF TypedInv
<1>7. ASSUME NEW a \in Appends, AppendStep(a) PROVE TypedInv'
  BY <1>1, <1>7, AppendTyped, AppendFits DEF TypedInv
<1>8. QED BY <1>2, <1>3, <1>4, <1>5, <1>6, <1>7 DEF Next

(* Whatever number of tabs edit and save drafts of any length: the rows    *)
(* stored always fit their columns and have the type of items, and no      *)
(* append inserts more than it has.                                        *)
THEOREM DraftTypeCorrect == Spec => []TypeOK
<1>1. TypedInv => TypeOK
  BY DEF TypedInv
<1>2. QED BY <1>1, TypedInit, TypedNext, PTL DEF Spec

-----------------------------------------------------------------------------
(* What is published is valid                                              *)

(* A part of distinct rows is distinct, and so are they with one more that *)
(* clashes with none.                                                      *)
LEMMA DistinctPart ==
  ASSUME NEW items, Distinct(items), NEW part \in SUBSET items
  PROVE  Distinct(part)
BY DEF Distinct

LEMMA DistinctMore ==
  ASSUME NEW items, Distinct(items), NEW more, Distinct(more),
         \A i \in items, j \in more : ~Clash(i, j)
  PROVE  Distinct(items \cup more)
BY DEF Distinct, Clash

LEMMA LoadedDistinct ==
  ASSUME NEW rows, Distinct(rows)
  PROVE  Distinct(Loaded(rows).items)
BY DEF Loaded, Shown, Fresh, Distinct

LEMMA WriteSound ==
  ASSUME TypeOK, SoundInv, NEW t \in Tabs, NEW rows, NEW c, Write(t, rows, c),
         Distinct(rows), Accepted(rows), CallSound(c)
  PROVE  SoundInv'
<1>1. UNCHANGED <<kind, versions, editor>> /\ stored' = rows
  BY DEF Write
<1>2. \A u \in Tabs : call[u] \in Call
  BY DEF TypeOK
<1>3. call'[t] = c
  BY DEF Write
<1>4. \A u \in Tabs : u # t =>
        /\ call'[u].step = call[u].step /\ call'[u].sent = call[u].sent
        /\ call'[u].left = call[u].left
  BY <1>2 DEF Write, Call
<1>5. CallsSound'
  <2> SUFFICES ASSUME NEW u \in Tabs PROVE CallSound(call[u])'
    BY DEF CallsSound
  <2>1. CASE u = t
    BY <1>1, <1>3, <2>1 DEF CallSound, Distinct, Accepted, Presentable, Clash
  <2>2. CASE u # t
    <3>1. CallSound(call[u])
      BY DEF SoundInv, CallsSound
    <3>2. QED BY <1>1, <1>4, <2>2, <3>1 DEF CallSound, Distinct, Accepted, Presentable, Clash
  <2>3. QED BY <2>1, <2>2
<1>6. RowsSound'
  BY <1>1 DEF RowsSound, Distinct, Accepted, Clash
<1>7. EditorsDistinct' /\ VersionsValid'
  BY <1>1 DEF SoundInv, EditorsDistinct, VersionsValid, Distinct, Accepted, Presentable, Clash
<1>8. QED BY <1>5, <1>6, <1>7 DEF SoundInv

LEMMA ContinueSound ==
  ASSUME TypeOK, SoundInv, NEW t \in Tabs, NEW c, Continue(t, c),
         UNCHANGED <<kind, stored>>, CallSound(c),
         \A u \in Tabs : u # t => editor'[u] = editor[u],
         Distinct(editor'[t].items), VersionsValid'
  PROVE  SoundInv'
<1>1. call'[t] = c /\ \A u \in Tabs : u # t => call'[u] = call[u]
  BY DEF Continue, TypeOK
<1>2. CallsSound'
  <2> SUFFICES ASSUME NEW u \in Tabs PROVE CallSound(call[u])'
    BY DEF CallsSound
  <2>1. CallSound(call[u])
    BY DEF SoundInv, CallsSound
  <2>2. QED BY <1>1, <2>1 DEF CallSound, Distinct, Accepted, Presentable, Clash
<1>3. RowsSound'
  BY DEF SoundInv, RowsSound, Distinct, Accepted, Clash
<1>4. EditorsDistinct'
  BY DEF SoundInv, EditorsDistinct, Distinct, Clash
<1>5. QED BY <1>2, <1>3, <1>4 DEF SoundInv

LEMMA IdleSound == CallSound(Idle)
BY DEF CallSound, Idle, Distinct

LEMMA FinishSound ==
  ASSUME TypeOK, SoundInv, NEW t \in Tabs, NEW ok, Finish(t, ok),
         UNCHANGED <<kind, stored>>, VersionsValid'
  PROVE  SoundInv'
<1>1. editor[t] \in Editor
  BY TabTyped
<1>2. editor'[t].items = editor[t].items /\ \A u \in Tabs : u # t => editor'[u] = editor[u]
  BY <1>1 DEF Finish, TypeOK, Editor
<1>3. Distinct(editor'[t].items)
  BY <1>2 DEF SoundInv, EditorsDistinct
<1>4. Continue(t, Idle)
  BY DEF Finish
<1>5. QED BY <1>2, <1>3, <1>4, IdleSound, ContinueSound

LEMMA FailSound ==
  ASSUME TypeOK, SoundInv, NEW t \in Tabs, Fail(t)
  PROVE  SoundInv'
<1>1. VersionsValid'
  BY DEF Fail, SoundInv, VersionsValid, Distinct, Accepted, Presentable, Clash
<1>2. QED BY <1>1, FinishSound DEF Fail

LEMMA ChangedSound ==
  ASSUME TypeOK, SoundInv, NEW t \in Tabs, NEW items, Distinct(items), Changed(t, items)
  PROVE  SoundInv'
<1>1. UNCHANGED <<kind, stored, versions, call>>
  BY DEF Changed
<1>2. editor'[t].items = items /\ \A u \in Tabs : u # t => editor'[u] = editor[u]
  BY DEF Changed, Fresh, TypeOK
<1>3. EditorsDistinct'
  BY <1>2 DEF SoundInv, EditorsDistinct, Distinct, Clash
<1>4. RowsSound' /\ CallsSound' /\ VersionsValid'
  BY <1>1 DEF SoundInv, RowsSound, CallsSound, CallSound, VersionsValid,
              Distinct, Accepted, Presentable, Clash
<1>5. QED BY <1>3, <1>4 DEF SoundInv

LEMMA EditSound ==
  ASSUME TypeOK, SoundInv, NEW t \in Tabs, Edit(t)
  PROVE  SoundInv'
<1>1. Rows(t) \in SUBSET Item /\ Distinct(Rows(t))
  BY TabTyped DEF SoundInv, EditorsDistinct, Rows
<1>2. ASSUME NEW i \in Rows(t), NEW b \in Bodies[kind], EditBody(t, i, b)
      PROVE  SoundInv'
  <2> DEFINE k == [i EXCEPT !.body = b]
  <2>1. k.id = i.id /\ k.pos = i.pos
    BY <1>1 DEF Item
  <2>2. Distinct((Rows(t) \ {i}) \cup {k})
    <3> HIDE DEF k
    <3>1. QED BY <1>1, <2>1 DEF Distinct, Clash
  <2>3. QED BY <1>2, <2>2, ChangedSound DEF EditBody
<1>3. ASSUME NEW i \in Rows(t), NEW j \in Rows(t), Move(t, i, j)
      PROVE  SoundInv'
  <2> DEFINE k == [i EXCEPT !.pos = j.pos]
             l == [j EXCEPT !.pos = i.pos]
  <2>1. k.id = i.id /\ k.pos = j.pos /\ l.id = j.id /\ l.pos = i.pos
    BY <1>1 DEF Item
  <2>2. i # j /\ i.pos # j.pos
    <3>1. i.pos \in Nat /\ j.pos \in Nat /\ i.pos < j.pos
      BY <1>1, <1>3, DraftAssumption DEF Item, Positions, Move, Next2, DraftAssumption
    <3>2. QED BY <3>1
  <2>3. Distinct((Rows(t) \ {i, j}) \cup {k, l})
    <3> HIDE DEF k, l
    <3>1. QED BY <1>1, <2>1, <2>2 DEF Distinct, Clash
  <2>4. QED BY <1>3, <2>3, ChangedSound DEF Move
<1>4. ASSUME NEW b, Add(t, b)
      PROVE  SoundInv'
  <2>1. PICK i \in Unused : Changed(t, Rows(t) \cup {Row(i, NextPosition(Rows(t)), b)})
    BY <1>4 DEF Add
  <2>2. \A r \in Rows(t) : r.id # i
    BY DEF Unused
  <2>3. \A r \in Rows(t) : r.pos # NextPosition(Rows(t))
    <3> SUFFICES ASSUME NEW r \in Rows(t) PROVE r.pos # NextPosition(Rows(t))
      OBVIOUS
    <3>1. r.pos < NextPosition(Rows(t)) /\ NextPosition(Rows(t)) \in Nat
      BY <1>1, NextPositionFree
    <3>2. r.pos \in Nat
      BY <1>1, DraftAssumption DEF Item, Positions, DraftAssumption
    <3>3. QED BY <3>1, <3>2
  <2>4. Distinct(Rows(t) \cup {Row(i, NextPosition(Rows(t)), b)})
    BY <1>1, <2>2, <2>3 DEF Distinct, Clash, Row
  <2>5. QED BY <2>1, <2>4, ChangedSound
<1>5. ASSUME NEW i \in Rows(t), Duplicate(t, i)
      PROVE  SoundInv'
  BY <1>4, <1>5 DEF Duplicate
<1>6. ASSUME NEW i \in Rows(t), Delete(t, i)
      PROVE  SoundInv'
  <2>1. Distinct(Rows(t) \ {i})
    BY <1>1, DistinctPart
  <2>2. QED BY <1>6, <2>1, ChangedSound DEF Delete
<1>7. CASE Insert(t)
  BY <1>4, <1>7 DEF Insert
<1>8. CASE Reload(t)
  <2>1. UNCHANGED <<kind, stored, versions, call>>
    BY <1>8 DEF Reload
  <2>2. Distinct(Loaded(stored).items)
    BY LoadedDistinct DEF SoundInv, RowsSound
  <2>3. editor'[t] = Loaded(stored) /\ \A u \in Tabs : u # t => editor'[u] = editor[u]
    BY <1>8 DEF Reload, TypeOK
  <2>4. EditorsDistinct'
    BY <2>2, <2>3 DEF SoundInv, EditorsDistinct, Distinct, Clash
  <2>5. RowsSound' /\ CallsSound' /\ VersionsValid'
    BY <2>1 DEF SoundInv, RowsSound, CallsSound, CallSound, VersionsValid,
                Distinct, Accepted, Presentable, Clash
  <2>6. QED BY <2>4, <2>5 DEF SoundInv
<1>9. QED BY <1>2, <1>3, <1>5, <1>6, <1>7, <1>8 DEF Edit

LEMMA VersionsKept ==
  ASSUME SoundInv, UNCHANGED <<kind, versions>>
  PROVE  VersionsValid'
BY DEF SoundInv, VersionsValid, Distinct, Accepted, Presentable, Clash

LEMMA ClickSound ==
  ASSUME TypeOK, SoundInv, NEW t \in Tabs, NEW step \in {"clear", "write", "look"},
         NEW publish \in BOOLEAN, Click(t, step, publish),
         step # "look" => MaySave(t)
  PROVE  SoundInv'
<1> DEFINE c == [Idle EXCEPT !.step = step, !.publish = publish,
                             !.sent = Rows(t), !.left = Rows(t)]
<1>1. c.step = step /\ c.sent = Rows(t) /\ c.left = Rows(t)
  BY DEF Idle
<1>2. Continue(t, c) /\ UNCHANGED <<kind, stored, versions>>
  BY DEF Click, Continue
<1>3. editor'[t].items = editor[t].items /\ \A u \in Tabs : u # t => editor'[u] = editor[u]
  BY TabTyped DEF Click, TypeOK, Editor
<1>4. Distinct(Rows(t))
  BY DEF SoundInv, EditorsDistinct, Rows
<1>5. CallSound(c)
  <2> HIDE DEF c
  <2>1. QED BY <1>1, <1>4 DEF CallSound, MaySave
<1>6. VersionsValid' /\ Distinct(editor'[t].items)
  BY <1>2, <1>3, <1>4, VersionsKept DEF Rows
<1> HIDE DEF c
<1>7. QED BY <1>2, <1>3, <1>5, <1>6, ContinueSound

LEMMA SaveSound ==
  ASSUME TypeOK, SoundInv, NEW t \in Tabs, Save(t)
  PROVE  SoundInv'
<1>1. call[t] \in Call /\ call[t].sent \in SUBSET Item /\ call[t].left \in SUBSET Item
  BY TabTyped
<1>2. /\ CallSound(call[t]) /\ Distinct(stored) /\ Accepted(stored)
      /\ Distinct(editor[t].items)
  BY DEF SoundInv, CallsSound, RowsSound, EditorsDistinct
<1>3. \A step \in Steps :
        /\ To(t, step).sent = call[t].sent /\ To(t, step).step = step
        /\ To(t, step).left = call[t].left
  BY <1>1 DEF To, Call
<1>4. CASE ClickSave(t)
  BY <1>4, ClickSound DEF ClickSave, FirstStep
<1>5. CASE ClearLesson(t)
  <2>1. Distinct({}) /\ Accepted({})
    BY DEF Distinct, Accepted
  <2>2. CallSound(To(t, "write"))
    BY <1>2, <1>3, <1>5 DEF ClearLesson, At, CallSound, Steps
  <2>3. QED BY <1>5, <2>1, <2>2, WriteSound DEF ClearLesson
<1>6. CASE ClearAssessment(t)
  <2> DEFINE kept == {r \in stored : \E s \in call[t].sent : s.id = r.id}
  <2>1. Distinct(kept) /\ Accepted(kept)
    BY <1>2 DEF Distinct, Accepted
  <2>2. CallSound(To(t, "write"))
    BY <1>2, <1>3, <1>6 DEF ClearAssessment, At, CallSound, Steps
  <2>3. Write(t, kept, To(t, "write"))
    BY <1>6 DEF ClearAssessment
  <2> HIDE DEF kept
  <2>4. QED BY <2>1, <2>2, <2>3, WriteSound
<1>7. CASE WriteLesson(t)
  <2> DEFINE c == [To(t, "saved") EXCEPT !.left = {}]
  <2>1. c.sent = call[t].sent /\ c.step = "saved" /\ c.left = {}
    BY <1>1 DEF To, Call
  <2>2. call[t].left \subseteq call[t].sent /\ Accepted(call[t].sent) /\ Distinct(call[t].sent)
    BY <1>2, <1>7 DEF WriteLesson, At, CallSound
  <2>3. Distinct(call[t].left) /\ Accepted(call[t].left)
    BY <2>2 DEF Distinct, Accepted
  <2>4. \A r \in stored, i \in call[t].left : ~Clash(r, i)
    BY <1>7 DEF WriteLesson, Insertable
  <2>5. Distinct(stored \cup call[t].left) /\ Accepted(stored \cup call[t].left)
    BY <1>2, <2>3, <2>4, DistinctMore DEF Accepted
  <2>6. Write(t, stored \cup call[t].left, c)
    BY <1>7 DEF WriteLesson
  <2> HIDE DEF c
  <2>7. CallSound(c)
    BY <2>1, <2>2 DEF CallSound
  <2>8. QED BY <2>5, <2>6, <2>7, WriteSound
<1>8. CASE WriteAssessment(t)
  <2> DEFINE i == Least(call[t].left)
             c == [call[t] EXCEPT !.left = @ \ {i}]
             rows == {r \in stored : r.id # i.id} \cup {i}
  <2>1. i \in call[t].left
    BY <1>1, <1>8, LeastExists DEF WriteAssessment
  <2>2. c.sent = call[t].sent /\ c.step = "write" /\ c.left = call[t].left \ {i}
    BY <1>1, <1>8 DEF Call, WriteAssessment, At
  <2>3. call[t].left \subseteq call[t].sent /\ Accepted(call[t].sent) /\ Distinct(call[t].sent)
    BY <1>2, <1>8 DEF WriteAssessment, At, CallSound
  <2>4. \A r \in stored : r.pos = i.pos => r.id = i.id
    BY <1>8 DEF WriteAssessment, Upsertable
  <2>5. Write(t, rows, c)
    BY <1>8 DEF WriteAssessment, Upsert
  <2> HIDE DEF i, c
  <2>6. Distinct(rows) /\ Accepted(rows)
    BY <1>2, <2>1, <2>3, <2>4 DEF Distinct, Clash, Accepted
  <2>7. CallSound(c)
    BY <2>2, <2>3 DEF CallSound
  <2> HIDE DEF rows
  <2>8. QED BY <2>5, <2>6, <2>7, WriteSound
<1>9. CASE EndAssessment(t)
  <2>1. CallSound(To(t, "saved"))
    BY <1>2, <1>3, <1>9 DEF CallSound, Steps
  <2>2. VersionsValid'
    BY <1>9, VersionsKept DEF EndAssessment
  <2>3. QED BY <1>2, <1>9, <2>1, <2>2, ContinueSound DEF EndAssessment
<1>10. CASE WriteBrand(t)
  <2> DEFINE c == [To(t, "saved") EXCEPT !.left = {}]
  <2>1. c.sent = call[t].sent /\ c.step = "saved" /\ c.left = {}
    BY <1>1 DEF To, Call
  <2>2. Accepted(call[t].sent) /\ Distinct(call[t].sent)
    BY <1>2, <1>10 DEF WriteBrand, At, CallSound
  <2>3. Write(t, call[t].sent, c)
    BY <1>10 DEF WriteBrand
  <2> HIDE DEF c
  <2>4. CallSound(c)
    BY <2>1, <2>2 DEF CallSound
  <2>5. QED BY <2>2, <2>3, <2>4, WriteSound
<1>11. CASE WriteFails(t)
  BY <1>11, FailSound DEF WriteFails
<1>12. CASE EndSave(t)
  BY <1>12, VersionsKept, FinishSound DEF EndSave
<1>13. CASE Crash(t)
  <2>1. editor'[t] = Loaded(stored) /\ \A u \in Tabs : u # t => editor'[u] = editor[u]
    BY <1>13 DEF Crash, TypeOK
  <2>2. Distinct(editor'[t].items) /\ VersionsValid'
    BY <1>2, <1>13, <2>1, LoadedDistinct, VersionsKept DEF Crash
  <2>3. QED BY <1>13, <2>1, <2>2, IdleSound, ContinueSound DEF Crash
<1>14. QED
  BY <1>4, <1>5, <1>6, <1>7, <1>8, <1>9, <1>10, <1>11, <1>12, <1>13 DEF Save

LEMMA PublishSound ==
  ASSUME TypeOK, SoundInv, NEW t \in Tabs, Publish(t)
  PROVE  SoundInv'
<1>1. call[t] \in Call /\ versions \in Seq(Version)
  BY TabTyped DEF TypeOK
<1>2. /\ CallSound(call[t]) /\ Distinct(stored) /\ Accepted(stored)
      /\ Distinct(editor[t].items) /\ VersionsValid
  BY DEF SoundInv, CallsSound, RowsSound, EditorsDistinct
<1>3. CASE ClickPublish(t)
  BY <1>3, ClickSound DEF ClickPublish, FirstStep
<1>4. CASE Check(t)
  <2> DEFINE c == [To(t, "freeze") EXCEPT !.left = stored]
  <2>1. c.sent = call[t].sent /\ c.left = stored /\ c.step = "freeze"
    BY <1>1 DEF To, Call
  <2>2. Continue(t, c) /\ UNCHANGED <<kind, stored, versions, editor>>
    BY <1>4 DEF Check
  <2>3. kind = "brand" => Presentable(stored)
    BY <1>4 DEF Check, Passes
  <2>4. Distinct(call[t].sent)
    BY <1>2 DEF CallSound
  <2> HIDE DEF c
  <2>5. CallSound(c)
    BY <1>2, <2>1, <2>3, <2>4 DEF CallSound
  <2>6. VersionsValid'
    BY <2>2, VersionsKept
  <2>7. QED BY <1>2, <2>2, <2>5, <2>6, ContinueSound
<1>5. CASE CheckFails(t) \/ FreezeFails(t)
  BY <1>5, FailSound DEF CheckFails, FreezeFails
<1>6. CASE Freeze(t)
  <2> DEFINE v == [items |-> Frozen(t), sent |-> call[t].sent, intact |-> call[t].intact]
  <2>1. /\ Frozen(t) # {} /\ Accepted(Frozen(t)) /\ Distinct(Frozen(t))
        /\ kind = "brand" => Presentable(Frozen(t))
    BY <1>2, <1>6 DEF Freeze, Frozen, CallSound
  <2>2. versions' = Append(versions, v) /\ v.items = Frozen(t)
    BY <1>6 DEF Freeze
  <2>3. \A n \in DOMAIN versions' :
          versions'[n] = v \/ (n \in DOMAIN versions /\ versions'[n] = versions[n])
    <3> HIDE DEF v
    <3>1. QED BY <1>1, <2>2
  <2> HIDE DEF v
  <2>4. kind' = kind /\ stored' = stored
    BY <1>6 DEF Freeze
  <2>5. VersionsValid'
    <3> SUFFICES ASSUME NEW n \in DOMAIN versions'
                 PROVE  /\ versions'[n].items # {} /\ Accepted(versions'[n].items)
                        /\ kind = "brand" => Presentable(versions'[n].items)
                        /\ Distinct(versions'[n].items)
      BY <2>4 DEF VersionsValid, Accepted, Presentable, Distinct, Clash
    <3>1. CASE versions'[n] = v
      BY <2>1, <2>2, <3>1
    <3>2. CASE n \in DOMAIN versions /\ versions'[n] = versions[n]
      BY <1>2, <3>2 DEF VersionsValid
    <3>3. QED BY <2>3, <3>1, <3>2
  <2>6. QED BY <1>6, <2>4, <2>5, FinishSound DEF Freeze
<1>7. QED BY <1>3, <1>4, <1>5, <1>6 DEF Publish

LEMMA RevertSound ==
  ASSUME TypeOK, SoundInv, NEW t \in Tabs, Revert(t)
  PROVE  SoundInv'
<1>1. call[t] \in Call /\ versions \in Seq(Version)
  BY TabTyped DEF TypeOK
<1>2. CallSound(call[t]) /\ Distinct(editor[t].items) /\ VersionsValid
  BY DEF SoundInv, CallsSound, EditorsDistinct
<1>3. CASE ClickRevert(t)
  BY <1>3, ClickSound DEF ClickRevert
<1>4. CASE RevertLooks(t)
  <2> DEFINE c == [To(t, "revert") EXCEPT !.left = LiveTheme]
  <2>1. c.sent = call[t].sent /\ c.left = LiveTheme /\ c.step = "revert"
    BY <1>1 DEF To, Call
  <2>2. Distinct(LiveTheme) /\ Accepted(LiveTheme)
    <3>1. CASE versions = <<>>
      BY <3>1 DEF LiveTheme, Distinct, Accepted
    <3>2. CASE versions # <<>>
      <4>1. Len(versions) \in DOMAIN versions
        BY <1>1, <3>2
      <4>2. QED BY <1>2, <3>2, <4>1 DEF LiveTheme, VersionsValid
    <3>3. QED BY <3>1, <3>2
  <2>3. Continue(t, c) /\ UNCHANGED <<kind, stored, versions, editor>>
    BY <1>4 DEF RevertLooks
  <2> HIDE DEF c
  <2>4. CallSound(c)
    BY <1>2, <2>1, <2>2 DEF CallSound
  <2>5. VersionsValid'
    BY <2>3, VersionsKept
  <2>6. QED BY <1>2, <2>3, <2>4, <2>5, ContinueSound
<1>5. CASE RevertWrites(t)
  <2>1. /\ To(t, "reverted").sent = call[t].sent /\ To(t, "reverted").left = call[t].left
        /\ To(t, "reverted").step = "reverted"
    BY <1>1 DEF To, Call
  <2>2. Distinct(call[t].left) /\ Accepted(call[t].left) /\ Distinct(call[t].sent)
    BY <1>2, <1>5 DEF RevertWrites, CallSound
  <2>3. CallSound(To(t, "reverted"))
    BY <2>1, <2>2 DEF CallSound
  <2>4. QED BY <1>5, <2>2, <2>3, WriteSound DEF RevertWrites
<1>6. CASE RevertEnds(t)
  <2>1. Distinct(call[t].left)
    BY <1>2, <1>6 DEF RevertEnds, CallSound
  <2>2. editor'[t] = Loaded(call[t].left) /\ \A u \in Tabs : u # t => editor'[u] = editor[u]
    BY <1>6 DEF RevertEnds, TypeOK
  <2>3. Distinct(editor'[t].items) /\ VersionsValid'
    BY <1>6, <2>1, <2>2, LoadedDistinct, VersionsKept DEF RevertEnds
  <2>4. QED BY <1>6, <2>2, <2>3, IdleSound, ContinueSound DEF RevertEnds
<1>7. QED BY <1>3, <1>4, <1>5, <1>6 DEF Revert

LEMMA AppendSound ==
  ASSUME TypeOK, SoundInv, NEW a \in Appends, AppendStep(a)
  PROVE  SoundInv'
<1>1. \A u \in Tabs : call[u] \in Call
  BY DEF TypeOK
<1>2. UNCHANGED <<kind, versions, editor>>
  BY DEF AppendStep, Look, AppendOne, AppendFails
<1>3. \A u \in Tabs :
        call'[u].step = call[u].step /\ call'[u].sent = call[u].sent
          /\ call'[u].left = call[u].left
  BY <1>1 DEF AppendStep, Look, AppendOne, AppendFails, Call
<1>4. Distinct(stored) /\ Accepted(stored)
  BY DEF SoundInv, RowsSound
<1>5. Distinct(stored') /\ Accepted(stored')
  <2>1. CASE AppendOne(a)
    <3>1. stored' = stored \cup {Appended(a)} /\ \A r \in stored : ~Clash(r, Appended(a))
      BY <2>1 DEF AppendOne, Insertable
    <3>2. Appended(a).body \in Savable
      BY DraftAssumption DEF Appended, Row, DraftAssumption
    <3>3. Distinct({Appended(a)})
      BY DEF Distinct
    <3>4. QED BY <1>4, <3>1, <3>2, <3>3, DistinctMore DEF Accepted
  <2>2. CASE Look(a) \/ AppendFails(a)
    BY <1>4, <2>2 DEF Look, AppendFails
  <2>3. QED BY <2>1, <2>2 DEF AppendStep
<1>6. RowsSound'
  BY <1>5 DEF RowsSound, Distinct, Accepted, Clash
<1>7. EditorsDistinct' /\ CallsSound' /\ VersionsValid'
  BY <1>2, <1>3 DEF SoundInv, EditorsDistinct, CallsSound, CallSound, VersionsValid,
                    Distinct, Accepted, Presentable, Clash
<1>8. QED BY <1>6, <1>7 DEF SoundInv

LEMMA SoundInit == Init => SoundInv
<1> SUFFICES ASSUME Init PROVE SoundInv
  OBVIOUS
<1> DEFINE Length == IF kind = "brand" THEN 1 ELSE Len(First)
<1>1. PICK b \in Publishable \cap Bodies[kind] :
        stored = {Row(First[n], n - 1, b) : n \in 1 .. Length}
  BY DEF Init
<1>2. b \in Savable
  BY DraftAssumption DEF DraftAssumption
<1>3. Accepted(stored)
  BY <1>1, <1>2 DEF Accepted, Row
<1>4. DOMAIN versions = {} /\ \A t \in Tabs : call[t] = Idle /\ editor[t] = Loaded(stored)
  BY DEF Init
<1>5. Distinct(stored)
  BY <1>1, DraftAssumption DEF Distinct, Clash, Row, DraftAssumption
<1>6. Distinct(Loaded(stored).items) /\ CallSound(Idle)
  BY <1>5, LoadedDistinct, IdleSound
<1>7. QED
  BY <1>3, <1>4, <1>5, <1>6
  DEF SoundInv, RowsSound, EditorsDistinct, CallsSound, VersionsValid

LEMMA SoundNext == TypedInv /\ SoundInv /\ [Next]_vars => SoundInv'
<1> SUFFICES ASSUME TypedInv, SoundInv, [Next]_vars PROVE SoundInv'
  OBVIOUS
<1>1. TypeOK
  BY DEF TypedInv
<1>2. CASE UNCHANGED vars
  BY <1>2 DEF vars, SoundInv, RowsSound, EditorsDistinct, CallsSound, CallSound,
              VersionsValid, Distinct, Accepted, Presentable, Clash
<1>3. ASSUME NEW t \in Tabs, Edit(t) PROVE SoundInv'
  BY <1>1, <1>3, EditSound
<1>4. ASSUME NEW t \in Tabs, Save(t) PROVE SoundInv'
  BY <1>1, <1>4, SaveSound
<1>5. ASSUME NEW t \in Tabs, Publish(t) PROVE SoundInv'
  BY <1>1, <1>5, PublishSound
<1>6. ASSUME NEW t \in Tabs, Revert(t) PROVE SoundInv'
  BY <1>1, <1>6, RevertSound
<1>7. ASSUME NEW a \in Appends, AppendStep(a) PROVE SoundInv'
  BY <1>1, <1>7, AppendSound
<1>8. QED BY <1>2, <1>3, <1>4, <1>5, <1>6, <1>7 DEF Next

(* Every version is non-empty, valid and without duplicates, although      *)
(* nothing locks the rows between their validation and their publication,  *)
(* for any number of tabs and appends.                                     *)
THEOREM PublicationsValid == Spec => []VersionsValid
<1>1. SoundInv => VersionsValid
  BY DEF SoundInv
<1>2. QED BY <1>1, TypedInit, TypedNext, SoundInit, SoundNext, PTL DEF Spec

-----------------------------------------------------------------------------
(* What is published is what was sent                                      *)

LEMMA WriteReached ==
  ASSUME TypeOK, CallsReached, NEW t \in Tabs, NEW rows, NEW c, Write(t, rows, c),
         Reached(c, rows)
  PROVE  CallsReached'
<1>1. SUFFICES ASSUME NEW u \in Tabs PROVE CallReached(call[u])'
  BY DEF CallsReached
<1>2. call[u] \in Call
  BY DEF TypeOK
<1>3. CASE u = t
  BY <1>3 DEF Write, CallReached, Reached
<1>4. CASE u # t /\ Busy(u)
  BY <1>2, <1>4 DEF Write, CallReached, Reached, Call
<1>5. CASE u # t /\ ~Busy(u)
  BY <1>5 DEF Write, CallReached, Reached, Busy
<1>6. QED BY <1>3, <1>4, <1>5

LEMMA ContinueReached ==
  ASSUME TypeOK, CallsReached, NEW t \in Tabs, NEW c, Continue(t, c), CallReached(c),
         UNCHANGED <<kind, stored>>
  PROVE  CallsReached'
<1>1. SUFFICES ASSUME NEW u \in Tabs PROVE CallReached(call[u])'
  BY DEF CallsReached
<1>2. call'[u] = IF u = t THEN c ELSE call[u]
  BY DEF Continue, TypeOK
<1>3. CallReached(call[u])
  BY DEF CallsReached
<1>4. QED BY <1>2, <1>3 DEF CallReached, Reached

LEMMA IdleReached == CallReached(Idle)
BY DEF CallReached, Reached, Idle

LEMMA FinishReached ==
  ASSUME TypeOK, CallsReached, NEW t \in Tabs, NEW ok, Finish(t, ok), UNCHANGED <<kind, stored>>
  PROVE  CallsReached'
<1>1. Continue(t, Idle)
  BY DEF Finish
<1>2. QED BY <1>1, IdleReached, ContinueReached

LEMMA ClickReached ==
  ASSUME TypeOK, CallsReached, NEW t \in Tabs, NEW step \in {"clear", "write", "look"},
         NEW publish, Click(t, step, publish), step = "write" => kind = "brand"
  PROVE  CallsReached'
<1> DEFINE c == [Idle EXCEPT !.step = step, !.publish = publish,
                             !.sent = Rows(t), !.left = Rows(t)]
<1>1. c.step = step /\ c.sent = Rows(t) /\ c.left = Rows(t)
  BY DEF Idle
<1>2. Continue(t, c) /\ UNCHANGED <<kind, stored>>
  BY DEF Click, Continue
<1> HIDE DEF c
<1>3. CallReached(c)
  BY <1>1 DEF CallReached, Reached
<1>4. QED BY <1>2, <1>3, ContinueReached

LEMMA SaveReached ==
  ASSUME TypeOK, SoundInv, CallsReached, NEW t \in Tabs, Save(t)
  PROVE  CallsReached'
<1>1. call[t] \in Call /\ call[t].sent \in SUBSET Item /\ call[t].left \in SUBSET Item
  BY TabTyped
<1>2. CallReached(call[t]) /\ CallSound(call[t])
  BY DEF SoundInv, CallsSound, CallsReached
<1>3. \A step \in Steps :
        /\ To(t, step).sent = call[t].sent /\ To(t, step).step = step
        /\ To(t, step).left = call[t].left /\ To(t, step).intact = call[t].intact
  BY <1>1 DEF To, Call
<1>4. CASE ClickSave(t)
  BY <1>4, ClickReached DEF ClickSave, FirstStep
<1>5. CASE ClearLesson(t)
  <2>1. call[t].intact => call[t].left = call[t].sent
    BY <1>2, <1>5 DEF ClearLesson, At, CallReached, Reached
  <2>2. kind = "lesson"
    BY <1>5 DEF ClearLesson, At
  <2>3. Reached(To(t, "write"), {})
    BY <1>3, <2>1, <2>2 DEF Reached, Steps
  <2>4. QED BY <1>5, <2>3, WriteReached DEF ClearLesson
<1>6. CASE ClearAssessment(t)
  <2> DEFINE c == To(t, "write")
             kept == {r \in stored : \E s \in call[t].sent : s.id = r.id}
  <2>1. call[t].intact => call[t].left = call[t].sent
    BY <1>2, <1>6 DEF ClearAssessment, At, CallReached, Reached
  <2>2. kind = "assessment" /\ Write(t, kept, c)
    BY <1>6 DEF ClearAssessment, At
  <2>3. /\ c.sent = call[t].sent /\ c.step = "write" /\ c.left = call[t].left
        /\ c.intact = call[t].intact
    BY <1>3 DEF Steps
  <2> HIDE DEF c
  <2>4. Reached(c, kept)
    BY <2>1, <2>2, <2>3 DEF Reached
  <2> HIDE DEF kept
  <2>5. QED BY <2>2, <2>4, WriteReached
<1>7. CASE WriteLesson(t)
  <2> DEFINE c == [To(t, "saved") EXCEPT !.left = {}]
  <2>1. c.sent = call[t].sent /\ c.step = "saved" /\ c.intact = call[t].intact
    BY <1>1 DEF To, Call
  <2>2. call[t].intact => stored = {} /\ call[t].left = call[t].sent
    BY <1>2, <1>7 DEF WriteLesson, At, CallReached, Reached
  <2>3. Write(t, stored \cup call[t].left, c)
    BY <1>7 DEF WriteLesson
  <2> HIDE DEF c
  <2>4. Reached(c, stored \cup call[t].left)
    BY <2>1, <2>2 DEF Reached
  <2>5. QED BY <2>3, <2>4, WriteReached
<1>8. CASE WriteAssessment(t)
  <2> DEFINE i == Least(call[t].left)
             c == [call[t] EXCEPT !.left = @ \ {i}]
             rows == {r \in stored : r.id # i.id} \cup {i}
  <2>1. i \in call[t].left
    BY <1>1, <1>8, LeastExists DEF WriteAssessment
  <2>2. /\ c.sent = call[t].sent /\ c.step = "write" /\ c.left = call[t].left \ {i}
        /\ c.intact = call[t].intact
    BY <1>1, <1>8 DEF Call, WriteAssessment, At
  <2>3. call[t].left \subseteq call[t].sent /\ Distinct(call[t].sent)
    BY <1>2, <1>8 DEF WriteAssessment, At, CallSound
  <2>4. call[t].intact =>
          /\ call[t].sent \ call[t].left \subseteq stored
          /\ \A r \in stored :
               r \in call[t].sent \ call[t].left \/ \E s \in call[t].left : s.id = r.id
    BY <1>2, <1>8 DEF WriteAssessment, At, CallReached, Reached
  <2>5. Write(t, rows, c) /\ kind = "assessment"
    BY <1>8 DEF WriteAssessment, At, Upsert
  <2> HIDE DEF i, c
  <2>6. ASSUME call[t].intact
        PROVE  /\ call[t].sent \ (call[t].left \ {i}) \subseteq rows
               /\ \A r \in rows : \/ r \in call[t].sent \ (call[t].left \ {i})
                                 \/ \E s \in call[t].left \ {i} : s.id = r.id
    BY <2>1, <2>3, <2>4, <2>6 DEF Distinct, Clash
  <2> HIDE DEF rows
  <2>7. Reached(c, rows)
    BY <2>2, <2>5, <2>6 DEF Reached
  <2>8. QED BY <2>5, <2>7, WriteReached
<1>9. CASE EndAssessment(t)
  <2>1. call[t].intact => stored = call[t].sent
    BY <1>2, <1>9 DEF EndAssessment, At, CallReached, Reached
  <2>2. CallReached(To(t, "saved"))
    BY <1>3, <2>1 DEF CallReached, Reached, Steps
  <2>3. QED BY <1>9, <2>2, ContinueReached DEF EndAssessment
<1>10. CASE WriteBrand(t)
  <2> DEFINE c == [To(t, "saved") EXCEPT !.left = {}]
  <2>1. c.sent = call[t].sent /\ c.step = "saved"
    BY <1>1 DEF To, Call
  <2>2. Write(t, call[t].sent, c) /\ kind = "brand"
    BY <1>10 DEF WriteBrand, At
  <2> HIDE DEF c
  <2>3. Reached(c, call[t].sent)
    BY <2>1, <2>2 DEF Reached
  <2>4. QED BY <2>2, <2>3, WriteReached
<1>11. CASE WriteFails(t) \/ EndSave(t)
  BY <1>11, FinishReached DEF WriteFails, Fail, EndSave
<1>12. CASE Crash(t)
  BY <1>12, IdleReached, ContinueReached DEF Crash
<1>13. QED
  BY <1>4, <1>5, <1>6, <1>7, <1>8, <1>9, <1>10, <1>11, <1>12 DEF Save

LEMMA OthersReached ==
  ASSUME TypeOK, SoundInv, CallsReached, NEW t \in Tabs,
         Edit(t) \/ Publish(t) \/ Revert(t)
  PROVE  CallsReached'
<1>1. call[t] \in Call
  BY TabTyped
<1>2. CallReached(call[t])
  BY DEF CallsReached
<1>3. \A step \in Steps :
        To(t, step).sent = call[t].sent /\ To(t, step).step = step
          /\ To(t, step).intact = call[t].intact
  BY <1>1 DEF To, Call
<1>4. CASE Edit(t)
  <2>1. UNCHANGED <<kind, stored, call>>
    BY <1>4 DEF Edit, EditBody, Move, Duplicate, Delete, Insert, Add, Reload, Changed
  <2>2. QED BY <2>1 DEF CallsReached, CallReached, Reached
<1>5. CASE ClickPublish(t) \/ ClickRevert(t)
  BY <1>5, ClickReached DEF ClickPublish, ClickRevert, FirstStep
<1>6. CASE Check(t)
  <2> DEFINE c == [To(t, "freeze") EXCEPT !.left = stored]
  <2>1. /\ c.sent = call[t].sent /\ c.left = stored /\ c.step = "freeze"
        /\ c.intact = call[t].intact
    BY <1>1 DEF To, Call
  <2>2. Continue(t, c) /\ UNCHANGED <<kind, stored>>
    BY <1>6 DEF Check
  <2>3. call[t].intact => stored = call[t].sent
    BY <1>2, <1>6 DEF Check, CallReached, Reached
  <2> HIDE DEF c
  <2>4. CallReached(c)
    BY <2>1, <2>3 DEF CallReached, Reached
  <2>5. QED BY <2>2, <2>4, ContinueReached
<1>7. CASE CheckFails(t) \/ FreezeFails(t) \/ Freeze(t)
  BY <1>7, FinishReached DEF CheckFails, FreezeFails, Freeze, Fail
<1>8. CASE RevertLooks(t)
  <2> DEFINE c == [To(t, "revert") EXCEPT !.left = LiveTheme]
  <2>1. c.step = "revert"
    BY <1>1 DEF To, Call
  <2>2. Continue(t, c) /\ UNCHANGED <<kind, stored>>
    BY <1>8 DEF RevertLooks
  <2> HIDE DEF c
  <2>3. CallReached(c)
    BY <2>1 DEF CallReached, Reached
  <2>4. QED BY <2>2, <2>3, ContinueReached
<1>9. CASE RevertWrites(t)
  <2>1. Reached(To(t, "reverted"), call[t].left)
    BY <1>3 DEF Reached, Steps
  <2>2. QED BY <1>9, <2>1, WriteReached DEF RevertWrites
<1>10. CASE RevertEnds(t)
  BY <1>10, IdleReached, ContinueReached DEF RevertEnds
<1>11. QED
  BY <1>4, <1>5, <1>6, <1>7, <1>8, <1>9, <1>10 DEF Publish, Revert

LEMMA AppendReached ==
  ASSUME TypeOK, CallsReached, NEW a \in Appends, AppendStep(a)
  PROVE  CallsReached'
<1>1. \A u \in Tabs : call[u] \in Call
  BY DEF TypeOK
<1>2. CASE Look(a) \/ AppendFails(a)
  BY <1>2 DEF Look, AppendFails, CallsReached, CallReached, Reached
<1>3. CASE AppendOne(a)
  <2>1. SUFFICES ASSUME NEW u \in Tabs PROVE CallReached(call[u])'
    BY DEF CallsReached
  <2>2. CASE Busy(u)
    <3>1. call'[u].intact = FALSE
      BY <1>1, <1>3, <2>2 DEF AppendOne, Call
    <3>2. QED BY <3>1 DEF CallReached, Reached
  <2>3. CASE ~Busy(u)
    <3>1. call'[u].step = "idle"
      BY <1>3, <2>3 DEF AppendOne, Busy
    <3>2. QED BY <3>1 DEF CallReached, Reached
  <2>4. QED BY <2>2, <2>3
<1>4. QED BY <1>2, <1>3 DEF AppendStep

(* Only publishing adds a version.                                         *)
LEMMA AsSentKept ==
  ASSUME TypeOK, CallsReached, PublishedAsSent, NEW t \in Tabs, Freeze(t)
  PROVE  PublishedAsSent'
<1> DEFINE v == [items |-> Frozen(t), sent |-> call[t].sent, intact |-> call[t].intact]
<1>1. versions \in Seq(Version)
  BY DEF TypeOK
<1>2. call[t].intact => stored = call[t].sent /\ call[t].left = call[t].sent
  BY DEF CallsReached, CallReached, Reached, Freeze
<1>3. v.intact => v.items = v.sent
  BY <1>2 DEF Frozen
<1>4. versions' = Append(versions, v)
  BY DEF Freeze
<1>5. \A n \in DOMAIN versions' :
        versions'[n] = v \/ (n \in DOMAIN versions /\ versions'[n] = versions[n])
  <2> HIDE DEF v
  <2>1. QED BY <1>1, <1>4
<1> HIDE DEF v
<1>6. QED BY <1>3, <1>5 DEF PublishedAsSent

ReachedInv == TypedInv /\ SoundInv /\ CallsReached /\ PublishedAsSent

LEMMA ReachedInit == Init => ReachedInv
<1> SUFFICES ASSUME Init PROVE ReachedInv
  OBVIOUS
<1>1. CallsReached /\ PublishedAsSent
  BY IdleReached DEF Init, CallsReached, PublishedAsSent
<1>2. QED BY <1>1, TypedInit, SoundInit DEF ReachedInv

LEMMA ReachedNext == ReachedInv /\ [Next]_vars => ReachedInv'
<1> SUFFICES ASSUME ReachedInv, [Next]_vars PROVE ReachedInv'
  OBVIOUS
<1>1. /\ TypeOK /\ SoundInv /\ CallsReached /\ PublishedAsSent
      /\ TypedInv' /\ SoundInv'
  BY TypedNext, SoundNext DEF ReachedInv, TypedInv
<1>2. CASE UNCHANGED vars
  BY <1>1, <1>2 DEF vars, ReachedInv, CallsReached, CallReached, Reached, PublishedAsSent
<1>3. ASSUME NEW t \in Tabs, Edit(t) \/ Save(t) \/ Revert(t) PROVE ReachedInv'
  <2>1. versions' = versions
    BY <1>3 DEF Edit, EditBody, Move, Duplicate, Delete, Insert, Add, Reload, Changed,
                Save, ClickSave, Click, ClearLesson, ClearAssessment, WriteLesson,
                WriteAssessment, Upsert, EndAssessment, WriteBrand, WriteFails, Fail,
                EndSave, Crash, Write, Revert, ClickRevert, RevertLooks, RevertWrites,
                RevertEnds
  <2>2. PublishedAsSent'
    BY <1>1, <2>1 DEF PublishedAsSent
  <2>3. QED BY <1>1, <1>3, <2>2, SaveReached, OthersReached DEF ReachedInv
<1>4. ASSUME NEW t \in Tabs, Publish(t) PROVE ReachedInv'
  <2>1. CASE Freeze(t)
    BY <1>1, <1>4, <2>1, AsSentKept, OthersReached DEF ReachedInv
  <2>2. CASE ~Freeze(t)
    <3>1. versions' = versions
      BY <1>4, <2>2 DEF Publish, ClickPublish, Click, Check, CheckFails, FreezeFails, Fail
    <3>2. PublishedAsSent'
      BY <1>1, <3>1 DEF PublishedAsSent
    <3>3. QED BY <1>1, <1>4, <3>2, OthersReached DEF ReachedInv
  <2>3. QED BY <2>1, <2>2
<1>5. ASSUME NEW a \in Appends, AppendStep(a) PROVE ReachedInv'
  <2>1. PublishedAsSent'
    BY <1>1, <1>5 DEF AppendStep, Look, AppendOne, AppendFails, PublishedAsSent
  <2>2. QED BY <1>1, <1>5, <2>1, AppendReached DEF ReachedInv
<1>6. QED BY <1>2, <1>3, <1>4, <1>5 DEF Next

(* What publishNow publishes is what it was sent, item by item, unless     *)
(* another tab or an append wrote the draft meanwhile, however many        *)
(* upserts it takes and whatever is edited during the call.                *)
THEOREM PublicationsAsSent == Spec => []PublishedAsSent
<1>1. ReachedInv => PublishedAsSent
  BY DEF ReachedInv
<1>2. QED BY <1>1, ReachedInit, ReachedNext, PTL DEF Spec
=============================================================================
