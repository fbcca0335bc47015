--------------------------- MODULE CurriculumOrder ---------------------------
(***************************************************************************)
(* The order of the modules of a course, of the lessons of a module and of *)
(* the courses of a path: text positions that are appended to and swapped  *)
(* (apps/web/src/lib/actions/learning.ts), from lists that two editors     *)
(* have open (course-builder.tsx, learning-ui.tsx, path-builder.tsx).      *)
(*                                                                         *)
(* An action is several statements, each a transaction of its own.         *)
(***************************************************************************)
EXTENDS Integers, Sequences, FiniteSets, SequencesExt

CONSTANTS
  Items,     \* pool of modules or lessons, or the courses a path may hold
  Kinds,     \* kinds of lists: of modules or lessons, and of the courses of a path
  StartList,     \* the list at the start
  Editors,
  MaxWidth,  \* characters of a position beyond the first
  SwapWidth, \* characters that the temporary position adds
  MaxCalls,  \* bound on the calls of the editors
  MaxFaults  \* bound on statements and actions that fail

ASSUME StartAssumption ==
  /\ IsFiniteSet(Items)
  /\ StartList \in Seq(Items) /\ IsInjective(StartList) /\ Len(StartList) <= MaxWidth + 1
ASSUME OrderAssumption ==
  /\ Kinds \subseteq {"course", "path"} /\ MaxWidth \in Nat /\ SwapWidth \in Nat \ {0} /\ MaxCalls \in Nat /\ MaxFaults \in Nat

VARIABLES
  kind,     \* of the list
  position, \* the position of each item, as a sequence of none or one
  call,     \* the action of each editor
  listed,    \* the list on each editor's page
  report,   \* what each editor's last action said
  calls, faults

orderVars == << kind, position, call, listed, report, calls, faults >>

-----------------------------------------------------------------------------
(* Positions.  The first is "a0"; an addition appends an "n", a swap under  *)
(* way "~swap", and every "n" sorts before every "~swap".                  *)

\* Positions are unique among modules and among lessons, not in a path, whose
\* courses can be removed.
Unique == kind = "course"
Removable == kind = "path"

LetterN == 1
SwapMark == 2
Text == Seq({LetterN, SwapMark})
Width(p) ==
  Cardinality({ i \in DOMAIN p : p[i] = LetterN })
    + SwapWidth * Cardinality({ i \in DOMAIN p : p[i] = SwapMark })
Fits(p) == Width(p) <= MaxWidth

Before(p, q) ==
  \/ IsStrictPrefix(p, q)
  \/ \E i \in DOMAIN p \cap DOMAIN q : p[i] < q[i] /\ \A j \in 1..i - 1 : p[j] = q[j]

Positioned == { x \in Items : position[x] # << >> }
At(x) == position[x][1]
Taken(p) == \E x \in Positioned : At(x) = p

\* The orders in which a page may list the items: ties come as they come.
Sorted == { s \in SetToSeqs(Positioned) : \A i, j \in DOMAIN s : i < j => ~Before(At(s[j]), At(s[i])) }

LastPosition == CHOOSE p \in { At(x) : x \in Positioned } : \A x \in Positioned : ~Before(p, At(x))
\* The position after the last.
NextPosition == IF Positioned = {} THEN << >> ELSE Append(LastPosition, LetterN)

-----------------------------------------------------------------------------
\* A call: what is asked and where it stands, the items it is about, the
\* positions it has read, whether a statement failed; and, for the properties,
\* whether nobody else changed the list and what the list was.
NoCall ==
  [op |-> "none", at |-> "idle", items |-> << >>, keys |-> << >>, failed |-> FALSE,
   alone |-> TRUE, before |-> [x \in Items |-> << >>]]

OrderTypeOK ==
  /\ \A x \in Items : position[x] = << >> \/ (Len(position[x]) = 1 /\ At(x) \in Text)
  /\ DOMAIN call = Editors
  /\ \A e \in Editors : listed[e] \in Seq(Items)
  /\ report \in [Editors -> {"none", "ok", "error"}]
  /\ calls \in 0..MaxCalls /\ faults \in 0..MaxFaults

OrderInit ==
  /\ kind \in Kinds
  /\ position = [x \in Items |->
       IF x \in ToSet(StartList)
       THEN << [i \in 1..((CHOOSE i \in DOMAIN StartList : StartList[i] = x) - 1) |-> LetterN] >>
       ELSE << >>]
  /\ call = [e \in Editors |-> NoCall]
  /\ listed = [e \in Editors |-> StartList]
  /\ report = [e \in Editors |-> "none"]
  /\ calls = 0 /\ faults = 0

\* A statement that changes a row disturbs every other action under way.
Disturb(e, next) ==
  call' = [f \in Editors |-> IF f = e THEN next
                             ELSE IF call[f] = NoCall THEN NoCall ELSE [call[f] EXCEPT !.alone = FALSE]]

\* The end of an action: it reports, and the page is read anew when it is ok.
Report(e, answer) ==
  /\ report' = [report EXCEPT ![e] = answer]
  /\ listed' \in IF answer = "ok" THEN { [listed EXCEPT ![e] = s] : s \in Sorted' } ELSE {listed}

Begin(e, op, at, items) ==
  /\ call[e] = NoCall /\ calls < MaxCalls
  /\ calls' = calls + 1
  /\ call' = [call EXCEPT ![e] = [NoCall EXCEPT !.op = op, !.at = at, !.items = items]]
  /\ report' = [report EXCEPT ![e] = "none"]
  /\ UNCHANGED << position, listed, faults >>

Refresh(e) ==
  /\ call[e] = NoCall
  /\ listed' \in { [listed EXCEPT ![e] = s] : s \in Sorted }
  /\ UNCHANGED << position, call, report, calls, faults >>

-----------------------------------------------------------------------------
(* addPathNodeAction, createModuleAction, createLessonAction *)

\* A new module or lesson is a new row.
Used(x) == x \in Positioned \/ \E e \in Editors : call[e].op = "add" /\ call[e].items = << x >>

Add(e) ==
  \E x \in Items \ ToSet(listed[e]) :
    /\ Removable \/ ~Used(x)
    /\ Begin(e, "add", "read", << x >>)

ReadLast(e) ==
  /\ call[e].at = "read"
  /\ call' = [call EXCEPT ![e].at = "insert", ![e].keys = << NextPosition >>]
  /\ UNCHANGED << position, listed, report, calls, faults >>

Insert(e) ==
  LET x == call[e].items[1]
      key == call[e].keys[1]
      ok == x \notin Positioned /\ Fits(key) /\ (Unique => ~Taken(key))
  IN /\ call[e].at = "insert"
     /\ position' = IF ok THEN [position EXCEPT ![x] = << key >>] ELSE position
     /\ IF ok THEN Disturb(e, NoCall) ELSE call' = [call EXCEPT ![e] = NoCall]
     /\ Report(e, IF ok THEN "ok" ELSE "error")
     /\ UNCHANGED << calls, faults >>

\* removePathNodeAction
RemoveNode(e) ==
  /\ Removable /\ call[e] = NoCall /\ calls < MaxCalls
  /\ calls' = calls + 1
  /\ \E x \in ToSet(listed[e]) : position' = [position EXCEPT ![x] = << >>]
  /\ Disturb(e, NoCall)
  /\ Report(e, "ok")
  /\ UNCHANGED faults

-----------------------------------------------------------------------------
(* swapPositionsAction on an item and its neighbour.  A statement that is    *)
(* refused changes nothing, and only the last one's refusal is looked at.    *)

Swap(e) ==
  \E i \in 1..Len(listed[e]) - 1 :
    \/ Begin(e, "swap", "fetch", << listed[e][i], listed[e][i + 1] >>)
    \/ Begin(e, "swap", "fetch", << listed[e][i + 1], listed[e][i] >>)

Fetch(e) ==
  LET c == call[e]
  IN /\ c.at = "fetch"
     /\ IF {c.items[1], c.items[2]} \subseteq Positioned
        THEN /\ call' = [call EXCEPT ![e] =
                           [c EXCEPT !.at = "temp", !.alone = TRUE, !.before = position,
                                     !.keys = << At(c.items[1]), At(c.items[2]) >>]]
             /\ UNCHANGED << listed, report >>
        ELSE call' = [call EXCEPT ![e] = NoCall] /\ Report(e, "error")
     /\ UNCHANGED << position, calls, faults >>

\* A row that was removed meanwhile is no error.
Accepts(x, p) == x \notin Positioned \/ (Fits(p) /\ (Unique => ~\E y \in Positioned \ {x} : At(y) = p))
Updated(x, p) ==
  IF x \in Positioned /\ Accepts(x, p) THEN [position EXCEPT ![x] = << p >>] ELSE position

\* The temporary position; the slip takes one that a neighbour may have.
TempNext(p) == Append(p, LetterN)
Temp(p) == Append(p, SwapMark)

Statement(e, at, x, p, next) ==
  /\ call[e].at = at
  /\ position' = Updated(x, p)
  /\ IF position' # position THEN Disturb(e, [call[e] EXCEPT !.at = next])
                             ELSE call' = [call EXCEPT ![e].at = next]
  /\ UNCHANGED << listed, report, calls, faults >>

First(e) == Statement(e, "temp", call[e].items[1], Temp(call[e].keys[1]), "second")
Second(e) == Statement(e, "second", call[e].items[2], call[e].keys[1], "third")
Third(e) ==
  LET x == call[e].items[1]
      p == call[e].keys[2]
  IN /\ call[e].at = "third"
     /\ position' = Updated(x, p)
     /\ IF position' # position THEN Disturb(e, NoCall) ELSE call' = [call EXCEPT ![e] = NoCall]
     /\ Report(e, IF Accepts(x, p) THEN "ok" ELSE "error")
     /\ UNCHANGED << calls, faults >>

\* A statement gets no answer.  A list that could not be read counts as empty,
\* a swap goes on after its first two updates, the others report an error.
Fault(e) ==
  /\ faults < MaxFaults
  /\ faults' = faults + 1
  /\ \/ /\ call[e].at = "read"
        /\ call' = [call EXCEPT ![e].at = "insert", ![e].keys = << << >> >>, ![e].failed = TRUE]
        /\ UNCHANGED << listed, report >>
     \/ /\ call[e].at \in {"temp", "second"}
        /\ call' = [call EXCEPT ![e].at = IF @ = "temp" THEN "second" ELSE "third",
                                ![e].failed = TRUE]
        /\ UNCHANGED << listed, report >>
     \/ /\ call[e].at \in {"fetch", "insert", "third"}
        /\ call' = [call EXCEPT ![e] = NoCall]
        /\ Report(e, "error")
  /\ UNCHANGED << position, calls >>

\* The action dies with what it has done.
Die(e) ==
  /\ faults < MaxFaults /\ call[e] # NoCall
  /\ faults' = faults + 1
  /\ call' = [call EXCEPT ![e] = NoCall]
  /\ UNCHANGED << position, listed, report, calls >>

OrderNext ==
  /\ UNCHANGED kind
  /\ \E e \in Editors :
    \/ Refresh(e) \/ Add(e) \/ ReadLast(e) \/ Insert(e) \/ RemoveNode(e)
    \/ Swap(e) \/ Fetch(e) \/ First(e) \/ Second(e) \/ Third(e) \/ Fault(e) \/ Die(e)

OrderSpec == OrderInit /\ [][OrderNext]_orderVars

-----------------------------------------------------------------------------
(* Properties *)

\* What a swap reports is so, if no other change and no failure came between:
\* ok, and exactly the two have changed places; an error, and nothing moved,
\* which happens only where the temporary position is too long, or kept by
\* an item whose own swap was left halfway.
Exchanged(p, a, b) == [p EXCEPT ![a] = p[b], ![b] = p[a]]
ReportsTrue ==
  [][ \A e \in Editors :
        (Third(e) /\ call[e].alone /\ ~call[e].failed) =>
          LET c == call[e]
              aside == Append(c.keys[1], SwapMark)
          IN IF report'[e] = "ok" THEN position' = Exchanged(c.before, c.items[1], c.items[2])
             ELSE /\ position' = c.before /\ Unique
                  /\ ~Fits(aside) \/ \E x \in Items : c.before[x] = << aside >> ]_orderVars

\* What is added while nobody else changes the list comes after all the rest,
\* also when a swap was left halfway or items were removed before.
AddsComeLast ==
  [][ \A e \in Editors :
        (Insert(e) /\ call[e].alone /\ ~call[e].failed /\ report'[e] = "ok") =>
          \A x \in Positioned : Before(At(x), position'[call[e].items[1]][1]) ]_orderVars

\* An edit that nobody disturbs does what it says.
EditsTrue == ReportsTrue /\ AddsComeLast
=============================================================================
