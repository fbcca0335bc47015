-------------------------- MODULE WorkspaceProofs --------------------------
(***************************************************************************)
(* Proofs about five parts of the staff's workspace.                       *)
(*                                                                         *)
(* The path graph, finite or not: the report's verdicts are exact.  A set  *)
(* of nodes is stuck when each of them requires another of the set; the    *)
(* nodes on the stack always form a chain of requirements, so whatever     *)
(* meets the stack again closes a stuck set, and a node is left behind     *)
(* only when all it requires was.                                          *)
(*                                                                         *)
(* Onboarding, for any number of tabs, members and steps: the guided tours *)
(* pass no step over, and the launch checklist celebrates once, what was   *)
(* earned.                                                                 *)
(*                                                                         *)
(* The order of a curriculum, for any number of items and editors: every   *)
(* edit is refused, or ends as it says.                                    *)
(*                                                                         *)
(* Finding one's way, whatever roles there are: a trail of crumbs orients,  *)
(* and where roles and pages agree what is offered opens.                  *)
(*                                                                         *)
(* Overview and Insights, for any number of courses, paths and learners:   *)
(* no page is told what was never so.                                      *)
(***************************************************************************)
EXTENDS PathGraph, Onboarding, CurriculumOrder, Navigation, Insights, FiniteSetTheorems,
        FunctionTheorems, WellFoundedInduction, TLAPS

(* A node of some stuck set.                                               *)
Blocked(n) == \E S \in SUBSET nodes : Stuck(S) /\ n \in S

-----------------------------------------------------------------------------
(* The stack                                                               *)

LEMMA TopTyped ==
  ASSUME TypeOK, stack # <<>>
  PROVE  /\ Len(stack) \in Nat \ {0}
         /\ Top \in Frames /\ Top.id \in Ids /\ Top.left \subseteq Ids
         /\ \A i \in 1..Len(stack) : stack[i] \in Frames
<1>1. stack \in Seq(Frames) /\ Len(stack) \in Nat \ {0}
  BY DEF TypeOK
<1>2. \A i \in 1..Len(stack) : stack[i] \in Frames
  BY <1>1
<1>3. Top \in Frames
  BY <1>1, <1>2 DEF Top
<1> QED BY <1>1, <1>2, <1>3 DEF Frames

LEMMA PastTyped ==
  ASSUME TypeOK, stack # <<>>, NEW r
  PROVE  /\ Past(r) \in Seq(Frames) /\ Len(Past(r)) = Len(stack)
         /\ \A i \in 1..Len(stack) :
              /\ Past(r)[i].id = stack[i].id
              /\ Past(r)[i].left = IF i = Len(stack) THEN Top.left \ {r} ELSE stack[i].left
<1> DEFINE f == [Top EXCEPT !.left = @ \ {r}]
<1>1. stack \in Seq(Frames) /\ Len(stack) \in Nat \ {0}
  BY TopTyped DEF TypeOK
<1>2. f \in Frames /\ f.id = Top.id /\ f.left = Top.left \ {r}
  BY TopTyped DEF Frames
<1>3. Past(r) = [stack EXCEPT ![Len(stack)] = f]
  BY DEF Past, Top
<1> HIDE DEF f
<1>4. Past(r) \in Seq(Frames) /\ Len(Past(r)) = Len(stack)
  BY <1>1, <1>2, <1>3
<1>5. \A i \in 1..Len(stack) : Past(r)[i] = IF i = Len(stack) THEN f ELSE stack[i]
  BY <1>1, <1>3
<1> QED BY <1>1, <1>2, <1>4, <1>5 DEF Top

LEMMA FrameTyped ==
  ASSUME TypeOK, NEW n \in Ids
  PROVE  /\ Frame(n) \in Frames /\ Frame(n).id = n /\ Frame(n).left = Requires(n)
         /\ Requires(n) \subseteq nodes
  BY DEF Frame, Frames, Requires, TypeOK

LEMMA PopTyped ==
  ASSUME TypeOK, stack # <<>>
  PROVE  /\ Pop \in Seq(Frames) /\ Len(Pop) = Len(stack) - 1
         /\ \A i \in 1..(Len(stack) - 1) : Pop[i] = stack[i]
<1>1. stack \in Seq(Frames) /\ Len(stack) \in Nat \ {0}
  BY TopTyped DEF TypeOK
<1> DEFINE k == Len(stack) - 1
<1>2. k \in Nat /\ \A i \in 1..k : stack[i] \in Frames
  BY <1>1, TopTyped
<1>3. Pop \in [1..k -> Frames]
  BY <1>2 DEF Pop
<1>4. Pop \in Seq(Frames) /\ Len(Pop) = k
  BY <1>2, <1>3
<1> QED BY <1>1, <1>2, <1>4 DEF Pop

(* What the two ways of lengthening the stack put on it.                   *)
LEMMA PushTyped ==
  ASSUME TypeOK, NEW s \in Seq(Frames), NEW r \in Ids
  PROVE  /\ Append(s, Frame(r)) \in Seq(Frames)
         /\ Len(Append(s, Frame(r))) = Len(s) + 1 /\ Len(s) \in Nat
         /\ Append(s, Frame(r))[Len(s) + 1] = Frame(r)
         /\ \A i \in 1..Len(s) : Append(s, Frame(r))[i] = s[i]
  BY FrameTyped

-----------------------------------------------------------------------------
(* Types                                                                   *)

LEMMA TypeInit == Init => TypeOK
  BY DEF Init, TypeOK

LEMMA TypeStep == TypeOK /\ [Next]_graphVars => TypeOK'
<1> SUFFICES ASSUME TypeOK, [Next]_graphVars PROVE TypeOK'
  OBVIOUS
<1> USE DEF TypeOK, input
<1>1. ASSUME Retreat PROVE TypeOK'
  BY <1>1, PopTyped, TopTyped DEF Retreat
<1>2. ASSUME Completed PROVE TypeOK'
  BY <1>2, PopTyped, TopTyped DEF Completed, Answer
<1>3. ASSUME NEW n \in Ids, Visit(n) PROVE TypeOK'
  BY <1>3, FrameTyped DEF Visit
<1>4. ASSUME NEW n \in Ids, Follow(n) PROVE TypeOK'
  <2>1. Append(Past(n), Frame(n)) \in Seq(Frames)
    BY <1>4, PastTyped, PushTyped DEF Follow
  <2> QED BY <1>4, <2>1 DEF Follow
<1>5. ASSUME NEW n \in Ids, Look(n) PROVE TypeOK'
  <2>1. Past(n) \in Seq(Frames)
    BY <1>5, PastTyped DEF Look
  <2>2. TrailFrom(n) \subseteq Ids
    BY <1>5, TopTyped DEF TrailFrom, Look, Frames
  <2> QED BY <1>5, <2>1, <2>2 DEF Look
<1>6. ASSUME NEW n \in Ids, Ask(n) PROVE TypeOK'
  BY <1>6, FrameTyped DEF Ask
<1>7. ASSUME NEW n \in Ids, AskRequired(n) PROVE TypeOK'
  <2>1. Append(stack, Frame(n)) \in Seq(Frames)
    BY <1>7, PushTyped
  <2> QED BY <1>7, <2>1 DEF AskRequired
<1>8. ASSUME NEW n \in Ids, Satisfied(n) PROVE TypeOK'
  <2>1. Past(n) \in Seq(Frames)
    BY <1>8, PastTyped DEF Satisfied
  <2> QED BY <1>8, <2>1 DEF Satisfied
<1>9. ASSUME NEW n \in Ids, Unsatisfied(n) PROVE TypeOK'
  BY <1>9, PopTyped, TopTyped DEF Unsatisfied, Answer
<1>10. CASE UNCHANGED graphVars
  BY <1>10 DEF graphVars
<1> QED BY <1>1, <1>2, <1>3, <1>4, <1>5, <1>6, <1>7, <1>8, <1>9, <1>10 DEF Next

(* The search only ever holds nodes, frames and colors.                    *)
THEOREM GraphTypeCorrect == Spec => []TypeOK
  BY TypeInit, TypeStep, PTL DEF Spec

-----------------------------------------------------------------------------
(* The inductive invariant                                                 *)

(* The stack is a chain of requirements without repetition.                *)
Chain ==
  /\ \A i \in 1..Len(stack) :
       stack[i].id \in nodes /\ stack[i].left \subseteq Requires(stack[i].id)
  /\ \A i, j \in 1..Len(stack) : stack[i].id = stack[j].id => i = j
  /\ \A i \in 1..(Len(stack) - 1) : stack[i + 1].id \in Requires(stack[i].id)

GreyOnStack == ~Visited => \A n \in Ids : color[n] = "grey" <=> OnStack(n)

(* What the search has looked at is done with, but for the next frame's.   *)
LookedAt ==
  ~Visited =>
    \A i \in 1..Len(stack) : \A r \in Requires(stack[i].id) \ stack[i].left :
      \/ inCycle # {}
      \/ color[r] = "black"
      \/ i < Len(stack) /\ stack[i + 1].id = r

CycleFound ==
  /\ \A n \in inCycle : Blocked(n)
  /\ inCycle = {} => \A n \in nodes : color[n] = "black" => ~Blocked(n)

(* The cache is right, and a frame has passed only what can be completed.  *)
CacheRight ==
  /\ \A n \in nodes : completable[n] = "no" => Blocked(n)
  /\ \A n \in nodes : completable[n] = "yes" => ~Blocked(n)
  /\ Visited =>
       \A i \in 1..Len(stack) : \A r \in Requires(stack[i].id) \ stack[i].left :
         completable[r] = "yes"

IInv == TypeOK /\ Chain /\ GreyOnStack /\ LookedAt /\ CycleFound /\ CacheRight

-----------------------------------------------------------------------------
(* Stuck sets                                                              *)

LEMMA BlockedUp ==
  ASSUME NEW n \in nodes, NEW r \in Requires(n), Blocked(r)
  PROVE  Blocked(n)
<1>1. PICK S \in SUBSET nodes : Stuck(S) /\ r \in S
  BY DEF Blocked
<1>2. Stuck(S \cup {n})
  BY <1>1 DEF Stuck
<1> QED BY <1>1, <1>2 DEF Blocked

(* A chain whose end requires one of its nodes again.                      *)
LEMMA TrailStuck ==
  ASSUME TypeOK, Chain, stack # <<>>, NEW r \in Requires(Top.id), OnStack(r)
  PROVE  Stuck(TrailFrom(r)) /\ r \in TrailFrom(r) /\ Top.id \in TrailFrom(r)
<1>1. Len(stack) \in Nat \ {0}
  BY TopTyped
<1>2. PICK j \in 1..Len(stack) : stack[j].id = r
  BY DEF OnStack
<1>3. \A i \in j..Len(stack) : stack[i].id \in TrailFrom(r)
  BY <1>1, <1>2 DEF TrailFrom
<1>4. TrailFrom(r) \subseteq nodes
  BY DEF TrailFrom, Chain
<1>5. r \in TrailFrom(r) /\ Top.id \in TrailFrom(r)
  BY <1>1, <1>2, <1>3 DEF Top
<1>6. ASSUME NEW n \in TrailFrom(r) PROVE Requires(n) \cap TrailFrom(r) # {}
  <2>1. PICK i \in 1..Len(stack) : n = stack[i].id /\ \E k \in 1..i : stack[k].id = r
    BY <1>6 DEF TrailFrom
  <2>2. CASE i = Len(stack)
    BY <1>5, <2>1, <2>2 DEF Top
  <2>3. CASE i # Len(stack)
    <3>1. i \in 1..(Len(stack) - 1) /\ i + 1 \in 1..Len(stack)
      BY <1>1, <2>3
    <3>2. stack[i + 1].id \in Requires(n)
      BY <2>1, <3>1 DEF Chain
    <3>3. stack[i + 1].id \in TrailFrom(r)
      BY <1>1, <2>1, <3>1 DEF TrailFrom
    <3> QED BY <3>2, <3>3
  <2> QED BY <2>2, <2>3
<1> QED BY <1>4, <1>5, <1>6 DEF Stuck

(* A node whose requirements are all free is free itself.                  *)
LEMMA FreeUp ==
  ASSUME NEW n \in nodes, \A r \in Requires(n) : ~Blocked(r)
  PROVE  ~Blocked(n)
<1> SUFFICES ASSUME Blocked(n) PROVE FALSE
  OBVIOUS
<1>1. PICK S \in SUBSET nodes : Stuck(S) /\ n \in S
  BY DEF Blocked
<1>2. PICK r \in Requires(n) : r \in S
  BY <1>1 DEF Stuck
<1> QED BY <1>1, <1>2 DEF Blocked

LEMMA InputKept ==
  ASSUME [Next]_graphVars
  PROVE  /\ UNCHANGED input
         /\ \A n : Requires(n)' = Requires(n)
         /\ \A n : Blocked(n)' <=> Blocked(n)
<1>1. UNCHANGED input
  BY DEF Next, graphVars, Retreat, Completed, Visit, Follow, Look, Ask, AskRequired,
         Satisfied, Unsatisfied, Answer
<1>2. \A n : Requires(n)' = Requires(n)
  BY <1>1 DEF Requires, input
<1>3. \A S : Stuck(S)' <=> Stuck(S)
  BY <1>1 DEF Stuck, Requires, input
<1>4. \A n : Blocked(n)' <=> Blocked(n)
  BY <1>1, <1>3 DEF Blocked, input
<1> QED BY <1>1, <1>2, <1>4

-----------------------------------------------------------------------------
(* The chain under what the steps do to the stack                          *)

LEMMA RequiresKept ==
  ASSUME UNCHANGED input
  PROVE  nodes' = nodes /\ \A n : Requires(n)' = Requires(n)
  BY DEF Requires, input

LEMMA ChainOne ==
  ASSUME TypeOK, NEW n \in nodes, stack' = <<Frame(n)>>, UNCHANGED input
  PROVE  Chain' /\ Len(stack') = 1 /\ stack'[1] = Frame(n)
<1>1. Len(stack') = 1 /\ stack'[1] = Frame(n)
  OBVIOUS
<1>2. Frame(n).id = n /\ Frame(n).left = Requires(n)
  BY DEF Frame
<1> QED BY <1>1, <1>2 DEF Chain, Requires, input

LEMMA ChainPast ==
  ASSUME TypeOK, Chain, stack # <<>>, NEW r, stack' = Past(r), UNCHANGED input
  PROVE  Chain' /\ \A m : OnStack(m)' <=> OnStack(m)
<1>1. /\ Len(stack') = Len(stack) /\ Len(stack) \in Nat
      /\ \A i \in 1..Len(stack) :
           stack'[i].id = stack[i].id /\ stack'[i].left \subseteq stack[i].left
  BY PastTyped, TopTyped DEF Top
<1>2. \A i \in 1..Len(stack) :
        stack'[i].id \in nodes /\ stack'[i].left \subseteq Requires(stack[i].id)
  BY <1>1 DEF Chain
<1>3. Chain'
  <2>1. \A i \in 1..Len(stack') :
          stack'[i].id \in nodes' /\ stack'[i].left \subseteq Requires(stack[i].id)'
    BY <1>1, <1>2, RequiresKept
  <2>2. \A i \in 1..(Len(stack) - 1) : stack[i + 1].id \in Requires(stack[i].id)
    BY DEF Chain
  <2>3. \A i \in 1..(Len(stack) - 1) : i \in 1..Len(stack) /\ i + 1 \in 1..Len(stack)
    BY <1>1
  <2>4. \A i \in 1..(Len(stack') - 1) : stack'[i + 1].id \in Requires(stack[i].id)'
    BY <1>1, <2>2, <2>3, RequiresKept
  <2>5. \A i, j \in 1..Len(stack') : stack'[i].id = stack'[j].id => i = j
    BY <1>1 DEF Chain
  <2> QED BY <2>1, <2>4, <2>5 DEF Chain
<1> QED BY <1>1, <1>3 DEF OnStack

LEMMA ChainPop ==
  ASSUME TypeOK, Chain, stack # <<>>, stack' = Pop, UNCHANGED input
  PROVE  Chain' /\ \A m : OnStack(m)' <=> (OnStack(m) /\ m # Top.id)
<1>1. /\ Len(stack') = Len(stack) - 1 /\ Len(stack) \in Nat \ {0}
      /\ \A i \in 1..(Len(stack) - 1) : stack'[i] = stack[i]
  BY PopTyped, TopTyped
<1>2. Chain'
  <2>1. \A i \in 1..Len(stack') : i \in 1..Len(stack) /\ stack'[i] = stack[i]
    BY <1>1
  <2>2. \A i \in 1..(Len(stack') - 1) :
          i \in 1..Len(stack') /\ i + 1 \in 1..Len(stack') /\ i \in 1..(Len(stack) - 1)
    BY <1>1
  <2>3. \A i \in 1..Len(stack') :
          stack'[i].id \in nodes /\ stack'[i].left \subseteq Requires(stack'[i].id)
    BY <2>1 DEF Chain
  <2>4. \A i \in 1..(Len(stack') - 1) : stack'[i + 1].id \in Requires(stack'[i].id)
    BY <2>1, <2>2 DEF Chain
  <2>5. \A i, j \in 1..Len(stack') : stack'[i].id = stack'[j].id => i = j
    BY <2>1 DEF Chain
  <2> QED BY <2>3, <2>4, <2>5 DEF Chain, Requires, input
<1>3. \A i \in 1..Len(stack) : stack[i].id = Top.id <=> i = Len(stack)
  BY <1>1 DEF Chain, Top
<1>4. ASSUME NEW m PROVE OnStack(m)' <=> (OnStack(m) /\ m # Top.id)
  BY <1>1, <1>3 DEF OnStack
<1> QED BY <1>2, <1>4

LEMMA ChainPush ==
  ASSUME TypeOK, Chain, stack # <<>>, NEW s \in Seq(Frames), Len(s) = Len(stack),
         \A i \in 1..Len(stack) : s[i].id = stack[i].id /\ s[i].left \subseteq stack[i].left,
         NEW r \in Requires(Top.id), ~OnStack(r),
         stack' = Append(s, Frame(r)), UNCHANGED input
  PROVE  Chain' /\ \A m : OnStack(m)' <=> (OnStack(m) \/ m = r)
<1>1. Len(stack) \in Nat \ {0}
  BY TopTyped
<1>2. r \in nodes /\ r \in Ids
  BY DEF Requires, TypeOK
<1>3. /\ Len(stack') = Len(stack) + 1
      /\ stack'[Len(stack) + 1] = Frame(r)
      /\ \A i \in 1..Len(stack) : stack'[i] = s[i]
  BY <1>2, PushTyped
<1>4. Frame(r).id = r /\ Frame(r).left = Requires(r)
  BY DEF Frame
<1>5. \A i \in 1..Len(stack') :
        stack'[i].id \in nodes /\ stack'[i].left \subseteq Requires(stack'[i].id)
  <2>1. \A i \in 1..Len(stack') : i \in 1..Len(stack) \/ i = Len(stack) + 1
    BY <1>1, <1>3
  <2>2. \A i \in 1..Len(stack) :
          stack'[i].id \in nodes /\ stack'[i].left \subseteq Requires(stack'[i].id)
    BY <1>3 DEF Chain
  <2>3. stack'[Len(stack) + 1].id = r /\ stack'[Len(stack) + 1].left = Requires(r)
    BY <1>3, <1>4
  <2> QED BY <1>2, <2>1, <2>2, <2>3
<1>6. \A i, j \in 1..Len(stack') : stack'[i].id = stack'[j].id => i = j
  BY <1>1, <1>3, <1>4 DEF Chain, OnStack
<1>7. \A i \in 1..(Len(stack') - 1) : stack'[i + 1].id \in Requires(stack'[i].id)
  BY <1>1, <1>3, <1>4 DEF Chain, Top
<1>8. Chain'
  BY <1>5, <1>6, <1>7 DEF Chain, Requires, input
<1>9. \A m : OnStack(m)' <=> (OnStack(m) \/ m = r)
  BY <1>1, <1>3, <1>4 DEF OnStack
<1> QED BY <1>8, <1>9

LEMMA InvInit == Init => IInv
<1> SUFFICES ASSUME Init PROVE IInv
  OBVIOUS
<1>1. Len(stack) = 0
  BY DEF Init
<1>2. Chain /\ LookedAt /\ GreyOnStack
  BY <1>1 DEF Init, Chain, LookedAt, GreyOnStack, OnStack
<1>3. CycleFound /\ CacheRight
  BY <1>1 DEF Init, CycleFound, CacheRight, TypeOK
<1> QED BY <1>2, <1>3, TypeInit DEF IInv

-----------------------------------------------------------------------------
(* The search                                                              *)

LEMMA VisitKeeps ==
  ASSUME IInv, NEW n \in Ids, Visit(n)
  PROVE  Chain' /\ GreyOnStack' /\ LookedAt' /\ CycleFound' /\ CacheRight'
<1> USE DEF IInv
<1>1. [Next]_graphVars
  BY DEF Next
<1>2. Chain' /\ Len(stack') = 1 /\ stack'[1] = Frame(n)
  BY ChainOne DEF Visit
<1>3. Frame(n).id = n /\ Frame(n).left = Requires(n)
  BY DEF Frame
<1>4. \A m \in Ids : OnStack(m)' <=> m = n
  BY <1>2, <1>3 DEF OnStack
<1>5. \A m \in Ids : color'[m] = IF m = n THEN "grey" ELSE color[m]
  BY DEF Visit, TypeOK
<1>6. \A m \in Ids : color[m] # "grey"
  BY DEF Visit, GreyOnStack, OnStack
<1>7. GreyOnStack'
  BY <1>4, <1>5, <1>6 DEF GreyOnStack
<1>8. LookedAt' /\ ~Visited'
  BY <1>1, <1>2, <1>3, <1>5, InputKept DEF LookedAt, Visit, Visited, input
<1>9. CycleFound'
  BY <1>1, <1>5, InputKept DEF CycleFound, Visit, TypeOK, input
<1>10. CacheRight'
  BY <1>1, <1>8, InputKept DEF CacheRight, Visit, input
<1> QED BY <1>2, <1>7, <1>8, <1>9, <1>10

LEMMA FollowKeeps ==
  ASSUME IInv, NEW n \in Ids, Follow(n)
  PROVE  Chain' /\ GreyOnStack' /\ LookedAt' /\ CycleFound' /\ CacheRight'
<1> USE DEF IInv
<1> DEFINE s == Past(n)
<1>1. [Next]_graphVars /\ stack # <<>> /\ ~Visited
  BY DEF Next, Follow
<1>2. /\ s \in Seq(Frames) /\ Len(s) = Len(stack) /\ Len(stack) \in Nat \ {0}
      /\ \A i \in 1..Len(stack) :
           /\ s[i].id = stack[i].id
           /\ s[i].left = IF i = Len(stack) THEN Top.left \ {n} ELSE stack[i].left
  BY <1>1, PastTyped, TopTyped
<1>3. \A i \in 1..Len(stack) : s[i].left \subseteq stack[i].left
  BY <1>2 DEF Top
<1> HIDE DEF s
<1>4. Len(stack) \in 1..Len(stack) /\ Top = stack[Len(stack)]
  BY <1>2 DEF Top
<1>5. n \in Requires(Top.id) /\ n \in nodes /\ color[n] = "white"
  BY <1>4 DEF Follow, Chain, Requires
<1>6. ~OnStack(n)
  BY <1>1, <1>5 DEF GreyOnStack
<1>7. stack' = Append(s, Frame(n)) /\ UNCHANGED input
  BY DEF Follow, s
<1>8. Chain' /\ \A m : OnStack(m)' <=> (OnStack(m) \/ m = n)
  BY <1>1, <1>2, <1>3, <1>5, <1>6, <1>7, ChainPush
<1>9. \A m \in Ids : color'[m] = IF m = n THEN "grey" ELSE color[m]
  BY DEF Follow, TypeOK
<1>10. GreyOnStack'
  BY <1>1, <1>8, <1>9 DEF GreyOnStack
<1>11. ~Visited'
  BY <1>5, <1>7, <1>9, RequiresKept DEF Visited
<1>12. LookedAt'
  <2> SUFFICES ASSUME NEW i \in 1..Len(stack'), inCycle' = {},
                      NEW r \in Requires(stack[i].id)', r \notin stack'[i].left
               PROVE  color'[r] = "black" \/ (i < Len(stack') /\ stack'[i + 1].id = r)
    BY DEF LookedAt
  <2>1. /\ Len(stack') = Len(stack) + 1 /\ stack'[Len(stack) + 1] = Frame(n)
        /\ \A k \in 1..Len(stack) : stack'[k] = s[k]
    BY <1>2, <1>7, PushTyped
  <2>2. Frame(n).id = n /\ Frame(n).left = Requires(n)
    BY DEF Frame
  <2>3. Requires(stack[i].id)' = Requires(stack'[i].id)
    BY <1>7, RequiresKept
  <2>4. i \in 1..Len(stack) /\ i # Len(stack) + 1
    BY <1>2, <2>1, <2>2, <2>3
  <2>5. stack'[i].id = stack[i].id /\ r \in Requires(stack[i].id) /\ r \in nodes /\ r \in Ids
    BY <1>2, <2>1, <2>3, <2>4 DEF Requires, TypeOK
  <2>6. stack'[i + 1].id = IF i = Len(stack) THEN n ELSE stack[i + 1].id
    BY <1>2, <2>1, <2>2, <2>4
  <2>7. CASE i = Len(stack) /\ r = n
    BY <1>2, <2>1, <2>6, <2>7
  <2>8. CASE ~(i = Len(stack) /\ r = n)
    <3>1. r \notin stack[i].left
      BY <1>2, <1>4, <2>1, <2>4, <2>8
    <3>2. color[r] = "black" \/ (i < Len(stack) /\ stack[i + 1].id = r)
      <4>1. inCycle = {}
        BY DEF Follow
      <4> QED BY <1>1, <2>4, <2>5, <3>1, <4>1 DEF LookedAt
    <3> QED BY <1>2, <1>5, <1>9, <2>1, <2>5, <2>6, <3>2
  <2> QED BY <2>7, <2>8
<1>13. CycleFound'
  BY <1>1, <1>9, InputKept DEF CycleFound, Follow, TypeOK, input
<1>14. CacheRight'
  BY <1>1, <1>11, InputKept DEF CacheRight, Follow, input
<1> QED BY <1>8, <1>10, <1>12, <1>13, <1>14

LEMMA LookKeeps ==
  ASSUME IInv, NEW n \in Ids, Look(n)
  PROVE  Chain' /\ GreyOnStack' /\ LookedAt' /\ CycleFound' /\ CacheRight'
<1> USE DEF IInv
<1>1. [Next]_graphVars /\ stack # <<>> /\ ~Visited /\ ~Visited'
  BY DEF Next, Look, Visited, input
<1>2. /\ Len(stack') = Len(stack) /\ Len(stack) \in Nat \ {0}
      /\ \A i \in 1..Len(stack) :
           /\ stack'[i].id = stack[i].id
           /\ stack'[i].left = IF i = Len(stack) THEN Top.left \ {n} ELSE stack[i].left
  BY <1>1, PastTyped, TopTyped DEF Look
<1>3. Len(stack) \in 1..Len(stack) /\ Top = stack[Len(stack)]
  BY <1>2 DEF Top
<1>4. n \in Requires(Top.id) /\ n \in nodes
  BY <1>3 DEF Look, Chain, Requires
<1>5. Chain' /\ \A m : OnStack(m)' <=> OnStack(m)
  BY <1>1, ChainPast DEF Look
<1>6. GreyOnStack'
  BY <1>1, <1>5 DEF GreyOnStack, Look
<1>7. color[n] = "black" \/ (inCycle' # {} /\ \A m \in inCycle' : Blocked(m))
  <2>1. CASE color[n] = "grey"
    <3>1. OnStack(n)
      BY <1>1, <2>1 DEF GreyOnStack
    <3>2. Stuck(TrailFrom(n)) /\ n \in TrailFrom(n)
      BY <1>1, <1>4, <3>1, TrailStuck
    <3>3. \A m \in TrailFrom(n) : Blocked(m)
      BY <3>2 DEF Blocked, Stuck
    <3> QED BY <2>1, <3>2, <3>3 DEF Look, CycleFound
  <2>2. CASE color[n] # "grey"
    <3>1. color[n] \in {"white", "grey", "black"} /\ color[n] # "white"
      BY DEF Look, TypeOK
    <3> QED BY <2>2, <3>1
  <2> QED BY <2>1, <2>2
<1>8. inCycle' = {} => inCycle = {}
  BY DEF Look
<1>9. LookedAt'
  <2> SUFFICES ASSUME NEW i \in 1..Len(stack'), inCycle' = {},
                      NEW r \in Requires(stack[i].id)', r \notin stack'[i].left
               PROVE  color'[r] = "black" \/ (i < Len(stack') /\ stack'[i + 1].id = r)
    BY DEF LookedAt
  <2>1. i \in 1..Len(stack) /\ stack'[i].id = stack[i].id
    BY <1>2
  <2>2. r \in Requires(stack[i].id)
    BY <2>1, RequiresKept DEF Look
  <2>3. CASE i = Len(stack) /\ r = n
    BY <1>7, <2>3 DEF Look
  <2>4. CASE ~(i = Len(stack) /\ r = n)
    <3>1. r \notin stack[i].left
      BY <1>2, <1>3, <2>1, <2>4
    <3>2. color[r] = "black" \/ (i < Len(stack) /\ stack[i + 1].id = r)
      BY <1>1, <1>8, <2>1, <2>2, <3>1 DEF LookedAt
    <3>3. i < Len(stack) => i + 1 \in 1..Len(stack)
      BY <1>2, <2>1
    <3> QED BY <1>2, <3>2, <3>3 DEF Look
  <2> QED BY <2>3, <2>4
<1>10. CycleFound'
  <2>1. \A m \in inCycle' : Blocked(m)
    BY <1>7 DEF Look, CycleFound, TypeOK
  <2>2. inCycle' = {} => \A m \in nodes : color'[m] = "black" => ~Blocked(m)
    BY <1>8 DEF CycleFound, Look
  <2> QED BY <1>1, <2>1, <2>2, InputKept DEF CycleFound, input
<1>11. CacheRight'
  BY <1>1, InputKept DEF CacheRight, Look, input
<1> QED BY <1>5, <1>6, <1>9, <1>10, <1>11

LEMMA RetreatKeeps ==
  ASSUME IInv, Retreat
  PROVE  Chain' /\ GreyOnStack' /\ LookedAt' /\ CycleFound' /\ CacheRight'
<1> USE DEF IInv
<1>1. [Next]_graphVars /\ stack # <<>> /\ ~Visited
  BY DEF Next, Retreat
<1>2. /\ Len(stack') = Len(stack) - 1 /\ Len(stack) \in Nat \ {0}
      /\ \A i \in 1..(Len(stack) - 1) : stack'[i] = stack[i]
  BY <1>1, PopTyped, TopTyped DEF Retreat
<1>3. Len(stack) \in 1..Len(stack) /\ Top = stack[Len(stack)]
  BY <1>2 DEF Top
<1>4. Top.id \in nodes /\ Top.id \in Ids
  BY <1>3 DEF Chain, TypeOK
<1>5. Chain' /\ \A m : OnStack(m)' <=> (OnStack(m) /\ m # Top.id)
  BY <1>1, ChainPop DEF Retreat
<1>6. \A m \in Ids : color'[m] = IF m = Top.id THEN "black" ELSE color[m]
  BY <1>4 DEF Retreat, TypeOK
<1>7. \A m \in Ids : color'[m] = "grey" <=> OnStack(m)'
  BY <1>1, <1>5, <1>6 DEF GreyOnStack
<1>8. GreyOnStack'
  BY <1>7 DEF GreyOnStack
<1>9. LookedAt'
  <2> SUFFICES ASSUME NEW i \in 1..Len(stack'), inCycle' = {},
                      NEW r \in Requires(stack[i].id)', r \notin stack'[i].left
               PROVE  color'[r] = "black" \/ (i < Len(stack') /\ stack'[i + 1].id = r)
    BY DEF LookedAt
  <2>1. i \in 1..Len(stack) /\ i < Len(stack) /\ stack'[i] = stack[i]
    BY <1>2
  <2>2. r \in Requires(stack[i].id) /\ r \in Ids
    BY <2>1, RequiresKept DEF Retreat, Requires, TypeOK
  <2>3. color[r] = "black" \/ stack[i + 1].id = r
    BY <1>1, <2>1, <2>2 DEF LookedAt, Retreat
  <2>4. i + 1 \in 1..(Len(stack) - 1) \/ i + 1 = Len(stack)
    BY <1>2, <2>1
  <2> QED BY <1>2, <1>3, <1>6, <2>2, <2>3, <2>4
<1>10. CycleFound'
  <2>1. ASSUME inCycle = {} PROVE ~Blocked(Top.id)
    <3>1. \A r \in Requires(Top.id) : color[r] = "black" /\ r \in nodes
      BY <1>1, <1>2, <1>3, <2>1 DEF LookedAt, Retreat, Requires
    <3>2. \A r \in Requires(Top.id) : ~Blocked(r)
      BY <2>1, <3>1 DEF CycleFound
    <3> QED BY <1>4, <3>2, FreeUp
  <2>2. inCycle' = {} => \A m \in nodes : color'[m] = "black" => ~Blocked(m)
    BY <1>6, <2>1 DEF CycleFound, Retreat, TypeOK
  <2>3. \A m \in inCycle' : Blocked(m)
    BY DEF CycleFound, Retreat
  <2> QED BY <1>1, <2>2, <2>3, InputKept DEF CycleFound, input
<1>11. CacheRight'
  <2>1. Visited' => Len(stack') = 0
    <3>1. ASSUME Visited', Len(stack') # 0 PROVE FALSE
      <4>1. 1 \in 1..Len(stack')
        BY <1>2, <3>1
      <4>2. OnStack(stack[1].id)' /\ stack'[1].id \in nodes'
        BY <1>5, <4>1 DEF OnStack, Chain
      <4>3. stack'[1].id \in Ids /\ color'[stack'[1].id] = "black"
        BY <3>1, <4>2 DEF Visited, Retreat, input, TypeOK
      <4>4. color'[stack'[1].id] = "grey"
        BY <1>7, <4>2, <4>3
      <4> QED BY <4>3, <4>4
    <3> QED BY <3>1
  <2>2. \A m \in nodes' : /\ completable'[m] = "no" => Blocked(m)'
                          /\ completable'[m] = "yes" => ~Blocked(m)'
    BY <1>1, InputKept DEF CacheRight, Retreat, input
  <2>3. Visited' => \A i \in 1..Len(stack') : FALSE
    BY <2>1
  <2> QED BY <2>2, <2>3 DEF CacheRight
<1> QED BY <1>5, <1>8, <1>9, <1>10, <1>11

-----------------------------------------------------------------------------
(* The recursion, once the search is over                                  *)

LEMMA VisitedKeeps ==
  ASSUME IInv, [Next]_graphVars, Visited, UNCHANGED <<input, color, inCycle>>
  PROVE  Visited' /\ GreyOnStack' /\ LookedAt' /\ CycleFound'
<1>1. Visited'
  BY DEF Visited, input
<1>2. GreyOnStack' /\ LookedAt'
  BY <1>1 DEF GreyOnStack, LookedAt
<1>3. CycleFound'
  BY InputKept DEF IInv, CycleFound, input
<1> QED BY <1>1, <1>2, <1>3

(* While nothing is put in the cache, it stays right.                      *)
LEMMA CacheKept ==
  ASSUME IInv, [Next]_graphVars, UNCHANGED completable,
         \A i \in 1..Len(stack') : \A r \in Requires(stack[i].id)' \ stack'[i].left :
           completable[r] = "yes"
  PROVE  CacheRight'
  BY InputKept DEF IInv, CacheRight, input

LEMMA AskKeeps ==
  ASSUME IInv, NEW n \in Ids, Ask(n)
  PROVE  Chain' /\ CacheRight'
<1> USE DEF IInv
<1>1. [Next]_graphVars
  BY DEF Next
<1>2. Chain' /\ Len(stack') = 1 /\ stack'[1] = Frame(n)
  BY ChainOne DEF Ask
<1>3. Frame(n).id = n /\ Frame(n).left = Requires(n) /\ Requires(n)' = Requires(n)
  BY RequiresKept DEF Frame, Ask
<1>4. \A i \in 1..Len(stack') : Requires(stack[i].id)' \ stack'[i].left = {}
  <2>1. \A i \in 1..Len(stack') : i = 1
    BY <1>2
  <2>2. Requires(stack[1].id)' = Requires(n)
    BY <1>2, <1>3, RequiresKept DEF Ask
  <2> QED BY <1>2, <1>3, <2>1, <2>2
<1>5. CacheRight'
  BY <1>1, <1>4, CacheKept DEF Ask
<1> QED BY <1>2, <1>5

LEMMA AskRequiredKeeps ==
  ASSUME IInv, NEW n \in Ids, AskRequired(n)
  PROVE  Chain' /\ CacheRight'
<1> USE DEF IInv
<1>1. [Next]_graphVars /\ stack # <<>> /\ Visited
  BY DEF Next, AskRequired
<1>2. Len(stack) \in Nat \ {0} /\ stack \in Seq(Frames)
  BY <1>1, TopTyped DEF TypeOK
<1>3. Len(stack) \in 1..Len(stack) /\ Top = stack[Len(stack)]
  BY <1>2 DEF Top
<1>4. n \in Requires(Top.id) /\ n \in nodes /\ ~OnStack(n)
  BY <1>3 DEF AskRequired, Chain, Requires, Known, KnownNo
<1>5. Chain'
  BY <1>1, <1>2, <1>4, ChainPush DEF AskRequired
<1>6. /\ Len(stack') = Len(stack) + 1 /\ stack'[Len(stack) + 1] = Frame(n)
      /\ \A i \in 1..Len(stack) : stack'[i] = stack[i]
  BY <1>2, PushTyped DEF AskRequired
<1>7. ASSUME NEW i \in 1..Len(stack'), NEW r \in Requires(stack[i].id)' \ stack'[i].left
      PROVE  completable[r] = "yes"
  <2>1. r \in Requires(stack'[i].id) /\ r \notin stack'[i].left
    BY <1>7, RequiresKept DEF AskRequired
  <2>2. Frame(n).id = n /\ Frame(n).left = Requires(n)
    BY DEF Frame
  <2>3. i \in 1..Len(stack)
    BY <1>2, <1>6, <2>1, <2>2
  <2> QED BY <1>1, <1>6, <2>1, <2>3 DEF CacheRight
<1>8. CacheRight'
  BY <1>1, <1>7, CacheKept DEF AskRequired
<1> QED BY <1>5, <1>8

LEMMA SatisfiedKeeps ==
  ASSUME IInv, NEW n \in Ids, Satisfied(n)
  PROVE  Chain' /\ CacheRight'
<1> USE DEF IInv
<1>1. [Next]_graphVars /\ stack # <<>> /\ Visited
  BY DEF Next, Satisfied
<1>2. /\ Len(stack') = Len(stack)
      /\ \A i \in 1..Len(stack) :
           /\ stack'[i].id = stack[i].id
           /\ stack'[i].left = IF i = Len(stack) THEN Top.left \ {n} ELSE stack[i].left
  BY <1>1, PastTyped DEF Satisfied
<1>3. Chain'
  BY <1>1, ChainPast DEF Satisfied
<1>4. ASSUME NEW i \in 1..Len(stack'), NEW r \in Requires(stack[i].id)' \ stack'[i].left
      PROVE  completable[r] = "yes"
  <2>1. r \in Requires(stack'[i].id) /\ r \notin stack'[i].left
    BY <1>4, RequiresKept DEF Satisfied
  <2>2. r \in Requires(stack[i].id) /\ i \in 1..Len(stack)
    BY <1>2, <2>1
  <2>3. r = n \/ r \notin stack[i].left
    BY <1>2, <2>1, <2>2 DEF Top
  <2> QED BY <1>1, <2>2, <2>3 DEF CacheRight, Satisfied, KnownYes
<1>5. CacheRight'
  BY <1>1, <1>4, CacheKept DEF Satisfied
<1> QED BY <1>3, <1>5

(* An answer is stored and the frame leaves.                               *)
LEMMA AnswerKeeps ==
  ASSUME IInv, NEW yesno \in {"yes", "no"}, [Next]_graphVars, stack # <<>>, Visited,
         Answer(yesno),
         yesno = "no" <=> Blocked(Top.id)
  PROVE  Chain' /\ CacheRight'
<1> USE DEF IInv
<1>1. /\ Len(stack') = Len(stack) - 1 /\ Len(stack) \in Nat \ {0}
      /\ \A i \in 1..(Len(stack) - 1) : stack'[i] = stack[i]
  BY PopTyped, TopTyped DEF Answer
<1>2. Len(stack) \in 1..Len(stack) /\ Top = stack[Len(stack)]
  BY <1>1 DEF Top
<1>3. Top.id \in nodes
  BY <1>2 DEF Chain
<1>4. Chain'
  BY ChainPop DEF Answer
<1>5. \A m \in Ids : completable'[m] = IF m = Top.id THEN yesno ELSE completable[m]
  BY <1>3 DEF Answer, TypeOK
<1>6. \A m \in nodes : /\ completable'[m] = "no" => Blocked(m)
                       /\ completable'[m] = "yes" => ~Blocked(m)
  BY <1>3, <1>5 DEF CacheRight, TypeOK
<1>7. ASSUME NEW i \in 1..Len(stack'), NEW r \in Requires(stack[i].id)' \ stack'[i].left
      PROVE  completable'[r] = "yes"
  <2>1. r \in Requires(stack'[i].id) /\ r \notin stack'[i].left
    BY <1>7, RequiresKept DEF Answer
  <2>2. i \in 1..Len(stack) /\ stack'[i] = stack[i] /\ stack[i].id \in nodes
    BY <1>1 DEF Chain
  <2>3. completable[r] = "yes" /\ r \in nodes
    BY <2>1, <2>2 DEF CacheRight, Requires
  <2>4. CASE r = Top.id
    BY <1>3, <1>5, <2>3, <2>4 DEF CacheRight, TypeOK
  <2>5. CASE r # Top.id
    BY <1>5, <2>3, <2>5 DEF TypeOK
  <2> QED BY <2>4, <2>5
<1>8. CacheRight'
  BY <1>6, <1>7, InputKept DEF CacheRight, input
<1> QED BY <1>4, <1>8

LEMMA UnsatisfiedKeeps ==
  ASSUME IInv, NEW n \in Ids, Unsatisfied(n)
  PROVE  Chain' /\ CacheRight'
<1> USE DEF IInv
<1>1. [Next]_graphVars /\ stack # <<>> /\ Visited
  BY DEF Next, Unsatisfied
<1>2. Len(stack) \in 1..Len(stack) /\ Top = stack[Len(stack)]
  BY <1>1, TopTyped DEF Top
<1>3. n \in Requires(Top.id) /\ n \in nodes /\ Top.id \in nodes
  BY <1>2 DEF Unsatisfied, Chain, Requires
<1>4. Blocked(Top.id)
  <2>1. CASE completable[n] = "no"
    BY <1>3, <2>1, BlockedUp DEF CacheRight
  <2>2. CASE n \in inCycle
    BY <1>3, <2>2, BlockedUp DEF CycleFound
  <2>3. CASE OnStack(n)
    BY <1>1, <1>3, <2>3, TrailStuck DEF Blocked, Stuck
  <2> QED BY <2>1, <2>2, <2>3 DEF Unsatisfied, KnownNo
<1> QED BY <1>1, <1>4, AnswerKeeps DEF Unsatisfied

LEMMA CompletedKeeps ==
  ASSUME IInv, Completed
  PROVE  Chain' /\ CacheRight'
<1> USE DEF IInv
<1>1. [Next]_graphVars /\ stack # <<>> /\ Visited
  BY DEF Next, Completed
<1>2. Len(stack) \in 1..Len(stack) /\ Top = stack[Len(stack)]
  BY <1>1, TopTyped DEF Top
<1>3. Top.id \in nodes
  BY <1>2 DEF Chain
<1>4. \A r \in Requires(Top.id) : completable[r] = "yes" /\ r \in nodes
  BY <1>1, <1>2 DEF Completed, CacheRight, Requires
<1>5. ~Blocked(Top.id)
  BY <1>3, <1>4, FreeUp DEF CacheRight
<1> QED BY <1>1, <1>5, AnswerKeeps DEF Completed

-----------------------------------------------------------------------------
LEMMA InvStep == IInv /\ [Next]_graphVars => IInv'
<1> SUFFICES ASSUME IInv, [Next]_graphVars PROVE IInv'
  OBVIOUS
<1>1. TypeOK'
  BY TypeStep DEF IInv
<1> SUFFICES Chain' /\ GreyOnStack' /\ LookedAt' /\ CycleFound' /\ CacheRight'
  BY <1>1 DEF IInv
<1>2. CASE Retreat
  BY <1>2, RetreatKeeps
<1>3. CASE Completed
  BY <1>3, CompletedKeeps, VisitedKeeps DEF Completed, Answer
<1>4. ASSUME NEW n \in Ids, Visit(n) \/ Follow(n) \/ Look(n)
      PROVE  Chain' /\ GreyOnStack' /\ LookedAt' /\ CycleFound' /\ CacheRight'
  BY <1>4, VisitKeeps, FollowKeeps, LookKeeps
<1>5. ASSUME NEW n \in Ids, Ask(n)
      PROVE  Chain' /\ GreyOnStack' /\ LookedAt' /\ CycleFound' /\ CacheRight'
  BY <1>5, AskKeeps, VisitedKeeps DEF Ask
<1>6. ASSUME NEW n \in Ids, AskRequired(n)
      PROVE  Chain' /\ GreyOnStack' /\ LookedAt' /\ CycleFound' /\ CacheRight'
  BY <1>6, AskRequiredKeeps, VisitedKeeps DEF AskRequired
<1>7. ASSUME NEW n \in Ids, Satisfied(n)
      PROVE  Chain' /\ GreyOnStack' /\ LookedAt' /\ CycleFound' /\ CacheRight'
  BY <1>7, SatisfiedKeeps, VisitedKeeps DEF Satisfied
<1>8. ASSUME NEW n \in Ids, Unsatisfied(n)
      PROVE  Chain' /\ GreyOnStack' /\ LookedAt' /\ CycleFound' /\ CacheRight'
  BY <1>8, UnsatisfiedKeeps, VisitedKeeps DEF Unsatisfied, Answer
<1>9. CASE UNCHANGED graphVars
  BY <1>9, InputKept DEF graphVars, IInv, Chain, GreyOnStack, LookedAt, CycleFound,
     CacheRight, OnStack, Visited, Requires, input
<1> QED BY <1>2, <1>3, <1>4, <1>5, <1>6, <1>7, <1>8, <1>9 DEF Next

LEMMA Invariant == Spec => []IInv
  BY InvInit, InvStep, PTL DEF Spec

-----------------------------------------------------------------------------
LEMMA StuckFromInv ==
  ASSUME IInv, Reported
  PROVE  unreachableNodeIds = Circular
<1>1. ~\E i \in 1..Len(stack) : TRUE
  BY DEF Reported
<1>2. \A n \in nodes : KnownYes(n) \/ completable[n] = "no" \/ n \in inCycle
  BY <1>1 DEF Reported, Known, KnownNo, OnStack
<1>3. ASSUME NEW n \in unreachableNodeIds PROVE Blocked(n)
  BY <1>2 DEF unreachableNodeIds, IInv, CacheRight, CycleFound
<1>4. ASSUME NEW S \in SUBSET nodes, Stuck(S), NEW n \in S PROVE n \in unreachableNodeIds
  BY <1>4 DEF unreachableNodeIds, IInv, CacheRight, KnownYes, Blocked
<1> QED BY <1>3, <1>4 DEF Blocked, unreachableNodeIds, Circular

LEMMA StuckWaits == ASSUME NEW S \in SUBSET nodes, Stuck(S) PROVE Waits(S)
<1> SUFFICES ASSUME NEW n \in S
             PROVE  \E x \in prerequisites : x[1] = n /\ (x[2] \notin nodes \/ x[2] \in S)
  BY DEF Waits
<1>1. PICK r \in Requires(n) : r \in S
  BY DEF Stuck
<1>2. <<n, r>> \in prerequisites
  BY <1>1 DEF Requires
<1> QED BY <1>1, <1>2

(* A broken node has an edge to a missing one, or requires a broken node.  *)
LEMMA BrokenWaits == Waits(Broken)
<1> SUFFICES ASSUME NEW n \in Broken
             PROVE  \E x \in prerequisites : x[1] = n /\ (x[2] \notin nodes \/ x[2] \in Broken)
  BY DEF Waits
<1>0. n \in nodes
  BY DEF Broken
<1>1. CASE \E x \in invalidEdges : x[1] = n
  BY <1>0, <1>1 DEF invalidEdges
<1>2. CASE ~\E x \in invalidEdges : x[1] = n
  <2>1. PICK r \in Requires(n) : r \in Broken
    <3> SUFFICES ASSUME Requires(n) \cap Broken = {} PROVE FALSE
      OBVIOUS
    <3> DEFINE Clear(T) == /\ \A m \in T : Requires(m) \subseteq T
                           /\ ~\E x \in invalidEdges : x[1] \in T
               F == UNION {T \in SUBSET nodes : Clear(T)}
    <3>1. \A r \in Requires(n) : r \in nodes /\ r \notin Broken
      BY DEF Requires
    <3>2. Requires(n) \subseteq F
      BY <3>1 DEF Broken
    <3>3. F \in SUBSET nodes
      OBVIOUS
    <3>4. \A m \in F : Requires(m) \subseteq F
      OBVIOUS
    <3>5. ~\E x \in invalidEdges : x[1] \in F
      OBVIOUS
    <3> HIDE DEF F
    <3>6. /\ F \cup {n} \in SUBSET nodes
          /\ \A m \in F \cup {n} : Requires(m) \subseteq F \cup {n}
      BY <1>0, <3>2, <3>3, <3>4
    <3>7. \E x \in invalidEdges : x[1] \in F \cup {n}
      BY <3>6 DEF Broken
    <3> QED BY <1>2, <3>5, <3>7
  <2>2. <<n, r>> \in prerequisites
    BY <2>1 DEF Requires
  <2> QED BY <2>1, <2>2
<1> QED BY <1>1, <1>2

(* What waits and has no missing node behind it waits in a circle.         *)
LEMMA WaitsStuck ==
  ASSUME TypeOK, NEW S \in SUBSET nodes, Waits(S), NEW n \in S, n \notin Broken
  PROVE  \E R \in SUBSET nodes : Stuck(R) /\ n \in R
<1>1. PICK T \in SUBSET nodes :
        /\ n \in T /\ \A m \in T : Requires(m) \subseteq T
        /\ ~\E x \in invalidEdges : x[1] \in T
  BY DEF Broken
<1>2. ASSUME NEW m \in S \cap T PROVE Requires(m) \cap (S \cap T) # {}
  <2>1. PICK x \in prerequisites : x[1] = m /\ (x[2] \notin nodes \/ x[2] \in S)
    BY DEF Waits
  <2>2. x[2] \in nodes
    BY <1>1, <2>1 DEF invalidEdges
  <2>3. x[2] \in S /\ x = <<m, x[2]>>
    BY <2>1, <2>2 DEF TypeOK
  <2>4. x[2] \in Requires(m)
    BY <2>2, <2>3 DEF Requires
  <2> QED BY <1>1, <2>3, <2>4
<1>3. Stuck(S \cap T)
  BY <1>1, <1>2 DEF Stuck
<1> QED BY <1>1, <1>3

LEMMA LockExplained ==
  ASSUME TypeOK
  PROVE  NeverUnlocks = Circular \cup Broken
<1>1. NeverUnlocks = UNION {S \in SUBSET nodes : Waits(S)}
  BY DEF NeverUnlocks
<1>2. ASSUME NEW S \in SUBSET nodes, Stuck(S), NEW n \in S PROVE n \in NeverUnlocks
  <2>1. Waits(S)
    BY <1>2, StuckWaits
  <2>2. \E R \in SUBSET nodes : Waits(R) /\ n \in R
    BY <1>2, <2>1
  <2> QED BY <1>1, <2>2
<1>3. Broken \in SUBSET nodes
  BY DEF Broken
<1>4. Broken \subseteq NeverUnlocks
  BY <1>1, <1>3, BrokenWaits
<1>5. ASSUME NEW n \in NeverUnlocks, n \notin Broken
      PROVE  n \in Circular
  <2>1. PICK S \in SUBSET nodes : Waits(S) /\ n \in S
    BY <1>1
  <2>2. PICK R \in SUBSET nodes : Stuck(R) /\ n \in R
    BY <1>5, <2>1, WaitsStuck
  <2> QED BY <2>2 DEF Circular
<1>6. Circular \subseteq NeverUnlocks
  <2> SUFFICES ASSUME NEW n \in Circular PROVE n \in NeverUnlocks
    OBVIOUS
  <2>1. PICK S \in SUBSET nodes : Stuck(S) /\ n \in S
    BY DEF Circular
  <2> QED BY <1>2, <2>1
<1>7. NeverUnlocks \subseteq Circular \cup Broken
  BY <1>5
<1> QED BY <1>4, <1>6, <1>7

LEMMA UnreachableFromInv == IInv => UnreachableExact
<1> SUFFICES ASSUME IInv, Reported
             PROVE  /\ unreachableNodeIds = Circular
                    /\ NeverUnlocks = unreachableNodeIds \cup Broken
  BY DEF UnreachableExact
<1>1. TypeOK
  BY DEF IInv
<1>2. unreachableNodeIds = Circular
  BY StuckFromInv
<1>3. NeverUnlocks = Circular \cup Broken
  BY <1>1, LockExplained
<1> QED BY <1>2, <1>3

(* The nodes reported as never unlocking are those of the stuck sets,      *)
(* whatever order the rows came in and whichever answers were stored while *)
(* the search was on its way through a cycle; and the rest of what never   *)
(* unlocks is behind an edge reported as invalid.                          *)
THEOREM UnreachableIsExact == Spec => []UnreachableExact
  BY UnreachableFromInv, Invariant, PTL

LEMMA CycleFromInv ==
  ASSUME IInv, Visited
  PROVE  inCycle = {} <=> ~\E S \in SUBSET nodes : Stuck(S)
<1>1. ASSUME NEW S \in SUBSET nodes, Stuck(S) PROVE inCycle # {}
  <2>1. PICK n \in S : n \in nodes
    BY <1>1 DEF Stuck
  <2>2. Blocked(n) /\ color[n] = "black"
    BY <1>1, <2>1 DEF Blocked, Visited
  <2> QED BY <2>1, <2>2 DEF IInv, CycleFound
<1>2. ASSUME NEW n \in inCycle PROVE \E S \in SUBSET nodes : Stuck(S)
  BY DEF IInv, CycleFound, Blocked
<1> QED BY <1>1, <1>2

(* Some node is reported cyclic exactly when some set of nodes waits for   *)
(* itself, which is what the path builder's preview goes by.               *)
THEOREM CycleIsFound ==
  Spec => [](Visited => (inCycle = {} <=> ~\E S \in SUBSET nodes : Stuck(S)))
<1>1. IInv => (Visited => (inCycle = {} <=> ~\E S \in SUBSET nodes : Stuck(S)))
  BY CycleFromInv
<1> QED BY <1>1, Invariant, PTL

(* The report is ok for exactly the graphs whose edges join nodes and in   *)
(* which every set of nodes has one that can be completed first.           *)
THEOREM OkIsExact == Spec => []OkExact
<1>1. IInv => OkExact
  <2> SUFFICES ASSUME IInv, Reported PROVE OkExact
    BY DEF OkExact
  <2> DEFINE clean == ~\E S \in SUBSET nodes : Stuck(S)
  <2>1. Visited
    BY DEF Reported
  <2>2. inCycle = {} <=> clean
    BY <2>1, CycleFromInv
  <2>3. unreachableNodeIds = Circular
    BY StuckFromInv
  <2>4. clean => unreachableNodeIds = {}
    BY <2>3 DEF Circular
  <2>5. invalidEdges = {} <=> \A x \in prerequisites : {x[1], x[2]} \subseteq nodes
    BY DEF invalidEdges
  <2> QED BY <2>2, <2>4, <2>5 DEF OkExact, ok
<1> QED BY <1>1, Invariant, PTL

-----------------------------------------------------------------------------
(* The guided tours.  Every step before the one a tab is at, and before    *)
(* the one its overlay shows, was left by the member or by the poll; a tab *)
(* that has not read the storage yet is at none.                           *)
Spots == [id : {"none"} \cup Available, step : Int]

Behind(place, gone) == 1..(place.step - 1) \subseteq gone

TourOf(t) ==
  /\ Behind(active[t], left[t]) /\ Behind(shown[t], left[t])
  /\ t \in resuming => active[t] = NoTour /\ shown[t] = NoTour

TourInv ==
  /\ active \in [Tabs -> Spots] /\ shown \in [Tabs -> Spots] /\ stored \in Spots
  /\ left \in [Tabs -> SUBSET Int]
  /\ \A t \in Tabs : TourOf(t)
  /\ PlaceIsStored

LEMMA NoTourTyped ==
  NoTour \in Spots /\ NoTour.step = 0 /\ \A gone : Behind(NoTour, gone)
<1>1. NoTour \in Spots /\ NoTour.step = 0
  BY DEF NoTour, Spots
<1>2. 1..(0 - 1) = {}
  OBVIOUS
<1> QED BY <1>1, <1>2 DEF Behind

(* A step of one tab, which is then at place a, shows place s and has left *)
(* the steps gone.                                                         *)
LEMMA TourTab ==
  ASSUME TourInv, NEW t \in Tabs, NEW a \in Spots, NEW s \in Spots, NEW gone \in SUBSET Int,
         active' = [active EXCEPT ![t] = a], shown' = [shown EXCEPT ![t] = s],
         left' = [left EXCEPT ![t] = gone],
         Behind(a, gone), Behind(s, gone),
         resuming' \subseteq resuming \cup {t},
         t \in resuming' => a = NoTour /\ s = NoTour,
         stored' \in Spots, a = NoTour \/ stored' = a \/ (stored' = stored /\ a = active[t])
  PROVE  TourInv'
<1>1. /\ active' \in [Tabs -> Spots] /\ shown' \in [Tabs -> Spots]
      /\ left' \in [Tabs -> SUBSET Int]
      /\ active'[t] = a /\ shown'[t] = s /\ left'[t] = gone
  BY DEF TourInv
<1>2. ASSUME NEW u \in Tabs
      PROVE  TourOf(u)'
  <2>1. CASE u = t
    BY <1>1, <2>1 DEF TourOf, Behind
  <2>2. CASE u # t
    <3>1. /\ active'[u] = active[u] /\ shown'[u] = shown[u] /\ left'[u] = left[u]
          /\ u \in resuming' => u \in resuming
      BY <2>2 DEF TourInv
    <3> QED BY <3>1 DEF TourInv, TourOf, Behind
  <2> QED BY <2>1, <2>2
<1>3. PlaceIsStored'
  BY <1>1 DEF TourInv, PlaceIsStored
<1> QED BY <1>1, <1>2, <1>3 DEF TourInv

LEMMA RenderedPlace ==
  ASSUME NEW t, NEW place, RenderAs(t, place)
  PROVE  shown' = [shown EXCEPT ![t] = place]
BY DEF RenderAs

(* Where goToStep leads: to the place, or out of a tour that has ended.    *)
LEMMA GoneTo ==
  ASSUME TourInv, NEW t \in Tabs, OnScreen(t), NEW i \in Int, GoToStep(t, i)
  PROVE  \E a \in Spots : /\ active' = [active EXCEPT ![t] = a] /\ stored' = a
                          /\ a = NoTour \/ a.step = i
<1> DEFINE place == [id |-> shown[t].id, step |-> i]
<1>1. place \in Spots /\ place.step = i
  BY DEF TourInv, Spots
<1>2. \/ active' = [active EXCEPT ![t] = NoTour] /\ stored' = NoTour
      \/ active' = [active EXCEPT ![t] = place] /\ stored' = place
  BY DEF GoToStep
<1> QED BY <1>1, <1>2, NoTourTyped

(* The steps left, after the step on the screen is one of them.            *)
LEMMA LeftOne ==
  ASSUME TourInv, NEW t \in Tabs
  PROVE  /\ shown[t].step \in Int /\ shown[t] \in Spots /\ left[t] \in SUBSET Int
         /\ \A a : a.step = shown[t].step + 1 => Behind(a, left[t] \cup {shown[t].step})
         /\ \A a : a.step = shown[t].step - 1 => Behind(a, left[t])
         /\ \A a : Behind(a, left[t]) => Behind(a, left[t] \cup {shown[t].step})
<1>1. shown[t].step \in Int /\ shown[t] \in Spots /\ left[t] \in SUBSET Int
      /\ Behind(shown[t], left[t])
  BY DEF TourInv, Spots, TourOf
<1> QED BY <1>1 DEF Behind

(* The places one after and one before the step on the screen.             *)
LEMMA NextPlaces ==
  ASSUME TourInv, NEW t \in Tabs
  PROVE  /\ StepAfter(t, 1) = shown[t].step + 1 /\ shown[t].step + 1 \in Int
         /\ StepAfter(t, -1) = shown[t].step - 1 /\ shown[t].step - 1 \in Int
<1>1. shown[t].step \in Int
  BY LeftOne
<1>2. StepAfter(t, 1) = shown[t].step + 1 /\ StepAfter(t, -1) = shown[t].step + (-1)
  BY DEF StepAfter
<1>3. /\ shown[t].step + (-1) = shown[t].step - 1
      /\ shown[t].step + 1 \in Int /\ shown[t].step - 1 \in Int
  BY <1>1
<1> QED BY <1>1, <1>2, <1>3

LEMMA ClickStep ==
  ASSUME TourInv, NEW t \in Tabs, Next_(t) \/ Skip(t) \/ Back(t)
  PROVE  TourInv'
<1>1. PICK i \in {StepAfter(t, 1), StepAfter(t, -1)} :
        /\ Clicked(t, i) /\ OnScreen(t)
        /\ \/ i = StepAfter(t, 1) /\ Leave(t)
           \/ i = StepAfter(t, -1) /\ UNCHANGED left
  BY DEF Next_, Skip, Back
<1>2. /\ i \in Int
      /\ \/ i = shown[t].step + 1 /\ Leave(t)
         \/ i = shown[t].step - 1 /\ UNCHANGED left
  BY <1>1, NextPlaces
<1>3. PICK a \in Spots : /\ active' = [active EXCEPT ![t] = a] /\ stored' = a
                         /\ a = NoTour \/ a.step = i
  BY <1>1, <1>2, GoneTo DEF Clicked
<1>4. active'[t] = a
  BY <1>3 DEF TourInv
<1>5. shown' = [shown EXCEPT ![t] = a] /\ resuming' = resuming
  BY <1>1, <1>4, RenderedPlace DEF Clicked
<1>6. PICK gone \in SUBSET Int : left' = [left EXCEPT ![t] = gone] /\ Behind(a, gone)
  <2>1. CASE i = shown[t].step + 1 /\ Leave(t)
    <3>1. left' = [left EXCEPT ![t] = left[t] \cup {shown[t].step}]
      BY <2>1 DEF Leave
    <3>2. Behind(a, left[t] \cup {shown[t].step})
      BY <1>3, <2>1, LeftOne, NoTourTyped
    <3> QED BY <3>1, <3>2, LeftOne
  <2>2. CASE i = shown[t].step - 1 /\ UNCHANGED left
    <3>1. left' = [left EXCEPT ![t] = left[t]]
      BY <2>2 DEF TourInv
    <3>2. Behind(a, left[t])
      BY <1>3, <2>2, LeftOne, NoTourTyped
    <3> QED BY <3>1, <3>2, LeftOne
  <2> QED BY <1>2, <2>1, <2>2
<1>7. t \notin resuming
  BY <1>1 DEF TourInv, TourOf, OnScreen
<1> QED BY <1>3, <1>5, <1>6, <1>7, TourTab

LEMMA PollStep ==
  ASSUME TourInv, NEW t \in Tabs, Poll(t)
  PROVE  TourInv'
<1>1. StepAfter(t, 1) = shown[t].step + 1 /\ shown[t].step + 1 \in Int
  BY NextPlaces
<1>2. PICK a \in Spots : /\ active' = [active EXCEPT ![t] = a] /\ stored' = a
                         /\ a = NoTour \/ a.step = shown[t].step + 1
  BY <1>1, GoneTo DEF Poll
<1>3. left' = [left EXCEPT ![t] = left[t] \cup {shown[t].step}]
  BY DEF Poll, Leave
<1>4. Behind(a, left[t] \cup {shown[t].step}) /\ Behind(shown[t], left[t] \cup {shown[t].step})
  BY <1>2, LeftOne, NoTourTyped DEF TourInv, TourOf
<1>5. shown' = [shown EXCEPT ![t] = shown[t]] /\ resuming' = resuming /\ t \notin resuming
  BY DEF Poll, TourInv, TourOf, OnScreen
<1>6. left[t] \cup {shown[t].step} \in SUBSET Int
  BY LeftOne
<1> QED BY <1>2, <1>3, <1>4, <1>5, <1>6, LeftOne, TourTab

LEMMA StartTourStep ==
  ASSUME TourInv, NEW t \in Tabs, NEW id \in Available, Start(t, id)
  PROVE  TourInv'
<1> DEFINE place == [id |-> id, step |-> 1]
<1>1. place \in Spots /\ \A gone : Behind(place, gone)
  <2>1. place \in Spots /\ place.step = 1 /\ 1..(1 - 1) = {}
    BY DEF Spots
  <2> QED BY <2>1 DEF Behind
<1>2. /\ active' = [active EXCEPT ![t] = place] /\ stored' = place
      /\ shown' = [shown EXCEPT ![t] = place] /\ left' = [left EXCEPT ![t] = {}]
      /\ resuming' = resuming /\ t \notin resuming
  BY RenderedPlace DEF Start
<1> HIDE DEF place
<1> QED BY <1>1, <1>2, TourTab

(* The engine is unmounted, the tour exited, or the storage read.          *)
LEMMA MountStep ==
  ASSUME TourInv, NEW t \in Tabs,
         \/ Remount(t) /\ UNCHANGED <<stored, left>>
         \/ Exit(t) \/ Resume(t)
  PROVE  TourInv'
<1>0. stored \in Spots /\ left[t] \in SUBSET Int /\ left = [left EXCEPT ![t] = left[t]]
      /\ shown = [shown EXCEPT ![t] = shown[t]] /\ shown[t] \in Spots
  BY DEF TourInv
<1>1. CASE Remount(t) /\ UNCHANGED <<stored, left>>
  <2>1. /\ active' = [active EXCEPT ![t] = NoTour] /\ shown' = [shown EXCEPT ![t] = NoTour]
        /\ resuming' = resuming \cup {t}
    BY <1>1, RenderedPlace DEF Remount
  <2> QED BY <1>0, <1>1, <2>1, NoTourTyped, TourTab
<1>2. CASE Exit(t)
  <2>1. /\ active' = [active EXCEPT ![t] = NoTour] /\ shown' = [shown EXCEPT ![t] = NoTour]
        /\ resuming' = resuming /\ left' = left /\ stored' = NoTour
    BY <1>2, RenderedPlace DEF Exit
  <2> QED BY <1>0, <2>1, NoTourTyped, TourTab
<1>3. CASE Resume(t)
  <2> DEFINE gone == 1..(stored.step - 1)
  <2>1. /\ active' = [active EXCEPT ![t] = stored] /\ left' = [left EXCEPT ![t] = gone]
        /\ resuming' = resuming \ {t} /\ shown' = shown /\ stored' = stored
    BY <1>3 DEF Resume
  <2>2. gone \in SUBSET Int /\ Behind(stored, gone)
    BY <1>0 DEF Behind, Spots
  <2>3. Behind(shown[t], gone)
    BY <1>3, NoTourTyped DEF Resume, TourInv, TourOf
  <2> HIDE DEF gone
  <2>4. t \notin resuming' /\ resuming' \subseteq resuming \cup {t}
    BY <2>1
  <2> QED BY <1>0, <2>1, <2>2, <2>3, <2>4, TourTab
<1> QED BY <1>1, <1>2, <1>3

(* The overlay is rendered for the place the engine is at, or as it was.   *)
LEMMA RenderTourStep ==
  ASSUME TourInv, NEW t \in Tabs, NEW s \in {active[t], shown[t]},
         shown' = [shown EXCEPT ![t] = s], UNCHANGED <<active, stored, left, resuming>>
  PROVE  TourInv'
<1>1. /\ stored \in Spots /\ left[t] \in SUBSET Int /\ left = [left EXCEPT ![t] = left[t]]
      /\ active = [active EXCEPT ![t] = active[t]] /\ active[t] \in Spots /\ shown[t] \in Spots
      /\ TourOf(t)
  BY DEF TourInv
<1> QED BY <1>1, TourTab DEF TourOf

LEMMA TourInvStep ==
  ASSUME TourInv, [TourNext]_tourVars
  PROVE  TourInv'
<1>1. ASSUME NEW t \in Tabs, RenderTour(t) \/ Arrive(t) \/ Reload(t)
      PROVE  TourInv'
  <2>1. CASE Remount(t) /\ UNCHANGED <<stored, left>>
    BY <2>1, MountStep
  <2>2. CASE RenderAs(t, active[t]) /\ UNCHANGED <<active, stored, left, resuming>>
    BY <2>2, RenderedPlace, RenderTourStep
  <2> QED BY <1>1, <2>1, <2>2 DEF RenderTour, Arrive, Reload
<1>2. ASSUME UNCHANGED <<active, shown, stored, left, resuming>>
      PROVE  TourInv'
  BY <1>2 DEF TourInv, TourOf, PlaceIsStored
<1>3. ASSUME NEW t \in Tabs, Locate(t) \/ Navigate(t) \/ Achieve(t)
      PROVE  TourInv'
  BY <1>2, <1>3 DEF Locate, Navigate, Achieve
<1>4. CASE UNCHANGED tourVars
  BY <1>2, <1>4 DEF tourVars
<1> QED BY <1>1, <1>3, <1>4, ClickStep, PollStep, StartTourStep, MountStep DEF TourNext, Browser

LEMMA TourInvInit == TourInit => TourInv
<1> SUFFICES ASSUME TourInit PROVE TourInv
  OBVIOUS
<1>1. \A t \in Tabs : active[t] = NoTour /\ shown[t] = NoTour
  BY DEF TourInit
<1> QED BY <1>1, NoTourTyped DEF TourInit, TourInv, TourOf, PlaceIsStored

(* NoStepPassedOver: whichever of the poll, a click and a return comes     *)
(* first (goToStep of walkthrough.tsx), no step is passed over.            *)
THEOREM NoStepEverPassedOver == TourSpec => []NoStepPassedOver
<1>1. TourInv => NoStepPassedOver
  BY DEF TourInv, TourOf, Behind, NoStepPassedOver
<1> QED BY <1>1, TourInvInit, TourInvStep, PTL DEF TourSpec

(* PlaceIsStored: the place of the only tab survives its engine.           *)
THEOREM PlaceAlwaysStored == TourSpec => []PlaceIsStored
<1>1. TourInv => PlaceIsStored
  BY DEF TourInv
<1> QED BY <1>1, TourInvInit, TourInvStep, PTL DEF TourSpec

-----------------------------------------------------------------------------
(* The launch checklist.  A celebration recorded stays recorded, and every *)
(* load that began after one reads a row that carries it; what a load      *)
(* found done has been done (ever), and so has everything on the list of a *)
(* manager whose celebration is on its way.                                *)

StepSet == ToSet(Steps)
LifecycleRows == {<< >>} \cup {<< row >> : row \in Lifecycle}
Answers == {<< >>} \cup {<< answer >> : answer \in SUBSET StepSet}
Loads == [on : BOOLEAN, signals : Answers, lifecycle : LifecycleRows, after : BOOLEAN,
          unread : BOOLEAN]
Views == [done : SUBSET StepSet, lifecycle : Lifecycle, after : BOOLEAN, unread : BOOLEAN,
          shown : BOOLEAN]
Boards == [load : Loads, view : Views, celebrateRef : BOOLEAN]

Earned(steps) == \A step \in steps : Means[step] \in ever

\* The dashboard of m: what it knows of the celebration, and of what was done.
BoardOf(m) ==
  LET reading == tab[m].load
      view == tab[m].view
  IN /\ reading.after => lifecycle.celebrated
     /\ reading.after /\ ~reading.unread /\ reading.lifecycle # << >>
          => reading.lifecycle[1].celebrated
     /\ view.after /\ ~view.unread => view.lifecycle.celebrated
     /\ reading.on /\ m # Founder => "others" \in ever
     /\ reading.signals # << >> => Earned(reading.signals[1])
SeatOf(m) == seat[m] # "out" /\ m # Founder => "others" \in ever
QueueOf(m) ==
  \A i \in 1..Len(queue[m]) :
    queue[m][i] = "celebrate" => canManage(m) /\ Earned(StepsOf(m))

ListInv ==
  /\ facts \subseteq ever /\ ("course-live" \in ever => "lesson-live" \in ever)
  /\ lifecycle \in Lifecycle
  /\ tab \in [Members -> Boards]
  /\ queue \in [Members -> Seq(Calls)]
  /\ seat \in [Members -> {"out", "invited", "active"}]
  /\ \A m \in Members : BoardOf(m) /\ SeatOf(m) /\ QueueOf(m)
  /\ CelebrationEarned

LEMMA StepsAre ==
  StepSet = {"org-details", "branding", "journey", "program", "phase", "lesson", "publish",
             "preview", "invite", "progress"}
<1>1. DOMAIN Steps = 1..10
  BY DEF Steps
<1>2. StepSet = {Steps[i] : i \in 1..10}
  BY <1>1 DEF StepSet, ToSet
<1> QED BY <1>2 DEF Steps

LEMMA StepsOfTyped == \A m \in Members : StepsOf(m) \subseteq StepSet
BY DEF StepsOf, Listed, CHECKLIST_STEPS, StepSet

(* What is complete by the signals of now has been done.                   *)
LEMMA CompleteMeans ==
  ASSUME NEW step \in StepSet, NEW signals, Complete(step, signals),
         signals \subseteq ever, "course-live" \in ever => "lesson-live" \in ever
  PROVE  Means[step] \in ever
<1>0. Means[step] = CASE step = "org-details" -> "identity" [] step = "branding" -> "theme"
       [] step = "journey" -> "path" [] step = "program" -> "course"
       [] step = "phase" -> "module" [] step = "lesson" -> "block"
       [] step = "publish" -> "lesson-live" [] step = "invite" -> "others"
       [] OTHER -> step
  BY DEF Means, StepSet
<1>1. CASE step = "publish"
  BY <1>0, <1>1 DEF Complete
<1>2. CASE step # "publish"
  <2>1. Evidence(step) \subseteq ever
    BY <1>2 DEF Complete
  <2> QED BY <1>0, <1>2, <2>1, StepsAre DEF Evidence
<1> QED BY <1>1, <1>2

(* What has been done stays done.                                          *)
LEMMA StaysEarned ==
  ASSUME ever \subseteq ever'
  PROVE  \A steps : Earned(steps) => Earned(steps)'
BY DEF Earned

(* A step of the organization's work: the list of each member stays.       *)
LEMMA WorkKeeps ==
  ASSUME ListInv, UNCHANGED lists,
         ever \subseteq ever', facts' \subseteq ever',
         "course-live" \in ever' => "lesson-live" \in ever',
         seat' \in [Members -> {"out", "invited", "active"}],
         \A m \in Members : seat'[m] # "out" /\ m # Founder => "others" \in ever'
  PROVE  ListInv'
<1>1. UNCHANGED <<tab, queue, lifecycle>>
  BY DEF lists
<1>2. ASSUME NEW m \in Members
      PROVE  BoardOf(m)' /\ SeatOf(m)' /\ QueueOf(m)'
  <2>1. BoardOf(m) /\ QueueOf(m)
    BY DEF ListInv
  <2>2. BoardOf(m)'
    BY <1>1, <2>1, StaysEarned DEF BoardOf
  <2>3. QueueOf(m)'
    BY <1>1, <2>1, StaysEarned DEF QueueOf, canManage
  <2> QED BY <2>2, <2>3 DEF SeatOf
<1>3. CelebrationEarned'
  BY <1>1 DEF ListInv, CelebrationEarned, canManage
<1> QED BY <1>1, <1>2, <1>3 DEF ListInv

LEMMA DoKeeps ==
  ASSUME ListInv, NEW m \in Members, NEW fact \in DataFacts, Do(m, fact)
  PROVE  ListInv'
<1>1. /\ ever' = ever \cup {fact} /\ facts' = facts \cup {fact}
      /\ OperationOf(fact)[2] \subseteq facts /\ seat' = seat /\ UNCHANGED lists
  BY DEF Do, Remember
<1>2. fact = "course-live" => "lesson-live" \in facts
  BY <1>1 DEF OperationOf, PublishCourse
<1>3. /\ facts \subseteq ever /\ ("course-live" \in ever => "lesson-live" \in ever)
      /\ seat \in [Members -> {"out", "invited", "active"}]
      /\ \A n \in Members : SeatOf(n)
  BY DEF ListInv
<1>4. "course-live" \in ever' => "lesson-live" \in ever'
  BY <1>1, <1>2, <1>3
<1>5. \A n \in Members : seat'[n] # "out" /\ n # Founder => "others" \in ever'
  BY <1>1, <1>3 DEF SeatOf
<1> QED BY <1>1, <1>3, <1>4, <1>5, WorkKeeps

LEMMA PeopleKeep ==
  ASSUME ListInv, NEW m \in Members, NEW n \in Members,
         Invite(m, n) \/ Join(m) \/ Undo(m)
  PROVE  ListInv'
<1>1. /\ facts \subseteq ever /\ ("course-live" \in ever => "lesson-live" \in ever)
      /\ seat \in [Members -> {"out", "invited", "active"}]
      /\ \A u \in Members : seat[u] # "out" /\ u # Founder => "others" \in ever
  BY DEF ListInv, SeatOf
<1>2. /\ UNCHANGED lists /\ ever' \in {ever, ever \cup {"others"}} /\ facts' \subseteq facts
      /\ seat' \in [Members -> {"out", "invited", "active"}]
  BY <1>1 DEF Invite, Join, Undo, Remember, lists
<1>3. \A u \in Members : seat'[u] # "out" /\ u # Founder => "others" \in ever'
  BY <1>1 DEF Invite, Join, Undo, Remember
<1> QED BY <1>1, <1>2, <1>3, WorkKeeps

LEMMA VisitsKeep ==
  ASSUME ListInv, NEW m \in Members, NEW visit \in Visits,
         VisitPage(m, visit) \/ Recorded(m, visit)
  PROVE  ListInv'
<1>1. /\ facts \subseteq ever /\ ("course-live" \in ever => "lesson-live" \in ever)
      /\ seat \in [Members -> {"out", "invited", "active"}]
      /\ \A u \in Members : seat[u] # "out" /\ u # Founder => "others" \in ever
  BY DEF ListInv, SeatOf
<1>2. visit # "course-live"
  BY VisitsAssumption
<1>3. /\ UNCHANGED lists /\ seat' = seat
      /\ \/ ever' = ever /\ facts' = facts
         \/ ever' = ever \cup {visit} /\ facts' = facts \cup {visit}
  BY DEF VisitPage, Recorded, Remember, lists
<1> QED BY <1>1, <1>2, <1>3, WorkKeeps

-----------------------------------------------------------------------------
(* A step of one dashboard, and of what its member has sent: the board b   *)
(* and the queue q come after it.                                          *)
LEMMA BoardKeeps ==
  ASSUME ListInv, NEW m \in Members, NEW b \in Boards, NEW q \in Seq(Calls),
         tab' = [tab EXCEPT ![m] = b], queue' = [queue EXCEPT ![m] = q],
         UNCHANGED <<facts, ever, seat>>,
         lifecycle' \in Lifecycle, lifecycle.celebrated => lifecycle'.celebrated,
         BoardOf(m)', QueueOf(m)', CelebrationEarned'
  PROVE  ListInv'
<1>1. ever \subseteq ever'
  OBVIOUS
<1>2. ASSUME NEW n \in Members
      PROVE  BoardOf(n)' /\ SeatOf(n)' /\ QueueOf(n)'
  <2>1. BoardOf(n) /\ QueueOf(n) /\ SeatOf(n)
    BY DEF ListInv
  <2>2. CASE n # m
    <3>1. tab'[n] = tab[n] /\ queue'[n] = queue[n]
      BY <2>2 DEF ListInv
    <3>2. BoardOf(n)'
      BY <2>1, <3>1, <1>1, StaysEarned DEF BoardOf
    <3>3. QueueOf(n)'
      BY <2>1, <3>1, <1>1, StaysEarned DEF QueueOf, canManage
    <3> QED BY <2>1, <3>2, <3>3 DEF SeatOf
  <2> QED BY <2>1, <2>2 DEF SeatOf
<1> QED BY <1>2 DEF ListInv

(* The same queue, or a queue without its first call, asks for no more.    *)
LEMMA QueueStays ==
  ASSUME ListInv, NEW m \in Members, NEW q \in Seq(Calls), queue' = [queue EXCEPT ![m] = q],
         ever' = ever, q = queue[m] \/ (queue[m] # << >> /\ q = Tail(queue[m]))
  PROVE  QueueOf(m)'
<1>1. queue'[m] = q /\ queue[m] \in Seq(Calls) /\ QueueOf(m)
  BY DEF ListInv
<1>2. \A i \in 1..Len(q) : \E j \in 1..Len(queue[m]) : q[i] = queue[m][j]
  <2>1. CASE q = queue[m]
    BY <2>1
  <2>2. CASE queue[m] # << >> /\ q = Tail(queue[m])
    <3>1. \A i \in 1..Len(q) : i + 1 \in 1..Len(queue[m]) /\ q[i] = queue[m][i + 1]
      BY <1>1, <2>2
    <3> QED BY <3>1
  <2> QED BY <2>1, <2>2
<1> QED BY <1>1, <1>2 DEF QueueOf, canManage, Earned

LEMMA BoardsTyped ==
  ASSUME ListInv, NEW m \in Members
  PROVE  /\ tab[m] \in Boards /\ tab[m].load \in Loads /\ tab[m].view \in Views
         /\ queue[m] \in Seq(Calls) /\ queue = [queue EXCEPT ![m] = queue[m]]
         /\ BoardOf(m) /\ QueueOf(m) /\ SeatOf(m)
BY DEF ListInv, Boards

LEMMA LoadingTyped ==
  ASSUME NEW after \in BOOLEAN
  PROVE  /\ Loading(after) \in Loads /\ Loading(after).on /\ Loading(after).after = after
         /\ Loading(after).signals = << >> /\ Loading(after).lifecycle = << >>
<1>1. Idle \in Loads /\ Idle.signals = << >> /\ Idle.lifecycle = << >>
  BY DEF Idle, Loads, Answers, LifecycleRows
<1>2. Loading(after) = [Idle EXCEPT !.on = TRUE, !.after = after]
  BY DEF Loading
<1> QED BY <1>1, <1>2 DEF Loads

(* A load begins: it knows of a celebration when there is one.             *)
LEMMA Loads_ ==
  ASSUME ListInv, NEW m \in Members, NEW q \in Seq(Calls), seat[m] = "active",
         tab' = [tab EXCEPT ![m].load = Loading(lifecycle'.celebrated)],
         queue' = [queue EXCEPT ![m] = q], UNCHANGED <<facts, ever, seat>>,
         lifecycle' \in Lifecycle, lifecycle.celebrated => lifecycle'.celebrated,
         QueueOf(m)', CelebrationEarned'
  PROVE  ListInv'
<1> DEFINE reading == Loading(lifecycle'.celebrated)
           b == [tab[m] EXCEPT !.load = reading]
<1>1. reading \in Loads /\ reading.on /\ reading.signals = << >> /\ reading.lifecycle = << >>
      /\ reading.after = lifecycle'.celebrated
  BY LoadingTyped DEF Lifecycle
<1>2. tab' = [tab EXCEPT ![m] = b]
  OBVIOUS
<1> HIDE DEF reading
<1>3. b \in Boards /\ b.load = reading /\ b.view = tab[m].view
  BY <1>1, BoardsTyped DEF Boards
<1>4. tab'[m] = b
  BY <1>2 DEF ListInv
<1> HIDE DEF b
<1>5. BoardOf(m)'
  BY <1>1, <1>3, <1>4, BoardsTyped DEF BoardOf, SeatOf
<1> QED BY <1>2, <1>3, <1>5, BoardKeeps

LEMMA LoadStep ==
  ASSUME ListInv, NEW m \in Members, Load(m)
  PROVE  ListInv'
<1>1. /\ seat[m] = "active" /\ tab' = [tab EXCEPT ![m].load = Loading(lifecycle'.celebrated)]
      /\ queue' = [queue EXCEPT ![m] = queue[m]] /\ UNCHANGED <<facts, ever, seat, lifecycle>>
  BY BoardsTyped DEF Load, Active
<1>2. QueueOf(m)'
  BY <1>1, BoardsTyped, QueueStays
<1>3. CelebrationEarned' /\ lifecycle' \in Lifecycle
  BY <1>1 DEF CelebrationEarned, canManage, ListInv
<1> QED BY <1>1, <1>2, <1>3, BoardsTyped, Loads_

(* The signals of now: other members are there only if some were invited.  *)
LEMMA SignalsHave ==
  ASSUME ListInv, NEW m \in Members, tab[m].load.on
  PROVE  Signals(m) \subseteq ever
<1>1. facts \subseteq ever /\ BoardOf(m) /\ \A n \in Members : SeatOf(n)
  BY DEF ListInv
<1>2. CASE m = Founder
  BY <1>1, <1>2 DEF Signals, Others, SeatOf
<1>3. CASE m # Founder
  BY <1>1, <1>3 DEF Signals, BoardOf
<1> QED BY <1>2, <1>3

(* An answer adds steps that were done, or the row of now, or no row.      *)
LEMMA ReadingKeeps ==
  ASSUME ListInv, NEW m \in Members, NEW reading \in Loads,
         tab[m].load.on, reading.on, reading.after = tab[m].load.after,
         NEW found, Earned(found),
         reading.signals = << found >> \/ reading.signals = tab[m].load.signals,
         \/ reading.unread
         \/ reading.lifecycle = << lifecycle >>
         \/ reading.lifecycle = tab[m].load.lifecycle /\ reading.unread = tab[m].load.unread,
         tab' = [tab EXCEPT ![m].load = reading],
         UNCHANGED <<facts, ever, seat, lifecycle, queue>>
  PROVE  ListInv'
<1> DEFINE b == [tab[m] EXCEPT !.load = reading]
<1>1. tab' = [tab EXCEPT ![m] = b] /\ queue' = [queue EXCEPT ![m] = queue[m]]
  BY BoardsTyped
<1>2. b \in Boards /\ b.load = reading /\ b.view = tab[m].view
  BY BoardsTyped DEF Boards
<1>3. tab'[m] = b
  BY <1>1 DEF ListInv
<1> HIDE DEF b
<1>4. BoardOf(m)'
  <2>1. BoardOf(m)
    BY BoardsTyped
  <2>2. \A steps : Earned(steps) => Earned(steps)'
    BY StaysEarned
  <2>3. << found >>[1] = found /\ << lifecycle >>[1] = lifecycle
    OBVIOUS
  <2> QED BY <1>2, <1>3, <2>1, <2>2, <2>3 DEF BoardOf
<1>5. QueueOf(m)'
  BY <1>1, BoardsTyped, QueueStays
<1>6. CelebrationEarned' /\ lifecycle \in Lifecycle
  BY DEF CelebrationEarned, canManage, ListInv
<1> QED BY <1>1, <1>2, <1>4, <1>5, <1>6, BoardsTyped, BoardKeeps

LEMMA FoundDone ==
  ASSUME ListInv, NEW m \in Members, tab[m].load.on, NEW signals \in SUBSET Signals(m)
  PROVE  LET found == { step \in StepsOf(m) : Complete(step, signals) }
         IN  found \in SUBSET StepSet /\ Earned(found)
<1> DEFINE found == { step \in StepsOf(m) : Complete(step, signals) }
<1>1. found \in SUBSET StepSet
  BY StepsOfTyped
<1>2. signals \subseteq ever /\ ("course-live" \in ever => "lesson-live" \in ever)
  BY SignalsHave DEF ListInv
<1> QED BY <1>1, <1>2, CompleteMeans DEF Earned

LEMMA AnswerStep ==
  ASSUME ListInv, NEW m \in Members, Read(m) \/ Fail(m)
  PROVE  ListInv'
<1> DEFINE old == tab[m].load
           Found(signals) == { step \in StepsOf(m) : Complete(step, signals) }
<1>1. old \in Loads /\ old.on /\ UNCHANGED <<facts, ever, seat, lifecycle, queue>>
  BY BoardsTyped DEF Read, Fail
<1>2. ASSUME NEW signals \in SUBSET Signals(m),
             tab' = [tab EXCEPT ![m].load.signals = << Found(signals) >>]
      PROVE  ListInv'
  <2> DEFINE found == Found(signals)
             reading == [old EXCEPT !.signals = << found >>]
  <2>1. found \in SUBSET StepSet /\ Earned(found)
    BY <1>1, FoundDone
  <2>2. tab' = [tab EXCEPT ![m].load = reading]
    BY <1>2
  <2> HIDE DEF found
  <2>3. << found >> \in Answers
    BY <2>1 DEF Answers
  <2>4. /\ reading \in Loads /\ reading.on /\ reading.after = old.after
        /\ reading.signals = << found >> /\ reading.lifecycle = old.lifecycle
        /\ reading.unread = old.unread
    BY <1>1, <2>3 DEF Loads
  <2> QED BY <1>1, <2>1, <2>2, <2>4, ReadingKeeps
<1>3. ASSUME NEW row \in Lifecycle, NEW lost \in BOOLEAN, lost \/ row = lifecycle,
             tab' = [tab EXCEPT ![m].load = [old EXCEPT !.lifecycle = << row >>, !.unread = lost]]
      PROVE  ListInv'
  <2> DEFINE reading == [old EXCEPT !.lifecycle = << row >>, !.unread = lost]
  <2>1. << row >> \in LifecycleRows
    BY DEF LifecycleRows
  <2>2. /\ reading \in Loads /\ reading.on /\ reading.after = old.after
        /\ reading.signals = old.signals /\ reading.lifecycle = << row >>
        /\ reading.unread = lost
    BY <1>1, <2>1 DEF Loads
  <2>3. Earned({})
    BY DEF Earned
  <2> HIDE DEF reading
  <2> QED BY <1>1, <1>3, <2>2, <2>3, ReadingKeeps DEF reading
<1>4. CASE Read(m)
  <2>1. CASE tab' = [tab EXCEPT ![m].load.signals = << Found(Signals(m)) >>]
    BY <1>2, <2>1
  <2>2. CASE tab' = [tab EXCEPT ![m].load.lifecycle = << lifecycle >>]
    <3>1. tab' = [tab EXCEPT ![m].load =
                    [old EXCEPT !.lifecycle = << lifecycle >>, !.unread = old.unread]]
      <4>1. [old EXCEPT !.lifecycle = << lifecycle >>]
              = [old EXCEPT !.lifecycle = << lifecycle >>, !.unread = old.unread]
        BY <1>1 DEF Loads
      <4> QED BY <2>2, <4>1
    <3>2. lifecycle \in Lifecycle /\ old.unread \in BOOLEAN
      BY <1>1 DEF ListInv, Loads
    <3> QED BY <1>3, <3>1, <3>2
  <2> QED BY <1>4, <2>1, <2>2 DEF Read
<1>5. CASE Fail(m)
  <2>1. CASE \E fact \in Signals(m) :
               tab' = [tab EXCEPT ![m].load.signals = << Found(Signals(m) \ {fact}) >>]
    <3>1. PICK fact \in Signals(m) :
             tab' = [tab EXCEPT ![m].load.signals = << Found(Signals(m) \ {fact}) >>]
      BY <2>1
    <3>2. Signals(m) \ {fact} \in SUBSET Signals(m)
      OBVIOUS
    <3> QED BY <1>2, <3>1, <3>2
  <2>2. CASE tab' = [tab EXCEPT ![m].load.lifecycle = << Untouched >>, ![m].load.unread = TRUE]
    <3>1. tab' = [tab EXCEPT ![m].load = [old EXCEPT !.lifecycle = << Untouched >>, !.unread = TRUE]]
      BY <2>2 DEF ListInv
    <3>2. Untouched \in Lifecycle
      BY DEF Untouched, Lifecycle
    <3> QED BY <1>3, <3>1, <3>2
  <2> QED BY <1>5, <2>1, <2>2 DEF Fail
<1> QED BY <1>4, <1>5

(* What a member can see done of their list, in full, was done.            *)
LEMMA RenderStep ==
  ASSUME ListInv, NEW m \in Members, Render(m)
  PROVE  ListInv'
<1> DEFINE old == tab[m].load
           finished == old.signals[1]
           row == old.lifecycle[1]
           fires == Celebrates(m, finished, row) /\ ~tab[m].celebrateRef /\ canManage(m)
           view == [done |-> finished, lifecycle |-> row, after |-> old.after, unread |-> old.unread,
                    shown |-> TRUE]
           b == [load |-> Idle, celebrateRef |-> tab[m].celebrateRef \/ fires, view |-> view]
           q == IF fires THEN Append(queue[m], "celebrate") ELSE queue[m]
<1>1. /\ old.signals # << >> /\ old.lifecycle # << >>
      /\ tab' = [tab EXCEPT ![m] = b] /\ queue' = [queue EXCEPT ![m] = q]
      /\ UNCHANGED <<facts, ever, seat, lifecycle>>
  BY BoardsTyped DEF Render
<1>2. /\ finished \in SUBSET StepSet /\ row \in Lifecycle
      /\ old.after \in BOOLEAN /\ old.unread \in BOOLEAN
  <2>1. old \in Loads
    BY BoardsTyped
  <2>2. old.signals \in {<< answer >> : answer \in SUBSET StepSet}
        /\ old.lifecycle \in {<< r >> : r \in Lifecycle}
        /\ old.after \in BOOLEAN /\ old.unread \in BOOLEAN
    BY <1>1, <2>1 DEF Loads, Answers, LifecycleRows
  <2> QED BY <2>2
<1>3. Idle \in Loads /\ Idle.on = FALSE /\ Idle.after = FALSE /\ Idle.signals = << >>
  BY DEF Idle, Loads, Answers, LifecycleRows
<1>4. tab[m].celebrateRef \in BOOLEAN /\ BoardOf(m) /\ QueueOf(m) /\ queue[m] \in Seq(Calls)
  BY BoardsTyped DEF Boards
<1>5. old.after /\ ~old.unread => row.celebrated
  BY <1>1, <1>4 DEF BoardOf
<1>6. Earned(finished)
  BY <1>1, <1>4 DEF BoardOf
<1>7. fires => canManage(m) /\ Earned(StepsOf(m))
  BY <1>6 DEF Celebrates, AllComplete, Earned
<1> HIDE DEF finished, row, fires, old
<1>8. view \in Views /\ b \in Boards /\ b.view = view /\ b.load = Idle
  BY <1>2, <1>3, <1>4 DEF Views, Boards
<1>9. q \in Seq(Calls)
  BY <1>4 DEF Calls
<1>10. tab'[m] = b /\ queue'[m] = q
  BY <1>1 DEF ListInv
<1>11. BoardOf(m)'
  <2>1. tab'[m].load = Idle /\ tab'[m].view.after = old.after
        /\ tab'[m].view.unread = old.unread /\ tab'[m].view.lifecycle = row
    BY <1>8, <1>10
  <2> QED BY <1>3, <1>5, <2>1 DEF BoardOf
<1>12. QueueOf(m)'
  <2>1. ASSUME NEW i \in 1..Len(q), q[i] = "celebrate"
        PROVE  canManage(m) /\ Earned(StepsOf(m))
    <3>1. CASE fires
      BY <1>7, <3>1
    <3>2. CASE ~fires
      BY <1>4, <2>1, <3>2 DEF QueueOf
    <3> QED BY <3>1, <3>2
  <2> QED BY <1>1, <1>10, <2>1 DEF QueueOf, canManage, Earned
<1>13. CelebrationEarned' /\ lifecycle' \in Lifecycle
  BY <1>1 DEF CelebrationEarned, canManage, ListInv
<1> HIDE DEF b, q, view
<1> QED BY <1>1, <1>8, <1>9, <1>11, <1>12, <1>13, BoardKeeps

LEMMA ClickKeeps ==
  ASSUME ListInv, NEW m \in Members, Click(m)
  PROVE  ListInv'
<1>1. PICK c \in {"restore", "dismiss"} : queue' = [queue EXCEPT ![m] = Append(queue[m], c)]
  BY DEF Click
<1>2. UNCHANGED <<facts, ever, seat, lifecycle, tab>> /\ tab' = [tab EXCEPT ![m] = tab[m]]
  BY DEF Click, ListInv
<1>3. Append(queue[m], c) \in Seq(Calls) /\ queue'[m] = Append(queue[m], c)
  BY <1>1, BoardsTyped DEF Calls, ListInv
<1>4. QueueOf(m)'
  <2>1. ASSUME NEW i \in 1..Len(Append(queue[m], c)), Append(queue[m], c)[i] = "celebrate"
        PROVE  i \in 1..Len(queue[m]) /\ queue[m][i] = "celebrate"
    BY <2>1, BoardsTyped DEF Calls
  <2> QED BY <1>2, <1>3, <2>1, BoardsTyped DEF QueueOf, canManage, Earned
<1>5. BoardOf(m)' /\ CelebrationEarned' /\ lifecycle' \in Lifecycle
  BY <1>2, BoardsTyped DEF BoardOf, Earned, CelebrationEarned, canManage, ListInv
<1> QED BY <1>1, <1>2, <1>3, <1>4, <1>5, BoardsTyped, BoardKeeps

LEMMA UpsertKeeps ==
  ASSUME ListInv, NEW m \in Members, upsertLifecycle(m)
  PROVE  ListInv'
<1> DEFINE q == Tail(queue[m])
<1>1. /\ queue[m] # << >> /\ queue' = [queue EXCEPT ![m] = q]
      /\ UNCHANGED <<facts, ever, seat>> /\ q \in Seq(Calls)
  BY BoardsTyped DEF upsertLifecycle
<1>2. QueueOf(m)'
  BY <1>1, QueueStays
<1>3. CASE Active(m)
  <2>1. /\ lifecycle' = Patch(m, Head(queue[m]))
        /\ tab' = [tab EXCEPT ![m].load = Loading(lifecycle'.celebrated)]
    BY <1>3 DEF upsertLifecycle
  <2>2. /\ lifecycle' \in Lifecycle
        /\ lifecycle.celebrated => lifecycle'.celebrated
        /\ lifecycle'.celebrated => lifecycle.celebrated \/ Head(queue[m]) = "celebrate"
    BY <2>1 DEF Patch, Lifecycle, ListInv
  <2>3. Head(queue[m]) = "celebrate" => canManage(m) /\ Earned(StepsOf(m))
    BY <1>1, BoardsTyped DEF QueueOf
  <2>4. CelebrationEarned'
    BY <1>1, <2>2, <2>3 DEF CelebrationEarned, canManage, Earned, ListInv
  <2>5. seat[m] = "active"
    BY <1>3 DEF Active
  <2> HIDE DEF q
  <2> QED BY <1>1, <1>2, <2>1, <2>2, <2>4, <2>5, Loads_
<1>4. CASE ~Active(m)
  <2>1. UNCHANGED <<lifecycle, tab>> /\ tab' = [tab EXCEPT ![m] = tab[m]]
    BY <1>4 DEF upsertLifecycle, ListInv
  <2>2. BoardOf(m)' /\ CelebrationEarned' /\ lifecycle' \in Lifecycle
    BY <1>1, <2>1, BoardsTyped DEF BoardOf, Earned, CelebrationEarned, canManage, ListInv
  <2> HIDE DEF q
  <2> QED BY <1>1, <1>2, <2>1, <2>2, BoardsTyped, BoardKeeps
<1> QED BY <1>3, <1>4

LEMMA LoseKeeps ==
  ASSUME ListInv, NEW m \in Members, Lose(m) \/ NewSession(m)
  PROVE  ListInv'
<1>1. UNCHANGED <<facts, ever, seat, lifecycle>>
  BY DEF Lose, NewSession
<1>2. PICK q \in Seq(Calls) : queue' = [queue EXCEPT ![m] = q]
                             /\ (q = queue[m] \/ (queue[m] # << >> /\ q = Tail(queue[m])))
  BY BoardsTyped DEF Lose, NewSession
<1>3. PICK ref \in BOOLEAN : tab' = [tab EXCEPT ![m].celebrateRef = ref]
  <2>1. tab' = tab => tab' = [tab EXCEPT ![m].celebrateRef = tab[m].celebrateRef]
    BY DEF ListInv, Boards
  <2>2. tab[m].celebrateRef \in BOOLEAN
    BY BoardsTyped DEF Boards
  <2> QED BY <2>1, <2>2 DEF Lose, NewSession
<1> DEFINE b == [tab[m] EXCEPT !.celebrateRef = ref]
<1>4. tab' = [tab EXCEPT ![m] = b]
  BY <1>3
<1>5. b \in Boards /\ b.load = tab[m].load /\ b.view = tab[m].view
  BY BoardsTyped DEF Boards
<1>6. tab'[m] = b
  BY <1>4 DEF ListInv
<1> HIDE DEF b
<1>7. BoardOf(m)' /\ CelebrationEarned' /\ lifecycle' \in Lifecycle
  BY <1>1, <1>5, <1>6, BoardsTyped
     DEF BoardOf, Earned, CelebrationEarned, canManage, ListInv
<1>8. QueueOf(m)'
  BY <1>1, <1>2, QueueStays
<1> QED BY <1>1, <1>2, <1>4, <1>5, <1>7, <1>8, BoardKeeps

LEMMA ListInvStep ==
  ASSUME ListInv, [ListNext]_listVars
  PROVE  ListInv'
<1>1. CASE UNCHANGED listVars
  <2>1. UNCHANGED <<facts, ever, seat, lifecycle, tab, queue>>
    BY <1>1 DEF listVars, lists
  <2>2. \A m \in Members : SeatOf(m)
    BY DEF ListInv
  <2> QED BY <2>1, <2>2, WorkKeeps DEF lists, ListInv, SeatOf
<1>2. CASE ListNext
  <2>1. PICK m \in Members :
          \/ \E fact \in DataFacts : Do(m, fact)
          \/ \E n \in Members : Invite(m, n)
          \/ \E visit \in Visits : VisitPage(m, visit) \/ Recorded(m, visit)
          \/ Join(m) \/ Undo(m) \/ NewSession(m)
          \/ Load(m) \/ Read(m) \/ Fail(m) \/ Render(m) \/ Click(m) \/ upsertLifecycle(m) \/ Lose(m)
    BY <1>2 DEF ListNext
  <2>2. CASE \E fact \in DataFacts : Do(m, fact)
    BY <2>2, DoKeeps
  <2>3. CASE (\E n \in Members : Invite(m, n)) \/ Join(m) \/ Undo(m)
    BY <2>3, PeopleKeep
  <2>4. CASE \E visit \in Visits : VisitPage(m, visit) \/ Recorded(m, visit)
    BY <2>4, VisitsKeep
  <2>5. CASE Load(m) \/ Read(m) \/ Fail(m) \/ Render(m)
    BY <2>5, LoadStep, AnswerStep, RenderStep
  <2>6. CASE Click(m) \/ upsertLifecycle(m) \/ Lose(m) \/ NewSession(m)
    BY <2>6, ClickKeeps, UpsertKeeps, LoseKeeps
  <2> QED BY <2>1, <2>2, <2>3, <2>4, <2>5, <2>6
<1> QED BY <1>1, <1>2

LEMMA ListInvInit == ListInit => ListInv
<1> SUFFICES ASSUME ListInit PROVE ListInv
  OBVIOUS
<1>1. /\ Away \in Boards /\ Away.load = Idle /\ Away.view.after = FALSE
      /\ Idle.after = FALSE /\ Idle.on = FALSE /\ Idle.signals = << >>
  <2>1. NoView \in Views /\ NoView.after = FALSE
    BY DEF NoView, Untouched, Views, Lifecycle
  <2>2. Idle \in Loads /\ Idle.after = FALSE /\ Idle.on = FALSE /\ Idle.signals = << >>
    BY DEF Idle, Loads, Answers, LifecycleRows
  <2> QED BY <2>1, <2>2 DEF Away, Boards
<1>2. \A m \in Members : tab[m] = Away /\ queue[m] = << >>
                         /\ seat[m] = (IF m = Founder THEN "active" ELSE "out")
  BY DEF ListInit
<1>3. \A m \in Members : BoardOf(m) /\ SeatOf(m) /\ QueueOf(m)
  BY <1>1, <1>2 DEF BoardOf, SeatOf, QueueOf
<1>4. lifecycle \in Lifecycle /\ ~lifecycle.celebrated
  BY DEF ListInit, Untouched, Lifecycle
<1>5. facts = Already /\ ever = Already
  BY DEF ListInit
<1> QED BY <1>1, <1>3, <1>4, <1>5, AlreadyAssumption
        DEF ListInit, ListInv, CelebrationEarned

(* CelebrationNeverReplays: whatever is hidden or restored from a page     *)
(* rendered before (upsertLifecycle), a celebration is shown once.         *)
THEOREM CelebrationShownOnce == ListSpec => []CelebrationNeverReplays
<1>1. ListInv => CelebrationNeverReplays
  BY DEF ListInv, BoardOf, CelebrationNeverReplays, Celebrates
<1> QED BY <1>1, ListInvInit, ListInvStep, PTL DEF ListSpec

(* CelebrationEarned: the signals of a load are read one by one, a member  *)
(* may leave and a call be late (checklist.tsx): still everything on the   *)
(* list of the manager who celebrated has been done.                       *)
THEOREM CelebrationAlwaysEarned == ListSpec => []CelebrationEarned
<1>1. ListInv => CelebrationEarned
  BY DEF ListInv
<1> QED BY <1>1, ListInvInit, ListInvStep, PTL DEF ListSpec

-----------------------------------------------------------------------------
(* NothingSkippedOrReplayed: the tours and the checklist of one workspace. *)
THEOREM NothingEverSkippedOrReplayed == OnboardingSpec => []NothingSkippedOrReplayed
<1>1. OnboardingInit => TourInv /\ ListInv
  BY TourInvInit, ListInvInit DEF OnboardingInit
<1>2. TourInv /\ ListInv /\ [OnboardingNext]_onboardingVars => TourInv' /\ ListInv'
  <2>1. [OnboardingNext]_onboardingVars => [TourNext]_tourVars /\ [ListNext]_listVars
    BY DEF OnboardingNext, InTour, InList, onboardingVars
  <2> QED BY <2>1, TourInvStep, ListInvStep
<1>3. TourInv /\ ListInv => NothingSkippedOrReplayed
  BY DEF TourInv, TourOf, Behind, NoStepPassedOver, ListInv, BoardOf,
         CelebrationNeverReplays, Celebrates, NothingSkippedOrReplayed
<1> QED BY <1>1, <1>2, <1>3, PTL DEF OnboardingSpec
-----------------------------------------------------------------------------
(* The order of a curriculum: positions                                    *)

LEMMA LeastOf ==
  ASSUME NEW K, K \subseteq Nat, K # {}
  PROVE  \E k \in K : \A m \in K : k <= m
<1> DEFINE Less == { ss \in Nat \X Nat : ss[1] < ss[2] }
<1>1. IsWellFoundedOn(Less, Nat)
  BY NatLessThanWellFounded DEF OpToRel
<1>2. \A x, y \in Nat : x < y => << x, y >> \in Less
  OBVIOUS
<1> HIDE DEF Less
<1>3. PICK k \in K : \A m \in K : << m, k >> \notin Less
  BY <1>1, WFMin
<1>4. k \in Nat /\ \A m \in K : m \in Nat /\ ~(m < k)
  BY <1>2, <1>3
<1> QED BY <1>4

LEMMA TextIs ==
  ASSUME NEW p \in Text
  PROVE  /\ Len(p) \in Nat /\ p \in [1..Len(p) -> {1, 2}]
         /\ \A i \in 1..Len(p) : p[i] \in Int
BY DEF Text, LetterN, SwapMark

\* p comes before q: it is shorter and q goes on from it, or the first
\* character in which they differ is smaller.
LEMMA BeforeIs ==
  ASSUME NEW p \in Text, NEW q \in Text
  PROVE  Before(p, q) <=>
           \/ Len(p) < Len(q) /\ \A j \in 1..Len(p) : p[j] = q[j]
           \/ \E i \in 1..Len(p) : i <= Len(q) /\ p[i] < q[i] /\ \A j \in 1..i - 1 : p[j] = q[j]
<1>1. Len(p) \in Nat /\ Len(q) \in Nat /\ DOMAIN p = 1..Len(p) /\ DOMAIN q = 1..Len(q)
  BY DEF Text
<1>2. IsStrictPrefix(p, q) <=> Len(p) < Len(q) /\ \A j \in 1..Len(p) : p[j] = q[j]
  <2>1. ASSUME Len(p) <= Len(q)
        PROVE  SubSeq(p, 1, Len(p)) = SubSeq(q, 1, Len(p)) <=> \A j \in 1..Len(p) : p[j] = q[j]
    BY <1>1, <2>1 DEF Text
  <2>2. Len(p) = Len(q) /\ (\A j \in 1..Len(p) : p[j] = q[j]) => p = q
    BY TextIs
  <2>3. CASE Len(p) < Len(q)
    <3>1. p # q
      BY <2>3, <1>1
    <3> QED BY <1>1, <2>1, <2>3, <3>1 DEF IsStrictPrefix, IsPrefix
  <2>4. CASE Len(p) = Len(q)
    <3>1. IsStrictPrefix(p, q) <=> p # q /\ \A j \in 1..Len(p) : p[j] = q[j]
      BY <1>1, <2>1, <2>4 DEF IsStrictPrefix, IsPrefix
    <3> QED BY <1>1, <2>2, <2>4, <3>1
  <2>5. CASE Len(p) > Len(q)
    BY <1>1, <2>5 DEF IsStrictPrefix, IsPrefix
  <2>6. Len(p) < Len(q) \/ Len(p) = Len(q) \/ Len(p) > Len(q)
    BY TextIs
  <2> QED BY <2>3, <2>4, <2>5, <2>6, Zenon
<1> QED BY <1>1, <1>2 DEF Before

LEMMA BeforeIrreflexive ==
  ASSUME NEW p \in Text
  PROVE  ~Before(p, p)
<1>1. Len(p) \in Nat /\ \A i \in 1..Len(p) : p[i] \in Int
  BY DEF Text, LetterN, SwapMark
<1> QED BY <1>1, BeforeIs

LEMMA BeforeTransitive ==
  ASSUME NEW p \in Text, NEW q \in Text, NEW r \in Text, Before(p, q), Before(q, r)
  PROVE  Before(p, r)
<1>1. /\ Len(p) \in Nat /\ Len(q) \in Nat /\ Len(r) \in Nat
      /\ \A i \in 1..Len(p) : p[i] \in Int
      /\ \A i \in 1..Len(q) : q[i] \in Int
      /\ \A i \in 1..Len(r) : r[i] \in Int
  BY DEF Text, LetterN, SwapMark
<1>2. CASE Len(p) < Len(q) /\ \A j \in 1..Len(p) : p[j] = q[j]
  <2>1. CASE Len(q) < Len(r) /\ \A j \in 1..Len(q) : q[j] = r[j]
    BY <1>1, <1>2, <2>1, BeforeIs
  <2>2. CASE \E k \in 1..Len(q) : k <= Len(r) /\ q[k] < r[k] /\ \A j \in 1..k - 1 : q[j] = r[j]
    <3>1. PICK k \in 1..Len(q) : k <= Len(r) /\ q[k] < r[k] /\ \A j \in 1..k - 1 : q[j] = r[j]
      BY <2>2
    <3>2. CASE k <= Len(p)
      <4>1. k \in 1..Len(p) /\ p[k] < r[k] /\ \A j \in 1..k - 1 : p[j] = r[j]
        BY <1>1, <1>2, <3>1, <3>2
      <4> QED BY <3>1, <4>1, BeforeIs
    <3>3. CASE k > Len(p)
      <4>1. Len(p) < Len(r) /\ \A j \in 1..Len(p) : p[j] = r[j]
        BY <1>1, <1>2, <3>1, <3>3
      <4> QED BY <4>1, BeforeIs
    <3> QED BY <3>2, <3>3, <1>1, <3>1
  <2> QED BY <2>1, <2>2, BeforeIs
<1>3. CASE \E i \in 1..Len(p) : i <= Len(q) /\ p[i] < q[i] /\ \A j \in 1..i - 1 : p[j] = q[j]
  <2>1. PICK i \in 1..Len(p) : i <= Len(q) /\ p[i] < q[i] /\ \A j \in 1..i - 1 : p[j] = q[j]
    BY <1>3
  <2>2. CASE Len(q) < Len(r) /\ \A j \in 1..Len(q) : q[j] = r[j]
    <3>1. i <= Len(r) /\ p[i] < r[i] /\ \A j \in 1..i - 1 : p[j] = r[j]
      BY <1>1, <2>1, <2>2
    <3> QED BY <2>1, <3>1, BeforeIs
  <2>3. CASE \E k \in 1..Len(q) : k <= Len(r) /\ q[k] < r[k] /\ \A j \in 1..k - 1 : q[j] = r[j]
    <3>1. PICK k \in 1..Len(q) : k <= Len(r) /\ q[k] < r[k] /\ \A j \in 1..k - 1 : q[j] = r[j]
      BY <2>3
    <3>2. CASE k < i
      <4>1. k \in 1..Len(p) /\ p[k] < r[k] /\ \A j \in 1..k - 1 : p[j] = r[j]
        BY <1>1, <2>1, <3>1, <3>2
      <4> QED BY <3>1, <4>1, BeforeIs
    <3>3. CASE k >= i
      <4>1. i <= Len(r) /\ p[i] < r[i] /\ \A j \in 1..i - 1 : p[j] = r[j]
        BY <1>1, <2>1, <3>1, <3>3
      <4> QED BY <2>1, <4>1, BeforeIs
    <3> QED BY <3>2, <3>3, <2>1, <3>1
  <2> QED BY <2>2, <2>3, BeforeIs
<1> QED BY <1>2, <1>3, BeforeIs

LEMMA BeforeTotal ==
  ASSUME NEW p \in Text, NEW q \in Text
  PROVE  p = q \/ Before(p, q) \/ Before(q, p)
<1>1. /\ Len(p) \in Nat /\ Len(q) \in Nat
      /\ \A i \in 1..Len(p) : p[i] \in Int
      /\ \A i \in 1..Len(q) : q[i] \in Int
  BY DEF Text, LetterN, SwapMark
<1> DEFINE K == { i \in 1..Len(p) : i <= Len(q) /\ p[i] # q[i] }
<1>2. CASE K = {}
  <2>1. CASE Len(p) = Len(q)
    BY <1>1, <1>2, <2>1, TextIs
  <2>2. CASE Len(p) < Len(q)
    BY <1>1, <1>2, <2>2, BeforeIs
  <2>3. CASE Len(q) < Len(p)
    BY <1>1, <1>2, <2>3, BeforeIs
  <2> QED BY <1>1, <2>1, <2>2, <2>3
<1>3. CASE K # {}
  <2>0. K \subseteq Nat
    BY <1>1
  <2>1. PICK i \in K : \A m \in K : i <= m
    <3> HIDE DEF K
    <3> QED BY <1>3, <2>0, LeastOf
  <2>2. i \in 1..Len(p) /\ i \in 1..Len(q) /\ p[i] # q[i] /\ \A j \in 1..i - 1 : p[j] = q[j]
    BY <1>1, <2>1
  <2>3. p[i] < q[i] \/ q[i] < p[i]
    BY <1>1, <2>2
  <2> QED BY <1>1, <2>2, <2>3, BeforeIs
<1> QED BY <1>2, <1>3

\* Of finitely many positions one comes last.
LEMMA OneIsLast ==
  ASSUME NEW P \in SUBSET Text, IsFiniteSet(P), P # {}
  PROVE  \E p \in P : \A q \in P : ~Before(p, q)
<1>0. PICK n \in Nat : \E f \in [1..n -> P] : \A p \in P : \E i \in 1..n : f[i] = p
  BY FS_NatSurjection DEF ExistsSurjection, Surjection
<1>1. PICK f \in [1..n -> P] : \A p \in P : \E i \in 1..n : f[i] = p
  BY <1>0
<1>2. n > 0
  BY <1>1
<1> DEFINE last(m, k) == m \in 1..k /\ \A j \in 1..k : ~Before(f[m], f[j])
           K == { k \in 1..n : \A m \in 1..n : ~last(m, k) }
<1>3. K = {}
  <2> SUFFICES ASSUME K # {} PROVE FALSE
    OBVIOUS
  <2>0. K \subseteq Nat
    BY <1>0
  <2>1. PICK k \in K : \A m \in K : k <= m
    <3> HIDE DEF K
    <3> QED BY <2>0, LeastOf
  <2>2. k \in 1..n /\ \A i \in 1..n : f[i] \in Text
    BY <1>1, <2>1
  <2>3. CASE k = 1
    <3>1. last(1, 1)
      BY <2>2, <2>3, BeforeIrreflexive
    <3> QED BY <2>1, <2>3, <3>1
  <2>4. CASE k > 1
    <3>1. k - 1 \in 1..n /\ k - 1 \notin K
      <4>1. k - 1 \in 1..n /\ k \in Int /\ ~(k <= k - 1)
        BY <2>2, <2>4
      <4> HIDE DEF K
      <4> QED BY <2>1, <4>1
    <3>2. PICK m \in 1..n : last(m, k - 1)
      BY <3>1
    <3>3. CASE Before(f[m], f[k])
      <4>1. \A j \in 1..k : ~Before(f[k], f[j])
        <5>1. ASSUME NEW j \in 1..k - 1, Before(f[k], f[j]) PROVE FALSE
          <6>1. f[m] \in Text /\ f[k] \in Text /\ f[j] \in Text
            BY <2>2, <3>2
          <6>2. Before(f[m], f[j])
            BY <3>3, <5>1, <6>1, BeforeTransitive
          <6> QED BY <3>2, <6>2
        <5>2. ~Before(f[k], f[k])
          BY <2>2, BeforeIrreflexive
        <5> QED BY <2>2, <5>1, <5>2
      <4>2. last(k, k)
        BY <2>2, <4>1
      <4> QED BY <2>1, <2>2, <4>2
    <3>4. CASE ~Before(f[m], f[k])
      <4>1. last(m, k)
        BY <2>2, <3>2, <3>4
      <4> QED BY <2>1, <3>2, <4>1
    <3> QED BY <3>3, <3>4
  <2> QED BY <2>2, <2>3, <2>4
<1>4. PICK m \in 1..n : last(m, n)
  <2>1. n \in 1..n
    BY <1>2
  <2>2. n \notin K
    BY <1>3
  <2> QED BY <2>1, <2>2
<1>5. f[m] \in P /\ \A q \in P : ~Before(f[m], q)
  BY <1>1, <1>4
<1> QED BY <1>5

\* What is appended to the last of them comes after them all.
LEMMA AppendedComesLast ==
  ASSUME NEW p \in Text, NEW q \in Text, ~Before(q, p)
  PROVE  Append(q, LetterN) \in Text /\ Before(p, Append(q, LetterN))
<1>1. PICK r : r = Append(q, LetterN)
  OBVIOUS
<1>2. /\ r \in Text /\ Len(r) = Len(q) + 1 /\ \A j \in 1..Len(q) : r[j] = q[j]
      /\ Len(p) \in Nat /\ Len(q) \in Nat
  BY <1>1 DEF Text, LetterN, SwapMark
<1>3. ASSUME p = q PROVE Before(p, r)
  BY <1>2, <1>3, BeforeIs
<1>4. ASSUME Before(p, q) PROVE Before(p, r)
  <2>1. CASE Len(p) < Len(q) /\ \A j \in 1..Len(p) : p[j] = q[j]
    <3>1. Len(p) < Len(r) /\ \A j \in 1..Len(p) : p[j] = r[j]
      BY <1>2, <2>1
    <3> QED BY <1>2, <3>1, BeforeIs
  <2>2. CASE \E i \in 1..Len(p) : i <= Len(q) /\ p[i] < q[i] /\ \A j \in 1..i - 1 : p[j] = q[j]
    <3>1. PICK i \in 1..Len(p) : i <= Len(q) /\ p[i] < q[i] /\ \A j \in 1..i - 1 : p[j] = q[j]
      BY <2>2
    <3>2. i <= Len(r) /\ p[i] < r[i] /\ \A j \in 1..i - 1 : p[j] = r[j]
      BY <1>2, <3>1
    <3> QED BY <1>2, <3>1, <3>2, BeforeIs
  <2> QED BY <1>4, <2>1, <2>2, BeforeIs
<1> QED BY <1>1, <1>2, <1>3, <1>4, BeforeTotal

-----------------------------------------------------------------------------
(* The invariant                                                           *)

PositionsHeld == { << >> } \cup { << p >> : p \in Text }
Placings == [Items -> PositionsHeld]
Lists == { s \in Seq(Items) : \A i, j \in DOMAIN s : s[i] = s[j] => i = j }
OrderCalls ==
  [op : {"none", "add", "swap"},
   at : {"idle", "read", "insert", "fetch", "temp", "second", "third"},
   items : Seq(Items), keys : Seq(Text), failed : BOOLEAN, alone : BOOLEAN, before : Placings]

\* A call has what its next statement needs.
WellFormed(c) ==
  /\ c.at = "idle" => c = NoCall
  /\ c.at \in {"read", "insert"} => Len(c.items) = 1
  /\ c.at = "insert" => Len(c.keys) = 1
  /\ c.at \in {"fetch", "temp", "second", "third"} => Len(c.items) = 2 /\ c.items[1] # c.items[2]
  /\ c.at \in {"temp", "second", "third"} => Len(c.keys) = 2

OrderTyped ==
  /\ kind \in {"course", "path"} /\ position \in Placings
  /\ call \in [Editors -> OrderCalls] /\ \A e \in Editors : WellFormed(call[e])
  /\ listed \in [Editors -> Lists]
  /\ report \in [Editors -> {"none", "ok", "error"}]

\* Positions fit their column and, but in a path, nobody shares one.
Sound(pos) ==
  /\ \A x \in Items, p \in Text : pos[x] = << p >> => Fits(p)
  /\ Unique => \A x, y \in Items : pos[x] # << >> /\ pos[x] = pos[y] => x = y

\* The temporary position of a swap cannot be had.
Refused(c) ==
  ~Fits(Temp(c.keys[1])) \/ \E x \in Items : c.before[x] = << Temp(c.keys[1]) >>

Moved(pos, x, p) == [pos EXCEPT ![x] = << p >>]

\* Where a swap that nobody disturbs stands.
SwapStands(c) ==
  LET a == c.items[1]
      b == c.items[2]
  IN c.at \in {"temp", "second", "third"} /\ c.alone /\ ~c.failed =>
       /\ c.before[a] = << c.keys[1] >> /\ c.before[b] = << c.keys[2] >>
       /\ Sound(c.before)
       /\ c.at = "temp" => position = c.before
       /\ c.at = "second" =>
            \/ position = Moved(c.before, a, Temp(c.keys[1]))
            \/ position = c.before /\ (Unique => Refused(c))
       /\ c.at = "third" =>
            \/ position = Moved(Moved(c.before, a, Temp(c.keys[1])), b, c.keys[1])
            \/ position = Moved(c.before, b, c.keys[1]) /\ ~Unique
            \/ position = c.before /\ Unique /\ Refused(c)

\* What an addition that nobody disturbs has read is still the end.
AddStands(c) ==
  c.at = "insert" /\ c.alone /\ ~c.failed => c.keys[1] = NextPosition

OrderInv2 ==
  /\ OrderTyped /\ Sound(position)
  /\ \A e \in Editors : SwapStands(call[e]) /\ AddStands(call[e])

-----------------------------------------------------------------------------
LEMMA Finite == IsFiniteSet(Items) /\ IsFiniteSet(Positioned)
BY StartAssumption, FS_Subset DEF Positioned

LEMMA AtIs ==
  ASSUME position \in Placings, NEW x \in Positioned
  PROVE  x \in Items /\ At(x) \in Text /\ position[x] = << At(x) >>
BY DEF Placings, PositionsHeld, Positioned, At

LEMMA LastIs ==
  ASSUME position \in Placings, Positioned # {}
  PROVE  LastPosition \in Text /\ \A x \in Positioned : ~Before(LastPosition, At(x))
<1> DEFINE P == { At(x) : x \in Positioned }
<1>1. P \subseteq Text /\ P # {}
  BY AtIs
<1>2. IsFiniteSet(P)
  <2> DEFINE f == [x \in Positioned |-> At(x)]
  <2>1. f \in [Positioned -> P] /\ \A p \in P : \E x \in Positioned : f[x] = p
    OBVIOUS
  <2> HIDE DEF f, P
  <2>2. f \in Surjection(Positioned, P)
    BY <2>1 DEF Surjection
  <2> QED BY <2>2, Finite, FS_Surjection
<1>3. \E p \in P : \A q \in P : ~Before(p, q)
  <2> HIDE DEF P
  <2> QED BY <1>1, <1>2, OneIsLast
<1>4. \E p \in P : \A x \in Positioned : ~Before(p, At(x))
  BY <1>3
<1>5. LastPosition = CHOOSE p \in P : \A x \in Positioned : ~Before(p, At(x))
  BY DEF LastPosition
<1> QED BY <1>1, <1>4, <1>5

LEMMA NextIs ==
  ASSUME position \in Placings
  PROVE  NextPosition \in Text /\ \A x \in Positioned : Before(At(x), NextPosition)
<1>1. << >> \in Text
  BY DEF Text
<1>2. CASE Positioned = {}
  BY <1>1, <1>2 DEF NextPosition
<1>3. CASE Positioned # {}
  BY <1>3, LastIs, AtIs, AppendedComesLast DEF NextPosition
<1> QED BY <1>2, <1>3

LEMMA NoCallIs ==
  /\ NoCall \in OrderCalls /\ WellFormed(NoCall) /\ SwapStands(NoCall) /\ AddStands(NoCall)
  /\ NoCall.at = "idle"
BY DEF NoCall, OrderCalls, WellFormed, SwapStands, AddStands, Placings, PositionsHeld

LEMMA SortedAreLists ==
  ASSUME NEW s \in Sorted
  PROVE  s \in Lists
<1>1. Cardinality(Positioned) \in Nat
  BY Finite, FS_CardinalityType
<1>2. s \in [1..Cardinality(Positioned) -> Positioned]
      /\ \A i, j \in 1..Cardinality(Positioned) : i # j => s[i] # s[j]
  BY DEF Sorted, SetToSeqs
<1>3. s \in Seq(Items)
  BY <1>1, <1>2 DEF Positioned
<1> QED BY <1>2, <1>3 DEF Lists

LEMMA SortedNextAreLists ==
  ASSUME NEW s \in Sorted'
  PROVE  s \in Lists
<1>0. Positioned' \subseteq Items /\ IsFiniteSet(Positioned')
  BY StartAssumption, FS_Subset DEF Positioned
<1>1. Cardinality(Positioned') \in Nat
  BY <1>0, FS_CardinalityType
<1>2. s \in [1..Cardinality(Positioned') -> Positioned']
      /\ \A i, j \in 1..Cardinality(Positioned') : i # j => s[i] # s[j]
  BY DEF Sorted, SetToSeqs
<1>3. s \in Seq(Items)
  BY <1>0, <1>1, <1>2
<1> QED BY <1>2, <1>3 DEF Lists

\* The end of an action leaves lists on the pages.
LEMMA ReportTyped ==
  ASSUME OrderTyped, NEW e \in Editors, NEW answer \in {"ok", "error"}, Report(e, answer)
  PROVE  /\ listed' \in [Editors -> Lists] /\ report' \in [Editors -> {"none", "ok", "error"}]
         /\ report'[e] = answer
<1>1. report' = [report EXCEPT ![e] = answer]
  BY DEF Report
<1>2. listed' = listed \/ \E s \in Sorted' : listed' = [listed EXCEPT ![e] = s]
  BY DEF Report
<1> QED BY <1>1, <1>2, SortedNextAreLists DEF OrderTyped

\* What is required of a step: the call of one editor stands anew, and the
\* others are undisturbed or know that they are not alone.
LEMMA StepKeeps ==
  ASSUME OrderInv2, kind' = kind, NEW e \in Editors, NEW c \in OrderCalls, WellFormed(c),
         \/ position' = position /\ call' = [call EXCEPT ![e] = c]
         \/ Disturb(e, c),
         position' \in Placings, Sound(position)',
         listed' \in [Editors -> Lists], report' \in [Editors -> {"none", "ok", "error"}],
         SwapStands(c)', AddStands(c)'
  PROVE  OrderInv2'
<1>1. call \in [Editors -> OrderCalls] /\ \A f \in Editors : WellFormed(call[f])
  BY DEF OrderInv2, OrderTyped
<1>2. call' \in [Editors -> OrderCalls] /\ call'[e] = c
  <2>1. CASE call' = [call EXCEPT ![e] = c]
    BY <1>1, <2>1
  <2>2. CASE Disturb(e, c)
    <3>1. ASSUME NEW f \in Editors PROVE [call[f] EXCEPT !.alone = FALSE] \in OrderCalls
      BY <1>1 DEF OrderCalls
    <3>2. \A f \in Editors : (IF f = e THEN c
                              ELSE IF call[f] = NoCall THEN NoCall
                              ELSE [call[f] EXCEPT !.alone = FALSE]) \in OrderCalls
      BY <3>1, NoCallIs
    <3> QED BY <2>2, <3>2 DEF Disturb
  <2> QED BY <2>1, <2>2
<1>3. ASSUME NEW f \in Editors, f # e
      PROVE  WellFormed(call'[f]) /\ SwapStands(call[f])' /\ AddStands(call[f])'
  <2>1. CASE position' = position /\ call'[f] = call[f]
    <3>1. WellFormed(call'[f])
      BY <1>1, <2>1
    <3>2. SwapStands(call[f]) /\ AddStands(call[f])
      BY <1>3 DEF OrderInv2
    <3>3. Unique' = Unique /\ (Sound(call[f].before))' = Sound(call[f].before)
      BY <2>1 DEF Unique, Sound
    <3>4. NextPosition' = NextPosition
      BY <2>1 DEF NextPosition, LastPosition, Positioned, At
    <3>5. SwapStands(call[f])'
      BY <2>1, <3>2, <3>3 DEF SwapStands, Refused
    <3> QED BY <2>1, <3>1, <3>2, <3>4, <3>5 DEF AddStands
  <2>2. CASE call'[f] = NoCall
    <3>1. WellFormed(call'[f])
      BY <2>2, NoCallIs
    <3> QED BY <2>2, <3>1, NoCallIs DEF SwapStands, AddStands
  <2>3. CASE call[f] # NoCall /\ call'[f] = [call[f] EXCEPT !.alone = FALSE]
    <3>1. /\ call'[f].at = call[f].at /\ call'[f].items = call[f].items
          /\ call'[f].keys = call[f].keys /\ call'[f].alone = FALSE
      BY <1>1, <2>3 DEF OrderCalls
    <3>2. WellFormed(call'[f])
      BY <1>1, <2>3, <3>1 DEF WellFormed
    <3> QED BY <3>1, <3>2 DEF SwapStands, AddStands
  <2> QED BY <1>1, <1>3, <2>1, <2>2, <2>3 DEF Disturb
<1>4. \A f \in Editors : WellFormed(call'[f])
  BY <1>2, <1>3
<1>5. OrderTyped'
  BY <1>2, <1>4 DEF OrderInv2, OrderTyped
<1>6. \A f \in Editors : SwapStands(call[f])' /\ AddStands(call[f])'
  <2>1. SwapStands(call[e])' /\ AddStands(call[e])'
    BY <1>2 DEF SwapStands, AddStands, Refused, Sound
  <2> QED BY <1>3, <2>1
<1> QED BY <1>5, <1>6 DEF OrderInv2

\* A call that has ended stands.
LEMMA EndKeeps ==
  ASSUME OrderInv2, kind' = kind, NEW e \in Editors,
         \/ position' = position /\ call' = [call EXCEPT ![e] = NoCall]
         \/ Disturb(e, NoCall),
         position' \in Placings, Sound(position)',
         listed' \in [Editors -> Lists], report' \in [Editors -> {"none", "ok", "error"}]
  PROVE  OrderInv2'
<1>1. PICK c : c = NoCall
  OBVIOUS
<1>2. c \in OrderCalls /\ WellFormed(c) /\ c.at = "idle"
  BY <1>1, NoCallIs
<1>3. SwapStands(c)' /\ AddStands(c)'
  BY <1>2 DEF SwapStands, AddStands
<1> QED BY <1>1, <1>2, <1>3, StepKeeps

LEMMA SoundStays ==
  ASSUME OrderInv2, kind' = kind, position' = position
  PROVE  position' \in Placings /\ Sound(position)'
BY DEF OrderInv2, OrderTyped, Sound, Unique

LEMMA PlacedSound ==
  ASSUME OrderInv2, kind' = kind, NEW x \in Items, NEW p \in Text, Fits(p),
         Unique => \A y \in Positioned \ {x} : At(y) # p,
         position' = [position EXCEPT ![x] = << p >>]
  PROVE  position' \in Placings /\ Sound(position)'
<1>1. position \in Placings /\ Sound(position)
  BY DEF OrderInv2, OrderTyped
<1>2. position' \in Placings
  BY <1>1 DEF Placings, PositionsHeld
<1>3. \A y \in Items : position'[y] = IF y = x THEN << p >> ELSE position[y]
  BY <1>1 DEF Placings
<1>4. Unique => \A y \in Items : y # x => position[y] # << p >>
  BY <1>1 DEF Positioned, At
<1>5. Unique' = Unique
  BY DEF Unique
<1>6. \A q \in Text : << q >> = << p >> => q = p
  OBVIOUS
<1> QED BY <1>1, <1>2, <1>3, <1>4, <1>5, <1>6 DEF Sound

LEMMA UpdatedSound ==
  ASSUME OrderInv2, kind' = kind, NEW x \in Items, NEW p \in Text, position' = Updated(x, p)
  PROVE  position' \in Placings /\ Sound(position)'
<1>1. CASE position' = position
  BY <1>1, SoundStays
<1>2. CASE x \in Positioned /\ Accepts(x, p) /\ position' = [position EXCEPT ![x] = << p >>]
  BY <1>2, PlacedSound DEF Accepts
<1> QED BY <1>1, <1>2 DEF Updated

-----------------------------------------------------------------------------
(* The actions                                                             *)

LEMMA CallIs ==
  ASSUME OrderInv2, NEW e \in Editors
  PROVE  /\ call[e] \in OrderCalls /\ WellFormed(call[e]) /\ SwapStands(call[e]) /\ AddStands(call[e])
         /\ call[e].items \in Seq(Items) /\ call[e].keys \in Seq(Text)
BY DEF OrderInv2, OrderTyped, OrderCalls

LEMMA BeginKeeps ==
  ASSUME OrderInv2, kind' = kind, NEW e \in Editors,
         NEW op \in {"add", "swap"}, NEW step \in {"read", "fetch"}, NEW items \in Seq(Items),
         step = "read" => Len(items) = 1,
         step = "fetch" => Len(items) = 2 /\ items[1] # items[2],
         Begin(e, op, step, items)
  PROVE  OrderInv2'
<1>1. PICK c : c = [NoCall EXCEPT !.op = op, !.at = step, !.items = items]
  OBVIOUS
<1>2. c \in OrderCalls /\ c.at = step /\ c.items = items
  BY <1>1, NoCallIs DEF OrderCalls
<1>3. WellFormed(c) /\ SwapStands(c)' /\ AddStands(c)'
  BY <1>2 DEF WellFormed, SwapStands, AddStands
<1>4. /\ call' = [call EXCEPT ![e] = c] /\ position' = position
      /\ listed' = listed /\ report' = [report EXCEPT ![e] = "none"]
  BY <1>1 DEF Begin
<1>5. listed' \in [Editors -> Lists] /\ report' \in [Editors -> {"none", "ok", "error"}]
  BY <1>4 DEF OrderInv2, OrderTyped
<1> QED BY <1>2, <1>3, <1>4, <1>5, SoundStays, StepKeeps

LEMMA AddKeeps ==
  ASSUME OrderInv2, kind' = kind, NEW e \in Editors, Add(e)
  PROVE  OrderInv2'
<1>1. PICK x \in Items : Begin(e, "add", "read", << x >>)
  BY DEF Add
<1>2. PICK items : items = << x >>
  OBVIOUS
<1>3. items \in Seq(Items) /\ Len(items) = 1
  BY <1>2
<1>4. Begin(e, "add", "read", items)
  BY <1>1, <1>2
<1> QED BY <1>3, <1>4, BeginKeeps

LEMMA SwapKeeps ==
  ASSUME OrderInv2, kind' = kind, NEW e \in Editors, Swap(e)
  PROVE  OrderInv2'
<1>1. PICK i \in 1..Len(listed[e]) - 1 :
        \/ Begin(e, "swap", "fetch", << listed[e][i], listed[e][i + 1] >>)
        \/ Begin(e, "swap", "fetch", << listed[e][i + 1], listed[e][i] >>)
  BY DEF Swap
<1>2. listed[e] \in Seq(Items) /\ \A k, m \in DOMAIN listed[e] : listed[e][k] = listed[e][m] => k = m
  BY DEF OrderInv2, OrderTyped, Lists
<1>3. i \in DOMAIN listed[e] /\ i + 1 \in DOMAIN listed[e] /\ i # i + 1
  BY <1>2
<1>4. listed[e][i] \in Items /\ listed[e][i + 1] \in Items /\ listed[e][i] # listed[e][i + 1]
  BY <1>2, <1>3
<1>5. PICK items \in Seq(Items) : Len(items) = 2 /\ items[1] # items[2] /\ Begin(e, "swap", "fetch", items)
  <2>1. CASE Begin(e, "swap", "fetch", << listed[e][i], listed[e][i + 1] >>)
    <3>1. PICK items : items = << listed[e][i], listed[e][i + 1] >>
      OBVIOUS
    <3>2. items \in Seq(Items) /\ Len(items) = 2 /\ items[1] # items[2]
      BY <1>4, <3>1
    <3> QED BY <2>1, <3>1, <3>2
  <2>2. CASE Begin(e, "swap", "fetch", << listed[e][i + 1], listed[e][i] >>)
    <3>1. PICK items : items = << listed[e][i + 1], listed[e][i] >>
      OBVIOUS
    <3>2. items \in Seq(Items) /\ Len(items) = 2 /\ items[1] # items[2]
      BY <1>4, <3>1
    <3> QED BY <2>2, <3>1, <3>2
  <2> QED BY <1>1, <2>1, <2>2
<1> QED BY <1>5, BeginKeeps

LEMMA RefreshKeeps ==
  ASSUME OrderInv2, kind' = kind, NEW e \in Editors, Refresh(e)
  PROVE  OrderInv2'
<1>1. PICK s \in Sorted : listed' = [listed EXCEPT ![e] = s]
  BY DEF Refresh
<1>2. listed' \in [Editors -> Lists] /\ report' \in [Editors -> {"none", "ok", "error"}]
  BY <1>1, SortedAreLists DEF OrderInv2, OrderTyped, Refresh
<1>3. call[e] = NoCall /\ call' = call /\ position' = position
  BY DEF Refresh
<1>4. call' = [call EXCEPT ![e] = NoCall]
  BY <1>3 DEF OrderInv2, OrderTyped
<1> QED BY <1>2, <1>3, <1>4, SoundStays, EndKeeps

LEMMA ReadLastKeeps ==
  ASSUME OrderInv2, kind' = kind, NEW e \in Editors, ReadLast(e)
  PROVE  OrderInv2'
<1>0. position \in Placings
  BY DEF OrderInv2, OrderTyped
<1>1. PICK c : c = [call[e] EXCEPT !.at = "insert", !.keys = << NextPosition >>]
  OBVIOUS
<1>2. c \in OrderCalls /\ c.at = "insert" /\ c.items = call[e].items /\ c.keys = << NextPosition >>
  <2>1. call[e] \in OrderCalls /\ << NextPosition >> \in Seq(Text)
    BY <1>0, CallIs, NextIs
  <2> QED BY <1>1, <2>1 DEF OrderCalls
<1>3. call[e].at = "read" /\ UNCHANGED << position, listed, report >>
  BY DEF ReadLast
<1>4. NextPosition' = NextPosition
  BY <1>3 DEF NextPosition, LastPosition, Positioned, At
<1>5. WellFormed(c) /\ SwapStands(c)' /\ AddStands(c)'
  BY <1>2, <1>3, <1>4, CallIs DEF WellFormed, SwapStands, AddStands
<1>6. call' = [call EXCEPT ![e] = c]
  BY <1>1 DEF ReadLast
<1>7. listed' \in [Editors -> Lists] /\ report' \in [Editors -> {"none", "ok", "error"}]
  BY <1>3 DEF OrderInv2, OrderTyped
<1> QED BY <1>2, <1>3, <1>5, <1>6, <1>7, SoundStays, StepKeeps

LEMMA InsertKeeps ==
  ASSUME OrderInv2, kind' = kind, NEW e \in Editors, Insert(e)
  PROVE  OrderInv2'
<1> DEFINE x == call[e].items[1]
           key == call[e].keys[1]
           fits == x \notin Positioned /\ Fits(key) /\ (Unique => ~Taken(key))
<1>1. call[e].at = "insert"
  BY DEF Insert
<1>2. x \in Items /\ key \in Text
  BY <1>1, CallIs DEF WellFormed
<1>3. \/ fits /\ position' = [position EXCEPT ![x] = << key >>] /\ Disturb(e, NoCall) /\ Report(e, "ok")
      \/ ~fits /\ position' = position /\ call' = [call EXCEPT ![e] = NoCall] /\ Report(e, "error")
  BY DEF Insert
<1>4. listed' \in [Editors -> Lists] /\ report' \in [Editors -> {"none", "ok", "error"}]
  BY <1>3, ReportTyped DEF OrderInv2
<1>5. position' \in Placings /\ Sound(position)'
  <2>1. CASE position' = position
    BY <2>1, SoundStays
  <2>2. CASE fits /\ position' = [position EXCEPT ![x] = << key >>]
    <3>1. Fits(key) /\ (Unique => \A y \in Positioned \ {x} : At(y) # key)
      BY <2>2 DEF Taken
    <3> HIDE DEF x, key
    <3> QED BY <2>2, <3>1, <1>2, PlacedSound
  <2> QED BY <1>3, <2>1, <2>2
<1> QED BY <1>3, <1>4, <1>5, EndKeeps

LEMMA RemoveNodeKeeps ==
  ASSUME OrderInv2, kind' = kind, NEW e \in Editors, RemoveNode(e)
  PROVE  OrderInv2'
<1>1. Removable /\ Disturb(e, NoCall) /\ Report(e, "ok")
  BY DEF RemoveNode
<1>2. PICK x : position' = [position EXCEPT ![x] = << >>]
  BY DEF RemoveNode
<1>3. position \in Placings /\ Sound(position)
  BY DEF OrderInv2, OrderTyped
<1>4. position' \in Placings
  BY <1>2, <1>3 DEF Placings, PositionsHeld
<1>5. ~Unique'
  BY <1>1 DEF Removable, Unique
<1>6. \A y \in Items : position'[y] = << >> \/ position'[y] = position[y]
  BY <1>2, <1>3 DEF Placings
<1>7. Sound(position)'
  BY <1>3, <1>5, <1>6 DEF Sound
<1>8. listed' \in [Editors -> Lists] /\ report' \in [Editors -> {"none", "ok", "error"}]
  BY <1>1, ReportTyped DEF OrderInv2
<1> QED BY <1>1, <1>4, <1>7, <1>8, EndKeeps

LEMMA FetchKeeps ==
  ASSUME OrderInv2, kind' = kind, NEW e \in Editors, Fetch(e)
  PROVE  OrderInv2'
<1> DEFINE a == call[e].items[1]
           b == call[e].items[2]
<1>1. call[e].at = "fetch" /\ position' = position
  BY DEF Fetch
<1>2. Len(call[e].items) = 2 /\ a # b /\ a \in Items /\ b \in Items
  BY <1>1, CallIs DEF WellFormed
<1>3. position \in Placings /\ Sound(position)
  BY DEF OrderInv2, OrderTyped
<1>4. CASE {a, b} \subseteq Positioned
  <2>1. PICK c : c = [call[e] EXCEPT !.at = "temp", !.alone = TRUE, !.before = position,
                                     !.keys = << At(a), At(b) >>]
    OBVIOUS
  <2>2. call' = [call EXCEPT ![e] = c] /\ UNCHANGED << listed, report >>
    BY <1>4, <2>1 DEF Fetch
  <2>3. At(a) \in Text /\ At(b) \in Text /\ position[a] = << At(a) >> /\ position[b] = << At(b) >>
    BY <1>3, <1>4, AtIs
  <2>4. /\ c \in OrderCalls /\ c.at = "temp" /\ c.items = call[e].items
        /\ c.keys = << At(a), At(b) >> /\ c.before = position
    <3>1. call[e] \in OrderCalls /\ << At(a), At(b) >> \in Seq(Text)
      BY <2>3, CallIs
    <3> HIDE DEF a, b
    <3> QED BY <1>3, <2>1, <3>1 DEF OrderCalls
  <2>5. WellFormed(c)
    BY <1>2, <2>4 DEF WellFormed
  <2>6. Sound(c.before)'
    BY <1>1, <2>4, SoundStays
  <2>7. SwapStands(c)' /\ AddStands(c)'
    BY <1>1, <2>3, <2>4, <2>6 DEF SwapStands, AddStands
  <2>8. listed' \in [Editors -> Lists] /\ report' \in [Editors -> {"none", "ok", "error"}]
    BY <2>2 DEF OrderInv2, OrderTyped
  <2> QED BY <1>1, <2>2, <2>4, <2>5, <2>7, <2>8, SoundStays, StepKeeps
<1>5. CASE ~({a, b} \subseteq Positioned)
  <2>1. call' = [call EXCEPT ![e] = NoCall] /\ Report(e, "error")
    BY <1>5 DEF Fetch
  <2>2. listed' \in [Editors -> Lists] /\ report' \in [Editors -> {"none", "ok", "error"}]
    BY <2>1, ReportTyped DEF OrderInv2
  <2> QED BY <1>1, <2>1, <2>2, SoundStays, EndKeeps
<1> QED BY <1>4, <1>5

LEMMA DieKeeps ==
  ASSUME OrderInv2, kind' = kind, NEW e \in Editors, Die(e)
  PROVE  OrderInv2'
<1>1. call' = [call EXCEPT ![e] = NoCall] /\ UNCHANGED << position, listed, report >>
  BY DEF Die
<1>2. listed' \in [Editors -> Lists] /\ report' \in [Editors -> {"none", "ok", "error"}]
  BY <1>1 DEF OrderInv2, OrderTyped
<1> QED BY <1>1, <1>2, SoundStays, EndKeeps

LEMMA FaultKeeps ==
  ASSUME OrderInv2, kind' = kind, NEW e \in Editors, Fault(e)
  PROVE  OrderInv2'
<1>0. position' = position
  BY DEF Fault
<1>1. CASE /\ call[e].at = "read"
           /\ call' = [call EXCEPT ![e].at = "insert", ![e].keys = << << >> >>, ![e].failed = TRUE]
           /\ UNCHANGED << listed, report >>
  <2>1. PICK c : c = [call[e] EXCEPT !.at = "insert", !.keys = << << >> >>, !.failed = TRUE]
    OBVIOUS
  <2>2. << >> \in Text
    BY DEF Text
  <2>3. /\ c \in OrderCalls /\ c.at = "insert" /\ c.items = call[e].items /\ Len(c.keys) = 1
        /\ c.failed = TRUE
    <3>1. call[e] \in OrderCalls /\ << << >> >> \in Seq(Text) /\ Len(<< << >> >>) = 1
      BY <2>2, CallIs
    <3> QED BY <2>1, <3>1 DEF OrderCalls
  <2>4. WellFormed(c) /\ SwapStands(c)' /\ AddStands(c)'
    BY <1>1, <2>3, CallIs DEF WellFormed, SwapStands, AddStands
  <2>5. call' = [call EXCEPT ![e] = c]
    BY <1>1, <2>1
  <2>6. listed' \in [Editors -> Lists] /\ report' \in [Editors -> {"none", "ok", "error"}]
    BY <1>1 DEF OrderInv2, OrderTyped
  <2> QED BY <1>0, <2>3, <2>4, <2>5, <2>6, SoundStays, StepKeeps
<1>2. CASE /\ call[e].at \in {"temp", "second"}
           /\ call' = [call EXCEPT ![e].at = IF @ = "temp" THEN "second" ELSE "third",
                                   ![e].failed = TRUE]
           /\ UNCHANGED << listed, report >>
  <2>1. PICK c : c = [call[e] EXCEPT !.at = IF @ = "temp" THEN "second" ELSE "third", !.failed = TRUE]
    OBVIOUS
  <2>2. /\ c \in OrderCalls /\ c.at \in {"second", "third"} /\ c.items = call[e].items
        /\ c.keys = call[e].keys /\ c.failed = TRUE
    BY <2>1, CallIs DEF OrderCalls
  <2>3. WellFormed(c) /\ SwapStands(c)' /\ AddStands(c)'
    BY <1>2, <2>2, CallIs DEF WellFormed, SwapStands, AddStands
  <2>4. call' = [call EXCEPT ![e] = c]
    BY <1>2, <2>1
  <2>5. listed' \in [Editors -> Lists] /\ report' \in [Editors -> {"none", "ok", "error"}]
    BY <1>2 DEF OrderInv2, OrderTyped
  <2> QED BY <1>0, <2>2, <2>3, <2>4, <2>5, SoundStays, StepKeeps
<1>3. CASE call' = [call EXCEPT ![e] = NoCall] /\ Report(e, "error")
  <2>1. listed' \in [Editors -> Lists] /\ report' \in [Editors -> {"none", "ok", "error"}]
    BY <1>3, ReportTyped DEF OrderInv2
  <2> QED BY <1>0, <1>3, <2>1, SoundStays, EndKeeps
<1> QED BY <1>1, <1>2, <1>3 DEF Fault

\* What an undisturbed swap has: two items, and what they held when it began.
LEMMA SwapCallIs ==
  ASSUME OrderInv2, NEW e \in Editors, call[e].at \in {"temp", "second", "third"}
  PROVE  /\ call[e].items[1] \in Items /\ call[e].items[2] \in Items
         /\ call[e].items[1] # call[e].items[2]
         /\ call[e].keys[1] \in Text /\ call[e].keys[2] \in Text /\ call[e].before \in Placings
<1>1. Len(call[e].items) = 2 /\ Len(call[e].keys) = 2 /\ call[e].items[1] # call[e].items[2]
  BY CallIs DEF WellFormed
<1>2. call[e].items \in Seq(Items) /\ call[e].keys \in Seq(Text) /\ call[e].before \in Placings
  BY CallIs DEF OrderCalls
<1> QED BY <1>1, <1>2

\* The temporary position cannot be had where its update is refused.
LEMMA RefusedIs ==
  ASSUME position \in Placings, NEW a \in Items, NEW k \in Text, NEW c,
         c.keys[1] = k, c.before = position, position[a] # << >>,
         Unique, ~Accepts(a, Temp(k))
  PROVE  Refused(c)
<1>1. ~Fits(Temp(k)) \/ \E y \in Positioned : At(y) = Temp(k)
  BY DEF Accepts
<1>2. CASE \E y \in Positioned : At(y) = Temp(k)
  <2>1. PICK y \in Positioned : At(y) = Temp(k)
    BY <1>2
  <2>2. y \in Items /\ c.before[y] = << Temp(c.keys[1]) >>
    BY <2>1, AtIs
  <2> QED BY <2>2 DEF Refused
<1> QED BY <1>1, <1>2 DEF Refused

\* The first update of an undisturbed swap sets the one item aside, or cannot.
LEMMA FirstStands ==
  ASSUME OrderInv2, kind' = kind, NEW e \in Editors, call[e].at = "temp", NEW c \in OrderCalls,
         c = [call[e] EXCEPT !.at = "second"],
         position' = Updated(call[e].items[1], Temp(call[e].keys[1]))
  PROVE  SwapStands(c)'
<1>0. call[e] \in OrderCalls
  BY CallIs
<1>1. /\ c.at = "second" /\ c.items = call[e].items /\ c.keys = call[e].keys
      /\ c.alone = call[e].alone /\ c.failed = call[e].failed /\ c.before = call[e].before
  BY <1>0 DEF OrderCalls
<1>2. PICK a, b, k1, k2, before :
        /\ a = call[e].items[1] /\ b = call[e].items[2] /\ before = call[e].before
        /\ k1 = call[e].keys[1] /\ k2 = call[e].keys[2]
  OBVIOUS
<1>3. a \in Items /\ b \in Items /\ a # b /\ k1 \in Text /\ k2 \in Text /\ before \in Placings
  BY <1>2, SwapCallIs
<1>4. a = c.items[1] /\ b = c.items[2] /\ before = c.before /\ k1 = c.keys[1] /\ k2 = c.keys[2]
  BY <1>1, <1>2
<1> SUFFICES ASSUME c.alone, ~c.failed
             PROVE  /\ before[a] = << k1 >> /\ before[b] = << k2 >> /\ Sound(before)'
                    /\ \/ position' = Moved(before, a, Temp(k1))
                       \/ position' = before /\ (Unique' => Refused(c))
  <2>1. Refused(c)' = Refused(c)
    BY DEF Refused
  <2> QED BY <1>1, <1>4, <2>1 DEF SwapStands
<1>5. before[a] = << k1 >> /\ before[b] = << k2 >> /\ Sound(before) /\ position = before
  BY <1>1, <1>2, CallIs DEF SwapStands
<1>6. Unique' = Unique /\ Sound(before)'
  BY <1>5 DEF Unique, Sound
<1>7. a \in Positioned
  BY <1>3, <1>5 DEF Positioned
<1>8. CASE Accepts(a, Temp(k1))
  BY <1>2, <1>5, <1>6, <1>7, <1>8 DEF Moved, Updated
<1>9. CASE ~Accepts(a, Temp(k1))
  <2>1. position \in Placings /\ position[a] # << >> /\ c.before = position /\ c.keys[1] = k1
    <3>1. position = before /\ << k1 >> # << >>
      BY <1>5
    <3>2. position \in Placings /\ position[a] # << >>
      BY <1>3, <1>5, <3>1
    <3> QED BY <1>4, <3>1, <3>2
  <2>2. ASSUME Unique PROVE Refused(c)
    <3>1. PICK d : d = c /\ d.keys[1] = k1 /\ d.before = position
      BY <2>1
    <3>2. Refused(d)
      BY <1>3, <1>9, <2>1, <2>2, <3>1, RefusedIs
    <3> QED BY <3>1, <3>2
  <2> QED BY <1>2, <1>5, <1>6, <1>9, <2>2 DEF Updated
<1> QED BY <1>8, <1>9

\* The second update follows the first: where the one is set aside the other
\* takes its place; where it is not, the place is taken, but in a path.
LEMMA SecondStands ==
  ASSUME OrderInv2, kind' = kind, NEW e \in Editors, call[e].at = "second", NEW c \in OrderCalls,
         c = [call[e] EXCEPT !.at = "third"],
         position' = Updated(call[e].items[2], call[e].keys[1])
  PROVE  SwapStands(c)'
<1>0. call[e] \in OrderCalls
  BY CallIs
<1>1. /\ c.at = "third" /\ c.items = call[e].items /\ c.keys = call[e].keys
      /\ c.alone = call[e].alone /\ c.failed = call[e].failed /\ c.before = call[e].before
  BY <1>0 DEF OrderCalls
<1>2. PICK a, b, k1, k2, before :
        /\ a = call[e].items[1] /\ b = call[e].items[2] /\ before = call[e].before
        /\ k1 = call[e].keys[1] /\ k2 = call[e].keys[2]
  OBVIOUS
<1>3. a \in Items /\ b \in Items /\ a # b /\ k1 \in Text /\ k2 \in Text /\ before \in Placings
  BY <1>2, SwapCallIs
<1>4. a = c.items[1] /\ b = c.items[2] /\ before = c.before /\ k1 = c.keys[1] /\ k2 = c.keys[2]
  BY <1>1, <1>2
<1> SUFFICES ASSUME c.alone, ~c.failed
             PROVE  /\ before[a] = << k1 >> /\ before[b] = << k2 >> /\ Sound(before)'
                    /\ \/ position' = Moved(Moved(before, a, Temp(k1)), b, k1)
                       \/ position' = Moved(before, b, k1) /\ ~Unique'
                       \/ position' = before /\ Unique' /\ Refused(c)
  <2>1. Refused(c)' = Refused(c)
    BY DEF Refused
  <2> QED BY <1>1, <1>4, <2>1 DEF SwapStands
<1>5. /\ before[a] = << k1 >> /\ before[b] = << k2 >> /\ Sound(before)
      /\ \/ position = Moved(before, a, Temp(k1))
         \/ position = before /\ (Unique => Refused(call[e]))
  BY <1>1, <1>2, CallIs DEF SwapStands
<1>6. Unique' = Unique /\ Sound(before)'
  BY <1>5 DEF Unique, Sound
<1>7. Fits(k1) /\ (Unique => \A x \in Items : before[x] = << k1 >> => x = a)
  BY <1>3, <1>5 DEF Sound
<1>8. CASE position = Moved(before, a, Temp(k1))
  <2>1. position[a] = << Temp(k1) >> /\ \A x \in Items : x # a => position[x] = before[x]
    BY <1>3, <1>8 DEF Moved, Placings
  <2>2. b \in Positioned
    BY <1>3, <1>5, <2>1 DEF Positioned
  <2>3. Temp(k1) # k1
    BY <1>3 DEF Temp, Text
  <2>4. ASSUME Unique, NEW y \in Positioned, At(y) = k1 PROVE FALSE
    <3>1. y \in Items /\ position[y] = << k1 >>
      BY <2>4, AtIs DEF OrderInv2, OrderTyped
    <3>2. CASE y = a
      BY <2>1, <2>3, <3>1, <3>2
    <3>3. CASE y # a
      BY <1>7, <2>1, <2>4, <3>1, <3>3
    <3> QED BY <3>2, <3>3
  <2>5. Accepts(b, k1)
    BY <1>7, <2>4 DEF Accepts
  <2>6. position' = [position EXCEPT ![b] = << k1 >>]
    BY <1>2, <2>2, <2>5 DEF Updated
  <2> QED BY <1>5, <1>6, <1>8, <2>6 DEF Moved
<1>9. CASE position = before /\ (Unique => Refused(call[e]))
  <2>1. a \in Positioned /\ b \in Positioned /\ At(a) = k1
    BY <1>3, <1>5, <1>9 DEF Positioned, At
  <2>2. CASE Unique
    <3>1. ~Accepts(b, k1)
      BY <1>3, <2>1, <2>2 DEF Accepts
    <3>2. position' = position
      BY <1>2, <3>1 DEF Updated
    <3>3. Refused(c)
      BY <1>1, <1>9, <2>2 DEF Refused
    <3> QED BY <1>5, <1>6, <1>9, <2>2, <3>2, <3>3
  <2>3. CASE ~Unique
    <3>1. Accepts(b, k1)
      BY <1>7, <2>3 DEF Accepts
    <3>2. position' = [position EXCEPT ![b] = << k1 >>]
      BY <1>2, <2>1, <3>1 DEF Updated
    <3> QED BY <1>5, <1>6, <1>9, <2>3, <3>2 DEF Moved
  <2> QED BY <2>2, <2>3
<1> QED BY <1>5, <1>8, <1>9

LEMMA StatementKeeps ==
  ASSUME OrderInv2, kind' = kind, NEW e \in Editors,
         NEW step \in {"temp", "second"}, NEW next \in {"second", "third"},
         NEW x \in Items, NEW p \in Text, Statement(e, step, x, p, next),
         \A c \in OrderCalls : c = [call[e] EXCEPT !.at = next] => SwapStands(c)'
  PROVE  OrderInv2'
<1>1. call[e].at = step /\ position' = Updated(x, p) /\ UNCHANGED << listed, report >>
  BY DEF Statement
<1>2. PICK c : c = [call[e] EXCEPT !.at = next]
  OBVIOUS
<1>3. /\ c \in OrderCalls /\ c.at = next
      /\ c.items = call[e].items /\ c.keys = call[e].keys
  BY <1>2, CallIs DEF OrderCalls
<1>4. WellFormed(c) /\ SwapStands(c)' /\ AddStands(c)'
  BY <1>1, <1>2, <1>3, CallIs DEF WellFormed, AddStands
<1>5. \/ position' = position /\ call' = [call EXCEPT ![e] = c]
      \/ Disturb(e, c)
  BY <1>2 DEF Statement
<1>6. listed' \in [Editors -> Lists] /\ report' \in [Editors -> {"none", "ok", "error"}]
  BY <1>1 DEF OrderInv2, OrderTyped
<1> QED BY <1>1, <1>3, <1>4, <1>5, <1>6, UpdatedSound, StepKeeps

LEMMA FirstKeeps ==
  ASSUME OrderInv2, kind' = kind, NEW e \in Editors, First(e)
  PROVE  OrderInv2'
<1>1. call[e].at = "temp" /\ position' = Updated(call[e].items[1], Temp(call[e].keys[1]))
  BY DEF First, Statement
<1>2. PICK x \in Items, p \in Text : x = call[e].items[1] /\ p = Temp(call[e].keys[1])
  <2>1. call[e].items[1] \in Items /\ call[e].keys[1] \in Text
    BY <1>1, SwapCallIs
  <2>2. Temp(call[e].keys[1]) \in Text
    BY <2>1 DEF Temp, Text, SwapMark
  <2> QED BY <2>1, <2>2
<1>3. Statement(e, "temp", x, p, "second")
  BY <1>2 DEF First
<1>4. \A c \in OrderCalls : c = [call[e] EXCEPT !.at = "second"] => SwapStands(c)'
  BY <1>1, FirstStands
<1> QED BY <1>3, <1>4, StatementKeeps

LEMMA SecondKeeps ==
  ASSUME OrderInv2, kind' = kind, NEW e \in Editors, Second(e)
  PROVE  OrderInv2'
<1>1. call[e].at = "second" /\ position' = Updated(call[e].items[2], call[e].keys[1])
  BY DEF Second, Statement
<1>2. PICK x \in Items, p \in Text : x = call[e].items[2] /\ p = call[e].keys[1]
  BY <1>1, SwapCallIs
<1>3. Statement(e, "second", x, p, "third")
  BY <1>2 DEF Second
<1>4. \A c \in OrderCalls : c = [call[e] EXCEPT !.at = "third"] => SwapStands(c)'
  BY <1>1, SecondStands
<1> QED BY <1>3, <1>4, StatementKeeps

LEMMA ThirdKeeps ==
  ASSUME OrderInv2, kind' = kind, NEW e \in Editors, Third(e)
  PROVE  OrderInv2'
<1>1. call[e].at = "third" /\ position' = Updated(call[e].items[1], call[e].keys[2])
  BY DEF Third
<1>2. \/ position' = position /\ call' = [call EXCEPT ![e] = NoCall]
      \/ Disturb(e, NoCall)
  BY DEF Third
<1>3. position' \in Placings /\ Sound(position)'
  BY <1>1, SwapCallIs, UpdatedSound
<1>4. PICK answer \in {"ok", "error"} : Report(e, answer)
  BY DEF Third
<1>5. listed' \in [Editors -> Lists] /\ report' \in [Editors -> {"none", "ok", "error"}]
  BY <1>4, ReportTyped DEF OrderInv2
<1> QED BY <1>2, <1>3, <1>5, EndKeeps

LEMMA OrderStepKeeps ==
  ASSUME OrderInv2, [OrderNext]_orderVars
  PROVE  OrderInv2'
<1>1. CASE OrderNext
  <2>1. kind' = kind
    BY <1>1 DEF OrderNext
  <2>2. PICK e \in Editors :
          \/ Refresh(e) \/ Add(e) \/ ReadLast(e) \/ Insert(e) \/ RemoveNode(e)
          \/ Swap(e) \/ Fetch(e) \/ First(e) \/ Second(e) \/ Third(e) \/ Fault(e) \/ Die(e)
    BY <1>1 DEF OrderNext
  <2> QED BY <2>1, <2>2, RefreshKeeps, AddKeeps, ReadLastKeeps, InsertKeeps, RemoveNodeKeeps, SwapKeeps,
             FetchKeeps, FirstKeeps, SecondKeeps, ThirdKeeps, FaultKeeps, DieKeeps
<1>2. CASE UNCHANGED orderVars
  <2>1. /\ kind' = kind /\ position' = position /\ call' = call
        /\ listed' = listed /\ report' = report
    BY <1>2 DEF orderVars
  <2>2. OrderTyped' /\ Sound(position)'
    BY <2>1, SoundStays DEF OrderInv2, OrderTyped
  <2>3. Unique' = Unique /\ NextPosition' = NextPosition
    BY <2>1 DEF Unique, NextPosition, LastPosition, Positioned, At
  <2>4. \A e \in Editors : SwapStands(call[e])' /\ AddStands(call[e])'
    BY <2>1, <2>3 DEF OrderInv2, SwapStands, AddStands, Sound, Refused
  <2> QED BY <2>2, <2>4 DEF OrderInv2
<1> QED BY <1>1, <1>2

LEMMA OrderStarts == OrderInit => OrderInv2
<1> SUFFICES ASSUME OrderInit PROVE OrderInv2
  OBVIOUS
<1> DEFINE where(x) == CHOOSE i \in DOMAIN StartList : StartList[i] = x
           start(x) == [i \in 1..(where(x) - 1) |-> LetterN]
<1>1. StartList \in Seq(Items) /\ Len(StartList) \in Nat /\ Len(StartList) <= MaxWidth + 1
      /\ \A i, j \in 1..Len(StartList) : StartList[i] = StartList[j] => i = j
  BY StartAssumption DEF IsInjective
<1>2. ASSUME NEW x \in ToSet(StartList)
      PROVE  where(x) \in 1..Len(StartList) /\ StartList[where(x)] = x
  BY <1>1 DEF ToSet
<1>3. \A x \in Items : position[x] = IF x \in ToSet(StartList) THEN << start(x) >> ELSE << >>
  BY DEF OrderInit
<1>4. ASSUME NEW x \in ToSet(StartList)
      PROVE  start(x) \in Text /\ Len(start(x)) = where(x) - 1 /\ Fits(start(x))
  <2>1. PICK n \in Nat : n = where(x) - 1 /\ n <= MaxWidth
    <3>1. PICK w : w = where(x)
      OBVIOUS
    <3>2. w - 1 \in Nat /\ w - 1 <= MaxWidth
      BY <1>1, <1>2, <3>1, OrderAssumption
    <3> QED BY <3>1, <3>2
  <2>2. PICK p : p = [i \in 1..n |-> LetterN]
    OBVIOUS
  <2>3. p \in Text /\ Len(p) = n
    BY <2>2 DEF Text
  <2>4. { i \in DOMAIN p : p[i] = LetterN } = 1..n /\ { i \in DOMAIN p : p[i] = SwapMark } = {}
    BY <2>2 DEF LetterN, SwapMark
  <2>5. Cardinality(1..n) = n /\ Cardinality({}) = 0
    BY FS_Interval, FS_EmptySet
  <2>6. Width(p) = n
    <3>1. n + SwapWidth * 0 = n
      BY OrderAssumption
    <3> QED BY <2>4, <2>5, <3>1 DEF Width
  <2> QED BY <2>1, <2>2, <2>3, <2>6 DEF Fits
<1>5. position \in Placings
  <2>1. \A x \in Items : position[x] \in PositionsHeld
    BY <1>3, <1>4 DEF PositionsHeld
  <2>2. position = [x \in Items |-> position[x]]
    BY DEF OrderInit
  <2> HIDE DEF where, start
  <2> QED BY <2>1, <2>2 DEF Placings
<1>6. Sound(position)
  <2>1. ASSUME NEW x \in Items, NEW p \in Text, position[x] = << p >> PROVE Fits(p)
    <3> HIDE DEF where, start
    <3>0. << p >> # << >>
      OBVIOUS
    <3>1. x \in ToSet(StartList) /\ << p >> = << start(x) >>
      BY <1>3, <2>1, <3>0
    <3>2. p = start(x)
      BY <3>1
    <3> QED BY <1>4, <3>1, <3>2
  <2>2. ASSUME NEW x \in Items, NEW y \in Items, position[x] # << >>, position[x] = position[y]
        PROVE  x = y
    <3> HIDE DEF where, start
    <3>1. x \in ToSet(StartList) /\ y \in ToSet(StartList) /\ << start(x) >> = << start(y) >>
      BY <1>3, <2>2
    <3>2. start(x) = start(y)
      BY <3>1
    <3>3. where(x) - 1 = where(y) - 1
      BY <1>4, <3>1, <3>2
    <3>4. where(x) = where(y)
      BY <1>1, <1>2, <3>1, <3>3
    <3> QED BY <1>2, <3>1, <3>4
  <2> QED BY <2>1, <2>2 DEF Sound
<1>7. \A e \in Editors : call[e] = NoCall
  BY DEF OrderInit
<1>8. \A e \in Editors : SwapStands(call[e]) /\ AddStands(call[e])
  BY <1>7, NoCallIs
<1>9. StartList \in Lists
  BY <1>1 DEF Lists
<1>10. OrderTyped
  BY <1>5, <1>9, NoCallIs, OrderAssumption DEF OrderInit, OrderTyped
<1> QED BY <1>6, <1>8, <1>10 DEF OrderInv2

-----------------------------------------------------------------------------
(* An edit that nobody disturbs does what it says.                         *)

LEMMA ThirdTrue ==
  ASSUME OrderInv2, NEW e \in Editors, Third(e), call[e].alone, ~call[e].failed
  PROVE  LET c == call[e]
             aside == Append(c.keys[1], SwapMark)
         IN IF report'[e] = "ok" THEN position' = Exchanged(c.before, c.items[1], c.items[2])
            ELSE /\ position' = c.before /\ Unique
                 /\ ~Fits(aside) \/ \E x \in Items : c.before[x] = << aside >>
<1>1. PICK a, b, k1, k2, before :
        /\ a = call[e].items[1] /\ b = call[e].items[2] /\ before = call[e].before
        /\ k1 = call[e].keys[1] /\ k2 = call[e].keys[2]
  OBVIOUS
<1>2. call[e].at = "third" /\ position' = Updated(a, k2)
  BY <1>1 DEF Third
<1>3. a \in Items /\ b \in Items /\ a # b /\ k1 \in Text /\ k2 \in Text /\ before \in Placings
  BY <1>1, <1>2, SwapCallIs
<1>4. /\ before[a] = << k1 >> /\ before[b] = << k2 >> /\ Sound(before)
      /\ \/ position = Moved(Moved(before, a, Temp(k1)), b, k1)
         \/ position = Moved(before, b, k1) /\ ~Unique
         \/ position = before /\ Unique /\ Refused(call[e])
  BY <1>1, <1>2, CallIs DEF SwapStands
<1>5. report'[e] = IF Accepts(a, k2) THEN "ok" ELSE "error"
  BY <1>1, ReportTyped DEF Third, OrderInv2
<1>6. Fits(k2) /\ (Unique => \A x \in Items : before[x] = << k2 >> => x = b)
  <2>1. before[b] = << k2 >> /\ << k2 >> # << >> /\ Sound(before)
    BY <1>4
  <2> QED BY <1>3, <2>1 DEF Sound
<1>7. Temp(k1) # k1 /\ Exchanged(before, a, b) = [[before EXCEPT ![a] = << k2 >>] EXCEPT ![b] = << k1 >>]
  BY <1>3, <1>4 DEF Temp, Text, Exchanged
<1>8. CASE position = Moved(Moved(before, a, Temp(k1)), b, k1)
  <2>1. /\ position[b] = << k1 >> /\ position[a] = << Temp(k1) >>
        /\ \A x \in Items : x # a /\ x # b => position[x] = before[x]
    BY <1>3, <1>8 DEF Moved, Placings
  <2>2. ASSUME Unique, NEW y \in Positioned \ {a}, At(y) = k2 PROVE FALSE
    <3>1. y \in Items /\ position[y] = << k2 >>
      BY <2>2, AtIs DEF OrderInv2, OrderTyped
    <3>2. CASE y = b
      <4>1. k1 = k2
        BY <2>1, <3>1, <3>2
      <4> QED BY <1>3, <1>4, <1>6, <2>2, <4>1
    <3>3. CASE y # b
      BY <1>6, <2>1, <2>2, <3>1, <3>3
    <3> QED BY <3>2, <3>3
  <2>3. Accepts(a, k2)
    BY <1>6, <2>2 DEF Accepts
  <2>4. a \in Positioned
    BY <1>3, <2>1 DEF Positioned
  <2>5. position' = [position EXCEPT ![a] = << k2 >>]
    BY <1>2, <2>3, <2>4 DEF Updated
  <2>6. position' = Exchanged(before, a, b)
    BY <1>3, <1>7, <1>8, <2>5 DEF Moved, Placings
  <2> QED BY <1>1, <1>5, <2>3, <2>6
<1>9. CASE position = Moved(before, b, k1) /\ ~Unique
  <2>1. a \in Positioned /\ Accepts(a, k2)
    <3>1. position[a] = before[a] /\ before[a] # << >>
      BY <1>3, <1>4, <1>9 DEF Moved, Placings
    <3>2. a \in Positioned
      BY <1>3, <3>1 DEF Positioned
    <3> QED BY <1>6, <1>9, <3>2 DEF Accepts
  <2>2. position' = [position EXCEPT ![a] = << k2 >>]
    BY <1>2, <2>1 DEF Updated
  <2>3. position' = Exchanged(before, a, b)
    BY <1>3, <1>7, <1>9, <2>2 DEF Moved, Placings
  <2> QED BY <1>1, <1>5, <2>1, <2>3
<1>10. CASE position = before /\ Unique /\ Refused(call[e])
  <2>1. a \in Positioned /\ b \in Positioned /\ At(b) = k2
    BY <1>3, <1>4, <1>10 DEF Positioned, At
  <2>2. ~Accepts(a, k2)
    BY <1>3, <1>10, <2>1 DEF Accepts
  <2>3. position' = before /\ report'[e] = "error"
    BY <1>2, <1>5, <1>10, <2>2 DEF Updated
  <2>4. ~Fits(Append(k1, SwapMark)) \/ \E x \in Items : before[x] = << Append(k1, SwapMark) >>
    BY <1>1, <1>10 DEF Refused, Temp
  <2> QED BY <1>1, <1>10, <2>3, <2>4
<1> QED BY <1>4, <1>8, <1>9, <1>10

LEMMA InsertTrue ==
  ASSUME OrderInv2, NEW e \in Editors, Insert(e), call[e].alone, ~call[e].failed, report'[e] = "ok"
  PROVE  \A x \in Positioned : Before(At(x), position'[call[e].items[1]][1])
<1>1. PICK x, key : x = call[e].items[1] /\ key = call[e].keys[1]
  OBVIOUS
<1>2. call[e].at = "insert"
  BY DEF Insert
<1>3. key = NextPosition
  BY <1>1, <1>2, CallIs DEF AddStands
<1>4. position \in Placings /\ x \in Items
  BY <1>1, <1>2, CallIs DEF OrderInv2, OrderTyped, WellFormed
<1>5. \/ position' = [position EXCEPT ![x] = << key >>]
      \/ Report(e, "error")
  BY <1>1 DEF Insert
<1>6. ~Report(e, "error")
  BY ReportTyped DEF OrderInv2
<1>7. position'[x] = << key >>
  BY <1>4, <1>5, <1>6 DEF Placings
<1> QED BY <1>1, <1>3, <1>4, <1>7, NextIs

\* In every list, of any items, editors and bounds: a swap that nobody disturbs
\* exchanges the two and nothing else or, refused, moves nothing, and what is
\* added comes last (swapPositionsAction, the create and add actions).
THEOREM EditsAlwaysTrue == OrderSpec => EditsTrue
<1> DEFINE AsReported ==
             \A e \in Editors :
               (Third(e) /\ call[e].alone /\ ~call[e].failed) =>
                 LET c == call[e]
                     aside == Append(c.keys[1], SwapMark)
                 IN IF report'[e] = "ok" THEN position' = Exchanged(c.before, c.items[1], c.items[2])
                    ELSE /\ position' = c.before /\ Unique
                         /\ ~Fits(aside) \/ \E x \in Items : c.before[x] = << aside >>
           ComesLast ==
             \A e \in Editors :
               (Insert(e) /\ call[e].alone /\ ~call[e].failed /\ report'[e] = "ok") =>
                 \A x \in Positioned : Before(At(x), position'[call[e].items[1]][1])
<1>1. OrderInit => OrderInv2
  BY OrderStarts
<1>2. OrderInv2 /\ [OrderNext]_orderVars => OrderInv2'
  BY OrderStepKeeps
<1>3. OrderInv2 => AsReported
  BY ThirdTrue
<1>4. OrderInv2 => ComesLast
  BY InsertTrue
<1>5. ReportsTrue <=> [][AsReported]_orderVars
  BY DEF ReportsTrue
<1>6. AddsComeLast <=> [][ComesLast]_orderVars
  BY DEF AddsComeLast
<1> HIDE DEF AsReported, ComesLast
<1> QED BY <1>1, <1>2, <1>3, <1>4, <1>5, <1>6, PTL DEF OrderSpec, EditsTrue

-----------------------------------------------------------------------------
(* Finding one's way: the table                                            *)

LEMMA TwoListed ==
  ASSUME NEW S, NEW s \in Seq(S), NEW t \in Seq(S)
  PROVE  s \o t \in Seq(S) /\ ToSet(s \o t) = ToSet(s) \cup ToSet(t)
<1>1. s \o t \in Seq(S) /\ Len(s \o t) = Len(s) + Len(t) /\ Len(s) \in Nat /\ Len(t) \in Nat
  OBVIOUS
<1>2. \A i \in 1..Len(s) : (s \o t)[i] = s[i]
  OBVIOUS
<1>3. \A i \in 1..Len(t) : (s \o t)[Len(s) + i] = t[i]
  OBVIOUS
<1>4. \A i \in 1..Len(s) + Len(t) :
        i \in 1..Len(s) \/ (i - Len(s) \in 1..Len(t) /\ i = Len(s) + (i - Len(s)))
  BY <1>1
<1>5. ASSUME NEW e \in ToSet(s \o t) PROVE e \in ToSet(s) \cup ToSet(t)
  <2>1. PICK i \in 1..Len(s) + Len(t) : (s \o t)[i] = e
    BY <1>1 DEF ToSet
  <2>2. CASE i \in 1..Len(s)
    BY <1>2, <2>1, <2>2 DEF ToSet
  <2>3. CASE i - Len(s) \in 1..Len(t) /\ i = Len(s) + (i - Len(s))
    BY <1>3, <2>1, <2>3 DEF ToSet
  <2> QED BY <1>4, <2>1, <2>2, <2>3
<1>6. ASSUME NEW e \in ToSet(s) PROVE e \in ToSet(s \o t)
  BY <1>1, <1>2 DEF ToSet
<1>7. ASSUME NEW e \in ToSet(t) PROVE e \in ToSet(s \o t)
  <2>1. PICK i \in 1..Len(t) : t[i] = e
    BY DEF ToSet
  <2>2. Len(s) + i \in 1..Len(s \o t)
    BY <1>1
  <2> QED BY <1>1, <1>3, <2>1, <2>2 DEF ToSet
<1> QED BY <1>1, <1>5, <1>6, <1>7

LEMMA ListsAre ==
  /\ \A a, b : ToSet(<< a, b >>) = {a, b} /\ << a, b >> \in Seq({a, b})
  /\ \A a, b, c, d, e :
       ToSet(<< a, b, c, d, e >>) = {a, b, c, d, e} /\ << a, b, c, d, e >> \in Seq({a, b, c, d, e})
  /\ \A a, b, c, d, e, f :
       ToSet(<< a, b, c, d, e, f >>) = {a, b, c, d, e, f} /\ << a, b, c, d, e, f >> \in Seq({a, b, c, d, e, f})
  /\ \A a, b, c, d, e, f, g, h :
       /\ ToSet(<< a, b, c, d, e, f, g, h >>) = {a, b, c, d, e, f, g, h}
       /\ << a, b, c, d, e, f, g, h >> \in Seq({a, b, c, d, e, f, g, h})
BY DEF ToSet

-----------------------------------------------------------------------------
(* Paths                                                                   *)

Segments ==
  {"admin", "studio", "learn", "sources", "ai", "library", "templates",
   "review", "learning", "paths", "courses", "assessments", "reviews", "practicals",
   "enrollments", "credentials", "members", "roles", "intelligence", "insights", "ops",
   "settings", "branding", "terminology", "organization", "academies", "C", "L",
   "P", "A", "lessons", "knowledge", "people", "workspace", "denied"}

LEMMA SegmentsAre ==
  /\ "admin" \in Segments /\ "studio" \in Segments /\ "learn" \in Segments
  /\ "sources" \in Segments /\ "ai" \in Segments /\ "library" \in Segments
  /\ "templates" \in Segments /\ "review" \in Segments /\ "learning" \in Segments
  /\ "paths" \in Segments /\ "courses" \in Segments /\ "assessments" \in Segments
  /\ "reviews" \in Segments /\ "practicals" \in Segments /\ "enrollments" \in Segments
  /\ "credentials" \in Segments /\ "members" \in Segments /\ "roles" \in Segments
  /\ "intelligence" \in Segments /\ "insights" \in Segments /\ "ops" \in Segments
  /\ "settings" \in Segments /\ "branding" \in Segments /\ "terminology" \in Segments
  /\ "organization" \in Segments /\ "academies" \in Segments /\ "C" \in Segments
  /\ "L" \in Segments /\ "P" \in Segments /\ "A" \in Segments
  /\ "lessons" \in Segments /\ "knowledge" \in Segments /\ "people" \in Segments
  /\ "workspace" \in Segments /\ "denied" \in Segments
BY DEF Segments

LEMMA SameSequence ==
  ASSUME NEW S, NEW s \in Seq(S), NEW t \in Seq(S), Len(s) = Len(t),
         \A i \in 1..Len(s) : s[i] = t[i]
  PROVE  s = t
<1>1. s \in [1..Len(s) -> S] /\ t \in [1..Len(s) -> S]
  OBVIOUS
<1> QED BY <1>1

LEMMA Concat ==
  ASSUME NEW S, NEW p \in Seq(S), NEW q \in Seq(S)
  PROVE  /\ p \o q \in Seq(S) /\ Len(p \o q) = Len(p) + Len(q)
         /\ \A i \in 1..Len(p) : (p \o q)[i] = p[i]
         /\ \A i \in 1..Len(q) : (p \o q)[Len(p) + i] = q[i]
OBVIOUS

LEMMA SingleIs ==
  ASSUME NEW S, NEW a \in S, NEW q, q = << a >>
  PROVE  q \in Seq(S) /\ Len(q) = 1 /\ q[1] = a
OBVIOUS

LEMMA PairIs ==
  ASSUME NEW S, NEW a \in S, NEW b \in S, NEW q, q = << a, b >>
  PROVE  q \in Seq(S) /\ Len(q) = 2 /\ q[1] = a /\ q[2] = b
OBVIOUS

LEMMA JoinedOne ==
  ASSUME NEW S, NEW p \in Seq(S), NEW a \in S, NEW r, r = p \o << a >>
  PROVE  /\ r \in Seq(S) /\ Len(r) = Len(p) + 1 /\ \A i \in 1..Len(p) : r[i] = p[i]
         /\ r[Len(p) + 1] = a
<1>1. PICK q : q = << a >>
  OBVIOUS
<1>2. q \in Seq(S) /\ Len(q) = 1 /\ q[1] = a /\ 1 \in 1..Len(q)
  BY <1>1, SingleIs
<1>3. \A i \in 1..Len(p) : (p \o q)[i] = p[i]
  BY <1>2, Concat
<1>4. p \o q \in Seq(S) /\ Len(p \o q) = Len(p) + 1 /\ (p \o q)[Len(p) + 1] = a
  BY <1>2, Concat
<1>5. r = p \o q
  BY <1>1
<1> QED BY <1>3, <1>4, <1>5

LEMMA JoinedTwo ==
  ASSUME NEW p \in Seq(Segments), NEW a \in Segments, NEW b \in Segments, NEW r, r = p \o << a, b >>
  PROVE  /\ r \in Seq(Segments) /\ Len(r) = Len(p) + 2 /\ \A i \in 1..Len(p) : r[i] = p[i]
         /\ r[Len(p) + 1] = a /\ r[Len(p) + 2] = b
<1>1. PICK q : q = << a, b >>
  OBVIOUS
<1>2. q \in Seq(Segments) /\ Len(q) = 2 /\ q[1] = a /\ q[2] = b /\ 1 \in 1..Len(q) /\ 2 \in 1..Len(q)
  BY <1>1, PairIs
<1>3. \A i \in 1..Len(p) : (p \o q)[i] = p[i]
  BY <1>2, Concat
<1>4. /\ p \o q \in Seq(Segments) /\ Len(p \o q) = Len(p) + 2
      /\ (p \o q)[Len(p) + 1] = a /\ (p \o q)[Len(p) + 2] = b
  <2>1. /\ p \o q \in Seq(Segments) /\ Len(p \o q) = Len(p) + Len(q)
        /\ \A i \in 1..Len(q) : (p \o q)[Len(p) + i] = q[i]
    <3>1. q \in Seq(Segments)
      BY <1>2
    <3> QED BY <3>1, Concat
  <2>2. (p \o q)[Len(p) + 1] = q[1] /\ (p \o q)[Len(p) + 2] = q[2]
    BY <1>2, <2>1
  <2> QED BY <1>2, <2>1, <2>2
<1>5. r = p \o q
  BY <1>1
<1> QED BY <1>3, <1>4, <1>5

\* A path of the workspace: its length, and its second and third segment.
Is2(p, a) == p \in Seq(Segments) /\ Len(p) = 2 /\ p[1] = "admin" /\ p[2] = a
Is3(p, a, b) == p \in Seq(Segments) /\ Len(p) = 3 /\ p[1] = "admin" /\ p[2] = a /\ p[3] = b

LEMMA HomeIs == Home \in Seq(Segments) /\ Len(Home) = 1 /\ Home[1] = "admin"
BY SegmentsAre, SingleIs DEF Home

LEMMA StudioIs == Is2(Studio, "studio")
BY SegmentsAre, PairIs DEF Studio, Is2

LEMMA LearnIs == Learn \in Seq(Segments) /\ Len(Learn) = 1 /\ Learn[1] = "learn"
BY SegmentsAre, SingleIs DEF Learn

LEMMA UnderOne == ASSUME NEW a \in Segments PROVE Is2(Under(<< a >>), a)
<1>1. PICK p, q : q = Home /\ p = q \o << a >>
  OBVIOUS
<1>2. q \in Seq(Segments) /\ Len(q) = 1 /\ q[1] = "admin"
  BY <1>1, HomeIs
<1>3. /\ p \in Seq(Segments) /\ Len(p) = Len(q) + 1 /\ p[Len(q) + 1] = a
      /\ \A i \in 1..Len(q) : p[i] = q[i]
  BY <1>1, <1>2, JoinedOne
<1>4. Is2(p, a)
  BY <1>2, <1>3 DEF Is2
<1> QED BY <1>1, <1>4 DEF Under

LEMMA UnderTwo == ASSUME NEW a \in Segments, NEW b \in Segments PROVE Is3(Under(<< a, b >>), a, b)
<1>1. PICK p, q : q = Home /\ p = q \o << a, b >>
  OBVIOUS
<1>2. q \in Seq(Segments) /\ Len(q) = 1 /\ q[1] = "admin"
  BY <1>1, HomeIs
<1>3. /\ p \in Seq(Segments) /\ Len(p) = Len(q) + 2
      /\ p[Len(q) + 1] = a /\ p[Len(q) + 2] = b
      /\ \A i \in 1..Len(q) : p[i] = q[i]
  <2>1. q \in Seq(Segments) /\ p = q \o << a, b >>
    BY <1>1, <1>2
  <2> HIDE DEF Segments
  <2> QED BY ONLY <2>1, JoinedTwo, a \in Segments, b \in Segments
<1>4. Is3(p, a, b)
  BY <1>2, <1>3 DEF Is3
<1> QED BY <1>1, <1>4 DEF Under

LEMMA InStudio == ASSUME NEW a \in Segments PROVE Is3(Studio \o << a >>, "studio", a)
<1>1. PICK p, q : q = Studio /\ p = q \o << a >>
  OBVIOUS
<1>2. q \in Seq(Segments) /\ Len(q) = 2 /\ q[1] = "admin" /\ q[2] = "studio"
  BY <1>1, StudioIs DEF Is2
<1>3. /\ p \in Seq(Segments) /\ Len(p) = Len(q) + 1 /\ p[Len(q) + 1] = a
      /\ \A i \in 1..Len(q) : p[i] = q[i]
  BY <1>1, <1>2, JoinedOne
<1>4. Is3(p, "studio", a)
  BY <1>2, <1>3 DEF Is3
<1> QED BY <1>1, <1>4

LEMMA Same2 == ASSUME NEW a, NEW p, NEW q, Is2(q, a), p \in Seq(Segments)
               PROVE  p = q <=> Is2(p, a)
<1>0. p = q => Is2(p, a)
  OBVIOUS
<1>1. ASSUME Is2(p, a) PROVE p = q
  <2>1. Len(p) = Len(q) /\ \A i \in 1..Len(p) : p[i] = q[i]
    BY <1>1 DEF Is2
  <2> QED BY <2>1, SameSequence DEF Is2
<1> QED BY <1>0, <1>1

LEMMA Same3 == ASSUME NEW a, NEW b, NEW p, NEW q, Is3(q, a, b), p \in Seq(Segments)
               PROVE  p = q <=> Is3(p, a, b)
<1>0. p = q => Is3(p, a, b)
  OBVIOUS
<1>1. ASSUME Is3(p, a, b) PROVE p = q
  <2>1. Len(p) = Len(q) /\ \A i \in 1..Len(p) : p[i] = q[i]
    BY <1>1 DEF Is3
  <2> QED BY <2>1, SameSequence DEF Is3
<1> QED BY <1>0, <1>1

LEMMA Within2 ==
  ASSUME NEW a, NEW p \in Seq(Segments), NEW q, Is2(q, a)
  PROVE  Within(p, q) <=> Len(p) >= 2 /\ p[1] = "admin" /\ p[2] = a
<1>0. q \in Seq(Segments) /\ Len(q) = 2 /\ q[1] = "admin" /\ q[2] = a
  BY DEF Is2
<1>1. CASE Len(p) >= 2
  <2>1. PICK r : r = SubSeq(p, 1, 2)
    OBVIOUS
  <2>2. r \in Seq(Segments) /\ Len(r) = 2 /\ r[1] = p[1] /\ r[2] = p[2]
    BY <1>1, <2>1
  <2>3. Within(p, q) <=> q = r
    BY <1>0, <1>1, <2>1 DEF Within, IsPrefix
  <2>4. r = q <=> Is2(r, a)
    BY <2>2, Same2
  <2> QED BY <1>1, <2>2, <2>3, <2>4 DEF Is2
<1>2. CASE ~(Len(p) >= 2)
  BY <1>0, <1>2 DEF Within, IsPrefix
<1> QED BY <1>1, <1>2

LEMMA WithinHome ==
  ASSUME NEW p \in Seq(Segments)
  PROVE  Within(p, Home) <=> Len(p) >= 1 /\ p[1] = "admin"
<1>1. CASE Len(p) >= 1
  <2>1. PICK r : r = SubSeq(p, 1, 1)
    OBVIOUS
  <2>2. r \in Seq(Segments) /\ Len(r) = 1 /\ r[1] = p[1]
    BY <1>1, <2>1
  <2>3. Within(p, Home) <=> Home = r
    BY <1>1, <2>1, HomeIs DEF Within, IsPrefix
  <2>4. r[1] = "admin" => r = Home
    BY <2>2, HomeIs, SameSequence
  <2> QED BY <1>1, <2>2, <2>3, <2>4, HomeIs
<1>2. CASE ~(Len(p) >= 1)
  BY <1>2, HomeIs DEF Within, IsPrefix
<1> QED BY <1>1, <1>2

\* What a page asks for, by its length and its second and third segment.
NeedsOf(n, a, b) ==
  IF n >= 3 /\ a = "studio" THEN IF n = 3 /\ b = "sources" THEN {"sources.manage"} ELSE Draft
  ELSE IF \/ n >= 2 /\ a \in {"courses", "assessments"}
          \/ n = 3 /\ a = "intelligence" /\ b = "insights"
  THEN Draft
  ELSE IF n = 2 /\ a \in {"reviews", "practicals"} THEN {"assessment.grade"}
  ELSE IF n = 3 /\ a = "learning" /\ b = "paths" THEN {"paths.manage"}
  ELSE IF n = 2 /\ a = "enrollments" THEN {"enrollment.manage"}
  ELSE IF n = 2 /\ a = "credentials" THEN {"certificates.manage"}
  ELSE IF n = 2 /\ a = "members" THEN {"org.members.manage"}
  ELSE IF n = 2 /\ a = "roles" THEN {"org.roles.manage"}
  ELSE IF n = 2 /\ a = "ops" THEN {"analytics.view"}
  ELSE IF n = 2 /\ a = "settings" THEN {"org.manage"}
  ELSE IF n = 2 /\ a = "branding" THEN {"org.branding.manage"}
  ELSE IF n = 2 /\ a = "terminology" THEN {"org.terminology.manage"}
  ELSE {}

LEMMA NeedsAre ==
  ASSUME NEW p \in Seq(Segments), NEW n \in Nat, NEW a, NEW b,
         n = Len(p), n >= 1, p[1] = "admin", a = p[2], b = p[3]
  PROVE  PageNeeds(p) = NeedsOf(n, a, b)
<1>1. /\ p = Studio \o << "sources" >> <=> n = 3 /\ a = "studio" /\ b = "sources"
      /\ p = Studio <=> n = 2 /\ a = "studio"
      /\ Within(p, Studio) <=> n >= 2 /\ a = "studio"
  <2>1. Is3(Studio \o << "sources" >>, "studio", "sources") /\ Is2(Studio, "studio")
    BY SegmentsAre, InStudio, StudioIs
  <2>2. p = Studio \o << "sources" >> <=> Is3(p, "studio", "sources")
    BY <2>1, Same3
  <2>3. p = Studio <=> Is2(p, "studio")
    BY <2>1, Same2
  <2>4. Within(p, Studio) <=> Len(p) >= 2 /\ p[1] = "admin" /\ p[2] = "studio"
    BY <2>1, Within2
  <2> QED BY <2>2, <2>3, <2>4 DEF Is2, Is3
<1>2. /\ Within(p, Under(<< "courses" >>)) <=> n >= 2 /\ a = "courses"
      /\ Within(p, Under(<< "assessments" >>)) <=> n >= 2 /\ a = "assessments"
  BY SegmentsAre, UnderOne, Within2
<1>3. /\ p = Under(<< "intelligence", "insights" >>) <=> n = 3 /\ a = "intelligence" /\ b = "insights"
      /\ p = Under(<< "learning", "paths" >>) <=> n = 3 /\ a = "learning" /\ b = "paths"
  <2>1. /\ Is3(Under(<< "intelligence", "insights" >>), "intelligence", "insights")
        /\ Is3(Under(<< "learning", "paths" >>), "learning", "paths")
    BY SegmentsAre, UnderTwo
  <2>2. p = Under(<< "intelligence", "insights" >>) <=> Is3(p, "intelligence", "insights")
    BY <2>1, Same3
  <2>3. p = Under(<< "learning", "paths" >>) <=> Is3(p, "learning", "paths")
    BY <2>1, Same3
  <2> QED BY <2>2, <2>3 DEF Is3
<1>4. ASSUME NEW c \in Segments PROVE p = Under(<< c >>) <=> n = 2 /\ a = c
  BY UnderOne, Same2 DEF Is2
<1>5. /\ p \in {Under(<< "reviews" >>), Under(<< "practicals" >>)}
           <=> n = 2 /\ a \in {"reviews", "practicals"}
      /\ p = Under(<< "enrollments" >>) <=> n = 2 /\ a = "enrollments"
      /\ p = Under(<< "credentials" >>) <=> n = 2 /\ a = "credentials"
      /\ p = Under(<< "members" >>) <=> n = 2 /\ a = "members"
      /\ p = Under(<< "roles" >>) <=> n = 2 /\ a = "roles"
      /\ p = Under(<< "ops" >>) <=> n = 2 /\ a = "ops"
      /\ p = Under(<< "settings" >>) <=> n = 2 /\ a = "settings"
      /\ p = Under(<< "branding" >>) <=> n = 2 /\ a = "branding"
      /\ p = Under(<< "terminology" >>) <=> n = 2 /\ a = "terminology"
  BY <1>4, SegmentsAre
<1> HIDE DEF Draft
<1>6. CASE n >= 2 /\ a = "studio"
  BY <1>1, <1>2, <1>3, <1>5, <1>6 DEF PageNeeds, NeedsOf
<1>7. CASE n >= 3 /\ a # "studio"
  BY <1>1, <1>2, <1>3, <1>5, <1>7 DEF PageNeeds, NeedsOf
<1>8. CASE n = 2 /\ a # "studio"
  BY <1>1, <1>2, <1>3, <1>5, <1>8 DEF PageNeeds, NeedsOf
<1>9. CASE n = 1
  BY <1>1, <1>2, <1>3, <1>5, <1>9 DEF PageNeeds, NeedsOf
<1> QED BY <1>6, <1>7, <1>8, <1>9

-----------------------------------------------------------------------------
(* What is offered opens                                                   *)

\* A page that is not refused by itself, by the studio's layout or as a landing.
OpenTo(p, held) ==
  /\ PageNeeds(p) \subseteq held /\ (Within(p, Studio) => Draft \subseteq held)
  /\ DomainLanding(p, held) = {}

LEMMA LandingIs == ASSUME NEW d \in Domains PROVE Is2(landing(d), d)
BY SegmentsAre, UnderOne DEF landing, Domains

LEMMA Opens ==
  ASSUME NEW held, NEW p \in Seq(Segments), NEW n \in Nat, NEW a, NEW b,
         n = Len(p), n >= 1, p[1] = "admin", a = p[2], b = p[3],
         NeedsOf(n, a, b) \subseteq held,
         n >= 2 /\ a = "studio" => Draft \subseteq held,
         n = 2 /\ a \in Domains => a \in DomainKeys(held)
  PROVE  OpenTo(p, held)
<1>1. PageNeeds(p) \subseteq held
  BY NeedsAre
<1>2. Within(p, Studio) => Draft \subseteq held
  BY StudioIs, Within2
<1>3. ASSUME NEW d \in Domains, p = landing(d) PROVE d \in DomainKeys(held)
  BY <1>3, LandingIs DEF Is2
<1>4. DomainLanding(p, held) = {}
  BY <1>3 DEF DomainLanding
<1> QED BY <1>1, <1>2, <1>4 DEF OpenTo

LEMMA Opens2 ==
  ASSUME NEW held, NEW a, NEW p, Is2(p, a),
         \A b : NeedsOf(2, a, b) \subseteq held,
         a = "studio" => Draft \subseteq held,
         a \in Domains => a \in DomainKeys(held)
  PROVE  OpenTo(p, held)
<1>1. PICK n, b : n = 2 /\ b = p[3]
  OBVIOUS
<1>2. n \in Nat /\ n = Len(p) /\ p \in Seq(Segments) /\ n >= 1 /\ p[1] = "admin" /\ a = p[2]
  BY <1>1 DEF Is2
<1>3. NeedsOf(n, a, b) \subseteq held
  BY <1>1
<1> QED BY <1>1, <1>2, <1>3, Opens

LEMMA Opens3 ==
  ASSUME NEW held, NEW a, NEW b, NEW p, Is3(p, a, b),
         NeedsOf(3, a, b) \subseteq held,
         a = "studio" => Draft \subseteq held
  PROVE  OpenTo(p, held)
<1>1. PICK n : n = 3
  OBVIOUS
<1>2. n \in Nat /\ n = Len(p) /\ p \in Seq(Segments) /\ n >= 1 /\ p[1] = "admin" /\ a = p[2] /\ b = p[3]
  BY <1>1 DEF Is3
<1>3. NeedsOf(n, a, b) \subseteq held /\ ~(n = 2)
  BY <1>1
<1> QED BY <1>2, <1>3, Opens

LEMMA HomeOpens == ASSUME NEW held PROVE OpenTo(Home, held)
<1>1. PICK n, a, b : n = 1 /\ a = Home[2] /\ b = Home[3]
  OBVIOUS
<1>2. n \in Nat /\ n = Len(Home) /\ Home \in Seq(Segments) /\ n >= 1 /\ Home[1] = "admin"
  BY <1>1, HomeIs
<1>3. NeedsOf(n, a, b) \subseteq held /\ ~(n >= 2)
  BY <1>1 DEF NeedsOf
<1> QED BY <1>1, <1>2, <1>3, Opens

LEMMA LearnOpens ==
  ASSUME NEW held
  PROVE  OpenTo(Learn, held) /\ ~Within(Learn, Home) /\ ~Within(Learn, Studio)
<1>1. \A a : ~Is2(Learn, a)
  BY LearnIs DEF Is2
<1>2. \A a, b : ~Is3(Learn, a, b)
  BY LearnIs DEF Is3
<1>3. \A a \in Segments : ~(Learn = Under(<< a >>)) /\ ~Within(Learn, Under(<< a >>))
  BY <1>1, LearnIs, UnderOne, Within2 DEF Is2
<1>4. /\ ~(Learn = Studio) /\ ~Within(Learn, Studio) /\ ~(Learn = Studio \o << "sources" >>)
      /\ ~(Learn = Under(<< "intelligence", "insights" >>)) /\ ~(Learn = Under(<< "learning", "paths" >>))
  BY <1>1, <1>2, SegmentsAre, LearnIs, StudioIs, InStudio, UnderTwo, Within2
<1>5. PageNeeds(Learn) = {}
  BY <1>3, <1>4, SegmentsAre DEF PageNeeds
<1>6. \A d \in Domains : ~(Learn = landing(d))
  BY <1>1, LandingIs
<1> QED BY <1>4, <1>5, <1>6, LearnIs, WithinHome DEF OpenTo, DomainLanding

\* Where an entry stands in its domain.
Sections ==
  {"Authoring", "Reusable material", "Publishing", "Curriculum", "Assessment and verification",
   "Participation", "Proof", "Membership", "Access and authority", "Signals", "Activity",
   "Identity", "Structure"}

LEMMA EntryIs ==
  ASSUME NEW domain, NEW section, NEW target, NEW needs
  PROVE  /\ Entry(domain, section, target, needs).page = target
         /\ Entry(domain, section, target, needs).needs = needs
         /\ Entry(domain, section, target, needs).domain = domain
         /\ Entry(domain, section, target, needs).section = section
BY DEF Entry

LEMMA KnowledgeIs ==
  /\ KnowledgeItems \in Seq(ToSet(KnowledgeItems))
  /\ \A entry \in ToSet(KnowledgeItems) :
       \/ entry.page = Studio /\ entry.needs = Draft /\ entry.domain = "knowledge"
       \/ entry.page = Studio \o << "sources" >> /\ entry.needs = {"sources.manage"} /\ entry.domain = "knowledge"
       \/ entry.page = Studio \o << "ai" >> /\ entry.needs = Draft /\ entry.domain = "knowledge"
       \/ entry.page = Studio \o << "library" >> /\ entry.needs = Draft /\ entry.domain = "knowledge"
       \/ entry.page = Studio \o << "templates" >> /\ entry.needs = Draft /\ entry.domain = "knowledge"
       \/ entry.page = Studio \o << "review" >> /\ entry.needs = Draft /\ entry.domain = "knowledge"
  /\ \A entry \in ToSet(KnowledgeItems) : entry.section \in Sections
  /\ {Studio, Studio \o << "sources" >>, Studio \o << "ai" >>}
       \subseteq { entry.page : entry \in ToSet(KnowledgeItems) }
<1>1. PICK a, b, c, d, e, f :
        /\ a = Entry("knowledge", "Authoring", Studio, Draft)
        /\ b = Entry("knowledge", "Authoring", Studio \o << "sources" >>, {"sources.manage"})
        /\ c = Entry("knowledge", "Authoring", Studio \o << "ai" >>, Draft)
        /\ d = Entry("knowledge", "Reusable material", Studio \o << "library" >>, Draft)
        /\ e = Entry("knowledge", "Reusable material", Studio \o << "templates" >>, Draft)
        /\ f = Entry("knowledge", "Publishing", Studio \o << "review" >>, Draft)
  OBVIOUS
<1>2. KnowledgeItems = << a, b, c, d, e, f >>
  BY <1>1 DEF KnowledgeItems
<1>3. ToSet(KnowledgeItems) = {a, b, c, d, e, f} /\ KnowledgeItems \in Seq({a, b, c, d, e, f})
  BY <1>2, ListsAre
<1>4. /\ a.page = Studio /\ a.needs = Draft /\ a.domain = "knowledge"
      /\ b.page = Studio \o << "sources" >> /\ b.needs = {"sources.manage"} /\ b.domain = "knowledge"
      /\ c.page = Studio \o << "ai" >> /\ c.needs = Draft /\ c.domain = "knowledge"
      /\ d.page = Studio \o << "library" >> /\ d.needs = Draft /\ d.domain = "knowledge"
      /\ e.page = Studio \o << "templates" >> /\ e.needs = Draft /\ e.domain = "knowledge"
      /\ f.page = Studio \o << "review" >> /\ f.needs = Draft /\ f.domain = "knowledge"
  BY <1>1 DEF Entry
<1>5. /\ a.section = "Authoring" /\ b.section = "Authoring" /\ c.section = "Authoring"
      /\ d.section = "Reusable material" /\ e.section = "Reusable material" /\ f.section = "Publishing"
  BY <1>1 DEF Entry
<1>6. {"Authoring", "Publishing", "Reusable material"} \subseteq Sections
  BY DEF Sections, Verification
<1> QED BY <1>3, <1>4, <1>5, <1>6

LEMMA LearningIs ==
  /\ LearningItems \in Seq(ToSet(LearningItems))
  /\ \A entry \in ToSet(LearningItems) :
       \/ entry.page = Under(<< "learning", "paths" >>) /\ entry.needs = {"paths.manage"} /\ entry.domain = "learning"
       \/ entry.page = Under(<< "courses" >>) /\ entry.needs = Draft /\ entry.domain = "learning"
       \/ entry.page = Under(<< "assessments" >>) /\ entry.needs = {"assessment.author", "assessment.publish"} /\ entry.domain = "learning"
       \/ entry.page = Under(<< "reviews" >>) /\ entry.needs = {"assessment.grade"} /\ entry.domain = "learning"
       \/ entry.page = Under(<< "practicals" >>) /\ entry.needs = {"assessment.grade"} /\ entry.domain = "learning"
       \/ entry.page = Under(<< "enrollments" >>) /\ entry.needs = {"enrollment.manage"} /\ entry.domain = "learning"
       \/ entry.page = Learn /\ entry.needs = Draft /\ entry.domain = "learning"
       \/ entry.page = Under(<< "credentials" >>) /\ entry.needs = {"certificates.manage"} /\ entry.domain = "learning"
  /\ \A entry \in ToSet(LearningItems) : entry.section \in Sections
  /\ {Under(<< "courses" >>), Under(<< "learning", "paths" >>), Under(<< "assessments" >>)}
       \subseteq { entry.page : entry \in ToSet(LearningItems) }
<1>1. PICK a, b, c, d, e, f, g, h :
        /\ a = Entry("learning", "Curriculum", Under(<< "learning", "paths" >>), {"paths.manage"})
        /\ b = Entry("learning", "Curriculum", Under(<< "courses" >>), Draft)
        /\ c = Entry("learning", Verification, Under(<< "assessments" >>), {"assessment.author", "assessment.publish"})
        /\ d = Entry("learning", Verification, Under(<< "reviews" >>), {"assessment.grade"})
        /\ e = Entry("learning", Verification, Under(<< "practicals" >>), {"assessment.grade"})
        /\ f = Entry("learning", "Participation", Under(<< "enrollments" >>), {"enrollment.manage"})
        /\ g = Entry("learning", "Participation", Learn, Draft)
        /\ h = Entry("learning", "Proof", Under(<< "credentials" >>), {"certificates.manage"})
  OBVIOUS
<1>2. LearningItems = << a, b, c, d, e, f, g, h >>
  BY <1>1 DEF LearningItems
<1>3. ToSet(LearningItems) = {a, b, c, d, e, f, g, h} /\ LearningItems \in Seq({a, b, c, d, e, f, g, h})
  BY <1>2, ListsAre
<1>4. /\ a.page = Under(<< "learning", "paths" >>) /\ a.needs = {"paths.manage"} /\ a.domain = "learning"
      /\ b.page = Under(<< "courses" >>) /\ b.needs = Draft /\ b.domain = "learning"
      /\ c.page = Under(<< "assessments" >>) /\ c.needs = {"assessment.author", "assessment.publish"} /\ c.domain = "learning"
      /\ d.page = Under(<< "reviews" >>) /\ d.needs = {"assessment.grade"} /\ d.domain = "learning"
      /\ e.page = Under(<< "practicals" >>) /\ e.needs = {"assessment.grade"} /\ e.domain = "learning"
      /\ f.page = Under(<< "enrollments" >>) /\ f.needs = {"enrollment.manage"} /\ f.domain = "learning"
      /\ g.page = Learn /\ g.needs = Draft /\ g.domain = "learning"
      /\ h.page = Under(<< "credentials" >>) /\ h.needs = {"certificates.manage"} /\ h.domain = "learning"
  BY <1>1, EntryIs
<1>5. /\ a.section = "Curriculum" /\ b.section = "Curriculum" /\ c.section = Verification
      /\ d.section = Verification /\ e.section = Verification /\ f.section = "Participation"
      /\ g.section = "Participation" /\ h.section = "Proof"
  BY <1>1, EntryIs
<1>6. {"Curriculum", "Participation", "Proof", Verification} \subseteq Sections
  BY DEF Sections, Verification
<1> QED BY <1>3, <1>4, <1>5, <1>6

LEMMA PeopleIs ==
  /\ PeopleItems \in Seq(ToSet(PeopleItems))
  /\ \A entry \in ToSet(PeopleItems) :
       \/ entry.page = Under(<< "members" >>) /\ entry.needs = {"org.members.manage"} /\ entry.domain = "people"
       \/ entry.page = Under(<< "roles" >>) /\ entry.needs = {"org.roles.manage"} /\ entry.domain = "people"
  /\ \A entry \in ToSet(PeopleItems) : entry.section \in Sections
  /\ {Under(<< "members" >>)}
       \subseteq { entry.page : entry \in ToSet(PeopleItems) }
<1>1. PICK a, b :
        /\ a = Entry("people", "Membership", Under(<< "members" >>), {"org.members.manage"})
        /\ b = Entry("people", "Access and authority", Under(<< "roles" >>), {"org.roles.manage"})
  OBVIOUS
<1>2. PeopleItems = << a, b >>
  BY <1>1 DEF PeopleItems
<1>3. ToSet(PeopleItems) = {a, b} /\ PeopleItems \in Seq({a, b})
  BY <1>2, ListsAre
<1>4. /\ a.page = Under(<< "members" >>) /\ a.needs = {"org.members.manage"} /\ a.domain = "people"
      /\ b.page = Under(<< "roles" >>) /\ b.needs = {"org.roles.manage"} /\ b.domain = "people"
  BY <1>1 DEF Entry
<1>5. /\ a.section = "Membership" /\ b.section = "Access and authority"
  BY <1>1 DEF Entry
<1>6. {"Access and authority", "Membership"} \subseteq Sections
  BY DEF Sections, Verification
<1> QED BY <1>3, <1>4, <1>5, <1>6

LEMMA IntelligenceIs ==
  /\ IntelligenceItems \in Seq(ToSet(IntelligenceItems))
  /\ \A entry \in ToSet(IntelligenceItems) :
       \/ entry.page = Under(<< "intelligence", "insights" >>) /\ entry.needs = Draft /\ entry.domain = "intelligence"
       \/ entry.page = Under(<< "ops" >>) /\ entry.needs = {"analytics.view"} /\ entry.domain = "intelligence"
  /\ \A entry \in ToSet(IntelligenceItems) : entry.section \in Sections
<1>1. PICK a, b :
        /\ a = Entry("intelligence", "Signals", Under(<< "intelligence", "insights" >>), Draft)
        /\ b = Entry("intelligence", "Activity", Under(<< "ops" >>), {"analytics.view"})
  OBVIOUS
<1>2. IntelligenceItems = << a, b >>
  BY <1>1 DEF IntelligenceItems
<1>3. ToSet(IntelligenceItems) = {a, b} /\ IntelligenceItems \in Seq({a, b})
  BY <1>2, ListsAre
<1>4. /\ a.page = Under(<< "intelligence", "insights" >>) /\ a.needs = Draft /\ a.domain = "intelligence"
      /\ b.page = Under(<< "ops" >>) /\ b.needs = {"analytics.view"} /\ b.domain = "intelligence"
  BY <1>1, EntryIs
<1>5. /\ a.section = "Signals" /\ b.section = "Activity"
  BY <1>1, EntryIs
<1>6. {"Activity", "Signals"} \subseteq Sections
  BY DEF Sections, Verification
<1> QED BY <1>3, <1>4, <1>5, <1>6

LEMMA WorkspaceIs ==
  /\ WorkspaceItems \in Seq(ToSet(WorkspaceItems))
  /\ \A entry \in ToSet(WorkspaceItems) :
       \/ entry.page = Under(<< "settings" >>) /\ entry.needs = {"org.manage"} /\ entry.domain = "workspace"
       \/ entry.page = Under(<< "branding" >>) /\ entry.needs = {"org.branding.manage"} /\ entry.domain = "workspace"
       \/ entry.page = Under(<< "terminology" >>) /\ entry.needs = {"org.terminology.manage"} /\ entry.domain = "workspace"
       \/ entry.page = Under(<< "organization" >>) /\ entry.needs = {"org.manage"} /\ entry.domain = "workspace"
       \/ entry.page = Under(<< "academies" >>) /\ entry.needs = {"academy.manage"} /\ entry.domain = "workspace"
  /\ \A entry \in ToSet(WorkspaceItems) : entry.section \in Sections
  /\ {Under(<< "branding" >>)}
       \subseteq { entry.page : entry \in ToSet(WorkspaceItems) }
<1>1. PICK a, b, c, d, e :
        /\ a = Entry("workspace", "Identity", Under(<< "settings" >>), {"org.manage"})
        /\ b = Entry("workspace", "Identity", Under(<< "branding" >>), {"org.branding.manage"})
        /\ c = Entry("workspace", "Identity", Under(<< "terminology" >>), {"org.terminology.manage"})
        /\ d = Entry("workspace", "Identity", Under(<< "organization" >>), {"org.manage"})
        /\ e = Entry("workspace", "Structure", Under(<< "academies" >>), {"academy.manage"})
  OBVIOUS
<1>2. WorkspaceItems = << a, b, c, d, e >>
  BY <1>1 DEF WorkspaceItems
<1>3. ToSet(WorkspaceItems) = {a, b, c, d, e} /\ WorkspaceItems \in Seq({a, b, c, d, e})
  BY <1>2, ListsAre
<1>4. /\ a.page = Under(<< "settings" >>) /\ a.needs = {"org.manage"} /\ a.domain = "workspace"
      /\ b.page = Under(<< "branding" >>) /\ b.needs = {"org.branding.manage"} /\ b.domain = "workspace"
      /\ c.page = Under(<< "terminology" >>) /\ c.needs = {"org.terminology.manage"} /\ c.domain = "workspace"
      /\ d.page = Under(<< "organization" >>) /\ d.needs = {"org.manage"} /\ d.domain = "workspace"
      /\ e.page = Under(<< "academies" >>) /\ e.needs = {"academy.manage"} /\ e.domain = "workspace"
  BY <1>1, EntryIs
<1>5. /\ a.section = "Identity" /\ b.section = "Identity" /\ c.section = "Identity"
      /\ d.section = "Identity" /\ e.section = "Structure"
  BY <1>1, EntryIs
<1>6. {"Identity", "Structure"} \subseteq Sections
  BY DEF Sections, Verification
<1> QED BY <1>3, <1>4, <1>5, <1>6

LEMMA TableAll ==
  ToSet(Destinations) = ToSet(KnowledgeItems) \cup ToSet(LearningItems) \cup ToSet(PeopleItems)
                          \cup ToSet(IntelligenceItems) \cup ToSet(WorkspaceItems)
<1>1. PICK S : S = ToSet(KnowledgeItems) \cup ToSet(LearningItems) \cup ToSet(PeopleItems)
                   \cup ToSet(IntelligenceItems) \cup ToSet(WorkspaceItems)
  OBVIOUS
<1>2. \A T, q : q \in Seq(T) /\ T \subseteq S => q \in Seq(S)
  OBVIOUS
<1>3. /\ KnowledgeItems \in Seq(ToSet(KnowledgeItems)) /\ LearningItems \in Seq(ToSet(LearningItems))
      /\ PeopleItems \in Seq(ToSet(PeopleItems)) /\ IntelligenceItems \in Seq(ToSet(IntelligenceItems))
      /\ WorkspaceItems \in Seq(ToSet(WorkspaceItems))
  BY KnowledgeIs, LearningIs, PeopleIs, IntelligenceIs, WorkspaceIs
<1>4. /\ KnowledgeItems \in Seq(S) /\ LearningItems \in Seq(S) /\ PeopleItems \in Seq(S)
      /\ IntelligenceItems \in Seq(S) /\ WorkspaceItems \in Seq(S)
  BY <1>1, <1>2, <1>3
<1> DEFINE k == KnowledgeItems
           kl == k \o LearningItems
           klp == kl \o PeopleItems
           klpi == klp \o IntelligenceItems
<1>5. kl \in Seq(S) /\ ToSet(kl) = ToSet(k) \cup ToSet(LearningItems)
  BY <1>4, TwoListed
<1>6. klp \in Seq(S) /\ ToSet(klp) = ToSet(kl) \cup ToSet(PeopleItems)
  <2> HIDE DEF kl
  <2> QED BY <1>4, <1>5, TwoListed
<1>7. klpi \in Seq(S) /\ ToSet(klpi) = ToSet(klp) \cup ToSet(IntelligenceItems)
  <2> HIDE DEF klp
  <2> QED BY <1>4, <1>6, TwoListed
<1>8. ToSet(klpi \o WorkspaceItems) = ToSet(klpi) \cup ToSet(WorkspaceItems)
  <2> HIDE DEF klpi
  <2> QED BY <1>4, <1>7, TwoListed
<1>9. Destinations = klpi \o WorkspaceItems
  BY DEF Destinations
<1> HIDE DEF k, kl, klp, klpi
<1>10. ToSet(k) = ToSet(KnowledgeItems)
  BY DEF k
<1> QED BY <1>5, <1>6, <1>7, <1>8, <1>9, <1>10

LEMMA TableIs ==
  ASSUME NEW e \in ToSet(Destinations)
  PROVE  \/ e \in ToSet(KnowledgeItems) \/ e \in ToSet(LearningItems) \/ e \in ToSet(PeopleItems)
         \/ e \in ToSet(IntelligenceItems) \/ e \in ToSet(WorkspaceItems)
BY TableAll

\* The pages of the table, one by one.
LEMMA StudioOpens ==
  ASSUME NEW held, Draft \subseteq held
  PROVE  /\ OpenTo(Studio, held)
         /\ \A a \in {"ai", "library", "templates", "review"} : OpenTo(Studio \o << a >>, held)
         /\ "sources.manage" \in held => OpenTo(Studio \o << "sources" >>, held)
<1>1. OpenTo(Studio, held)
  <2>1. (\A b : NeedsOf(2, "studio", b) \subseteq held) /\ "studio" \notin Domains
    BY DEF NeedsOf, Domains
  <2> QED BY <2>1, StudioIs, Opens2
<1>2. ASSUME NEW a \in {"ai", "library", "templates", "review"}
      PROVE  OpenTo(Studio \o << a >>, held)
  <2>1. a \in Segments /\ NeedsOf(3, "studio", a) \subseteq held
    BY SegmentsAre DEF NeedsOf
  <2> QED BY <2>1, InStudio, Opens3
<1>3. ASSUME "sources.manage" \in held PROVE OpenTo(Studio \o << "sources" >>, held)
  <2>1. NeedsOf(3, "studio", "sources") \subseteq held
    BY <1>3 DEF NeedsOf
  <2> QED BY <2>1, SegmentsAre, InStudio, Opens3
<1> QED BY <1>1, <1>2, <1>3

\* A page one step below the workspace, that is no landing.
LEMMA OneBelow ==
  ASSUME NEW held, NEW a \in Segments, a \notin Domains, a # "studio",
         \A b : NeedsOf(2, a, b) \subseteq held
  PROVE  OpenTo(Under(<< a >>), held)
BY UnderOne, Opens2

LEMMA TwoBelow ==
  ASSUME NEW held, NEW a \in Segments, NEW b \in Segments, a # "studio",
         NeedsOf(3, a, b) \subseteq held
  PROVE  OpenTo(Under(<< a, b >>), held)
BY UnderTwo, Opens3

LEMMA DraftsOpen ==
  ASSUME NEW held, Draft \subseteq held
  PROVE  /\ OpenTo(Under(<< "courses" >>), held) /\ OpenTo(Under(<< "assessments" >>), held)
         /\ OpenTo(Under(<< "intelligence", "insights" >>), held)
         /\ OpenTo(CoursePage, held) /\ OpenTo(AssessmentPage, held)
<1>1. \A b : NeedsOf(2, "courses", b) \subseteq held /\ NeedsOf(2, "assessments", b) \subseteq held
  BY DEF NeedsOf
<1>2. /\ NeedsOf(3, "intelligence", "insights") \subseteq held
      /\ NeedsOf(3, "courses", "C") \subseteq held /\ NeedsOf(3, "assessments", "A") \subseteq held
  BY DEF NeedsOf
<1>3. "courses" \notin Domains /\ "assessments" \notin Domains
  BY DEF Domains
<1> QED BY <1>1, <1>2, <1>3, SegmentsAre, OneBelow, TwoBelow DEF CoursePage, AssessmentPage

LEMMA OthersOpen ==
  ASSUME NEW held
  PROVE  /\ "assessment.grade" \in held
              => OpenTo(Under(<< "reviews" >>), held) /\ OpenTo(Under(<< "practicals" >>), held)
         /\ "paths.manage" \in held => OpenTo(Under(<< "learning", "paths" >>), held)
         /\ "enrollment.manage" \in held => OpenTo(Under(<< "enrollments" >>), held)
         /\ "certificates.manage" \in held => OpenTo(Under(<< "credentials" >>), held)
         /\ "org.members.manage" \in held => OpenTo(Under(<< "members" >>), held)
         /\ "org.roles.manage" \in held => OpenTo(Under(<< "roles" >>), held)
         /\ "analytics.view" \in held => OpenTo(Under(<< "ops" >>), held)
         /\ "org.manage" \in held => OpenTo(Under(<< "settings" >>), held)
         /\ "org.branding.manage" \in held => OpenTo(Under(<< "branding" >>), held)
         /\ "org.terminology.manage" \in held => OpenTo(Under(<< "terminology" >>), held)
         /\ OpenTo(Under(<< "organization" >>), held) /\ OpenTo(Under(<< "academies" >>), held)
<1>1. \A b : /\ NeedsOf(2, "reviews", b) = {"assessment.grade"}
               /\ NeedsOf(2, "practicals", b) = {"assessment.grade"}
               /\ NeedsOf(2, "enrollments", b) = {"enrollment.manage"}
               /\ NeedsOf(2, "credentials", b) = {"certificates.manage"}
               /\ NeedsOf(2, "members", b) = {"org.members.manage"}
               /\ NeedsOf(2, "roles", b) = {"org.roles.manage"}
               /\ NeedsOf(2, "ops", b) = {"analytics.view"}
               /\ NeedsOf(2, "settings", b) = {"org.manage"}
               /\ NeedsOf(2, "branding", b) = {"org.branding.manage"}
               /\ NeedsOf(2, "terminology", b) = {"org.terminology.manage"}
               /\ NeedsOf(2, "organization", b) = {} /\ NeedsOf(2, "academies", b) = {}
  BY DEF NeedsOf
<1>2. "reviews" \notin Domains /\ "practicals" \notin Domains /\ "enrollments" \notin Domains /\ "credentials" \notin Domains
      /\ "members" \notin Domains /\ "roles" \notin Domains /\ "ops" \notin Domains /\ "settings" \notin Domains
      /\ "branding" \notin Domains /\ "terminology" \notin Domains /\ "organization" \notin Domains /\ "academies" \notin Domains
  BY DEF Domains
<1>3. NeedsOf(3, "learning", "paths") = {"paths.manage"}
  BY DEF NeedsOf
<1> QED BY <1>1, <1>2, <1>3, SegmentsAre, OneBelow, TwoBelow

LEMMA EntryOpens ==
  ASSUME NEW held, Coherent(held), NEW e \in ToSet(Destinations), e.needs \cap held # {}
  PROVE  OpenTo(e.page, held)
<1>1. \A c : e.needs = {c} => c \in held
  OBVIOUS
<1>2. e.needs = Draft => Draft \subseteq held
  BY DEF Draft
<1>3. {"assessment.author", "assessment.publish", "sources.manage"} \cap held # {} => Draft \subseteq held
  BY DEF Coherent
<1>4. e.needs = {"sources.manage"} => Draft \subseteq held /\ "sources.manage" \in held
  BY <1>1, <1>3
<1>5. CASE e \in ToSet(KnowledgeItems)
  BY <1>2, <1>4, <1>5, KnowledgeIs, StudioOpens
<1>6. CASE e \in ToSet(LearningItems)
  <2>1. e.needs = {"assessment.author", "assessment.publish"} => Draft \subseteq held
    BY <1>3
  <2>2. CASE e.needs = Draft
    <3>1. e.page = Under(<< "courses" >>) \/ e.page = Learn
      BY <1>6, <2>2, LearningIs DEF Draft
    <3> QED BY <1>2, <2>2, <3>1, DraftsOpen, LearnOpens
  <2>3. CASE e.needs = {"assessment.author", "assessment.publish"}
    <3>1. e.page = Under(<< "assessments" >>)
      BY <1>6, <2>3, LearningIs DEF Draft
    <3> QED BY <2>1, <2>3, <3>1, DraftsOpen
  <2>4. CASE e.needs = {"paths.manage"}
    <3>1. e.page = Under(<< "learning", "paths" >>)
      BY <1>6, <2>4, LearningIs DEF Draft
    <3> QED BY <1>1, <2>4, <3>1, OthersOpen
  <2>5. CASE e.needs = {"assessment.grade"}
    <3>1. e.page = Under(<< "reviews" >>) \/ e.page = Under(<< "practicals" >>)
      BY <1>6, <2>5, LearningIs DEF Draft
    <3> QED BY <1>1, <2>5, <3>1, OthersOpen
  <2>6. CASE e.needs = {"enrollment.manage"}
    <3>1. e.page = Under(<< "enrollments" >>)
      BY <1>6, <2>6, LearningIs DEF Draft
    <3> QED BY <1>1, <2>6, <3>1, OthersOpen
  <2>7. CASE e.needs = {"certificates.manage"}
    <3>1. e.page = Under(<< "credentials" >>)
      BY <1>6, <2>7, LearningIs DEF Draft
    <3> QED BY <1>1, <2>7, <3>1, OthersOpen
  <2> QED BY <1>6, <2>2, <2>3, <2>4, <2>5, <2>6, <2>7, LearningIs
<1>7. CASE e \in ToSet(PeopleItems)
  BY <1>1, <1>7, PeopleIs, OthersOpen
<1>8. CASE e \in ToSet(IntelligenceItems)
  BY <1>1, <1>2, <1>8, IntelligenceIs, DraftsOpen, OthersOpen
<1>9. CASE e \in ToSet(WorkspaceItems)
  BY <1>1, <1>9, WorkspaceIs, OthersOpen
<1> QED BY <1>5, <1>6, <1>7, <1>8, <1>9, TableIs

LEMMA LandingOpens ==
  ASSUME NEW held, NEW d \in DomainKeys(held)
  PROVE  OpenTo(landing(d), held)
<1>1. CASE d = "home"
  BY <1>1, HomeOpens DEF landing
<1>2. CASE d # "home"
  <2>1. d \in Domains
    <3>1. PICK e \in ToSet(Destinations) : d = e.domain
      BY <1>2 DEF DomainKeys, buildDomains
    <3> QED BY <3>1, TableIs, KnowledgeIs, LearningIs, PeopleIs, IntelligenceIs, WorkspaceIs DEF Domains
  <2>2. (\A b : NeedsOf(2, d, b) \subseteq held) /\ d # "studio"
    BY <2>1 DEF NeedsOf, Domains
  <2> QED BY <2>1, <2>2, LandingIs, Opens2
<1> QED BY <1>1, <1>2

LEMMA ShellOpens ==
  ASSUME NEW held, Coherent(held), NEW p \in Shell(held)
  PROVE  OpenTo(p, held)
<1>1. CASE p \in { e.page : e \in buildDomains(held) }
  BY <1>1, EntryOpens DEF buildDomains
<1>2. CASE p \in { landing(d) : d \in DomainKeys(held) }
  BY <1>2, LandingOpens
<1> QED BY <1>1, <1>2 DEF Shell

LEMMA LessonIs == LessonPage \in Seq(Segments) /\ Len(LessonPage) = 5 /\ LessonPage[1] = "admin" /\ LessonPage[2] = "courses"
<1>1. Is3(CoursePage, "courses", "C")
  BY SegmentsAre, UnderTwo DEF CoursePage
<1>2. PICK q, r : q = CoursePage /\ r = q \o << "lessons", "L" >>
  OBVIOUS
<1>3. q \in Seq(Segments) /\ Len(q) = 3 /\ q[1] = "admin" /\ q[2] = "courses"
  BY <1>1, <1>2 DEF Is3
<1>4. r \in Seq(Segments) /\ Len(r) = Len(q) + 2 /\ \A i \in 1..Len(q) : r[i] = q[i]
  <2>1. q \in Seq(Segments) /\ "lessons" \in Segments /\ "L" \in Segments /\ r = q \o << "lessons", "L" >>
    BY <1>2, <1>3, SegmentsAre
  <2> QED BY ONLY <2>1, JoinedTwo
<1> QED BY <1>2, <1>3, <1>4 DEF LessonPage

LEMMA PathIs == PathPage \in Seq(Segments) /\ Len(PathPage) = 4 /\ PathPage[1] = "admin" /\ PathPage[2] = "studio"
<1>1. PICK q, r : q = Studio /\ r = q \o << "paths", "P" >>
  OBVIOUS
<1>2. q \in Seq(Segments) /\ Len(q) = 2 /\ q[1] = "admin" /\ q[2] = "studio"
  BY <1>1, StudioIs DEF Is2
<1>3. r \in Seq(Segments) /\ Len(r) = Len(q) + 2 /\ \A i \in 1..Len(q) : r[i] = q[i]
  <2>1. q \in Seq(Segments) /\ "paths" \in Segments /\ "P" \in Segments /\ r = q \o << "paths", "P" >>
    BY <1>1, <1>2, SegmentsAre
  <2> QED BY ONLY <2>1, JoinedTwo
<1> QED BY <1>1, <1>2, <1>3 DEF PathPage

LEMMA DetailsOpen ==
  ASSUME NEW held, NEW p \in Knowledge(held)
  PROVE  OpenTo(p, held) /\ p \in Details
<1>1. Draft \subseteq held /\ p \in Details
  BY DEF Knowledge, When, Draft
<1>2. OpenTo(CoursePage, held) /\ OpenTo(AssessmentPage, held)
  BY <1>1, DraftsOpen
<1>3. OpenTo(LessonPage, held)
  <2>1. PICK n, b : n = 5 /\ b = LessonPage[3]
    OBVIOUS
  <2>2. NeedsOf(n, "courses", b) \subseteq held /\ ~(n = 2)
    BY <1>1, <2>1 DEF NeedsOf
  <2>3. /\ n \in Nat /\ n = Len(LessonPage) /\ n >= 1 /\ LessonPage \in Seq(Segments)
        /\ LessonPage[1] = "admin" /\ LessonPage[2] = "courses"
    BY <2>1, LessonIs
  <2> QED BY <2>1, <2>2, <2>3, Opens
<1>4. OpenTo(PathPage, held)
  <2>1. PICK n, b : n = 4 /\ b = PathPage[3]
    OBVIOUS
  <2>2. NeedsOf(n, "studio", b) \subseteq held /\ ~(n = 2)
    BY <1>1, <2>1 DEF NeedsOf
  <2>3. /\ n \in Nat /\ n = Len(PathPage) /\ n >= 1 /\ PathPage \in Seq(Segments)
        /\ PathPage[1] = "admin" /\ PathPage[2] = "studio"
    BY <2>1, PathIs
  <2> QED BY <1>1, <2>1, <2>2, <2>3, Opens
<1> QED BY <1>1, <1>2, <1>3, <1>4 DEF Details

LEMMA ActionsOpen ==
  ASSUME NEW held, Coherent(held), NEW p \in createActions(held)
  PROVE  OpenTo(p, held)
<1>1. "content.view_draft" \in held => Draft \subseteq held
  BY DEF Draft
<1>2. {"assessment.author", "assessment.publish", "sources.manage"} \cap held # {} => Draft \subseteq held
  BY DEF Coherent
<1>3. \/ p \in Creation(held)
      \/ "sources.manage" \in held /\ p = Studio \o << "sources" >>
      \/ "content.view_draft" \in held /\ p \in {Studio \o << "ai" >>, Learn}
      \/ "org.branding.manage" \in held /\ p = Under(<< "branding" >>)
  BY DEF createActions, When
<1>4. p \in Creation(held) =>
        \/ "content.view_draft" \in held /\ p \in {Under(<< "courses" >>), Studio}
        \/ "paths.manage" \in held /\ p = Under(<< "learning", "paths" >>)
        \/ "assessment.author" \in held /\ p = Under(<< "assessments" >>)
        \/ "org.members.manage" \in held /\ p = Under(<< "members" >>)
  BY DEF Creation, When
<1>5. CASE Draft \subseteq held
  BY <1>3, <1>4, <1>5, StudioOpens, DraftsOpen, OthersOpen, LearnOpens
<1>6. CASE ~(Draft \subseteq held)
  BY <1>1, <1>2, <1>3, <1>4, <1>6, OthersOpen
<1> QED BY <1>5, <1>6

-----------------------------------------------------------------------------
(* Where one is                                                            *)

LEMMA OneLabel ==
  ASSUME NEW cs, NEW i \in Nat, NEW j \in Nat, i <= j,
         \A k \in Nat : i <= k /\ k < j => cs[k].label = cs[k + 1].label
  PROVE  cs[i].label = cs[j].label
<1> SUFFICES ASSUME cs[i].label # cs[j].label PROVE FALSE
  OBVIOUS
<1> DEFINE K == { k \in Nat : i <= k /\ k <= j /\ cs[k].label # cs[i].label }
<1>1. PICK k \in K : \A m \in K : k <= m
  <2>1. K \subseteq Nat /\ K # {}
    OBVIOUS
  <2> HIDE DEF K
  <2> QED BY <2>1, LeastOf
<1>2. k \in Nat /\ i < k /\ k <= j /\ cs[k].label # cs[i].label
  OBVIOUS
<1>3. PICK m \in Nat : k = m + 1
  BY <1>2
<1>4. m \notin K
  BY <1>1, <1>2, <1>3
<1>5. cs[m].label = cs[i].label /\ cs[m].label = cs[k].label
  BY <1>2, <1>3, <1>4
<1> QED BY <1>2, <1>5

LEMMA ShownAre ==
  ASSUME NEW S, NEW cs \in Seq(S), NEW n \in Nat, n = Len(cs), n >= 1, NEW places,
         places = [i \in KeptCrumbs(cs) |-> IF i = Len(cs) THEN Crumb(cs[i].label, << >>) ELSE cs[i]]
  PROVE  /\ DOMAIN places = KeptCrumbs(cs)
         /\ \E first \in KeptCrumbs(cs) : /\ \A i \in KeptCrumbs(cs) : first <= i
                                    /\ places[first].label = cs[1].label
         /\ \E last \in KeptCrumbs(cs) : (\A i \in KeptCrumbs(cs) : i <= last) /\ places[last].link = << >>
         /\ \A i, j \in KeptCrumbs(cs) : i < j /\ (\A k \in KeptCrumbs(cs) : k <= i \/ j <= k)
                                     => places[i].label # places[j].label
         /\ \A i \in KeptCrumbs(cs) : i < n => places[i] = cs[i]
<1>1. /\ DOMAIN places = KeptCrumbs(cs) /\ KeptCrumbs(cs) \subseteq 1..n /\ n \in KeptCrumbs(cs)
      /\ \A i \in 1..n : i \in KeptCrumbs(cs) <=> i = n \/ cs[i].label # cs[i + 1].label
  BY DEF KeptCrumbs
<1>2. \A i \in KeptCrumbs(cs) : places[i].label = cs[i].label /\ (i = n => places[i].link = << >>)
                          /\ (i < n => places[i] = cs[i])
  BY <1>1 DEF Crumb
<1>3. PICK first \in KeptCrumbs(cs) : \A i \in KeptCrumbs(cs) : first <= i
  <2>1. KeptCrumbs(cs) \subseteq Nat /\ KeptCrumbs(cs) # {}
    BY <1>1
  <2> QED BY <2>1, LeastOf
<1>4. cs[first].label = cs[1].label
  <2>1. first \in Nat /\ 1 <= first /\ first <= n
    BY <1>1
  <2>2. \A k \in Nat : 1 <= k /\ k < first => cs[k].label = cs[k + 1].label
    BY <1>1, <1>3, <2>1
  <2> QED BY <2>1, <2>2, OneLabel
<1>5. ASSUME NEW i \in KeptCrumbs(cs), NEW j \in KeptCrumbs(cs), i < j, \A k \in KeptCrumbs(cs) : k <= i \/ j <= k
      PROVE  places[i].label # places[j].label
  <2>1. i \in Nat /\ j \in Nat /\ 1 <= i /\ j <= n /\ i < n /\ i + 1 \in Nat /\ i + 1 <= j
    BY <1>1, <1>5
  <2>2. \A k \in Nat : i + 1 <= k /\ k < j => cs[k].label = cs[k + 1].label
    BY <1>1, <1>5, <2>1
  <2>3. cs[i + 1].label = cs[j].label
    BY <2>1, <2>2, OneLabel
  <2>4. cs[i].label # cs[i + 1].label
    BY <1>1, <2>1
  <2> QED BY <1>2, <2>3, <2>4
<1>6. \A i \in KeptCrumbs(cs) : i <= n
  BY <1>1
<1> QED BY <1>1, <1>2, <1>3, <1>4, <1>5, <1>6

LEMMA BelongsToMore == ASSUME NEW S, NEW T, NEW q \in Seq(S), S \subseteq T PROVE q \in Seq(T)
OBVIOUS

LEMMA TrailsAre ==
  ASSUME NEW path, NEW title
  PROVE  \/ Trail(path, title) = << >>
         \/ \E a : Trail(path, title) = << a >>
         \/ \E a, b : Trail(path, title) = << a, b >>
<1>1. PICK A, B, C, D, a, b :
        /\ A = Crumb(<< "Builder" >>, << >>) /\ B = Crumb(<< title >>, CoursePage)
        /\ C = Crumb(<< "A lesson" >>, << >>) /\ D = Crumb(<< title >>, << >>)
        /\ a = Crumb(<< "Canvas" >>, << >>) /\ b = Crumb(<< "Editor" >>, << >>)
  OBVIOUS
<1>2. Trail(path, title) \in {<< A >>, << B, C >>, << D, a >>, << b >>, << >>}
  BY <1>1 DEF Trail
<1> QED BY <1>2

LEMMA TrailIn ==
  ASSUME NEW path, NEW title
  PROVE  Trail(path, title) \in Seq(ToSet(Trail(path, title)))
<1>1. CASE Trail(path, title) = << >>
  BY <1>1
<1>2. CASE \E a : Trail(path, title) = << a >>
  <2>1. PICK a, r : r = Trail(path, title) /\ r = << a >>
    BY <1>2
  <2>2. r \in Seq({a}) /\ Len(r) = 1 /\ r[1] = a
    BY <2>1
  <2>3. ToSet(r) = {a}
    BY <2>2 DEF ToSet
  <2> QED BY <2>1, <2>2, <2>3
<1>3. CASE \E a, b : Trail(path, title) = << a, b >>
  BY <1>3, ListsAre
<1> QED BY <1>1, <1>2, <1>3, TrailsAre

LEMMA PrefixIs ==
  ASSUME NEW p \in Seq(Segments), NEW q \in Seq(Segments), IsPrefix(q, p)
  PROVE  Len(q) <= Len(p) /\ \A i \in 1..Len(q) : p[i] = q[i]
<1>1. Len(q) <= Len(p) /\ q = SubSeq(p, 1, Len(q))
  BY DEF IsPrefix
<1>2. PICK n \in Nat : n = Len(q)
  OBVIOUS
<1>3. \A i \in 1..n : SubSeq(p, 1, n)[i] = p[i]
  BY <1>1, <1>2
<1> QED BY <1>1, <1>2, <1>3

\* The paths of the entries.
Entry2(e) == \E a \in Segments \ (Domains \cup {"denied"}) : Is2(e.page, a)
Entry3(e) ==
  \E a, b \in Segments :
    Is3(e.page, a, b) /\ (a = "studio" => e.needs = NeedsOf(3, a, b)) /\ a \in {"studio", "learning", "intelligence"}

LEMMA EntryPath ==
  ASSUME NEW e \in ToSet(Destinations)
  PROVE  e.page = Learn \/ Entry2(e) \/ Entry3(e)
<1>1. ASSUME NEW a \in Segments \ (Domains \cup {"denied"}), e.page = Under(<< a >>)
      PROVE  Entry2(e)
  BY <1>1, UnderOne DEF Entry2
<1>2. ASSUME NEW a \in {"learning", "intelligence"}, NEW b \in Segments, e.page = Under(<< a, b >>)
      PROVE  Entry3(e)
  BY <1>2, UnderTwo, SegmentsAre DEF Entry3
<1>3. ASSUME NEW b \in Segments, e.page = Studio \o << b >>, e.needs = NeedsOf(3, "studio", b)
      PROVE  Entry3(e)
  BY <1>3, InStudio, SegmentsAre DEF Entry3
<1>4. CASE e \in ToSet(KnowledgeItems)
  <2>1. NeedsOf(3, "studio", "sources") = {"sources.manage"}
    BY DEF NeedsOf
  <2>2. \A b \in {"ai", "library", "templates", "review"} : NeedsOf(3, "studio", b) = Draft
    BY DEF NeedsOf
  <2>3. e.page = Studio => Entry2(e)
    BY StudioIs, SegmentsAre DEF Entry2, Domains
  <2> QED BY <1>3, <1>4, <2>1, <2>2, <2>3, KnowledgeIs, SegmentsAre
<1>5. CASE e \in ToSet(LearningItems)
  <2>1. \A a \in {"courses", "assessments", "reviews", "practicals", "enrollments", "credentials"} :
          a \in Segments \ (Domains \cup {"denied"})
    BY SegmentsAre DEF Domains
  <2> QED BY <1>1, <1>2, <1>5, <2>1, LearningIs, SegmentsAre
<1>6. CASE e \in ToSet(PeopleItems)
  <2>1. \A a \in {"members", "roles"} : a \in Segments \ (Domains \cup {"denied"})
    BY SegmentsAre DEF Domains
  <2> QED BY <1>1, <1>6, <2>1, PeopleIs
<1>7. CASE e \in ToSet(IntelligenceItems)
  <2>1. "ops" \in Segments \ (Domains \cup {"denied"})
    BY SegmentsAre DEF Domains
  <2> QED BY <1>1, <1>2, <1>7, <2>1, IntelligenceIs, SegmentsAre
<1>8. CASE e \in ToSet(WorkspaceItems)
  <2>1. \A a \in {"settings", "branding", "terminology", "organization", "academies"} :
          a \in Segments \ (Domains \cup {"denied"})
    BY SegmentsAre DEF Domains
  <2> QED BY <1>1, <1>8, <2>1, WorkspaceIs
<1> QED BY <1>4, <1>5, <1>6, <1>7, <1>8, TableIs

LEMMA EntryTyped ==
  ASSUME NEW e \in ToSet(Destinations)
  PROVE  e.page \in Seq(Segments) /\ Len(e.page) >= 1 /\ e.section \in Sections /\ e.domain \in Domains
<1>1. e.page \in Seq(Segments) /\ Len(e.page) >= 1
  BY EntryPath, LearnIs DEF Entry2, Entry3, Is2, Is3
<1>2. e.section \in Sections
  BY TableIs, KnowledgeIs, LearningIs, PeopleIs, IntelligenceIs, WorkspaceIs
<1>3. e.domain \in Domains
  BY TableIs, KnowledgeIs, LearningIs, PeopleIs, IntelligenceIs, WorkspaceIs DEF Domains
<1> QED BY <1>1, <1>2, <1>3

LEMMA DomainKeysAre ==
  ASSUME NEW held
  PROVE  DomainKeys(held) \subseteq Domains \cup {"home"}
BY EntryTyped DEF DomainKeys, buildDomains

\* No destination lies above a domain's landing, Home or a refusal.
LEMMA NothingAbove ==
  ASSUME NEW e \in ToSet(Destinations), NEW p, p = Home \/ \E a \in Domains \cup {"denied"} : Is2(p, a)
  PROVE  ~IsPrefix(e.page, p)
<1> SUFFICES ASSUME IsPrefix(e.page, p) PROVE FALSE
  OBVIOUS
<1>1. p \in Seq(Segments) /\ Len(p) \in {1, 2} /\ p[1] = "admin"
      /\ (Len(p) = 2 => p[2] \in Domains \cup {"denied"})
  BY HomeIs DEF Is2
<1>2. Len(e.page) <= Len(p) /\ \A i \in 1..Len(e.page) : p[i] = e.page[i]
  BY <1>1, EntryTyped, PrefixIs
<1>3. CASE e.page = Learn
  BY <1>1, <1>2, <1>3, LearnIs
<1>4. CASE Entry2(e)
  BY <1>1, <1>2, <1>4 DEF Entry2, Is2
<1>5. CASE Entry3(e)
  BY <1>1, <1>2, <1>5 DEF Entry3, Is3
<1> QED BY <1>3, <1>4, <1>5, EntryPath

LEMMA DeniedIs == Is2(Denied, "denied")
BY SegmentsAre, PairIs DEF Denied, Is2

LEMMA PagesTyped ==
  ASSUME NEW p \in NavPages
  PROVE  p \in Seq(Segments) /\ Len(p) >= 1
<1>1. CASE \E e \in ToSet(Destinations) : p = e.page
  BY <1>1, EntryTyped
<1>2. CASE \E d \in Domains : p = landing(d)
  <2>1. PICK d \in Domains : p = landing(d)
    BY <1>2
  <2>2. Is2(p, d)
    BY <2>1, LandingIs
  <2> QED BY <2>2 DEF Is2
<1>3. CASE p \in {Home, Denied}
  <2>1. Len(Home) >= 1 /\ Denied \in Seq(Segments) /\ Len(Denied) >= 1
    BY HomeIs, DeniedIs DEF Is2
  <2> QED BY <1>3, <2>1, HomeIs
<1>4. CASE p \in {CoursePage, AssessmentPage}
  <2>1. Is3(CoursePage, "courses", "C") /\ Is3(AssessmentPage, "assessments", "A")
    BY SegmentsAre, UnderTwo DEF CoursePage, AssessmentPage
  <2>2. /\ CoursePage \in Seq(Segments) /\ Len(CoursePage) >= 1
        /\ AssessmentPage \in Seq(Segments) /\ Len(AssessmentPage) >= 1
    BY <2>1 DEF Is3
  <2> QED BY <1>4, <2>2
<1>5. CASE p \in {LessonPage, PathPage}
  <2>1. LessonPage \in Seq(Segments) /\ Len(LessonPage) >= 1
    BY LessonIs
  <2>2. PathPage \in Seq(Segments) /\ Len(PathPage) >= 1
    BY PathIs
  <2> QED BY <1>5, <2>1, <2>2
<1> QED BY <1>1, <1>2, <1>3, <1>4, <1>5 DEF NavPages, Details

LEMMA DomainFound ==
  ASSUME NEW held, NEW p \in Seq(Segments), Within(p, Home)
  PROVE  domainForPath(held, p) \in DomainKeys(held)
<1>1. Candidates(held, p) # {}
  <2>1. PICK c, d : d = "home" /\ c = << d, landing(d) >>
    OBVIOUS
  <2>2. d \in DomainKeys(held) /\ landing(d) = Home
    BY <2>1 DEF DomainKeys, landing
  <2>3. c \in { << x, landing(x) >> : x \in DomainKeys(held) } /\ c[2] = Home
    BY <2>1, <2>2
  <2>4. c \in Candidates(held, p)
    BY <2>3 DEF Candidates, Within
  <2> QED BY <2>4
<1>2. ASSUME NEW c \in Candidates(held, p)
      PROVE  c[1] \in DomainKeys(held) /\ Len(c[2]) \in Nat /\ Len(c[2]) <= Len(p)
  <2>1. IsPrefix(c[2], p)
    BY DEF Candidates
  <2>2. CASE \E d \in DomainKeys(held) : c = << d, landing(d) >>
    <3>1. PICK d \in DomainKeys(held) : c = << d, landing(d) >>
      BY <2>2
    <3>2. landing(d) \in Seq(Segments)
      <4>1. CASE d = "home"
        BY <4>1, HomeIs DEF landing
      <4>2. CASE d # "home"
        BY <4>2, DomainKeysAre, LandingIs DEF Is2
      <4> QED BY <4>1, <4>2
    <3>3. c[1] = d /\ c[2] = landing(d)
      BY <3>1
    <3> QED BY <2>1, <3>2, <3>3, PrefixIs
  <2>3. CASE \E e \in buildDomains(held) : c = << e.domain, e.page >>
    <3>1. PICK e \in buildDomains(held) : c = << e.domain, e.page >>
      BY <2>3
    <3>2. e \in ToSet(Destinations) /\ e.domain \in DomainKeys(held)
      BY DEF buildDomains, DomainKeys
    <3>3. c[1] = e.domain /\ c[2] = e.page
      BY <3>1
    <3> QED BY <2>1, <3>2, <3>3, EntryTyped, PrefixIs
  <2> QED BY <2>2, <2>3 DEF Candidates
<1>3. PICK n \in Nat : n = Len(p)
  OBVIOUS
<1> DEFINE short(c) == n - Len(c[2])
           K == { short(c) : c \in Candidates(held, p) }
<1>4. PICK k \in K : \A m \in K : k <= m
  <2>1. K \subseteq Nat /\ K # {}
    BY <1>1, <1>2, <1>3
  <2> HIDE DEF K
  <2> QED BY <2>1, LeastOf
<1>5. PICK c \in Candidates(held, p) : k = short(c)
  OBVIOUS
<1>6. \A other \in Candidates(held, p) : Len(other[2]) <= Len(c[2])
  <2>1. ASSUME NEW other \in Candidates(held, p) PROVE Len(other[2]) <= Len(c[2])
    <3>1. n - Len(c[2]) <= n - Len(other[2])
      BY <1>4, <1>5
    <3>2. Len(c[2]) \in Nat /\ Len(other[2]) \in Nat
      BY <1>2
    <3> QED BY <3>1, <3>2
  <2> QED BY <2>1
<1>7. PICK d : d = (CHOOSE x \in Candidates(held, p) :
                     \A other \in Candidates(held, p) : Len(other[2]) <= Len(x[2]))
  OBVIOUS
<1>8. d \in Candidates(held, p)
  BY <1>6, <1>7
<1> QED BY <1>2, <1>7, <1>8 DEF domainForPath

LEMMA OwnTrails ==
  ASSUME NEW p \in Details, NEW title
  PROVE  Trail(p, title) # << >>
<1>1. PICK A, B, C, D :
        /\ A = << Crumb(<< "Builder" >>, << >>) >>
        /\ B = << Crumb(<< title >>, CoursePage), Crumb(<< "A lesson" >>, << >>) >>
        /\ C = << Crumb(<< title >>, << >>), Crumb(<< "Canvas" >>, << >>) >>
        /\ D = << Crumb(<< "Editor" >>, << >>) >>
  OBVIOUS
<1>2. A # << >> /\ B # << >> /\ C # << >> /\ D # << >>
  BY <1>1
<1>3. Trail(p, title) \in {A, B, C, D}
  BY <1>1 DEF Trail, Details
<1> QED BY <1>2, <1>3

\* Whatever is in the studio is in one domain.
LEMMA StudioDomain ==
  ASSUME NEW e \in ToSet(Destinations), e.page[2] = "studio", Len(e.page) >= 2
  PROVE  e.domain = "knowledge"
<1>1. \A a \in Segments : e.page = Under(<< a >>) => a = "studio"
  BY UnderOne DEF Is2
<1>2. \A a \in Segments, b \in Segments : e.page = Under(<< a, b >>) => a = "studio"
  BY UnderTwo DEF Is3
<1>3. e.page # Learn
  BY LearnIs
<1>4. CASE e \in ToSet(KnowledgeItems)
  BY <1>4, KnowledgeIs
<1>5. CASE e \in ToSet(LearningItems)
  BY <1>1, <1>2, <1>3, <1>5, LearningIs, SegmentsAre
<1>6. CASE e \in ToSet(PeopleItems)
  BY <1>1, <1>6, PeopleIs, SegmentsAre
<1>7. CASE e \in ToSet(IntelligenceItems)
  BY <1>1, <1>2, <1>7, IntelligenceIs, SegmentsAre
<1>8. CASE e \in ToSet(WorkspaceItems)
  BY <1>1, <1>8, WorkspaceIs, SegmentsAre
<1> QED BY <1>4, <1>5, <1>6, <1>7, <1>8, TableIs

\* A page that opens and brings no crumbs of its own is the destination it
\* stands under, if it stands under one.
LEMMA OwnPlace ==
  ASSUME NEW held, NEW p \in NavPages, PageNeeds(p) \subseteq held, Within(p, Home),
         NEW title, Trail(p, title) = << >>, NEW e \in locate(held, p)
  PROVE  e.page = p
<1>0. /\ e \in buildDomains(held) /\ e.domain = domainForPath(held, p) /\ IsPrefix(e.page, p)
      /\ \A other \in buildDomains(held) :
           other.domain = domainForPath(held, p) /\ IsPrefix(other.page, p)
             => Len(other.page) <= Len(e.page)
  BY DEF locate
<1>1. e \in ToSet(Destinations) /\ e.page \in Seq(Segments) /\ p \in Seq(Segments)
  BY <1>0, EntryTyped, PagesTyped DEF buildDomains
<1>2. p \notin Details
  BY OwnTrails
<1>3. p # Home /\ p # Denied /\ \A d \in Domains : p # landing(d)
  BY <1>0, <1>1, NothingAbove, DeniedIs, LandingIs
<1>4. PICK f \in ToSet(Destinations) : p = f.page
  BY <1>2, <1>3 DEF NavPages
<1>5. Len(e.page) <= Len(p) /\ \A i \in 1..Len(e.page) : p[i] = e.page[i]
  BY <1>0, <1>1, PrefixIs
<1>6. p # Learn
  BY LearnOpens
<1>7. e.page # Learn
  <2>1. Len(e.page) >= 1 /\ 1 \in 1..Len(e.page)
    BY <1>1, EntryTyped
  <2>2. p[1] = "admin"
    BY <1>1, WithinHome
  <2>3. Learn[1] = "learn"
    BY LearnIs
  <2> QED BY <1>5, <2>1, <2>2, <2>3
<1>8. CASE Entry2(f)
  <2>1. PICK a : Is2(p, a)
    BY <1>4, <1>8 DEF Entry2
  <2>2. Len(e.page) = 2
    BY <1>5, <1>7, <2>1, EntryPath, <1>1 DEF Entry2, Entry3, Is2, Is3
  <2> QED BY <1>1, <1>5, <2>1, <2>2, SameSequence DEF Is2
<1>9. CASE Entry3(f)
  <2>1. PICK a \in Segments, b \in Segments :
          /\ Is3(p, a, b) /\ (a = "studio" => f.needs = NeedsOf(3, a, b))
          /\ a \in {"studio", "learning", "intelligence"}
    BY <1>4, <1>9 DEF Entry3
  <2>2. CASE Len(e.page) = 3
    BY <1>1, <1>5, <2>1, <2>2, SameSequence DEF Is3
  <2>3. CASE Len(e.page) # 3
    <3>1. Entry2(e)
      BY <1>1, <1>7, <2>3, EntryPath DEF Entry3, Is3
    <3>2. PICK c \in Segments \ (Domains \cup {"denied"}) : Is2(e.page, c)
      BY <3>1 DEF Entry2
    <3>3. c = a
      BY <1>5, <2>1, <3>2 DEF Is2, Is3
    <3>4. a = "studio"
      BY <2>1, <3>2, <3>3 DEF Domains
    <3>5. PageNeeds(p) = NeedsOf(3, "studio", b)
      <4>1. PICK n : n = 3
        OBVIOUS
      <4>2. n \in Nat /\ n = Len(p) /\ n >= 1 /\ p[1] = "admin" /\ p[2] = a /\ p[3] = b
        BY <2>1, <4>1 DEF Is3
      <4>3. PageNeeds(p) = NeedsOf(n, a, b)
        BY <1>1, <4>2, NeedsAre
      <4> QED BY <3>4, <4>1, <4>3
    <3>6. f.needs \subseteq held /\ f.needs # {}
      <4>1. NeedsOf(3, "studio", b) # {}
        BY DEF NeedsOf, Draft
      <4> QED BY <2>1, <3>4, <3>5, <4>1
    <3>7. f \in buildDomains(held)
      BY <3>6 DEF buildDomains
    <3>8. e.domain = "knowledge" /\ f.domain = "knowledge"
      <4>1. e.page[2] = "studio" /\ Len(e.page) >= 2
        BY <3>2, <3>3, <3>4 DEF Is2
      <4>2. f.page[2] = "studio" /\ Len(f.page) >= 2
        BY <1>4, <2>1, <3>4 DEF Is3
      <4> QED BY <1>1, <4>1, <4>2, StudioDomain
    <3>9. IsPrefix(f.page, p)
      <4>1. p = SubSeq(p, 1, Len(p))
        BY <1>1
      <4> QED BY <1>1, <1>4, <4>1 DEF IsPrefix
    <3>10. Len(f.page) <= Len(e.page)
      BY <1>0, <3>7, <3>8, <3>9
    <3> QED BY <1>4, <2>1, <3>2, <3>10 DEF Is2, Is3
  <2> QED BY <2>2, <2>3
<1> QED BY <1>4, <1>6, <1>8, <1>9, EntryPath

\* Where one is, to a member who holds "held": the trail of CrumbsOrient, for a
\* page that is in the workspace.
Oriented(held, p, open, title, t, word) ==
  LET crumbs == buildBreadcrumbs(held, p, title, t, word)
      places == DOMAIN crumbs
      domain == domainForPath(held, p)
      above == locate(held, p)
      links == { crumbs[i].link : i \in places }
      own(label) == Trail(p, title) # << >> /\ Trail(p, title)[1].label = label
  IN /\ \E first \in places : /\ \A i \in places : first <= i
                             /\ crumbs[first].label = << domain >>
     /\ \E last \in places : (\A i \in places : i <= last) /\ crumbs[last].link = << >>
     /\ \A i, j \in places : i < j /\ (\A k \in places : k <= i \/ j <= k)
                            => crumbs[i].label # crumbs[j].label
     /\ (\E i, j \in places : i < j) =>
          landing(domain) \in links \/ (above = {} /\ own(<< domain >>))
     /\ open => \A e \in above :
          p = e.page \/ e.page \in links \/ own(LabelOf(e.page, t, word))

LEMMA PlaceOriented ==
  ASSUME NEW held, NEW p \in NavPages, Within(p, Home), NEW open, open => PageNeeds(p) \subseteq held,
         NEW title, NEW t, NEW word
  PROVE  Oriented(held, p, open, title, t, word)
<1> DEFINE domain == domainForPath(held, p)
           trail == Trail(p, title)
           link(target) == IF p = target /\ trail = << >> THEN << >> ELSE target
           spine == { << Crumb(<< e.section >>, << >>), Crumb(LabelOf(e.page, t, word), link(e.page)) >> :
                        e \in locate(held, p) }
           middle == IF spine = {} THEN << >> ELSE CHOOSE s \in spine : TRUE
           cs == crumbsOf(held, p, title, t, word)
           top == Crumb(<< domain >>, link(landing(domain)))
           crumbs == buildBreadcrumbs(held, p, title, t, word)
<1>1. p \in Seq(Segments) /\ domain \in DomainKeys(held) /\ domain \in Domains \cup {"home"}
  BY PagesTyped, DomainFound, DomainKeysAre
<1>2. cs = << top >> \o middle \o trail
  BY DEF crumbsOf
<1>3. crumbs = [i \in KeptCrumbs(cs) |-> IF i = Len(cs) THEN Crumb(cs[i].label, << >>) ELSE cs[i]]
  BY DEF buildBreadcrumbs
<1>4. \/ locate(held, p) = {} /\ middle = << >>
      \/ \E e \in locate(held, p) :
           middle = << Crumb(<< e.section >>, << >>), Crumb(LabelOf(e.page, t, word), link(e.page)) >>
  <2>1. CASE spine = {}
    BY <2>1
  <2>2. CASE spine # {}
    <3>1. middle \in spine
      BY <2>2
    <3> QED BY <3>1
  <2> QED BY <2>1, <2>2
<1> HIDE DEF cs, middle, top, crumbs, trail, domain
<1>5. PICK S : S = {top} \cup ToSet(middle) \cup ToSet(trail)
  OBVIOUS
<1>6. middle \in Seq(S) /\ trail \in Seq(S) /\ << top >> \in Seq(S) /\ Len(middle) \in {0, 2}
  <2>1. trail \in Seq(S)
    BY <1>5, TrailIn, BelongsToMore DEF trail
  <2>2. << top >> \in Seq(S)
    BY <1>5
  <2>3. middle \in Seq(S) /\ Len(middle) \in {0, 2}
    <3>1. CASE middle = << >>
      BY <3>1
    <3>2. CASE \E a, b : middle = << a, b >>
      <4>1. PICK a, b : middle = << a, b >>
        BY <3>2
      <4>2. ToSet(middle) = {a, b} /\ middle \in Seq({a, b})
        BY <4>1, ListsAre
      <4> QED BY <1>5, <4>1, <4>2
    <3> QED BY <1>4, <3>1, <3>2
  <2> QED BY <2>1, <2>2, <2>3
<1>7. /\ cs \in Seq(S) /\ Len(cs) = 1 + Len(middle) + Len(trail) /\ Len(cs) \in Nat /\ cs[1] = top
      /\ \A i \in 1..Len(middle) : cs[1 + i] = middle[i]
      /\ \A i \in 1..Len(trail) : cs[1 + Len(middle) + i] = trail[i]
  <2>1. PICK r, u : r = << top >> /\ u = r \o middle
    OBVIOUS
  <2>2. r \in Seq(S) /\ Len(r) = 1 /\ r[1] = top
    BY <1>6, <2>1
  <2>3. cs = u \o trail
    BY <1>2, <2>1
  <2>4. r \in Seq(S) /\ middle \in Seq(S)
    BY <1>6, <2>2
  <2>5. /\ r \o middle \in Seq(S) /\ Len(r \o middle) = Len(r) + Len(middle)
        /\ \A i \in 1..Len(r) : (r \o middle)[i] = r[i]
        /\ \A i \in 1..Len(middle) : (r \o middle)[Len(r) + i] = middle[i]
    BY ONLY <2>4, Concat
  <2>6. /\ u \in Seq(S) /\ Len(u) = 1 + Len(middle) /\ u[1] = top
        /\ \A i \in 1..Len(middle) : u[1 + i] = middle[i]
    <3>1. (r \o middle)[1] = top /\ \A i \in 1..Len(middle) : (r \o middle)[1 + i] = middle[i]
      BY <2>2, <2>5
    <3> QED BY <2>1, <2>2, <2>5, <3>1
  <2>7. u \in Seq(S) /\ trail \in Seq(S)
    BY <1>6, <2>6
  <2>8. /\ u \o trail \in Seq(S) /\ Len(u \o trail) = Len(u) + Len(trail)
        /\ \A i \in 1..Len(u) : (u \o trail)[i] = u[i]
        /\ \A i \in 1..Len(trail) : (u \o trail)[Len(u) + i] = trail[i]
    BY ONLY <2>7, Concat
  <2>9. /\ cs \in Seq(S) /\ Len(cs) = Len(u) + Len(trail) /\ \A i \in 1..Len(u) : cs[i] = u[i]
        /\ \A i \in 1..Len(trail) : cs[Len(u) + i] = trail[i]
    BY <2>3, <2>8
  <2>10. /\ Len(middle) \in Nat /\ Len(trail) \in Nat /\ 1 \in 1..Len(u)
         /\ \A i \in 1..Len(middle) : 1 + i \in 1..Len(u)
    BY <1>6, <2>6
  <2>11. cs[1] = top /\ \A i \in 1..Len(middle) : cs[1 + i] = middle[i]
    BY <2>6, <2>9, <2>10
  <2>12. \A i \in 1..Len(trail) : cs[1 + Len(middle) + i] = trail[i]
    BY <2>6, <2>9
  <2>13. Len(cs) = 1 + Len(middle) + Len(trail) /\ Len(cs) \in Nat
    BY <2>6, <2>9, <2>10
  <2> QED BY <2>9, <2>11, <2>12, <2>13
<1>8. PICK n \in Nat : n = Len(cs) /\ n >= 1
  BY <1>6, <1>7
<1>9. /\ DOMAIN crumbs = KeptCrumbs(cs)
      /\ \E first \in KeptCrumbs(cs) : (\A i \in KeptCrumbs(cs) : first <= i) /\ crumbs[first].label = cs[1].label
      /\ \E last \in KeptCrumbs(cs) : (\A i \in KeptCrumbs(cs) : i <= last) /\ crumbs[last].link = << >>
      /\ \A i, j \in KeptCrumbs(cs) : i < j /\ (\A k \in KeptCrumbs(cs) : k <= i \/ j <= k)
                                  => crumbs[i].label # crumbs[j].label
      /\ \A i \in KeptCrumbs(cs) : i < n => crumbs[i] = cs[i]
  <2>1. cs \in Seq(S) /\ n \in Nat /\ n = Len(cs) /\ n >= 1
    BY <1>7, <1>8
  <2> QED BY ONLY <1>3, <2>1, ShownAre
<1>10. cs[1].label = << domain >> /\ cs[1].link = link(landing(domain))
  BY <1>7 DEF top, Crumb
<1>11. \A i \in 1..n : i < n /\ cs[i].label # cs[i + 1].label => i \in KeptCrumbs(cs)
  BY <1>7, <1>8 DEF KeptCrumbs
<1>12. trail # << >> => Len(trail) \in Nat /\ Len(trail) >= 1 /\ trail[1] = cs[2 + Len(middle)]
  <2> SUFFICES ASSUME trail # << >> PROVE Len(trail) \in Nat /\ Len(trail) >= 1 /\ trail[1] = cs[2 + Len(middle)]
    OBVIOUS
  <2>1. Len(trail) \in Nat /\ Len(trail) >= 1
    BY <1>6
  <2>2. trail[1] = cs[1 + Len(middle) + 1]
    BY <1>7, <2>1
  <2> QED BY <1>6, <2>1, <2>2
<1>13. ASSUME NEW i \in KeptCrumbs(cs), NEW j \in KeptCrumbs(cs), i < j
       PROVE  \/ landing(domain) \in { crumbs[k].link : k \in KeptCrumbs(cs) }
              \/ locate(held, p) = {} /\ trail # << >> /\ trail[1].label = << domain >>
  <2>1. n > 1
    BY <1>7, <1>8, <1>13 DEF KeptCrumbs
  <2>2. ASSUME 1 \in KeptCrumbs(cs), cs[1].link = landing(domain)
        PROVE  landing(domain) \in { crumbs[k].link : k \in KeptCrumbs(cs) }
    BY <1>9, <2>1, <2>2
  <2>3. CASE middle = << >>
    <3>1. trail # << >> /\ n = 1 + Len(trail)
      BY <1>6, <1>7, <1>8, <2>1, <2>3
    <3>2. cs[1].link = landing(domain) /\ trail[1] = cs[2]
      BY <1>10, <1>12, <2>3, <3>1 DEF trail
    <3>3. CASE trail[1].label = << domain >>
      <4>1. locate(held, p) = {}
        BY <1>4, <2>3
      <4> QED BY <3>1, <3>3, <4>1
    <3>4. CASE trail[1].label # << domain >>
      BY <1>10, <1>11, <2>1, <2>2, <3>2, <3>4
    <3> QED BY <3>3, <3>4
  <2>4. CASE middle # << >>
    <3>1. PICK e \in locate(held, p) :
            middle = << Crumb(<< e.section >>, << >>), Crumb(LabelOf(e.page, t, word), link(e.page)) >>
      BY <1>4, <2>4
    <3>2. e \in ToSet(Destinations) /\ IsPrefix(e.page, p)
      BY DEF locate, buildDomains
    <3>3. cs[2].label = << e.section >>
      <4>1. Len(middle) = 2 /\ middle[1] = Crumb(<< e.section >>, << >>)
        BY <3>1
      <4>2. cs[2] = Crumb(<< e.section >>, << >>)
        BY <1>7, <4>1
      <4> QED BY <4>2 DEF Crumb
    <3>4. << e.section >> # << domain >>
      <4>1. e.section \in Sections
        BY <3>2, EntryTyped
      <4>2. e.section # domain
        BY <1>1, <4>1 DEF Sections, Domains
      <4> QED BY <4>2
    <3>5. p # landing(domain)
      <4>1. CASE domain = "home"
        BY <3>2, <4>1, NothingAbove DEF landing
      <4>2. CASE domain # "home"
        <5>1. domain \in Domains /\ Is2(landing(domain), domain)
          BY <1>1, <4>2, LandingIs
        <5> QED BY <3>2, <5>1, NothingAbove
      <4> QED BY <4>1, <4>2
    <3> QED BY <1>10, <1>11, <2>1, <2>2, <3>3, <3>4, <3>5
  <2> QED BY <2>3, <2>4
<1>14. ASSUME open, NEW e \in locate(held, p), p # e.page, NEW mark, mark = LabelOf(e.page, t, word),
              ~(trail # << >> /\ trail[1].label = mark)
       PROVE  e.page \in { crumbs[k].link : k \in KeptCrumbs(cs) }
  <2>1. trail # << >>
    BY <1>14, OwnPlace DEF trail
  <2>2. PICK f \in locate(held, p) :
          middle = << Crumb(<< f.section >>, << >>), Crumb(LabelOf(f.page, t, word), link(f.page)) >>
    BY <1>4
  <2>3. f.page = e.page
    <3>1. /\ IsPrefix(f.page, p) /\ IsPrefix(e.page, p) /\ Len(e.page) <= Len(f.page) /\ Len(f.page) <= Len(e.page)
          /\ e \in ToSet(Destinations) /\ f \in ToSet(Destinations)
      BY DEF locate, buildDomains
    <3>2. e.page \in Seq(Segments) /\ f.page \in Seq(Segments)
      BY <3>1, EntryTyped
    <3>3. Len(e.page) = Len(f.page)
      BY <3>1, <3>2
    <3>4. \A i \in 1..Len(e.page) : e.page[i] = f.page[i]
      BY <1>1, <3>1, <3>2, <3>3, PrefixIs
    <3> QED BY <3>2, <3>3, <3>4, SameSequence
  <2>4. link(f.page) = f.page
    BY <2>1 DEF trail
  <2>5. cs[3].label = mark /\ cs[3].link = e.page /\ Len(middle) = 2
    <3>1. Len(middle) = 2 /\ middle[2] = Crumb(mark, e.page)
      BY <1>14, <2>2, <2>3, <2>4
    <3>2. cs[3] = Crumb(mark, e.page)
      BY <1>7, <3>1
    <3> QED BY <3>1, <3>2 DEF Crumb
  <2>6. n > 3 /\ cs[4] = trail[1]
    BY <1>7, <1>8, <1>12, <2>1, <2>5
  <2>7. 3 \in KeptCrumbs(cs)
    BY <1>11, <1>14, <2>1, <2>5, <2>6
  <2> QED BY <1>9, <2>5, <2>6, <2>7
<1> QED BY <1>9, <1>10, <1>13, <1>14 DEF Oriented, domain, trail, crumbs

\* Whatever is offered is a page of the workspace, or the Academy.
LEMMA OfferedPages ==
  ASSUME NEW held
  PROVE  /\ Shell(held) \subseteq NavPages \cup {Learn}
         /\ createActions(held) \subseteq NavPages \cup {Learn}
         /\ Knowledge(held) \subseteq NavPages
<1>1. \A e \in ToSet(Destinations) : e.page \in NavPages
  BY DEF NavPages
<1>2. \A d \in DomainKeys(held) : landing(d) \in NavPages
  BY DomainKeysAre DEF NavPages, landing
<1>3. Shell(held) \subseteq NavPages
  BY <1>1, <1>2 DEF Shell, buildDomains
<1>4. Knowledge(held) \subseteq NavPages
  BY DetailsOpen DEF NavPages
<1>5. /\ { e.page : e \in ToSet(KnowledgeItems) } \subseteq NavPages
      /\ { e.page : e \in ToSet(LearningItems) } \subseteq NavPages
      /\ { e.page : e \in ToSet(PeopleItems) } \subseteq NavPages
      /\ { e.page : e \in ToSet(WorkspaceItems) } \subseteq NavPages
  BY <1>1, TableAll
<1>6. /\ {Studio, Studio \o << "sources" >>, Studio \o << "ai" >>} \subseteq NavPages
      /\ {Under(<< "courses" >>), Under(<< "learning", "paths" >>), Under(<< "assessments" >>)} \subseteq NavPages
      /\ Under(<< "members" >>) \in NavPages /\ Under(<< "branding" >>) \in NavPages
  BY <1>5, KnowledgeIs, LearningIs, PeopleIs, WorkspaceIs
<1>7. createActions(held) \subseteq NavPages \cup {Learn}
  BY <1>6 DEF createActions, Creation, When
<1> QED BY <1>3, <1>4, <1>7

\* A page that is open to a member is rendered, from a place where the
\* workspace's layout does not have to decide or lets the member pass.
LEMMA OpenRenders ==
  ASSUME NEW p, NEW from, NEW full, NEW held, OpenTo(p, held),
         Within(p, Home) => hasAdminSurface(held) \/ (~full /\ Within(from, Home))
  PROVE  Redirects(p, from, full, held) = {}
<1>1. LayoutRuns(Home, p, from, full) => hasAdminSurface(held)
  BY DEF LayoutRuns
<1>2. LayoutRuns(Studio, p, from, full) => Draft \subseteq held
  BY DEF LayoutRuns, OpenTo
<1>3. requirePermission(p, held) = {}
  BY DEF requirePermission, OpenTo
<1>4. DomainLanding(p, held) = {}
  BY DEF OpenTo
<1> QED BY <1>1, <1>2, <1>3, <1>4 DEF Redirects

-----------------------------------------------------------------------------
(* The invariant                                                           *)

\* The requests that something offered, or the choice after signing in, makes.
Promised == {"link", "create", "knowledge", "action", "arrive"}
Told == at.by \in Promised /\ at.agreed => at.asTold
ShellStands ==
  /\ shell # << >> => at.path \in NavPages /\ Within(at.path, Home)
  /\ fresh.shell => shell = << orgPermissions >> /\ PageNeeds(at.path) \subseteq orgPermissions
PageStands == fresh.page /\ at.path = Home => at.held = orgPermissions
RequestStands ==
  /\ req = [to |-> req.to, asked |-> req.asked, by |-> req.by, full |-> req.full, same |-> req.same]
  /\ req.by # "none" => req.to \in NavPages \cup {Learn}
  /\ req.by \in Promised /\ req.same /\ Agreed(req.by)
       => req.to = req.asked /\ Redirects(req.to, at.path, req.full, orgPermissions) = {}
NavInv == Told /\ ShellStands /\ PageStands /\ RequestStands

LEMMA NavInvInit == NavInit => NavInv
<1> SUFFICES ASSUME NavInit PROVE NavInv
  OBVIOUS
<1>1. at.by = "none" /\ shell = << >> /\ fresh.shell = FALSE /\ fresh.page = FALSE /\ req = NoRequest
  BY DEF NavInit
<1>2. Told /\ ShellStands /\ PageStands
  BY <1>1 DEF Told, ShellStands, PageStands, Promised
<1>3. RequestStands
  BY <1>1 DEF RequestStands, NoRequest, Promised
<1> QED BY <1>2, <1>3 DEF NavInv

LEMMA AccessKept ==
  ASSUME UNCHANGED access
  PROVE  orgPermissions' = orgPermissions /\ \A by : Agreed(by)' <=> Agreed(by)
<1>1. Effective' = Effective /\ orgPermissions' = orgPermissions
  BY DEF access, orgPermissions, Effective, Org
<1> QED BY <1>1 DEF Agreed

LEMMA AccessKeeps == NavInv /\ ChangeGrants => NavInv'
<1> SUFFICES ASSUME NavInv, ChangeGrants PROVE NavInv'
  OBVIOUS
<1>1. /\ at' = at /\ shell' = shell /\ fresh' = [shell |-> FALSE, page |-> FALSE]
      /\ req' = [req EXCEPT !.same = FALSE]
  BY DEF ChangeGrants
<1>2. Told'
  BY <1>1 DEF NavInv, Told
<1>3. ShellStands' /\ PageStands'
  BY <1>1 DEF NavInv, ShellStands, PageStands
<1>4. RequestStands'
  <2>1. req' = [to |-> req.to, asked |-> req.asked, by |-> req.by, full |-> req.full, same |-> FALSE]
    BY <1>1 DEF NavInv, RequestStands
  <2>2. req.by # "none" => req.to \in NavPages \cup {Learn}
    BY DEF NavInv, RequestStands
  <2> QED BY <2>1, <2>2 DEF RequestStands
<1> QED BY <1>2, <1>3, <1>4 DEF NavInv

\* A request that is promised a page, and is answered with the access that the
\* promise was made from, is for a page that opens.
LEMMA RequestKeeps ==
  ASSUME NavInv, NEW path \in NavPages \cup {Learn}, NEW by, NEW full, NEW same, Request(path, by, full, same),
         by \in Promised /\ same /\ Agreed(by) => Redirects(path, at.path, full, orgPermissions) = {}
  PROVE  NavInv'
<1>1. /\ at' = at /\ shell' = shell /\ fresh' = fresh /\ UNCHANGED access
      /\ req' = [to |-> path, asked |-> path, by |-> by, full |-> full, same |-> same]
  BY DEF Request
<1>2. orgPermissions' = orgPermissions /\ (Agreed(by)' <=> Agreed(by))
  BY <1>1, AccessKept
<1>3. Told' /\ ShellStands' /\ PageStands'
  BY <1>1, <1>2 DEF NavInv, Told, ShellStands, PageStands
<1>4. RequestStands'
  BY <1>1, <1>2 DEF RequestStands
<1> QED BY <1>3, <1>4 DEF NavInv

LEMMA ArriveKeeps == NavInv /\ SelectOrg => NavInv'
<1> SUFFICES ASSUME NavInv, SelectOrg PROVE NavInv'
  OBVIOUS
<1>1. ASSUME Agreed("arrive") PROVE Redirects(destinationFor, at.path, FALSE, orgPermissions) = {}
  <2>1. CASE hasAdminSurface(Effective)
    <3>1. destinationFor = Home
      BY <2>1 DEF destinationFor, landingPathFor
    <3>2. hasAdminSurface(orgPermissions)
      BY <1>1, <2>1 DEF Agreed
    <3> QED BY <3>1, <3>2, HomeOpens, OpenRenders
  <2>2. CASE ~hasAdminSurface(Effective)
    <3>1. destinationFor = Learn
      BY <2>2 DEF destinationFor, landingPathFor
    <3>2. ~Within(Learn, Home)
      BY LearnIs, WithinHome
    <3> QED BY <3>1, <3>2, LearnOpens, OpenRenders
  <2> QED BY <2>1, <2>2
<1>2. Request(destinationFor, "arrive", FALSE, TRUE) /\ destinationFor \in NavPages \cup {Learn}
  BY DEF SelectOrg, destinationFor, landingPathFor, NavPages
<1> QED BY <1>1, <1>2, RequestKeeps

LEMMA LinkKeeps ==
  ASSUME NavInv, NEW by \in {"link", "create", "knowledge"}, FollowLink(by) PROVE NavInv'
<1>1. PICK path \in OfferedLinks(by, shell[1]) : Request(path, by, FALSE, fresh.shell)
  BY DEF FollowLink
<1>2. Within(at.path, Home)
  BY DEF FollowLink, NavInv, ShellStands
<1>4. path \in NavPages \cup {Learn}
  BY <1>1, OfferedPages DEF OfferedLinks, createActions
<1>3. ASSUME Agreed(by), fresh.shell PROVE Redirects(path, at.path, FALSE, orgPermissions) = {}
  <2>1. shell[1] = orgPermissions /\ Coherent(orgPermissions)
    BY <1>3 DEF NavInv, ShellStands, Agreed
  <2>2. CASE by = "link"
    BY <1>1, <2>1, <2>2, ShellOpens, <1>2, OpenRenders DEF OfferedLinks
  <2>3. CASE by = "create"
    <3>1. path \in createActions(orgPermissions)
      BY <1>1, <2>1, <2>3 DEF OfferedLinks, createActions
    <3> QED BY <2>1, <3>1, ActionsOpen, <1>2, OpenRenders
  <2>4. CASE by = "knowledge"
    BY <1>1, <2>1, <2>4, DetailsOpen, <1>2, OpenRenders DEF OfferedLinks
  <2> QED BY <2>2, <2>3, <2>4
<1> QED BY <1>1, <1>3, <1>4, RequestKeeps

LEMMA ActionKeeps == NavInv /\ FollowAction => NavInv'
<1> SUFFICES ASSUME NavInv, FollowAction PROVE NavInv'
  OBVIOUS
<1>1. PICK path \in createActions(at.held) : Request(path, "action", FALSE, fresh.page)
  BY DEF FollowAction
<1>2. at.path = Home /\ Within(at.path, Home)
  BY HomeIs, WithinHome DEF FollowAction
<1>3. ASSUME Agreed("action"), fresh.page PROVE Redirects(path, at.path, FALSE, orgPermissions) = {}
  <2>1. at.held = orgPermissions /\ Coherent(orgPermissions)
    BY <1>2, <1>3 DEF NavInv, PageStands, Agreed
  <2>2. OpenTo(path, orgPermissions)
    BY <1>1, <2>1, ActionsOpen
  <2> QED BY <1>2, <2>2, OpenRenders
<1>4. path \in NavPages \cup {Learn}
  BY <1>1, OfferedPages
<1> QED BY <1>1, <1>3, <1>4, RequestKeeps

LEMMA EnterKeeps == NavInv /\ LoadPage => NavInv'
<1> SUFFICES ASSUME NavInv, LoadPage PROVE NavInv'
  OBVIOUS
<1>1. PICK path \in NavPages \cup {Learn} : Request(path, "load", TRUE, TRUE)
  BY DEF LoadPage
<1>2. "load" \notin Promised
  BY DEF Promised
<1> QED BY <1>1, <1>2, RequestKeeps

LEMMA LeaveKeeps == NavInv /\ LeaveToSelect => NavInv'
<1> SUFFICES ASSUME NavInv, LeaveToSelect PROVE NavInv'
  OBVIOUS
<1>1. /\ at' = [path |-> Outside, by |-> "none", asTold |-> TRUE, agreed |-> TRUE, held |-> {}] /\ shell' = << >>
      /\ fresh' = [shell |-> FALSE, page |-> FALSE] /\ req' = req /\ req.by = "none"
  BY DEF LeaveToSelect
<1>2. Told' /\ ShellStands' /\ PageStands'
  BY <1>1 DEF Told, ShellStands, PageStands
<1>3. RequestStands'
  BY <1>1 DEF NavInv, RequestStands, Promised
<1> QED BY <1>2, <1>3 DEF NavInv

LEMMA RedirectKeeps == NavInv /\ Redirected => NavInv'
<1> SUFFICES ASSUME NavInv, Redirected PROVE NavInv'
  OBVIOUS
<1>1. PICK path : /\ path \in Redirects(req.to, at.path, req.full, orgPermissions)
                  /\ req' = [req EXCEPT !.to = path]
  BY DEF Redirected
<1>2. at' = at /\ shell' = shell /\ fresh' = fresh /\ orgPermissions' = orgPermissions
  BY AccessKept DEF Redirected
<1>3. ~(req.by \in Promised /\ req.same /\ Agreed(req.by))
  BY <1>1 DEF NavInv, RequestStands
<1>7. path \in NavPages \cup {Learn}
  BY <1>1 DEF Redirects, requirePermission, DomainLanding, NavPages
<1>4. req' = [to |-> path, asked |-> req.asked, by |-> req.by, full |-> req.full, same |-> req.same]
  BY <1>1 DEF NavInv, RequestStands
<1>5. Told' /\ ShellStands' /\ PageStands'
  BY <1>2 DEF NavInv, Told, ShellStands, PageStands
<1>6. RequestStands'
  <2>1. Agreed(req.by)' <=> Agreed(req.by)
    <3>1. \A by : Agreed(by)' <=> Agreed(by)
      BY AccessKept DEF Redirected
    <3>2. req'.by = req.by
      BY <1>4
    <3> QED BY <3>1, <3>2 DEF Agreed
  <2> QED BY <1>3, <1>4, <1>7, <2>1 DEF RequestStands
<1> QED BY <1>5, <1>6 DEF NavInv

LEMMA RenderKeeps == NavInv /\ Rendered => NavInv'
<1> SUFFICES ASSUME NavInv, Rendered PROVE NavInv'
  OBVIOUS
<1> DEFINE runs == LayoutRuns(Home, req.to, at.path, req.full)
<1>1. /\ at' = [path |-> req.to, by |-> req.by, asTold |-> req.same => req.to = req.asked,
                agreed |-> Agreed(req.by), held |-> IF req.to = Home THEN orgPermissions ELSE {}]
      /\ shell' = IF ~Within(req.to, Home) THEN << >>
                  ELSE IF runs THEN << orgPermissions >> ELSE shell
      /\ fresh' = [shell |-> Within(req.to, Home) /\ (runs \/ fresh.shell), page |-> TRUE]
      /\ req' = NoRequest /\ orgPermissions' = orgPermissions
  BY AccessKept DEF Rendered
<1> HIDE DEF runs
<1>2. Told'
  <2>1. /\ at'.by = req.by /\ (at'.asTold <=> (req.same => req.to = req.asked))
        /\ at'.agreed <=> Agreed(req.by)
    BY <1>1
  <2> QED BY <2>1 DEF NavInv, RequestStands, Told
<1>3. ShellStands'
  <2>1. shell' # << >> => at'.path \in NavPages /\ Within(at'.path, Home)
    <3>1. req.to \in NavPages \cup {Learn}
      BY DEF Rendered, NavInv, RequestStands
    <3> QED BY <1>1, <3>1, LearnOpens
  <2>2. ASSUME fresh'.shell
        PROVE  shell' = << orgPermissions >> /\ PageNeeds(at'.path) \subseteq orgPermissions
    <3>1. Within(req.to, Home) /\ (runs \/ fresh.shell)
      BY <1>1, <2>2
    <3>2. PageNeeds(req.to) \subseteq orgPermissions
      BY DEF Rendered, Redirects, requirePermission
    <3> QED BY <1>1, <3>1, <3>2 DEF NavInv, ShellStands
  <2> QED BY <1>1, <2>1, <2>2 DEF ShellStands
<1>4. PageStands'
  BY <1>1 DEF PageStands
<1>5. RequestStands'
  BY <1>1 DEF RequestStands, NoRequest, Promised
<1> QED BY <1>2, <1>3, <1>4, <1>5 DEF NavInv

LEMMA NavInvStays == NavInv /\ [NavNext]_navVars => NavInv'
<1>1. ASSUME NavInv, NavNext PROVE NavInv'
  BY <1>1, AccessKeeps, ArriveKeeps, LeaveKeeps, LinkKeeps, ActionKeeps, EnterKeeps,
     RedirectKeeps, RenderKeeps DEF NavNext
<1>2. ASSUME NavInv, UNCHANGED navVars PROVE NavInv'
  <2>1. UNCHANGED << seats, disabled, orgStatus, at, shell, fresh, req >>
    BY <1>2 DEF navVars
  <2>2. orgPermissions' = orgPermissions /\ (Agreed(req.by)' <=> Agreed(req.by))
    <3>1. \A by : Agreed(by)' <=> Agreed(by)
      BY <2>1, AccessKept DEF access
    <3> QED BY <2>1, <3>1, AccessKept DEF access
  <2> QED BY <1>2, <2>1, <2>2 DEF NavInv, Told, ShellStands, PageStands, RequestStands
<1> QED BY <1>1, <1>2

LEMMA CrumbsStand == NavInv => CrumbsOrient
<1> SUFFICES ASSUME NavInv, shell # << >>, NEW title \in Titles, NEW t \in Terms, NEW word \in Words
             PROVE  Oriented(shell[1], at.path, fresh.shell, title, t, word)
  BY DEF CrumbsOrient, Oriented
<1>1. at.path \in NavPages /\ Within(at.path, Home)
  BY DEF NavInv, ShellStands
<1>2. fresh.shell => PageNeeds(at.path) \subseteq shell[1]
  BY DEF NavInv, ShellStands
<1> QED BY <1>1, <1>2, PlaceOriented

\* Wherever a member is, the trail leads back (CrumbsOrient): whatever roles the
\* organization makes, whatever it calls its terms and its content, however
\* access changes and whatever is redirected.
THEOREM TrailsAlwaysOrient == NavSpec => []CrumbsOrient
<1>1. NavInv => CrumbsOrient
  BY CrumbsStand
<1> QED BY <1>1, NavInvInit, NavInvStays, PTL DEF NavSpec

\* Whatever roles an organization makes: what the shell, the palette and Home
\* offer opens for every member but those who make assessments or keep sources
\* without seeing drafts; who is sent to the workspace after signing in stays there
\* but when a suspension takes all places away; and a trail orients (LinksOpen,
\* LandingAgrees, CrumbsOrient).
THEOREM WayAlwaysKnown == NavSpec => []WayAround
<1>1. NavInv => WayAround
  BY CrumbsStand DEF NavInv, Told, Promised, LinksOpen, LandingAgrees, WayAround
<1> QED BY <1>1, NavInvInit, NavInvStays, PTL DEF NavSpec

-----------------------------------------------------------------------------
(* Overview and Insights                                                   *)

Fields == {"page", "learner", "pending", "second", "got", "alone", "steady", "failed", "seen"}

\* The statements of the page under way that were sent.
Sent == FirstWave(load.page) \cup (IF load.second THEN SecondWave(load.page) ELSE {})

\* No part of what an Overview would say of its rows was never so.
DraftRows(rows) == { c \in Courses : << c, "draft" >> \in rows }
Overheard ==
  /\ Counted("reviews", load.got["reviews"]) \subseteq load.seen
  /\ Counted("drafts", DraftRows(load.got["courses"])) \subseteq load.seen
  /\ DraftRows(load.got["courses"]) = {} => Counted("healthy", load.got["courses"]) \subseteq load.seen
  /\ load.learner /\ load.got["feedback"] # {} => << "feedback" >> \in load.seen

\* What it saw no rows of was absent then, if the statement was answered.
Absent ==
  /\ "courses" \notin load.pending /\ load.got["courses"] = {} => << "nocourses" >> \in load.seen
  /\ "reviews" \notin load.pending /\ load.got["reviews"] = {} /\ ReviewLimit > 0
       => << "noreviews" >> \in load.seen
  /\ load.learner /\ load.steady /\ "feedback" \notin load.pending /\ load.got["feedback"] = {}
       => << "nofeedback" >> \in load.seen

LoadInv ==
  load # NoLoad =>
    /\ DOMAIN load = Fields /\ DOMAIN load.got = Queries
    /\ load.page \in {"report", "overview"} /\ load.learner \in BOOLEAN
    /\ load.alone \in BOOLEAN /\ load.failed \in BOOLEAN /\ load.second \in BOOLEAN
    /\ load.steady \in BOOLEAN
    /\ load.pending \subseteq Sent
    /\ Glimpses(world, load.learner) \subseteq load.seen
    /\ load.page = "overview" => Overheard
    /\ load.page = "overview" /\ ~load.failed => Absent
    /\ load.alone \/ load.steady => load.learner = analyst
    /\ load.alone /\ ~load.failed =>
         \A q \in Sent \ load.pending : load.got[q] \in ReadRows(load.page, world, q)

\* What is kept for readers without analytics.view has no learners' part.
CacheInv ==
  /\ DOMAIN cache = {"base", "learner"}
  /\ cache["base"] # << >> => \A x \in cache["base"][1] : x[1] # "stalled"

PagesInv == world \in World /\ analyst \in BOOLEAN /\ LoadInv /\ CacheInv

-----------------------------------------------------------------------------
LEMMA QueriesAre ==
  Queries = {"courses", "journeys", "nodes", "prereqs", "assignments", "reviews", "activity",
             "feedback", "enrollments", "memberships"}
BY DEF Queries, FirstWave, SecondWave

LEMMA ChangedStays ==
  ASSUME NEW w \in World
  PROVE  Changed(w) \subseteq World
<1>0. ASSUME NEW S, NEW T \in SUBSET S, NEW x \in S
      PROVE  Toggled(T, x) \in SUBSET S
  BY <1>0 DEF Toggled
<1>1. ASSUME NEW c \in Courses, NEW s \in {"draft", "live", "retired"}
      PROVE  [w EXCEPT !.state[c] = s] \in World
  BY <1>1 DEF World
<1>2. ASSUME NEW T \in SUBSET Paths PROVE [w EXCEPT !.journeys = T] \in World
  BY <1>2 DEF World
<1>3. ASSUME NEW T \in SUBSET (Paths \X Courses) PROVE [w EXCEPT !.nodes = T] \in World
  BY <1>3 DEF World
<1>4. ASSUME NEW T \in SUBSET (Paths \X Courses), NEW R \in SUBSET (Paths \X Courses \X Courses)
      PROVE  [w EXCEPT !.nodes = T, !.requires = R] \in World
  BY <1>4 DEF World
<1>5. ASSUME NEW R \in SUBSET (Paths \X Courses \X Courses) PROVE [w EXCEPT !.requires = R] \in World
  BY <1>5 DEF World
<1>6. ASSUME NEW T \in SUBSET Courses
      PROVE  [w EXCEPT !.assigned = T] \in World /\ [w EXCEPT !.reviews = T] \in World
  BY <1>6 DEF World
<1>7. [w EXCEPT !.feedback = ~w.feedback] \in World
  BY DEF World
<1>8. ASSUME NEW l \in Learners, NEW s \in {"active", "completed"}
      PROVE  [w EXCEPT !.enrolled[l] = s] \in World
  BY <1>8 DEF World
<1>9. ASSUME NEW T \in SUBSET Learners PROVE [w EXCEPT !.recent = T] \in World
  BY <1>9 DEF World
<1>10. /\ w.journeys \in SUBSET Paths /\ w.nodes \in SUBSET (Paths \X Courses)
       /\ w.requires \in SUBSET (Paths \X Courses \X Courses) /\ w.assigned \in SUBSET Courses
       /\ w.reviews \in SUBSET Courses /\ w.recent \in SUBSET Learners
  BY DEF World
<1>11. Possible(w) \subseteq Paths \X Courses \X Courses
  BY DEF Possible
<1>12. \A p \in Paths : [w EXCEPT !.journeys = Toggled(w.journeys, p)] \in World
  BY <1>0, <1>2, <1>10
<1>13. \A n \in Paths \X Courses : [w EXCEPT !.nodes = w.nodes \cup {n}] \in World
  BY <1>3, <1>10
<1>14. ASSUME NEW n \in w.nodes
       PROVE  [w EXCEPT !.nodes = w.nodes \ {n},
                 !.requires = { r \in w.requires : n \notin {<< r[1], r[2] >>, << r[1], r[3] >>} }] \in World
  <2>1. w.nodes \ {n} \in SUBSET (Paths \X Courses)
    BY <1>10
  <2> DEFINE R == { r \in w.requires : n \notin {<< r[1], r[2] >>, << r[1], r[3] >>} }
  <2>2. R \in SUBSET (Paths \X Courses \X Courses)
    BY <1>10
  <2> HIDE DEF R
  <2>3. [w EXCEPT !.nodes = w.nodes \ {n}, !.requires = R] \in World
    BY <1>4, <2>1, <2>2
  <2> QED BY <2>3 DEF R
<1>15. ASSUME NEW r \in Possible(w) PROVE [w EXCEPT !.requires = Toggled(w.requires, r)] \in World
  <2>1. Toggled(w.requires, r) \in SUBSET (Paths \X Courses \X Courses)
    BY <1>10, <1>11 DEF Toggled
  <2> QED BY <1>5, <2>1
<1>16. \A c \in Courses : /\ [w EXCEPT !.assigned = Toggled(w.assigned, c)] \in World
                          /\ [w EXCEPT !.reviews = Toggled(w.reviews, c)] \in World
  BY <1>0, <1>6, <1>10
<1>17. \A l \in Learners : [w EXCEPT !.recent = Toggled(w.recent, l)] \in World
  BY <1>0, <1>9, <1>10
<1>18. ASSUME NEW v \in Rebuilt(w) PROVE v \in World
  <2>1. CASE \E x \in Courses \X {"draft", "live", "retired"} : v = [w EXCEPT !.state[x[1]] = x[2]]
    <3>1. PICK x \in Courses \X {"draft", "live", "retired"} : v = [w EXCEPT !.state[x[1]] = x[2]]
      BY <2>1
    <3>2. x[1] \in Courses /\ x[2] \in {"draft", "live", "retired"}
      OBVIOUS
    <3> QED BY <1>1, <3>1, <3>2
  <2>2. CASE \E p \in Paths : v = [w EXCEPT !.journeys = Toggled(w.journeys, p)]
    BY <1>12, <2>2
  <2>3. CASE \E n \in Paths \X Courses : v = [w EXCEPT !.nodes = w.nodes \cup {n}]
    BY <1>13, <2>3
  <2>4. CASE \E n \in w.nodes :
               v = [w EXCEPT !.nodes = w.nodes \ {n},
                      !.requires = { r \in w.requires : n \notin {<< r[1], r[2] >>, << r[1], r[3] >>} }]
    BY <1>14, <2>4
  <2>5. CASE \E r \in Possible(w) : v = [w EXCEPT !.requires = Toggled(w.requires, r)]
    BY <1>15, <2>5
  <2> QED BY <1>18, <2>1, <2>2, <2>3, <2>4, <2>5, Zenon DEF Rebuilt
<1>19. ASSUME NEW v \in Engaged(w) PROVE v \in World
  <2>1. CASE \E c \in Courses : v = [w EXCEPT !.assigned = Toggled(w.assigned, c)]
    BY <1>16, <2>1
  <2>2. CASE \E c \in Courses : v = [w EXCEPT !.reviews = Toggled(w.reviews, c)]
    BY <1>16, <2>2
  <2>3. CASE v = [w EXCEPT !.feedback = ~w.feedback]
    BY <1>7, <2>3
  <2>4. CASE \E x \in Learners \X {"active", "completed"} : v = [w EXCEPT !.enrolled[x[1]] = x[2]]
    <3>1. PICK x \in Learners \X {"active", "completed"} : v = [w EXCEPT !.enrolled[x[1]] = x[2]]
      BY <2>4
    <3>2. x[1] \in Learners /\ x[2] \in {"active", "completed"}
      OBVIOUS
    <3> QED BY <1>8, <3>1, <3>2
  <2>5. CASE \E l \in Learners : v = [w EXCEPT !.recent = Toggled(w.recent, l)]
    BY <1>17, <2>5
  <2> QED BY <1>19, <2>1, <2>2, <2>3, <2>4, <2>5, Zenon DEF Engaged
<1> QED BY <1>18, <1>19 DEF Changed

\* Rows that name each element of a set once are as many as the set.
LEMMA AsManyRows ==
  ASSUME NEW E, IsFiniteSet(E), NEW T, NEW value,
         T = { << x, value[x] >> : x \in E }
  PROVE  Cardinality(T) = Cardinality(E)
<1> DEFINE f == [x \in E |-> << x, value[x] >>]
<1>1. f \in [E -> T]
  OBVIOUS
<1>2. \A x, y \in E : f[x] = f[y] => x = y
  OBVIOUS
<1>3. \A t \in T : \E x \in E : f[x] = t
  OBVIOUS
<1> HIDE DEF f
<1>4. f \in Bijection(E, T)
  BY <1>1, <1>2, <1>3, Fun_IsBij
<1> QED BY <1>4, FS_Bijection DEF ExistsBijection

\* What is written of courses the reader gets as rows.
LEMMA CourseRows ==
  ASSUME world \in World
  PROVE  /\ DraftRows(Rows(world, "courses")) = Drafts(world)
         /\ Rows(world, "courses") = {} <=> Kept(world) = {}
         /\ Cardinality(Rows(world, "courses")) = Cardinality(Kept(world))
         /\ IsFiniteSet(Kept(world))
<1>1. Rows(world, "courses") = { << c, world.state[c] >> : c \in Kept(world) }
  BY DEF Rows
<1>2. IsFiniteSet(Kept(world))
  BY InsightsAssumption, FS_Subset DEF Kept
<1>3. Cardinality(Rows(world, "courses")) = Cardinality(Kept(world))
  BY <1>1, <1>2, AsManyRows
<1>4. DraftRows(Rows(world, "courses")) = Drafts(world)
  BY <1>1 DEF World, Kept, Live, Drafts, DraftRows
<1> QED BY <1>1, <1>2, <1>3, <1>4

\* Some of the open reviews: as many as the statement asks for, or all of them.
LEMMA ReviewAnswers ==
  ASSUME world \in World, NEW rows \in ReadRows("overview", world, "reviews")
  PROVE  /\ rows # {} => Cardinality(rows) \in 1..Cardinality(world.reviews)
         /\ rows = {} /\ ReviewLimit > 0 => world.reviews = {}
<1>1. Rows(world, "reviews") = world.reviews
  BY DEF Rows
<1>2. Limit("reviews") = ReviewLimit /\ ReviewLimit \in Nat
  BY InsightsAssumption DEF Limit
<1>3. rows \subseteq world.reviews /\ world.reviews \subseteq Courses
  BY <1>1 DEF ReadRows, World
<1>4. IsFiniteSet(world.reviews) /\ IsFiniteSet(rows)
  BY <1>3, InsightsAssumption, FS_Subset
<1>5. /\ Cardinality(rows) \in Nat /\ Cardinality(world.reviews) \in Nat
      /\ Cardinality(rows) <= Cardinality(world.reviews)
      /\ rows = {} <=> Cardinality(rows) = 0
  BY <1>3, <1>4, FS_CardinalityType, FS_Subset, FS_EmptySet
<1>6. rows = world.reviews \/ Cardinality(rows) = ReviewLimit
  BY <1>1, <1>2 DEF ReadRows
<1> QED BY <1>2, <1>5, <1>6

\* What one statement of an Overview tells, if it is answered.
LEMMA RowsTell ==
  ASSUME PagesInv, NEW learner \in BOOLEAN, NEW q, NEW rows \in ReadRows("overview", world, q)
  PROVE  /\ q = "reviews" =>
              /\ Counted("reviews", rows) \subseteq Glimpses(world, learner)
              /\ rows = {} /\ ReviewLimit > 0 => << "noreviews" >> \in Glimpses(world, learner)
         /\ q = "courses" =>
              /\ Counted("drafts", DraftRows(rows)) \subseteq Glimpses(world, learner)
              /\ DraftRows(rows) = {} => Counted("healthy", rows) \subseteq Glimpses(world, learner)
              /\ rows = {} => << "nocourses" >> \in Glimpses(world, learner)
         /\ q = "feedback" =>
              /\ learner /\ rows # {} => << "feedback" >> \in Glimpses(world, learner)
              /\ analyst /\ rows = {} => << "nofeedback" >> \in Glimpses(world, learner)
<1>1. world \in World
  BY DEF PagesInv
<1>2. CASE q = "reviews"
  BY <1>1, <1>2, ReviewAnswers DEF Glimpses, Counted
<1>3. CASE q = "courses"
  <2>1. rows = Rows(world, "courses")
    BY <1>3 DEF ReadRows, Cut, Limited
  <2>2. Counted("drafts", DraftRows(rows)) \subseteq Glimpses(world, learner)
    BY <1>1, <2>1, CourseRows DEF Glimpses
  <2>3. Counted("healthy", rows) = Counted("healthy", Kept(world))
    BY <1>1, <2>1, CourseRows DEF Counted
  <2>4. DraftRows(rows) = {} => Counted("healthy", rows) \subseteq Glimpses(world, learner)
    BY <1>1, <2>1, <2>3, CourseRows DEF Glimpses
  <2>5. rows = {} => << "nocourses" >> \in Glimpses(world, learner)
    BY <1>1, <2>1, CourseRows DEF Glimpses
  <2> QED BY <1>3, <2>2, <2>4, <2>5
<1>4. CASE q = "feedback"
  <2>1. rows = { f \in {"open"} : analyst /\ world.feedback } /\ world.feedback \in BOOLEAN
    BY <1>1, <1>4 DEF ReadRows, Cut, Limited, Rows, World
  <2> QED BY <1>4, <2>1 DEF Glimpses
<1> QED BY <1>2, <1>3, <1>4

LEMMA InitPages == InsightsInit => PagesInv
BY InsightsAssumption DEF InsightsInit, PagesInv, LoadInv, CacheInv

LEMMA LoadKeeps ==
  ASSUME LoadInv, UNCHANGED << world, analyst, load >>
  PROVE  LoadInv'
<1>1. \A q : ReadRows(load.page, world, q)' = ReadRows(load.page, world, q)
  BY DEF Rows, ReadRows, Cut
<1>2. Sent' = Sent /\ Overheard' = Overheard /\ Absent' = Absent
  BY DEF Sent, Overheard, Absent
<1> QED BY <1>1, <1>2 DEF LoadInv

LEMMA ChangeKeeps ==
  ASSUME PagesInv, Change
  PROVE  PagesInv'
<1>1. PICK w \in Changed(world) \ {world} :
        /\ world' = w
        /\ load' = IF load = NoLoad THEN NoLoad
                   ELSE [load EXCEPT !.alone = FALSE, !.seen = @ \cup Glimpses(w, load.learner)]
  BY DEF Change
<1>2. world' \in World /\ analyst' \in BOOLEAN
  BY <1>1, ChangedStays DEF PagesInv, Change
<1>3. CacheInv'
  <2>1. cache' = cache \/ cache' = [v \in DOMAIN cache |-> << >>]
    BY DEF Change
  <2> QED BY <2>1 DEF CacheInv, PagesInv
<1>4. LoadInv'
  <2> SUFFICES ASSUME load' # NoLoad PROVE LoadInv'
    BY DEF LoadInv
  <2>1. load # NoLoad /\ load' = [load EXCEPT !.alone = FALSE,
                                          !.seen = @ \cup Glimpses(w, load.learner)]
    BY <1>1
  <2>2. DOMAIN load = Fields /\ DOMAIN load.got = Queries
    BY <2>1 DEF LoadInv, PagesInv
  <2>3. /\ load'.page = load.page /\ load'.learner = load.learner /\ load'.pending = load.pending
        /\ load'.second = load.second /\ load'.got = load.got /\ load'.failed = load.failed
        /\ load'.alone = FALSE /\ load'.steady = load.steady
        /\ load'.seen = load.seen \cup Glimpses(world', load.learner)
        /\ DOMAIN load' = Fields
    BY <1>1, <2>1, <2>2 DEF Fields
  <2>4. Sent' = Sent
    BY <2>3 DEF Sent
  <2>5. analyst' = analyst
    BY DEF Change
  <2>6. (load.page = "overview" => Overheard') /\ (load.page = "overview" /\ ~load.failed => Absent')
    BY <2>1, <2>3 DEF LoadInv, PagesInv, Overheard, Absent
  <2> QED BY <2>1, <2>2, <2>3, <2>4, <2>5, <2>6 DEF LoadInv, PagesInv
<1> QED BY <1>2, <1>3, <1>4 DEF PagesInv

LEMMA GrantKeeps ==
  ASSUME PagesInv, Grant
  PROVE  PagesInv'
<1>1. /\ world' = world /\ cache' = cache /\ analyst' = ~analyst
      /\ load' = IF load = NoLoad THEN NoLoad ELSE [load EXCEPT !.alone = FALSE, !.steady = FALSE]
  BY DEF Grant
<1>2. LoadInv'
  <2> SUFFICES ASSUME load' # NoLoad PROVE LoadInv'
    BY DEF LoadInv
  <2>1. load # NoLoad /\ load' = [load EXCEPT !.alone = FALSE, !.steady = FALSE]
    BY <1>1
  <2>2. DOMAIN load = Fields /\ DOMAIN load.got = Queries
    BY <2>1 DEF LoadInv, PagesInv
  <2>3. /\ load'.page = load.page /\ load'.learner = load.learner /\ load'.pending = load.pending
        /\ load'.second = load.second /\ load'.got = load.got /\ load'.failed = load.failed
        /\ load'.alone = FALSE /\ load'.steady = FALSE /\ load'.seen = load.seen
        /\ DOMAIN load' = Fields
    BY <2>1, <2>2 DEF Fields
  <2>4. Sent' = Sent
    BY <2>3 DEF Sent
  <2>5. (load.page = "overview" => Overheard') /\ (load.page = "overview" /\ ~load.failed => Absent')
    BY <2>1, <2>3 DEF LoadInv, PagesInv, Overheard, Absent
  <2> QED BY <1>1, <2>1, <2>2, <2>3, <2>4, <2>5 DEF LoadInv, PagesInv
<1> QED BY <1>1, <1>2 DEF PagesInv, CacheInv

LEMMA SendKeeps ==
  ASSUME PagesInv, NEW which \in {"report", "overview"}, Send(which),
         UNCHANGED << world, analyst, cache >>
  PROVE  PagesInv'
<1>1. /\ load'.page = which /\ load'.learner = analyst /\ load'.pending = FirstWave(which)
      /\ load'.second = FALSE /\ load'.got = [q \in Queries |-> {}] /\ load'.alone = TRUE
      /\ load'.failed = FALSE /\ load'.steady = TRUE /\ load'.seen = Glimpses(world, analyst)
      /\ DOMAIN load' = Fields
  BY DEF Send, Fields
<1>2. Sent' = FirstWave(which)
  BY <1>1 DEF Sent
<1>3. {"reviews", "courses", "feedback"} \subseteq Queries
  BY QueriesAre
<1>4. \A q \in Queries : load'.got[q] = {}
  BY <1>1
<1>5. Overheard'
  BY <1>1, <1>3, <1>4 DEF Overheard, Counted, DraftRows
<1>6. which = "overview" => Absent'
  BY <1>1 DEF Absent, FirstWave
<1>7. LoadInv'
  BY <1>1, <1>2, <1>5, <1>6 DEF LoadInv, PagesInv
<1> QED BY <1>7 DEF PagesInv, CacheInv

LEMMA TakenKeeps ==
  ASSUME PagesInv, load # NoLoad, NEW q \in load.pending, NEW rows, NEW failed \in BOOLEAN,
         load' = [load EXCEPT !.pending = @ \ {q}, !.got[q] = rows, !.failed = failed],
         rows \in ReadRows(load.page, world, q) \cup {{}},
         ~failed => ~load.failed /\ rows \in ReadRows(load.page, world, q),
         UNCHANGED << world, analyst, cache >>
  PROVE  PagesInv'
<1>1. DOMAIN load = Fields /\ DOMAIN load.got = Queries /\ load.page \in {"report", "overview"}
      /\ load.second \in BOOLEAN /\ load.learner \in BOOLEAN
      /\ load.pending \subseteq Sent
  BY DEF LoadInv, PagesInv
<1>2. /\ load'.page = load.page /\ load'.learner = load.learner
      /\ load'.pending = load.pending \ {q}
      /\ load'.second = load.second /\ load'.got = [load.got EXCEPT ![q] = rows]
      /\ load'.failed = failed /\ load'.steady = load.steady
      /\ load'.alone = load.alone /\ load'.seen = load.seen /\ DOMAIN load' = Fields
  BY <1>1 DEF Fields
<1>3. Sent' = Sent /\ Sent \subseteq Queries
  BY <1>1, <1>2 DEF Sent, Queries
<1>4. \A r \in Queries : load'.got[r] = IF r = q THEN rows ELSE load.got[r]
  BY <1>1, <1>2, <1>3
<1>5. {"reviews", "courses", "feedback"} \subseteq Queries
  BY QueriesAre
<1>6. Glimpses(world, load.learner) \subseteq load.seen
  BY DEF LoadInv, PagesInv
<1>7. load.page = "overview" => Overheard'
  <2> SUFFICES ASSUME load.page = "overview" PROVE Overheard'
    OBVIOUS
  <2>1. Overheard
    BY DEF LoadInv, PagesInv
  <2>2. Counted("reviews", load'.got["reviews"]) \subseteq load'.seen
    BY <1>1, <1>2, <1>4, <1>5, <1>6, <2>1, RowsTell DEF Overheard, Counted
  <2>3. /\ Counted("drafts", DraftRows(load'.got["courses"])) \subseteq load'.seen
        /\ DraftRows(load'.got["courses"]) = {} => Counted("healthy", load'.got["courses"]) \subseteq load'.seen
    <3>1. CASE load'.got["courses"] = {}
      BY <3>1, <1>2 DEF Counted, DraftRows
    <3>2. CASE load'.got["courses"] = load.got["courses"]
      BY <3>2, <1>2, <2>1 DEF Overheard
    <3>3. CASE q = "courses" /\ load'.got["courses"] \in ReadRows("overview", world, "courses")
      BY <3>3, <1>1, <1>2, <1>6, RowsTell
    <3> QED BY <3>1, <3>2, <3>3, <1>4, <1>5
  <2>4. load'.learner /\ load'.got["feedback"] # {} => << "feedback" >> \in load'.seen
    <3>1. CASE load'.got["feedback"] = load.got["feedback"]
      BY <3>1, <1>2, <2>1 DEF Overheard
    <3>2. CASE q = "feedback" /\ load'.got["feedback"] \in ReadRows("overview", world, "feedback")
      BY <3>2, <1>1, <1>2, <1>6, RowsTell
    <3> QED BY <3>1, <3>2, <1>4, <1>5
  <2> QED BY <2>2, <2>3, <2>4 DEF Overheard
<1>8. load.page = "overview" /\ ~failed => Absent'
  <2> SUFFICES ASSUME load.page = "overview", ~failed PROVE Absent'
    OBVIOUS
  <2>1. Absent /\ rows \in ReadRows("overview", world, q)
    BY DEF LoadInv, PagesInv
  <2>2. "courses" \notin load'.pending /\ load'.got["courses"] = {} => << "nocourses" >> \in load'.seen
    BY <1>1, <1>2, <1>4, <1>5, <1>6, <2>1, RowsTell DEF Absent
  <2>3. "reviews" \notin load'.pending /\ load'.got["reviews"] = {} /\ ReviewLimit > 0
          => << "noreviews" >> \in load'.seen
    BY <1>1, <1>2, <1>4, <1>5, <1>6, <2>1, RowsTell DEF Absent
  <2>4. load'.learner /\ load'.steady /\ "feedback" \notin load'.pending /\ load'.got["feedback"] = {}
          => << "nofeedback" >> \in load'.seen
    <3>1. load.learner /\ load.steady => analyst
      BY DEF LoadInv, PagesInv
    <3>2. CASE q = "feedback"
      <4>1. load'.got["feedback"] = rows /\ rows \in ReadRows("overview", world, "feedback")
        BY <3>2, <1>4, <1>5, <2>1
      <4>2. analyst /\ rows = {} => << "nofeedback" >> \in Glimpses(world, load.learner)
        BY <1>1, <4>1, RowsTell
      <4> QED BY <1>2, <1>6, <3>1, <4>1, <4>2
    <3>3. CASE q # "feedback"
      BY <3>3, <1>2, <1>4, <1>5, <2>1 DEF Absent
    <3> QED BY <3>2, <3>3
  <2> QED BY <2>2, <2>3, <2>4 DEF Absent
<1>9. ASSUME load'.alone, ~load'.failed, NEW r \in Sent' \ load'.pending
      PROVE  load'.got[r] \in ReadRows(load.page, world, r)'
  <2>1. load.alone /\ ~load.failed /\ ~failed /\ rows \in ReadRows(load.page, world, q)
    BY <1>2, <1>9
  <2>2. r = q \/ r \in Sent \ load.pending
    BY <1>2, <1>3, <1>9
  <2>3. ReadRows(load.page, world, r)' = ReadRows(load.page, world, r)
    <3>1. Rows(world, r)' = Rows(world, r)
      BY DEF Rows
    <3> QED BY <1>2, <3>1 DEF ReadRows, Cut
  <2> QED BY <2>1, <2>2, <2>3, <1>3, <1>4 DEF LoadInv, PagesInv
<1>10. LoadInv'
  BY <1>1, <1>2, <1>3, <1>7, <1>8, <1>9 DEF LoadInv, PagesInv
<1> QED BY <1>10 DEF PagesInv, CacheInv

LEMMA MoreKeeps ==
  ASSUME PagesInv, More
  PROVE  PagesInv'
<1>1. /\ load # NoLoad /\ load.pending = {} /\ ~load.second
      /\ load' = [load EXCEPT !.pending = SecondWave(load.page), !.second = TRUE]
      /\ UNCHANGED << world, analyst, cache >>
  BY DEF More
<1>2. DOMAIN load = Fields /\ DOMAIN load.got = Queries
  BY <1>1 DEF LoadInv, PagesInv
<1>3. /\ load'.page = load.page /\ load'.learner = load.learner
      /\ load'.pending = SecondWave(load.page) /\ load'.second = TRUE
      /\ load'.got = load.got /\ load'.failed = load.failed /\ load'.steady = load.steady
      /\ load'.alone = load.alone /\ load'.seen = load.seen /\ DOMAIN load' = Fields
  BY <1>1, <1>2 DEF Fields
<1>4. Sent' = FirstWave(load.page) \cup SecondWave(load.page) /\ Sent = FirstWave(load.page)
  BY <1>1, <1>3 DEF Sent
<1>5. \A q : ReadRows(load.page, world, q)' = ReadRows(load.page, world, q)
  BY <1>1, <1>3 DEF Rows, ReadRows, Cut
<1>6. load.page = "report"
  BY <1>1 DEF More, SecondWave, LoadInv, PagesInv
<1>7. LoadInv'
  BY <1>1, <1>2, <1>3, <1>4, <1>5, <1>6 DEF LoadInv, PagesInv
<1> QED BY <1>1, <1>7 DEF PagesInv, CacheInv

\* Only the learners' part speaks of quiet enrollments.
LEMMA OnlyLearnersStalled ==
  ASSUME NEW got, NEW which, NEW learner, ~learner, NEW x \in Derived(which, got, learner)
  PROVE  x[1] # "stalled"
<1>1. CASE which = "report"
  <2>1. x \in deriveInsights(got, learner) \/ x \in deriveScorecard(got, learner)
    BY <1>1 DEF Derived
  <2> QED BY <2>1 DEF deriveInsights, deriveScorecard, Counted, OrClear
<1>2. CASE which # "report"
  BY <1>2 DEF Derived, deriveOverviewInsights, Concerns, Counted, OrClear
<1> QED BY <1>1, <1>2

LEMMA FinishKeeps ==
  ASSUME PagesInv, Finish
  PROVE  PagesInv'
<1>1. /\ load # NoLoad /\ load' = NoLoad /\ UNCHANGED << world, analyst >>
  BY DEF Finish
<1>2. load.learner \in BOOLEAN
  BY <1>1 DEF LoadInv, PagesInv
<1> DEFINE said == Derived(load.page, load.got, load.learner)
<1>3. cache' = cache \/ cache' = [cache EXCEPT ![Variant(load.learner)] = << said >>]
  BY DEF Finish
<1>4. ~load.learner => \A x \in said : x[1] # "stalled"
  BY OnlyLearnersStalled, <1>2
<1> HIDE DEF said
<1>5. CacheInv'
  BY <1>2, <1>3, <1>4 DEF CacheInv, PagesInv, Variant
<1> QED BY <1>1, <1>5 DEF PagesInv, LoadInv

LEMMA NextPages == PagesInv /\ [InsightsNext]_insightsVars => PagesInv'
<1> SUFFICES ASSUME PagesInv, [InsightsNext]_insightsVars PROVE PagesInv'
  OBVIOUS
<1>1. CASE Change
  BY <1>1, ChangeKeeps
<1>2. CASE Grant
  BY <1>2, GrantKeeps
<1>3. CASE OpenReport
  <2>1. CASE load' = load
    <3>1. LoadInv'
      BY <1>3, <2>1, LoadKeeps DEF OpenReport, PagesInv
    <3> QED BY <1>3, <3>1 DEF OpenReport, PagesInv, CacheInv
  <2>2. CASE Send("report")
    BY <1>3, <2>2, SendKeeps DEF OpenReport
  <2> QED BY <1>3, <2>1, <2>2 DEF OpenReport
<1>4. CASE OpenOverview
  BY <1>4, SendKeeps DEF OpenOverview
<1>5. ASSUME NEW q \in Queries, Receive(q) PROVE PagesInv'
  <2>1. PICK rows \in ReadRows(load.page, world, q) :
          /\ load # NoLoad /\ q \in load.pending /\ UNCHANGED << world, analyst, cache >>
          /\ load' = [load EXCEPT !.pending = @ \ {q}, !.got[q] = rows]
    BY <1>5 DEF Receive, Take
  <2>2. DOMAIN load = Fields /\ load.failed \in BOOLEAN
    BY <2>1 DEF LoadInv, PagesInv
  <2>3. load' = [load EXCEPT !.pending = @ \ {q}, !.got[q] = rows, !.failed = load.failed]
    BY <2>1, <2>2 DEF Fields
  <2> QED BY <2>1, <2>2, <2>3, TakenKeeps
<1>6. ASSUME NEW q \in Queries, NoAnswer(q) PROVE PagesInv'
  BY <1>6, TakenKeeps DEF NoAnswer
<1>7. CASE More
  BY <1>7, MoreKeeps
<1>8. CASE Finish
  BY <1>8, FinishKeeps
<1>9. ASSUME NEW v \in {"base", "learner"}, Expire(v) PROVE PagesInv'
  <2>1. LoadInv'
    BY <1>9, LoadKeeps DEF Expire, PagesInv
  <2> QED BY <1>9, <2>1 DEF Expire, PagesInv, CacheInv
<1>10. CASE UNCHANGED insightsVars
  <2>1. LoadInv'
    BY <1>10, LoadKeeps DEF insightsVars, PagesInv
  <2> QED BY <1>10, <2>1 DEF insightsVars, PagesInv, CacheInv
<1> QED BY <1>1, <1>2, <1>3, <1>4, <1>5, <1>6, <1>7, <1>8, <1>9, <1>10 DEF InsightsNext

-----------------------------------------------------------------------------
(* What a page says                                                        *)

LEMMA FiniteParts ==
  ASSUME world \in World
  PROVE  /\ IsFiniteSet(Kept(world))
         /\ IsFiniteSet({ l \in Learners : world.enrolled[l] # "none" })
         /\ IsFiniteSet({ l \in Learners : world.enrolled[l] = "completed" })
BY InsightsAssumption, FS_Subset DEF Kept

LEMMA ScoresTrue ==
  ASSUME world \in World, NEW got, NEW learner \in BOOLEAN,
         got["courses"] = Rows(world, "courses"), got["journeys"] = Rows(world, "journeys"),
         got["nodes"] = Rows(world, "nodes"), got["prereqs"] = Rows(world, "prereqs"),
         got["assignments"] = Rows(world, "assignments"),
         learner => Overseer /\ got["enrollments"] = Rows(world, "enrollments")
  PROVE  deriveScorecard(got, learner) = ScoresOf(world, learner)
<1>1. got["courses"] = { << c, world.state[c] >> : c \in Kept(world) }
  BY DEF Rows
<1>2. PublishedIds(got) = Live(world)
  BY <1>1 DEF PublishedIds, Live, Kept, World
<1>3. Cardinality(got["courses"]) = Cardinality(Kept(world))
  BY <1>1, FiniteParts, AsManyRows
<1>4. got["journeys"] = world.journeys /\ got["prereqs"] = world.requires
  BY DEF Rows
<1>5. { p \in got["journeys"] : /\ CoursesByPath(got, p) # {}
                               /\ CoursesByPath(got, p) \subseteq PublishedIds(got)
                               /\ ~hasCycle(got["prereqs"], p) }
      = { p \in world.journeys : /\ \E c \in Courses : << p, c >> \in world.nodes
                                /\ ~Incomplete(world, p) /\ ~hasCycle(world.requires, p) }
  BY <1>2, <1>4 DEF CoursesByPath, Rows, Incomplete
<1>6. PublishedIds(got) \cap got["assignments"] = Live(world) \cap world.assigned
  BY <1>2 DEF Rows
<1>7. ASSUME learner
      PROVE  /\ Cardinality(got["enrollments"]) = Cardinality({ l \in Learners : world.enrolled[l] # "none" })
             /\ Cardinality({ x \in got["enrollments"] : x[2] = "completed" })
                = Cardinality({ l \in Learners : world.enrolled[l] = "completed" })
  <2> DEFINE all == { l \in Learners : world.enrolled[l] # "none" }
             finished == { l \in Learners : world.enrolled[l] = "completed" }
  <2>1. got["enrollments"] = { << l, world.enrolled[l] >> : l \in all }
    <3>1. { m \in Learners : world.enrolled[m] # "none" /\ (Overseer \/ m \in Own) } = all
      BY <1>7
    <3>2. Rows(world, "enrollments")
            = { << l, world.enrolled[l] >> :
                l \in { m \in Learners : world.enrolled[m] # "none" /\ (Overseer \/ m \in Own) } }
      BY DEF Rows
    <3> QED BY <1>7, <3>1, <3>2
  <2>2. { x \in got["enrollments"] : x[2] = "completed" } = { << l, world.enrolled[l] >> : l \in finished }
    BY <2>1
  <2>3. IsFiniteSet(all) /\ IsFiniteSet(finished)
    BY FiniteParts
  <2> HIDE DEF all, finished
  <2>4. Cardinality(got["enrollments"]) = Cardinality(all)
    BY <2>1, <2>3, AsManyRows
  <2>5. Cardinality({ x \in got["enrollments"] : x[2] = "completed" }) = Cardinality(finished)
    BY <2>2, <2>3, AsManyRows
  <2> QED BY <2>4, <2>5 DEF all, finished
<1>8. CASE learner
  BY <1>2, <1>3, <1>4, <1>5, <1>6, <1>7, <1>8 DEF deriveScorecard, ScoresOf
<1>9. CASE ~learner
  BY <1>2, <1>3, <1>4, <1>5, <1>6, <1>9 DEF deriveScorecard, ScoresOf
<1> QED BY <1>8, <1>9

LEMMA ObservationsTrue ==
  ASSUME world \in World, NEW got, NEW learner \in BOOLEAN,
         got["courses"] = Rows(world, "courses"), got["journeys"] = Rows(world, "journeys"),
         got["nodes"] = Rows(world, "nodes"), got["prereqs"] = Rows(world, "prereqs"),
         got["assignments"] = Rows(world, "assignments"), got["reviews"] = Rows(world, "reviews"),
         learner => /\ Overseer
                    /\ got["activity"] = world.recent
                    /\ got["enrollments"] = Rows(world, "enrollments")
                    /\ got["memberships"] = Learners
  PROVE  deriveInsights(got, learner) = ObservationsOf(world, learner)
<1>1. PublishedIds(got) = Live(world)
  BY DEF PublishedIds, Live, Kept, World, Rows
<1>2. got["journeys"] = world.journeys /\ got["prereqs"] = world.requires
  BY DEF Rows
<1>3. { q \in got["journeys"] : ~(CoursesByPath(got, q) \subseteq PublishedIds(got)) }
      = { q \in world.journeys : Incomplete(world, q) }
  BY <1>1, <1>2 DEF CoursesByPath, Rows, Incomplete
<1>4. { q \in got["journeys"] : /\ CoursesByPath(got, q) # {}
                               /\ CoursesByPath(got, q) \cap got["assignments"] = {} }
      = { q \in world.journeys : Unvalidated(world, q) }
  BY <1>2 DEF CoursesByPath, Rows, Unvalidated, World
<1>5. PublishedIds(got) \ InJourney(got) = Lonely(world)
  BY <1>1 DEF InJourney, Lonely, Rows, Live
<1>6. got["reviews"] = world.reviews
  BY DEF Rows
<1>7. ASSUME learner PROVE Quiet(got) = { l \in QuietLearners(world) : learner }
  <2>1. \A l \in Learners : << l, "active" >> \in got["enrollments"] <=> world.enrolled[l] = "active"
    BY <1>7 DEF Rows
  <2> QED BY <1>7, <2>1 DEF Quiet, QuietLearners, World
<1>8. CASE learner
  BY <1>2, <1>3, <1>4, <1>5, <1>6, <1>7, <1>8 DEF deriveInsights, ObservationsOf
<1>9. CASE ~learner
  <2>1. Counted("stalled", { l \in QuietLearners(world) : learner }) = {}
    BY <1>9 DEF Counted
  <2> QED BY <1>2, <1>3, <1>4, <1>5, <1>6, <1>9, <2>1 DEF deriveInsights, ObservationsOf
<1> QED BY <1>8, <1>9

LEMMA OverviewTrue ==
  ASSUME world \in World, NEW got, NEW learner \in BOOLEAN,
         got["courses"] = Rows(world, "courses"), got["reviews"] = Rows(world, "reviews"),
         learner => (got["feedback"] # {} <=> world.feedback)
  PROVE  deriveOverviewInsights(got, learner) = OverviewOf(world, learner)
<1>1. { c \in Courses : << c, "draft" >> \in got["courses"] } = Drafts(world)
  BY CourseRows DEF DraftRows
<1>2. got["reviews"] = world.reviews
  BY DEF Rows
<1>3. Concerns(got, learner) = ConcernsOf(world, learner)
  BY <1>1, <1>2 DEF Concerns, ConcernsOf
<1>4. Counted("healthy", got["courses"]) = Counted("healthy", Kept(world))
  BY CourseRows DEF Counted
<1> QED BY <1>3, <1>4 DEF deriveOverviewInsights, OverviewOf

LEMMA QuietStep ==
  ASSUME PagesInv, Finish, load.alone, ~load.failed, Whole(load.page)
  PROVE  onPage'.said = Reference(load.page, world, load.learner)
<1>1. /\ load # NoLoad /\ load.pending = {}
      /\ load.second \/ ~load.learner \/ SecondWave(load.page) = {}
      /\ onPage'.said = Derived(load.page, load.got, load.learner)
  BY DEF Finish
<1>2. /\ world \in World /\ load.learner \in BOOLEAN /\ load.learner = analyst
      /\ load.page \in {"report", "overview"}
  BY <1>1 DEF PagesInv, LoadInv
<1>3. \A q \in Sent : load.got[q] = Rows(world, q)
  <2>1. \A q \in Sent : load.got[q] \in ReadRows(load.page, world, q)
    BY <1>1 DEF PagesInv, LoadInv
  <2>2. \A q \in Sent : ~Cut(load.page, world, q)
    BY <1>2 DEF Sent, SecondWave, Whole, Cut, Limited
  <2> QED BY <2>1, <2>2 DEF ReadRows
<1>4. CASE load.page = "overview"
  <2>1. load.got["courses"] = Rows(world, "courses") /\ load.got["reviews"] = Rows(world, "reviews")
        /\ load.got["feedback"] = Rows(world, "feedback")
    BY <1>3, <1>4 DEF Sent, FirstWave
  <2>2. load.learner => (load.got["feedback"] # {} <=> world.feedback)
    BY <1>2, <2>1 DEF Rows, World
  <2> QED BY <1>1, <1>2, <1>4, <2>1, <2>2, OverviewTrue DEF Derived, Reference
<1>5. CASE load.page = "report"
  <2>1. \A q \in {"courses", "journeys", "nodes", "prereqs", "assignments", "reviews", "activity"} :
          load.got[q] = Rows(world, q)
    BY <1>3, <1>5 DEF Sent, FirstWave
  <2>2. load.learner => /\ Overseer
                        /\ load.got["activity"] = world.recent
                        /\ load.got["enrollments"] = Rows(world, "enrollments")
                        /\ load.got["memberships"] = Learners
    <3> SUFFICES ASSUME load.learner
                 PROVE  /\ Overseer
                        /\ load.got["activity"] = world.recent
                        /\ load.got["enrollments"] = Rows(world, "enrollments")
                        /\ load.got["memberships"] = Learners
      OBVIOUS
    <3>1. load.second /\ {"enrollments", "memberships"} \subseteq Sent
      BY <1>1, <1>5 DEF Sent, SecondWave
    <3>2. Overseer /\ Rows(world, "memberships") = Learners
      BY <1>5 DEF Rows, Whole
    <3>3. Rows(world, "activity") = world.recent
      BY <1>2 DEF Rows
    <3> QED BY <1>3, <2>1, <3>1, <3>2, <3>3
  <2>3. deriveScorecard(load.got, load.learner) \cup deriveInsights(load.got, load.learner)
          = ReportOf(world, load.learner)
    BY <1>2, <2>1, <2>2, ScoresTrue, ObservationsTrue DEF ReportOf
  <2> QED BY <1>1, <1>5, <2>3 DEF Derived, Reference
<1> QED BY <1>2, <1>4, <1>5

LEMMA OverviewStep ==
  ASSUME PagesInv, Finish, load.page = "overview"
  PROVE  /\ onPage'.said \ {<< "clear" >>} \subseteq load.seen
         /\ ~load.failed /\ << "clear" >> \in onPage'.said =>
              /\ {<< "nocourses" >>} \subseteq load.seen
              /\ ReviewLimit > 0 => << "noreviews" >> \in load.seen
              /\ load.learner /\ load.steady => << "nofeedback" >> \in load.seen
<1>1. /\ load # NoLoad /\ load.pending = {}
      /\ onPage'.said = deriveOverviewInsights(load.got, load.learner)
  BY DEF Finish, Derived
<1>2. Overheard /\ (~load.failed => Absent)
  BY <1>1 DEF PagesInv, LoadInv
<1>3. Concerns(load.got, load.learner) \subseteq load.seen
  BY <1>2 DEF Concerns, Overheard, DraftRows
<1>4. Concerns(load.got, load.learner) = {} =>
        /\ load.got["reviews"] = {} /\ DraftRows(load.got["courses"]) = {}
        /\ load.learner => load.got["feedback"] = {}
  BY DEF Concerns, Counted, DraftRows
<1>5. << "clear" >> \notin Concerns(load.got, load.learner)
  BY DEF Concerns, Counted
<1>6. CASE Concerns(load.got, load.learner) # {}
  BY <1>1, <1>3, <1>5, <1>6 DEF deriveOverviewInsights
<1>7. CASE Concerns(load.got, load.learner) = {} /\ load.got["courses"] # {}
  <2>1. onPage'.said = Counted("healthy", load.got["courses"])
    BY <1>1, <1>7 DEF deriveOverviewInsights, OrClear, Counted
  <2> QED BY <1>2, <1>4, <1>7, <2>1 DEF Overheard, Counted
<1>8. CASE Concerns(load.got, load.learner) = {} /\ load.got["courses"] = {}
  <2>1. onPage'.said = {<< "clear" >>}
    BY <1>1, <1>8 DEF deriveOverviewInsights, OrClear, Counted
  <2> QED BY <1>1, <1>2, <1>4, <1>8, <2>1 DEF Absent
<1> QED BY <1>6, <1>7, <1>8

LEMMA GuardedStep ==
  ASSUME PagesInv, InsightsNext, onPage' # onPage, NEW n, << "stalled", n >> \in onPage'.said
  PROVE  onPage'.learner
<1>1. CASE OpenReport
  <2>1. CASE onPage' = Blank
    BY <2>1 DEF Blank
  <2>2. CASE onPage' = [page |-> "report", learner |-> analyst, said |-> cache[Variant(analyst)][1]]
             /\ cache[Variant(analyst)] # << >>
    BY <2>2 DEF PagesInv, CacheInv, Variant
  <2> QED BY <1>1, <2>1, <2>2 DEF OpenReport
<1>2. CASE OpenOverview
  BY <1>2 DEF OpenOverview, Blank
<1>3. CASE Finish
  <2>1. load # NoLoad /\ onPage'.said = Derived(load.page, load.got, load.learner)
        /\ onPage'.learner = load.learner
    BY <1>3 DEF Finish
  <2>2. load.learner \in BOOLEAN
    BY <2>1 DEF PagesInv, LoadInv
  <2> QED BY <2>1, <2>2, OnlyLearnersStalled
<1>4. CASE Change \/ Grant \/ More \/ (\E q \in Queries : Receive(q) \/ NoAnswer(q))
           \/ (\E v \in {"base", "learner"} : Expire(v))
  BY <1>4 DEF Change, Grant, More, Receive, NoAnswer, Expire
<1> QED BY <1>1, <1>2, <1>3, <1>4 DEF InsightsNext

\* What an undisturbed page says of an organization is so; the Overview raises
\* nothing that never was, and finds all clear only where it saw nothing; and the
\* learners' part is shown to nobody else, whatever is cached, changes or fails.
THEOREM PagesAlwaysTrue == InsightsSpec => PagesTrue
<1>1. InsightsInit => PagesInv
  BY InitPages
<1>2. PagesInv /\ [InsightsNext]_insightsVars => PagesInv'
  BY NextPages
<1>3. PagesInv /\ [InsightsNext]_insightsVars
        => [(Finish /\ load.alone /\ ~load.failed /\ Whole(load.page))
              => onPage'.said = Reference(load.page, world, load.learner)]_insightsVars
  BY QuietStep
<1>4. PagesInv /\ [InsightsNext]_insightsVars
        => [(Finish /\ load.page = "overview")
              => onPage'.said \ {<< "clear" >>} \subseteq load.seen]_insightsVars
  BY OverviewStep
<1>5. PagesInv /\ [InsightsNext]_insightsVars
        => [(Finish /\ load.page = "overview" /\ ~load.failed /\ << "clear" >> \in onPage'.said)
              => /\ {<< "nocourses" >>} \subseteq load.seen
                 /\ ReviewLimit > 0 => << "noreviews" >> \in load.seen
                 /\ load.learner /\ load.steady => << "nofeedback" >> \in load.seen]_insightsVars
  BY OverviewStep
<1>6. PagesInv /\ [InsightsNext]_insightsVars
        => [\A n \in 0..Cardinality(Learners) :
              (onPage' # onPage /\ << "stalled", n >> \in onPage'.said) => onPage'.learner]_insightsVars
  BY GuardedStep DEF insightsVars
<1> QED BY <1>1, <1>2, <1>3, <1>4, <1>5, <1>6, PTL
        DEF InsightsSpec, PagesTrue, QuietPagesTrue, OverviewNeverInvents, ClearWasSeen,
            LearnersPartGuarded
=============================================================================
