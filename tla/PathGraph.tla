------------------------------ MODULE PathGraph ------------------------------
(***************************************************************************)
(* validatePathGraph (packages/domain/src/studio.ts), which tells the      *)
(* author of a path whether its prerequisites can be met: a depth-first    *)
(* search with three colours over the "requires" edges, then a memoised    *)
(* recursion that says which nodes a learner can ever complete.            *)
(*                                                                         *)
(* The input is every graph over Ids, edges to missing nodes and to the    *)
(* node itself included.  The rows are unordered, so the loops over nodes  *)
(* and over the targets of a node may take any order.  The trail of the    *)
(* code is the ids of its stack, pushed and popped together, and so is the *)
(* `seen' set of the recursion.                                            *)
(***************************************************************************)
EXTENDS Integers, FiniteSets, Sequences

CONSTANT Ids

VARIABLES
  nodes,          \* input.nodes
  prerequisites,  \* input.prerequisites: <<node, required node>>
  color,          \* white, grey and black for 0, 1 and 2
  stack,          \* frames: a node and the targets not yet looked at
  inCycle,
  completable     \* the cache of canComplete

input == <<nodes, prerequisites>>
graphVars == <<input, color, stack, inCycle, completable>>

invalidEdges == {x \in prerequisites : x[1] \notin nodes \/ x[2] \notin nodes}

Requires(n) == {r \in nodes : n \in nodes /\ <<n, r>> \in prerequisites}

Frame(n) == [id |-> n, left |-> Requires(n)]
Top == stack[Len(stack)]
Pop == [i \in 1..(Len(stack) - 1) |-> stack[i]]

(* The stack once the top frame has looked at r.                           *)
Past(r) == [stack EXCEPT ![Len(stack)].left = @ \ {r}]

OnStack(r) == \E i \in 1..Len(stack) : stack[i].id = r

Visited == \A n \in nodes : color[n] = "black"

Init ==
  /\ nodes \in SUBSET Ids
  /\ prerequisites \in SUBSET (Ids \X Ids)
  /\ color = [n \in Ids |-> "white"]
  /\ stack = <<>>
  /\ inCycle = {}
  /\ completable = [n \in Ids |-> "unknown"]

-----------------------------------------------------------------------------
(* visit(start), for a node that no earlier visit reached.                 *)
Visit(n) ==
  /\ ~Visited
  /\ stack = <<>>
  /\ n \in nodes /\ color[n] = "white"
  /\ color' = [color EXCEPT ![n] = "grey"]
  /\ stack' = <<Frame(n)>>
  /\ UNCHANGED <<input, inCycle, completable>>

Follow(r) ==
  /\ ~Visited
  /\ stack # <<>>
  /\ r \in Top.left /\ color[r] = "white"
  /\ color' = [color EXCEPT ![r] = "grey"]
  /\ stack' = Append(Past(r), Frame(r))
  /\ UNCHANGED <<input, inCycle, completable>>

(* trail.slice(trail.indexOf(target))                                      *)
TrailFrom(r) ==
  {stack[i].id : i \in {i \in 1..Len(stack) :
     \E j \in 1..i : stack[j].id = r}}

(* A target already seen: grey closes a cycle, black is done with.         *)
Look(r) ==
  /\ ~Visited
  /\ stack # <<>>
  /\ r \in Top.left /\ color[r] # "white"
  /\ stack' = Past(r)
  /\ inCycle' = IF color[r] = "grey" THEN inCycle \cup TrailFrom(r) ELSE inCycle
  /\ UNCHANGED <<input, color, completable>>

Retreat ==
  /\ ~Visited
  /\ stack # <<>>
  /\ Top.left = {}
  /\ color' = [color EXCEPT ![Top.id] = "black"]
  /\ stack' = Pop
  /\ UNCHANGED <<input, inCycle, completable>>

-----------------------------------------------------------------------------
(* What canComplete(r, seen) answers without looking at what r requires.   *)
KnownYes(r) == completable[r] = "yes"
KnownNo(r) == completable[r] = "no" \/ OnStack(r) \/ r \in inCycle

Known(r) == KnownYes(r) \/ KnownNo(r)

Answer(yesno) ==
  /\ completable' = [completable EXCEPT ![Top.id] = yesno]
  /\ stack' = Pop
  /\ UNCHANGED <<input, color, inCycle>>

(* canComplete(id, new Set()) for each node.                               *)
Ask(n) ==
  /\ Visited
  /\ stack = <<>>
  /\ n \in nodes /\ ~Known(n)
  /\ stack' = <<Frame(n)>>
  /\ UNCHANGED <<input, color, inCycle, completable>>

(* The call for r; its answer is in the cache when it returns, and the     *)
(* caller reads it there.                                                  *)
AskRequired(r) ==
  /\ Visited
  /\ stack # <<>>
  /\ r \in Top.left /\ ~Known(r)
  /\ stack' = Append(stack, Frame(r))
  /\ UNCHANGED <<input, color, inCycle, completable>>

Satisfied(r) ==
  /\ Visited
  /\ stack # <<>>
  /\ r \in Top.left /\ KnownYes(r)
  /\ stack' = Past(r)
  /\ UNCHANGED <<input, color, inCycle, completable>>

(* Mutant of Unsatisfied: what the search is on its way through passes.    *)
UnsatisfiedCached(r) ==
  /\ Visited
  /\ stack # <<>>
  /\ r \in Top.left /\ ~KnownYes(r) /\ KnownNo(r)
  /\ Answer(IF completable[r] = "no" THEN "no" ELSE "yes")

(* every() stops at the first requirement that cannot be completed.        *)
Unsatisfied(r) ==
  /\ Visited
  /\ stack # <<>>
  /\ r \in Top.left /\ ~KnownYes(r) /\ KnownNo(r)
  /\ Answer("no")

Completed ==
  /\ Visited
  /\ stack # <<>>
  /\ Top.left = {}
  /\ Answer("yes")

(* The report is made.                                                     *)
Reported == Visited /\ stack = <<>> /\ \A n \in nodes : Known(n)

Next ==
  \/ Retreat
  \/ Completed
  \/ \E n \in Ids :
       \/ Visit(n) \/ Follow(n) \/ Look(n)
       \/ Ask(n) \/ AskRequired(n) \/ Satisfied(n) \/ Unsatisfied(n)
  \/ Reported /\ UNCHANGED graphVars

(* The function runs to its end without waiting for anything.              *)
Spec == Init /\ [][Next]_graphVars

-----------------------------------------------------------------------------
unreachableNodeIds == {n \in nodes : ~KnownYes(n)}

(* Mutant of ok: only a cycle counts.                                      *)
OkIfNoCycle == inCycle = {}

ok == inCycle = {} /\ unreachableNodeIds = {} /\ invalidEdges = {}

(* Mutant of WouldCreateCycle: only direct prerequisites are looked at.    *)
WouldCreateShortCycle(edges, x) == x[1] = x[2] \/ <<x[2], x[1]>> \in edges

(* wouldCreateCycle: the search from the candidate's required node, in as  *)
(* many rounds as there are nodes.                                         *)
WouldCreateCycle(edges, x) ==
  LET seen[k \in 0..Cardinality(Ids)] ==
        IF k = 0 THEN {x[2]}
        ELSE seen[k - 1] \cup {y[2] : y \in {y \in edges : y[1] \in seen[k - 1]}}
  IN x[1] \in seen[Cardinality(Ids)]

(* The BEFORE trigger of prerequisites: the recursive query over the edges *)
(* of the path meets the new edge's node.                                  *)
TriggerRefuses(edges, x) ==
  \A S \in SUBSET Ids :
    x[2] \in S /\ (\A y \in edges : y[1] \in S => y[2] \in S) => x[1] \in S

(* The path builder's preview of an edge added to a graph: more nodes are  *)
(* reported cyclic than before, and here before is none.                   *)
PreviewRefuses == inCycle # {}

-----------------------------------------------------------------------------
Frames == [id : Ids, left : SUBSET Ids]

TypeOK ==
  /\ nodes \subseteq Ids
  /\ prerequisites \subseteq Ids \X Ids
  /\ color \in [Ids -> {"white", "grey", "black"}]
  /\ stack \in Seq(Frames)
  /\ inCycle \subseteq Ids
  /\ completable \in [Ids -> {"unknown", "yes", "no"}]

(* Nodes none of which can be the first of them to be completed.           *)
Stuck(S) ==
  /\ S # {} /\ S \subseteq nodes
  /\ \A n \in S : Requires(n) \cap S # {}

Circular == UNION {S \in SUBSET nodes : Stuck(S)}

(* ok is what the author relies on: it holds of exactly the graphs in which *)
(* every edge joins two nodes and no set of nodes waits for itself.        *)
OkExact ==
  Reported =>
    (ok <=> /\ \A x \in prerequisites : {x[1], x[2]} \subseteq nodes
            /\ ~\E S \in SUBSET nodes : Stuck(S))

(* Nodes that a learner's path page locks (computePathAccess) as long as   *)
(* none of them is completed: each requires a missing node, which counts   *)
(* as unmet, or another of them.                                           *)
Waits(S) ==
  \A n \in S : \E x \in prerequisites : x[1] = n /\ (x[2] \notin nodes \/ x[2] \in S)

NeverUnlocks == UNION {S \in SUBSET nodes : Waits(S)}

(* The nodes with an edge to a missing node behind them, at any distance.  *)
Broken ==
  {n \in nodes : \A T \in SUBSET nodes :
     n \in T /\ (\A m \in T : Requires(m) \subseteq T) =>
       \E x \in invalidEdges : x[1] \in T}

(* The report hides no lock.  Its unreachable nodes are exactly those that *)
(* wait for one another or for such nodes, although the cache answers for  *)
(* a node whatever the search was on its way through when the answer was   *)
(* stored; and every other node that never unlocks has an edge behind it   *)
(* that the report lists as invalid.                                       *)
UnreachableExact ==
  Reported =>
    /\ unreachableNodeIds = Circular
    /\ NeverUnlocks = unreachableNodeIds \cup Broken

(* As studio.ts describes unreachableNodeIds, "Nodes that can never unlock *)
(* (prerequisite chain broken/circular)".  The search drops the edges to   *)
(* missing nodes, and so takes a broken chain for a free one.              *)
BrokenIsUnreachable == Reported => unreachableNodeIds = NeverUnlocks

(* The three checks of a prerequisite agree on every graph without a cycle: *)
(* the preview of the path builder, which runs this function with the edge *)
(* added, the pre-check of the server action and the trigger.              *)
ChecksAgree ==
  Reported =>
    \A x \in prerequisites \ invalidEdges :
      LET stored == prerequisites \ (invalidEdges \cup {x})
      IN (\A y \in stored : ~TriggerRefuses(stored \ {y}, y)) =>
           /\ PreviewRefuses <=> TriggerRefuses(stored, x)
           /\ WouldCreateCycle(stored, x) <=> TriggerRefuses(stored, x)

(* As studio.ts describes cycleNodeIds, "Node ids participating in at least *)
(* one cycle".                                                             *)
CyclesReported ==
  LET edges == prerequisites \ invalidEdges
  IN Reported =>
       inCycle = {n \in nodes : \E r \in Requires(n) : TriggerRefuses(edges, <<n, r>>)}
=============================================================================
