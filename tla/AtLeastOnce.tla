----------------------------- MODULE AtLeastOnce -----------------------------
(***************************************************************************)
(* What the outbox promises of each pair of an event and an endpoint it is *)
(* owed to: the endpoint receives the event before the pair counts as      *)
(* delivered, or the pair is given up and stays visible to an operator, who *)
(* may reopen it.                                                          *)
(***************************************************************************)
CONSTANT Pairs

VARIABLES
  debt,      \* "none", "owed", "delivered" or "abandoned", for each pair
  received   \* pairs whose event reached its endpoint, once or more

debtVars == <<debt, received>>

DebtInit ==
  /\ debt = [p \in Pairs |-> "none"]
  /\ received = {}

(* Whatever becomes of several pairs in one step of the implementation.    *)
Becomes(S, from, to) ==
  /\ \A p \in S : debt[p] = from
  /\ debt' = [p \in Pairs |-> IF p \in S THEN to ELSE debt[p]]

Owe(S) == Becomes(S, "none", "owed") /\ UNCHANGED received

Receive(p) == debt[p] = "owed" /\ received' = received \cup {p} /\ UNCHANGED debt

Conclude(p) == p \in received /\ Becomes({p}, "owed", "delivered") /\ UNCHANGED received

Abandon(p) == Becomes({p}, "owed", "abandoned") /\ UNCHANGED received

Reopen(p) == Becomes({p}, "abandoned", "owed") /\ UNCHANGED received

DebtNext ==
  \/ \E S \in SUBSET Pairs : Owe(S)
  \/ \E p \in Pairs : Receive(p) \/ Conclude(p) \/ Abandon(p) \/ Reopen(p)

DebtSpec == DebtInit /\ [][DebtNext]_debtVars
=============================================================================
