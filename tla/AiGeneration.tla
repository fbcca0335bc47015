---------------------------- MODULE AiGeneration ----------------------------
(***************************************************************************)
(* The AI ledger of one organization: a call reserves part of the month's  *)
(* budget, asks the provider, and settles what it cost; authors accept or  *)
(* discard the output.  Several calls run at once, and each of them is     *)
(* several transactions with the provider in between.                      *)
(*                                                                         *)
(* A reservation is one transaction whose statements see what was          *)
(* committed before each of them; it reads the limit, then waits for the   *)
(* organization's advisory lock, then sums.                                *)
(***************************************************************************)
EXTENDS Integers, FiniteSetsExt

CONSTANTS
  Calls,          \* server functions and tabs
  Generations,    \* identities of ledger rows, and the bound on them
  Advisory,       \* those whose operation only advises: the author applies the text
  Profiles, Reservation,   \* Reservation: [Profiles -> cents]
  Costs,          \* what a completed generation may turn out to cost, in cents
  Cap,            \* the platform's, also the limit of an organization without one
  Limits,         \* limits an administrator may set
  MaxMonth, MaxApplied,    \* bounds: months, applications of one output
  None

Months == 1 .. MaxMonth
Statuses == {"none", "reserved", "completed", "failed", "accepted", "rejected"}
Settled == {"completed", "accepted", "rejected"}

ASSUME AiAssumption ==
  /\ Reservation \in [Profiles -> Nat \ {0}] /\ Costs \subseteq Nat \ {0}
  /\ Advisory \subseteq Generations
  /\ Cap \in Nat /\ Limits \subseteq 0 .. Cap
  /\ MaxMonth \in Nat \ {0} /\ MaxApplied \in Nat
  /\ None \notin Generations /\ None \notin Calls
  /\ IsFiniteSet(Generations) /\ IsFiniteSet(Calls)

VARIABLES
  ledger,   \* ai_generations
  limit,    \* least(monthly_limit_cents, platform cap)
  month,
  lock,     \* the call that holds the advisory lock, or None
  call,     \* per call: what it is about to do, and what it has read
  applied,  \* per generation: how often its output became draft content, in full
  pieces,   \* per generation: part of its output was inserted, and no more
  highest   \* per month: the highest limit in force during it

vars == <<ledger, limit, month, lock, call, applied, pieces, highest>>

NoRow == [status |-> "none", reserved |-> 0, actual |-> 0, month |-> 1]
NoCall == [at |-> "idle", profile |-> None, limit |-> 0, month |-> 1,
           gen |-> None, outcome |-> "none", cost |-> 0]
CallFor(g, stage) == [NoCall EXCEPT !.at = stage, !.gen = g]
Stages == {"idle", "entered", "locked", "counted", "asking", "settling", "applying", "resolving"}

At(c, stage) == call[c].at = stage
Go(c, stage) == call' = [call EXCEPT ![c].at = stage]
Return(c) == call' = [call EXCEPT ![c] = NoCall]
Status(g) == ledger[g].status

Init ==
  /\ ledger = [g \in Generations |-> NoRow]
  /\ limit = Cap /\ month = 1 /\ lock = None
  /\ call = [c \in Calls |-> NoCall]
  /\ applied = [g \in Generations |-> 0]
  /\ pieces = [g \in Generations |-> FALSE]
  /\ highest = [m \in Months |-> IF m = 1 THEN Cap ELSE 0]

Content == <<applied, pieces>>
Settings == <<limit, month, highest>>

-----------------------------------------------------------------------------
(* reserve_ai_generation                                                   *)

Counted(row) ==
  CASE row.status \in Settled -> row.actual
    [] row.status = "reserved" -> row.reserved
    [] OTHER -> 0

OfMonth(m) == {g \in Generations : ledger[g].month = m}
Used(m) == MapThenSumSet(LAMBDA g : Counted(ledger[g]), OfMonth(m))

Reserving == {"entered", "locked", "counted"}
Unused == {g \in Generations : Status(g) = "none"}

(* As many calls as there are rows left to reserve: a bound.               *)
Enter(c, p) ==
  /\ At(c, "idle")
  /\ Cardinality({d \in Calls : call[d].at \in Reserving}) < Cardinality(Unused)
  /\ call' = [call EXCEPT ![c] =
       [NoCall EXCEPT !.at = "entered", !.profile = p, !.limit = limit, !.month = month]]
  /\ UNCHANGED <<ledger, lock, Content, Settings>>

Unserialized(c) == TRUE   \* without the advisory lock

Unlocked(c) == lock = None

Lock(c) ==
  /\ At(c, "entered") /\ Unlocked(c)
  /\ lock' = c
  /\ Go(c, "locked")
  /\ UNCHANGED <<ledger, Content, Settings>>

Allowed(c) == Used(call[c].month) + Reservation[call[c].profile] <= call[c].limit

Unlock(c) == lock' = IF lock = c THEN None ELSE lock

(* The sum, and the exception that ends the transaction.                   *)
Count(c) ==
  /\ At(c, "locked")
  /\ IF Allowed(c) THEN Go(c, "counted") /\ UNCHANGED lock ELSE Return(c) /\ Unlock(c)
  /\ UNCHANGED <<ledger, Content, Settings>>

(* The row, and the commit, which releases the lock.                       *)
Insert(c, g) ==
  /\ At(c, "counted") /\ g \in Unused
  /\ ledger' = [ledger EXCEPT ![g] =
       [status |-> "reserved", reserved |-> Reservation[call[c].profile],
        actual |-> 0, month |-> call[c].month]]
  /\ call' = [call EXCEPT ![c] = CallFor(g, "asking")]
  /\ Unlock(c)
  /\ UNCHANGED <<Content, Settings>>

-----------------------------------------------------------------------------
(* runGenerationAction after the reservation                               *)

(* The provider fails, its output does not validate, or it is fine.        *)
Provide(c) ==
  /\ At(c, "asking")
  /\ \E outcome \in {"completed", "failed"}, cost \in Costs :
       call' = [call EXCEPT ![c].at = "settling", ![c].outcome = outcome,
                            ![c].cost = IF outcome = "completed" THEN cost ELSE 0]
  /\ UNCHANGED <<ledger, lock, Content, Settings>>

Settle(c) ==
  /\ At(c, "settling")
  /\ ledger' = IF Status(call[c].gen) # "reserved" THEN ledger
               ELSE [ledger EXCEPT ![call[c].gen].status = call[c].outcome,
                                   ![call[c].gen].actual = call[c].cost]
  /\ Return(c)
  /\ UNCHANGED <<lock, Content, Settings>>

-----------------------------------------------------------------------------
(* acceptGenerationAction and rejectGenerationAction                       *)

Accept(c, g) ==
  /\ At(c, "idle") /\ Status(g) = "completed"
  /\ call' = [call EXCEPT ![c] = CallFor(g, "applying")]
  /\ UNCHANGED <<ledger, lock, Content, Settings>>

(* What an operation that makes blocks or structure inserts, all of it.    *)
Applied(c) ==
  /\ At(c, "applying") /\ call[c].gen \notin Advisory /\ applied[call[c].gen] < MaxApplied
  /\ applied' = [applied EXCEPT ![call[c].gen] = @ + 1]
  /\ Go(c, "resolving")
  /\ UNCHANGED <<ledger, lock, pieces, Settings>>

(* An outline of a path, a rewrite, a summary: acceptance is the record.   *)
Advised(c) ==
  /\ At(c, "applying") /\ call[c].gen \in Advisory
  /\ Go(c, "resolving")
  /\ UNCHANGED <<ledger, lock, Content, Settings>>

ApplyFailsUnnoticed(c) ==   \* without "if (!applied.ok) return applied"
  /\ At(c, "applying") /\ call[c].gen \notin Advisory
  /\ pieces' = [pieces EXCEPT ![call[c].gen] = TRUE]
  /\ Go(c, "resolving")
  /\ UNCHANGED <<ledger, lock, applied, Settings>>

(* An insert fails after others succeeded; what they inserted stays.       *)
ApplyFails(c) ==
  /\ At(c, "applying") /\ call[c].gen \notin Advisory
  /\ \E some \in BOOLEAN : pieces' = [pieces EXCEPT ![call[c].gen] = @ \/ some]
  /\ Return(c)
  /\ UNCHANGED <<ledger, lock, applied, Settings>>

Resolvable(g) == Status(g) = "completed"

Resolved(g, accepted) ==
  ledger' = IF ~Resolvable(g) THEN ledger
            ELSE [ledger EXCEPT ![g].status = IF accepted THEN "accepted" ELSE "rejected"]

Resolve(c) ==
  /\ At(c, "resolving")
  /\ Resolved(call[c].gen, TRUE)
  /\ Return(c)
  /\ UNCHANGED <<lock, Content, Settings>>

Reject(c, g) ==
  /\ At(c, "idle") /\ Status(g) # "none"
  /\ Resolved(g, FALSE)
  /\ UNCHANGED <<lock, call, Content, Settings>>

-----------------------------------------------------------------------------
SessionLock(c) == UNCHANGED lock   \* pg_advisory_lock, held by the pooled session

(* A call ends early: a lost answer, a failed statement, the end of the    *)
(* server function.  Its transaction, and the lock with it, is gone.       *)
Released(c) == Unlock(c)

Crash(c) ==
  /\ ~At(c, "idle")
  /\ Released(c)
  /\ Return(c)
  /\ UNCHANGED <<ledger, Content, Settings>>

SetLimit(l) ==
  /\ limit' = l
  /\ highest' = [highest EXCEPT ![month] = IF l > @ THEN l ELSE @]
  /\ UNCHANGED <<ledger, month, lock, call, Content>>

NextMonth ==
  /\ month < MaxMonth
  /\ month' = month + 1
  /\ highest' = [highest EXCEPT ![month + 1] = limit]
  /\ UNCHANGED <<ledger, limit, lock, call, Content>>

Working(c) ==
  \/ Lock(c) \/ Count(c) \/ (\E g \in Generations : Insert(c, g))
  \/ Provide(c) \/ Settle(c)
  \/ Applied(c) \/ Advised(c) \/ ApplyFails(c) \/ Resolve(c)

Next ==
  \/ \E c \in Calls : Working(c) \/ Crash(c)
  \/ \E c \in Calls, p \in Profiles : Enter(c, p)
  \/ \E c \in Calls, g \in Generations : Accept(c, g) \/ Reject(c, g)
  \/ \E l \in Limits : SetLimit(l)
  \/ NextMonth

Spec == Init /\ [][Next]_vars

(* Statements and the provider (with its timeout) end; the database gives  *)
(* an advisory lock to those that wait in the order they came, so nobody   *)
(* waits for ever while it is given to others.                             *)
FairSpec == Spec /\ \A c \in Calls : WF_vars(Working(c)) /\ SF_vars(Lock(c))

-----------------------------------------------------------------------------
Row == [status : Statuses, reserved : Nat, actual : Nat, month : Months]
Call == [at : Stages, profile : Profiles \cup {None}, limit : Nat, month : Months,
         gen : Generations \cup {None}, outcome : {"none", "completed", "failed"}, cost : Nat]

InTransaction == {"locked", "counted"}

(* Types, and what a call has in hand at each stage.                       *)
TypeOK ==
  /\ ledger \in [Generations -> Row] /\ limit \in Nat /\ month \in Months
  /\ lock \in Calls \cup {None} /\ call \in [Calls -> Call]
  /\ applied \in [Generations -> Nat] /\ pieces \in [Generations -> BOOLEAN]
  /\ highest \in [Months -> Nat]
  /\ \A c \in Calls :
       /\ call[c].at \in Reserving => call[c].profile \in Profiles
       /\ call[c].at \notin Reserving \cup {"idle"} =>
            call[c].gen \in Generations /\ Status(call[c].gen) # "none"
       /\ At(c, "settling") => call[c].outcome # "none"

(* The calls that count the ledger and have not committed their row: never *)
(* two, or both would be admitted to the same cents.                       *)
OneCounts ==
  \A c \in Calls : call[c].at \in InTransaction <=> lock = c

Lesser(a, b) == IF a < b THEN a ELSE b
Promised(row) == IF row.status = "reserved" THEN row.reserved
                 ELSE IF row.status \in Settled THEN Lesser(row.actual, row.reserved) ELSE 0

(* However calls, settlements, failures and changes of the limit meet, the *)
(* month's reservations fit the highest limit it had: what passes it is    *)
(* only what some generation cost above its own reservation.               *)
ReservationsFit ==
  \A m \in Months :
    MapThenSumSet(LAMBDA g : Promised(ledger[g]), OfMonth(m)) <= highest[m]

(* domain/ai.ts GENERATION_TRANSITIONS.                                    *)
Transitions ==
  {<<"none", "reserved">>, <<"reserved", "completed">>, <<"reserved", "failed">>,
   <<"completed", "accepted">>, <<"completed", "rejected">>}

(* A row only moves as the domain's table says, whoever settles, accepts   *)
(* or rejects it, in whatever order; and what it cost is final.            *)
LedgerMoves ==
  [][\A g \in Generations : ledger'[g] # ledger[g] =>
       /\ <<Status(g), ledger'[g].status>> \in Transitions
       /\ ledger[g].status \in Settled => ledger'[g].actual = ledger[g].actual]_vars

(* An accepted output whose operation inserts is in a draft, in full,      *)
(* although its application is many statements, any of which may fail or   *)
(* be the last, and other calls accept and discard the same output         *)
(* meanwhile; and only what was completed ever reaches a draft.            *)
AcceptedIsApplied ==
  \A g \in Generations :
    /\ Status(g) = "accepted" /\ g \notin Advisory => applied[g] > 0
    /\ applied[g] > 0 \/ pieces[g] => Status(g) \in Settled

(* Nobody waits for ever for the budget.                                   *)
ReservationsDecided ==
  \A c \in Calls : call[c].at \in Reserving ~> call[c].at \notin Reserving

(* docs/development/phase-2-report.md:47, architecture-decisions.md:475:   *)
(* overage is impossible.                                                  *)
NoOverage == \A m \in Months : Used(m) <= Cap

(* Stated, and not so: see README.  The first is what the action answers   *)
(* to whoever accepts, "the output is now draft content".                  *)
AcceptedIsContent == \A g \in Generations : Status(g) = "accepted" => applied[g] > 0
AppliedOnce == \A g \in Generations : applied[g] <= 1
RejectedIsDiscarded == \A g \in Generations : Status(g) = "rejected" => applied[g] = 0 /\ ~pieces[g]
LimitIsCurrent ==
  [][\A g \in Generations : Status(g) = "none" /\ ledger'[g].status = "reserved" =>
       Used(month) + ledger'[g].reserved <= limit]_vars
ReservationsSettle ==
  \A g \in Generations : Status(g) = "reserved" ~> Status(g) # "reserved"
=============================================================================
