--------------------------- MODULE WebhookDelivery ---------------------------
(***************************************************************************)
(* The transactional outbox and the webhook worker that drains it: fan-out *)
(* and claim, delivery over HTTP, settlement, manual retry.                *)
(*                                                                         *)
(* An invocation of the worker claims a batch and settles its deliveries   *)
(* one by one; invocations overlap, stop anywhere, and ignore the errors of *)
(* the settlement call.  A worker id stands for successive invocations.    *)
(* Claiming is one transaction that serializes on the rows it touches, and *)
(* is one action.  Settling is two: it decides about the parent event on a *)
(* snapshot that shows only what is committed, and then commits.           *)
(*                                                                         *)
(* Settlement emits an event of its own.  Echoes are the ids of such       *)
(* events; where no endpoint subscribes to them they have no effect and    *)
(* Echoes may be empty.                                                    *)
(***************************************************************************)
EXTENDS Naturals, FiniteSets

CONSTANTS
  Platform, Echoes,   \* ids of outbox_events: emitted by RPCs, by settlement
  Endpoints,
  Listens,            \* [Endpoints -> SUBSET Events], event_types
  Workers,
  MaxAttempts,        \* MAX_ATTEMPTS of the worker
  BatchLimit,         \* p_limit
  MaxRetries, MaxCrashes, MaxToggles,   \* bounds: manual retries, crashes, pauses
  NoJob

Events == Platform \cup Echoes

Deliveries == Events \X Endpoints

(* What an invocation is busy with, as in the variable job below.          *)
Jobs == [delivery : Deliveries, outcome : {"delivered", "retry", "dead_letter"},
         verdict : {"open", "keep", "processed", "failed"}]

ASSUME DeliveryAssumption ==
  /\ Platform \cap Echoes = {}
  /\ Listens \in [Endpoints -> SUBSET Events]
  /\ MaxAttempts \in Nat \ {0} /\ BatchLimit \in Nat \ {0}
  /\ MaxRetries \in Nat /\ MaxCrashes \in Nat /\ MaxToggles \in Nat
  /\ NoJob \notin Jobs

VARIABLES
  outbox,      \* outbox_events.status, "none" before emission
  delivery,    \* webhook_deliveries.status, "none" before the fan-out
  cooling,     \* failed deliveries whose next_attempt_at is ahead
  attempts,    \* webhook_deliveries.attempt_count
  active,      \* endpoints with status active
  batch,       \* what an invocation claimed and has not begun to deliver
  job,         \* what it is delivering: delivery, outcome, verdict on the event
  received,    \* deliveries whose request reached the endpoint
  announced,   \* idempotency keys of webhook.delivery events
  retries, crashes, toggles

tableVars == <<outbox, delivery, cooling, attempts, announced>>
workerVars == <<batch, job>>
boundVars == <<retries, crashes, toggles>>
vars == <<tableVars, active, workerVars, received, boundVars>>

Terminal == {"delivered", "dead_letter"}

Held(w) == batch[w] \cup IF job[w] = NoJob THEN {} ELSE {job[w].delivery}

DeliveriesOf(e) == {d \in Deliveries : d[1] = e /\ delivery[d] # "none"}

Subscribed(e, x) == x \in active /\ e \in Listens[x]

-----------------------------------------------------------------------------
Init ==
  /\ outbox = [e \in Events |-> "none"]
  /\ delivery = [d \in Deliveries |-> "none"]
  /\ cooling = {}
  /\ attempts = [d \in Deliveries |-> 0]
  /\ active = Endpoints
  /\ batch = [w \in Workers |-> {}]
  /\ job = [w \in Workers |-> NoJob]
  /\ received = {}
  /\ announced = {}
  /\ retries = 0 /\ crashes = 0 /\ toggles = 0

(* emit_event with a new key, in the transaction of some RPC.              *)
Emit(e) ==
  /\ e \in Platform /\ outbox[e] = "none"
  /\ outbox' = [outbox EXCEPT ![e] = "pending"]
  /\ UNCHANGED <<delivery, cooling, attempts, announced, active, workerVars, received,
                 boundVars>>

(* The subscription of an endpoint is paused or resumed.                   *)
ToggleEndpoint(x) ==
  /\ toggles < MaxToggles
  /\ toggles' = toggles + 1
  /\ active' = IF x \in active THEN active \ {x} ELSE active \cup {x}
  /\ UNCHANGED <<tableVars, workerVars, received, retries, crashes>>

(* next_attempt_at passes.                                                 *)
BackoffElapses(d) ==
  /\ d \in cooling
  /\ cooling' = cooling \ {d}
  /\ UNCHANGED <<outbox, delivery, attempts, announced, active, workerVars, received,
                 boundVars>>

-----------------------------------------------------------------------------
(* The fan-out: one delivery per pending event and matching endpoint.      *)
FannedOut ==
  {d \in Deliveries :
     outbox[d[1]] = "pending" /\ Subscribed(d[1], d[2]) /\ delivery[d] = "none"}

(* Mutant of Due: deliveries another invocation holds are due as well.     *)
DueWhateverHeld ==
  {d \in Deliveries : delivery[d] \in {"pending", "failed", "delivering"} /\ d \notin cooling}
    \cup FannedOut

Due ==
  {d \in Deliveries : delivery[d] \in {"pending", "failed"} /\ d \notin cooling}
    \cup FannedOut

(* Mutant of Unowed: the event types of the active endpoints are ignored.  *)
UnowedWithoutEndpoints(e) == outbox[e] = "pending" /\ active = {}

(* Pending events that no active endpoint subscribes to.                   *)
Unowed(e) == outbox[e] = "pending" /\ ~\E x \in Endpoints : Subscribed(e, x)

(* claim_webhook_deliveries: fan out, settle the events nobody subscribes  *)
(* to, and claim what is due, at most BatchLimit of it.                    *)
Claim(w) ==
  /\ batch[w] = {} /\ job[w] = NoJob
  /\ \E claimed \in SUBSET Due :
       /\ claimed = Due \/ Cardinality(claimed) = BatchLimit
       /\ Cardinality(claimed) <= BatchLimit
       /\ delivery' = [d \in Deliveries |->
                         IF d \in claimed THEN "delivering"
                         ELSE IF d \in FannedOut THEN "pending" ELSE delivery[d]]
       /\ attempts' = [d \in Deliveries |->
                         IF d \in claimed THEN attempts[d] + 1 ELSE attempts[d]]
       /\ batch' = [batch EXCEPT ![w] = claimed]
  /\ outbox' = [e \in Events |->
                  IF Unowed(e) THEN "processed" ELSE outbox[e]]
  /\ UNCHANGED <<cooling, announced, active, job, received, boundVars>>

(* A failed request is tried again within the budget.                      *)
AfterFailure(d) == IF attempts[d] < MaxAttempts THEN "retry" ELSE "dead_letter"

StartsJob(w, d, outcome) ==
  /\ d \in batch[w] /\ job[w] = NoJob
  /\ batch' = [batch EXCEPT ![w] = @ \ {d}]
  /\ job' = [job EXCEPT ![w] = [delivery |-> d, outcome |-> outcome, verdict |-> "open"]]
  /\ UNCHANGED <<tableVars, active, boundVars>>

(* processDelivery up to its settlement call: the endpoint is paused or    *)
(* revoked; it accepts; it refuses for good, or its address is blocked; it *)
(* answers 429 or 5xx, or something throws.  A request may reach the       *)
(* endpoint although the worker sees it fail.                              *)
RefuseInactive(w, d) ==
  /\ d[2] \notin active
  /\ StartsJob(w, d, "dead_letter")
  /\ UNCHANGED received

(* What the request carries is not modelled: where the read of the payload *)
(* fails, the worker posts {} and settles the delivery like any other.     *)
PostAccepted(w, d) ==
  /\ d[2] \in active
  /\ StartsJob(w, d, "delivered")
  /\ received' = received \cup {d}

PostRejected(w, d) ==
  /\ d[2] \in active
  /\ StartsJob(w, d, "dead_letter")
  /\ UNCHANGED received

PostFailed(w, d) ==
  /\ d[2] \in active
  /\ StartsJob(w, d, AfterFailure(d))
  /\ received' \in {received, received \cup {d}}

-----------------------------------------------------------------------------

StatusOf(outcome) == IF outcome = "retry" THEN "failed" ELSE outcome

Row(d, outcome) == [delivery EXCEPT ![d] = StatusOf(outcome)]

(* Mutant of Verdict: a delivery that awaits its retry does not count as   *)
(* open.                                                                   *)
VerdictOfSettled(d, outcome) ==
  LET siblings == {Row(d, outcome)[o] : o \in DeliveriesOf(d[1])}
  IN IF siblings \cap {"pending", "delivering"} # {} THEN "keep"
     ELSE IF "dead_letter" \in siblings THEN "failed" ELSE "processed"

(* What settle_webhook_delivery makes of the parent event: nothing while a *)
(* delivery of it is open, as far as the snapshot shows.                   *)
Verdict(d, outcome) ==
  LET siblings == {Row(d, outcome)[o] : o \in DeliveriesOf(d[1])}
  IN IF ~(siblings \subseteq Terminal) THEN "keep"
     ELSE IF "dead_letter" \in siblings THEN "failed" ELSE "processed"

SettleDecides(w) ==
  /\ job[w] # NoJob /\ job[w].verdict = "open"
  /\ job' = [job EXCEPT ![w].verdict = Verdict(job[w].delivery, job[w].outcome)]
  /\ UNCHANGED <<tableVars, active, batch, received, boundVars>>

Settled(e, verdict) ==
  IF verdict = "keep" THEN outbox ELSE [outbox EXCEPT ![e] = verdict]

(* The keys of the event a settlement announces: none for a retry, and     *)
(* none if the key was used before.                                        *)
NewKeys(d, outcome) ==
  IF outcome = "retry" THEN {} ELSE {<<outcome, d>>} \ announced

(* Ids of echoes are fresh; an id stands for a new event once its old one  *)
(* is settled with all its deliveries.                                     *)
FreeEcho(f) ==
  outbox[f] # "pending" /\ \A d \in DeliveriesOf(f) : delivery[d] \in Terminal

(* The settlement commits: the row, the parent, and the event of its own.  *)
SettleQuietly(w) ==
  /\ job[w] # NoJob /\ job[w].verdict # "open"
  /\ LET d == job[w].delivery
         outcome == job[w].outcome
     IN /\ Echoes = {} \/ NewKeys(d, outcome) = {}
        /\ outbox' = Settled(d[1], job[w].verdict)
        /\ delivery' = Row(d, outcome)
        /\ announced' = announced \cup NewKeys(d, outcome)
        /\ cooling' = IF outcome = "retry" THEN cooling \cup {d} ELSE cooling
  /\ job' = [job EXCEPT ![w] = NoJob]
  /\ UNCHANGED <<attempts, active, batch, received, boundVars>>

SettleAnnouncing(w, f) ==
  /\ job[w] # NoJob /\ job[w].verdict # "open"
  /\ FreeEcho(f)
  /\ LET d == job[w].delivery
         outcome == job[w].outcome
         fresh == {f} \X Endpoints
     IN /\ NewKeys(d, outcome) # {}
        /\ outbox' = [Settled(d[1], job[w].verdict) EXCEPT ![f] = "pending"]
        /\ delivery' = [o \in Deliveries |->
                          IF o \in fresh THEN "none" ELSE Row(d, outcome)[o]]
        /\ attempts' = [o \in Deliveries |-> IF o \in fresh THEN 0 ELSE attempts[o]]
        /\ received' = received \ fresh
        /\ announced' = {k \in announced : k[2] \notin fresh} \cup NewKeys(d, outcome)
  /\ job' = [job EXCEPT ![w] = NoJob]
  /\ UNCHANGED <<cooling, active, batch, boundVars>>

(* The settlement call fails or its transaction aborts.  The worker does   *)
(* not look at the error and goes on to its next delivery.                 *)
SettlementLost(w) ==
  /\ crashes < MaxCrashes /\ job[w] # NoJob
  /\ crashes' = crashes + 1
  /\ job' = [job EXCEPT ![w] = NoJob]
  /\ UNCHANGED <<tableVars, active, batch, received, retries, toggles>>

(* The invocation ends, by a crash or by the runtime's limit.              *)
Crash(w) ==
  /\ crashes < MaxCrashes
  /\ batch[w] # {} \/ job[w] # NoJob
  /\ crashes' = crashes + 1
  /\ batch' = [batch EXCEPT ![w] = {}]
  /\ job' = [job EXCEPT ![w] = NoJob]
  /\ UNCHANGED <<tableVars, active, received, retries, toggles>>

(* Mutant of RetryDelivery: any concluded delivery can be sent again.      *)
RetryConcluded(d) ==
  /\ retries < MaxRetries
  /\ delivery[d] \in Terminal \cup {"failed"}
  /\ retries' = retries + 1
  /\ delivery' = [delivery EXCEPT ![d] = "pending"]
  /\ cooling' = cooling \ {d}
  /\ outbox' = [outbox EXCEPT ![d[1]] = "pending"]
  /\ UNCHANGED <<attempts, announced, active, workerVars, received, crashes, toggles>>

(* retry_webhook_delivery.                                                 *)
RetryDelivery(d) ==
  /\ retries < MaxRetries
  /\ delivery[d] \in {"dead_letter", "failed"}
  /\ retries' = retries + 1
  /\ delivery' = [delivery EXCEPT ![d] = "pending"]
  /\ cooling' = cooling \ {d}
  /\ outbox' = [outbox EXCEPT ![d[1]] = "pending"]
  /\ UNCHANGED <<attempts, announced, active, workerVars, received, crashes, toggles>>

-----------------------------------------------------------------------------
Deliver(w) ==
  \E d \in Deliveries :
     RefuseInactive(w, d) \/ PostAccepted(w, d) \/ PostRejected(w, d) \/ PostFailed(w, d)

Settle(w) ==
  SettleDecides(w) \/ SettleQuietly(w) \/ \E f \in Echoes : SettleAnnouncing(w, f)

Next ==
  \/ \E e \in Platform : Emit(e)
  \/ \E x \in Endpoints : ToggleEndpoint(x)
  \/ \E d \in Deliveries : BackoffElapses(d) \/ RetryDelivery(d)
  \/ \E w \in Workers : Claim(w) \/ Deliver(w) \/ Settle(w)
  \/ \E w \in Workers : SettlementLost(w) \/ Crash(w)

Spec == Init /\ [][Next]_vars

(* The schedule invokes the worker again and again, an invocation works    *)
(* through its batch (a request times out), and time passes.  Nobody has to *)
(* emit, retry, pause or crash.                                            *)
Fairness ==
  /\ \A w \in Workers : WF_vars(Claim(w) \/ Deliver(w) \/ Settle(w))
  /\ \A d \in Deliveries : WF_vars(BackoffElapses(d))

FairSpec == Spec /\ Fairness
-----------------------------------------------------------------------------
(* The tables, the invocations and the bounds hold values of their columns *)
(* and variables.                                                          *)
TypeOK ==
  /\ outbox \in [Events -> {"none", "pending", "processed", "failed"}]
  /\ delivery \in [Deliveries ->
                   {"none", "pending", "delivering", "failed", "delivered", "dead_letter"}]
  /\ cooling \subseteq Deliveries
  /\ attempts \in [Deliveries -> Nat]
  /\ active \subseteq Endpoints
  /\ batch \in [Workers -> SUBSET Deliveries]
  /\ job \in [Workers -> Jobs \cup {NoJob}]
  /\ received \subseteq Deliveries
  /\ announced \subseteq {"delivered", "dead_letter"} \X Deliveries
  /\ retries \in 0..MaxRetries /\ crashes \in 0..MaxCrashes /\ toggles \in 0..MaxToggles

(* No delivery is in the hands of two invocations, however they overlap    *)
(* and whoever retries by hand meanwhile: the claim is the only door to    *)
(* "delivering", and nothing but a settlement leads out of it.             *)
OneWorkerPerDelivery ==
  /\ \A w \in Workers : \A d \in Held(w) : delivery[d] = "delivering"
  /\ \A v, w \in Workers : v # w => Held(v) \cap Held(w) = {}
  /\ \A w \in Workers : job[w] # NoJob => job[w].delivery \notin batch[w]

(* An endpoint that keeps failing is asked MAX_ATTEMPTS times, and once    *)
(* more for each manual retry, which does not reset the count.             *)
AttemptBudget == \A d \in Deliveries : attempts[d] <= MaxAttempts + retries

(* While no endpoint is paused, an event marked processed has reached      *)
(* every endpoint that subscribes to it, whatever was claimed, retried by  *)
(* hand or settled at the same time.                                       *)
ProcessedReachedAll ==
  toggles = 0 => \A e \in Events : outbox[e] = "processed" =>
    \A x \in Endpoints : e \in Listens[x] =>
      delivery[<<e, x>>] = "delivered" /\ <<e, x>> \in received

(* The same as the claim procedure's comment has it: a processed event     *)
(* owes no delivery to anybody.                                            *)
ProcessedOwesNothing ==
  \A e \in Events : outbox[e] = "processed" =>
    \A d \in DeliveriesOf(e) : delivery[d] \in Terminal

(* Every time a delivery is given up, webhook.delivery.failed is emitted.  *)
DeadLettersAnnounced ==
  [][\A d \in Deliveries :
       delivery[d] # "dead_letter" /\ delivery'[d] = "dead_letter" =>
         announced' # announced]_vars

(* A delivery that is owed is concluded, received or given up, unless an   *)
(* invocation crashes.  And the worker drains the outbox, over and over,   *)
(* while invocations neither crash nor overlap.                            *)
EveryDeliveryConcludes ==
  [](crashes = 0) =>
    \A d \in Deliveries :
      delivery[d] \in {"pending", "delivering", "failed"} ~> delivery[d] \in Terminal
Alone == \A v, w \in Workers : v # w => {} \in {Held(v), Held(w)}
OutboxDrains ==
  [](crashes = 0 /\ Alone) => []<>(\A e \in Events : outbox[e] # "pending")
Drains == EveryDeliveryConcludes /\ OutboxDrains

(* The protocol implements the promise of AtLeastOnce.  A delivery is owed *)
(* from its fan-out until it is delivered or becomes a dead letter.        *)
Debt ==
  INSTANCE AtLeastOnce WITH
    Pairs <- Deliveries,
    debt <- [d \in Deliveries |->
               CASE delivery[d] \in {"none", "delivered"} -> delivery[d]
                 [] delivery[d] = "dead_letter" -> "abandoned"
                 [] OTHER -> "owed"]

(* What is delivered was received first, what is received twice is owed    *)
(* still, what is given up can only be reopened.                           *)
ImplementsAtLeastOnce == Debt!DebtSpec
=============================================================================
