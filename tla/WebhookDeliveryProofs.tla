------------------------ MODULE WebhookDeliveryProofs ------------------------
(***************************************************************************)
(* Theorems about the outbox and its worker, for any events, endpoints,    *)
(* number of overlapping invocations and bounds.                           *)
(***************************************************************************)
EXTENDS WebhookDelivery, TLAPS

USE DeliveryAssumption

-----------------------------------------------------------------------------
(* Types of the helpers.                                                   *)
LEMMA HelpersTyped ==
  ASSUME TypeOK, NEW d \in Deliveries,
         NEW outcome \in {"delivered", "retry", "dead_letter"}
  PROVE /\ d[1] \in Events /\ d[2] \in Endpoints
        /\ Row(d, outcome) \in [Deliveries ->
             {"none", "pending", "delivering", "failed", "delivered", "dead_letter"}]
        /\ Verdict(d, outcome) \in {"keep", "processed", "failed"}
        /\ NewKeys(d, outcome) \subseteq {"delivered", "dead_letter"} \X Deliveries
        /\ AfterFailure(d) \in {"retry", "dead_letter"}
  <1>1. d[1] \in Events /\ d[2] \in Endpoints
    BY DEF Deliveries
  <1>2. Row(d, outcome) \in [Deliveries ->
          {"none", "pending", "delivering", "failed", "delivered", "dead_letter"}]
    BY DEF TypeOK, Row, StatusOf
  <1>3. Verdict(d, outcome) \in {"keep", "processed", "failed"}
    BY DEF Verdict
  <1>4. NewKeys(d, outcome) \subseteq {"delivered", "dead_letter"} \X Deliveries
    BY DEF NewKeys
  <1>5. AfterFailure(d) \in {"retry", "dead_letter"}
    BY DEF AfterFailure
  <1> QED
    BY <1>1, <1>2, <1>3, <1>4, <1>5

LEMMA SettledTyped ==
  ASSUME TypeOK, NEW e \in Events, NEW verdict \in {"keep", "processed", "failed"}
  PROVE Settled(e, verdict) \in [Events -> {"none", "pending", "processed", "failed"}]
  BY DEF TypeOK, Settled

LEMMA StartsJobTyped ==
  ASSUME TypeOK, NEW w \in Workers, NEW d \in Deliveries,
         NEW outcome \in {"delivered", "retry", "dead_letter"},
         StartsJob(w, d, outcome), received' \subseteq Deliveries
  PROVE TypeOK'
  <1>1. job' \in [Workers -> Jobs \cup {NoJob}]
    BY DEF TypeOK, StartsJob, Jobs
  <1>2. batch' \in [Workers -> SUBSET Deliveries]
    BY DEF TypeOK, StartsJob
  <1> QED
    BY <1>1, <1>2 DEF TypeOK, StartsJob, tableVars, boundVars

LEMMA ClaimTyped ==
  ASSUME TypeOK, NEW w \in Workers, Claim(w)
  PROVE TypeOK'
  <1>1. PICK claimed \in SUBSET Due :
          /\ delivery' = [d \in Deliveries |->
                            IF d \in claimed THEN "delivering"
                            ELSE IF d \in FannedOut THEN "pending" ELSE delivery[d]]
          /\ attempts' = [d \in Deliveries |->
                            IF d \in claimed THEN attempts[d] + 1 ELSE attempts[d]]
          /\ batch' = [batch EXCEPT ![w] = claimed]
    BY DEF Claim
  <1>2. Due \subseteq Deliveries
    BY DEF Due, FannedOut
  <1>3. delivery' \in [Deliveries ->
          {"none", "pending", "delivering", "failed", "delivered", "dead_letter"}]
    BY <1>1 DEF TypeOK
  <1>4. attempts' \in [Deliveries -> Nat]
    BY <1>1 DEF TypeOK
  <1>5. batch' \in [Workers -> SUBSET Deliveries]
    BY <1>1, <1>2 DEF TypeOK
  <1>6. outbox' \in [Events -> {"none", "pending", "processed", "failed"}]
    BY DEF TypeOK, Claim
  <1> QED
    BY <1>3, <1>4, <1>5, <1>6 DEF TypeOK, Claim, boundVars

LEMMA SettleTyped ==
  ASSUME TypeOK, NEW w \in Workers, Settle(w)
  PROVE TypeOK'
  <1> DEFINE d == job[w].delivery
             outcome == job[w].outcome
  <1>1. job[w] \in Jobs
    BY DEF TypeOK, Settle, SettleDecides, SettleQuietly, SettleAnnouncing
  <1>2. d \in Deliveries /\ outcome \in {"delivered", "retry", "dead_letter"}
    BY <1>1 DEF Jobs
  <1>3. CASE SettleDecides(w)
    <2>1. Verdict(d, outcome) \in {"keep", "processed", "failed"}
      BY <1>2, HelpersTyped
    <2>2. [job[w] EXCEPT !.verdict = Verdict(d, outcome)] \in Jobs
      BY <1>1, <2>1 DEF Jobs
    <2>3. job' = [job EXCEPT ![w] = [job[w] EXCEPT !.verdict = Verdict(d, outcome)]]
      BY <1>3 DEF SettleDecides
    <2>4. job' \in [Workers -> Jobs \cup {NoJob}]
      BY <2>2, <2>3 DEF TypeOK
    <2> QED
      BY <1>3, <2>4 DEF TypeOK, SettleDecides, tableVars, boundVars
  <1>4. job[w].verdict # "open" => job[w].verdict \in {"keep", "processed", "failed"}
    BY <1>1 DEF Jobs
  <1>5. CASE SettleQuietly(w)
    <2>1. outbox' \in [Events -> {"none", "pending", "processed", "failed"}]
      <3>1. outbox' = Settled(d[1], job[w].verdict) /\ job[w].verdict # "open"
        BY <1>5 DEF SettleQuietly
      <3> QED
        BY <1>2, <1>4, <3>1, SettledTyped, HelpersTyped
    <2>2. delivery' \in [Deliveries ->
            {"none", "pending", "delivering", "failed", "delivered", "dead_letter"}]
      BY <1>2, <1>5, HelpersTyped DEF SettleQuietly
    <2>3. announced' \subseteq {"delivered", "dead_letter"} \X Deliveries
      BY <1>2, <1>5, HelpersTyped DEF SettleQuietly, TypeOK
    <2>4. cooling' \subseteq Deliveries
      BY <1>2, <1>5 DEF SettleQuietly, TypeOK
    <2>5. job' \in [Workers -> Jobs \cup {NoJob}]
      BY <1>5 DEF SettleQuietly, TypeOK
    <2> QED
      BY <1>5, <2>1, <2>2, <2>3, <2>4, <2>5 DEF TypeOK, SettleQuietly, boundVars
  <1>6. ASSUME NEW f \in Echoes, SettleAnnouncing(w, f) PROVE TypeOK'
    <2>1. f \in Events
      BY DEF Events
    <2>2. outbox' \in [Events -> {"none", "pending", "processed", "failed"}]
      <3>1. /\ outbox' = [Settled(d[1], job[w].verdict) EXCEPT ![f] = "pending"]
            /\ job[w].verdict # "open"
        BY <1>6 DEF SettleAnnouncing
      <3>2. Settled(d[1], job[w].verdict)
              \in [Events -> {"none", "pending", "processed", "failed"}]
        BY <1>2, <1>4, <3>1, SettledTyped, HelpersTyped
      <3> QED
        BY <3>1, <3>2
    <2>3. delivery' \in [Deliveries ->
            {"none", "pending", "delivering", "failed", "delivered", "dead_letter"}]
      <3>1. Row(d, outcome) \in [Deliveries ->
              {"none", "pending", "delivering", "failed", "delivered", "dead_letter"}]
        BY <1>2, HelpersTyped
      <3>2. delivery' = [o \in Deliveries |->
                           IF o \in {f} \X Endpoints THEN "none" ELSE Row(d, outcome)[o]]
        BY <1>6 DEF SettleAnnouncing
      <3> QED
        BY <3>1, <3>2
    <2>4. announced' \subseteq {"delivered", "dead_letter"} \X Deliveries
      BY <1>2, <1>6, HelpersTyped DEF SettleAnnouncing, TypeOK
    <2>5. attempts' \in [Deliveries -> Nat] /\ received' \subseteq Deliveries
      BY <1>6 DEF SettleAnnouncing, TypeOK
    <2>6. job' \in [Workers -> Jobs \cup {NoJob}]
      BY <1>6 DEF SettleAnnouncing, TypeOK
    <2> QED
      BY <1>6, <2>2, <2>3, <2>4, <2>5, <2>6 DEF TypeOK, SettleAnnouncing, boundVars
  <1> QED
    BY <1>3, <1>5, <1>6 DEF Settle

LEMMA OthersTyped ==
  ASSUME TypeOK,
         \/ \E e \in Platform : Emit(e)
         \/ \E x \in Endpoints : ToggleEndpoint(x)
         \/ \E d \in Deliveries : BackoffElapses(d) \/ RetryDelivery(d)
         \/ \E w \in Workers : SettlementLost(w) \/ Crash(w)
  PROVE TypeOK'
  <1>1. ASSUME NEW e \in Platform, Emit(e) PROVE TypeOK'
    BY <1>1 DEF TypeOK, Emit, workerVars, boundVars, Events
  <1>2. ASSUME NEW x \in Endpoints, ToggleEndpoint(x) PROVE TypeOK'
    BY <1>2 DEF TypeOK, ToggleEndpoint, tableVars, workerVars
  <1>3. ASSUME NEW d \in Deliveries, BackoffElapses(d) PROVE TypeOK'
    BY <1>3 DEF TypeOK, BackoffElapses, workerVars, boundVars
  <1>4. ASSUME NEW d \in Deliveries, RetryDelivery(d) PROVE TypeOK'
    BY <1>4 DEF TypeOK, RetryDelivery, workerVars, Deliveries
  <1>5. ASSUME NEW w \in Workers, SettlementLost(w) PROVE TypeOK'
    BY <1>5 DEF TypeOK, SettlementLost, tableVars
  <1>6. ASSUME NEW w \in Workers, Crash(w) PROVE TypeOK'
    BY <1>6 DEF TypeOK, Crash, tableVars
  <1> QED
    BY <1>1, <1>2, <1>3, <1>4, <1>5, <1>6

LEMMA DeliverTyped ==
  ASSUME TypeOK, NEW w \in Workers, Deliver(w)
  PROVE TypeOK'
  <1>1. PICK d \in Deliveries :
          RefuseInactive(w, d) \/ PostAccepted(w, d) \/ PostRejected(w, d) \/ PostFailed(w, d)
    BY DEF Deliver
  <1>2. received' \subseteq Deliveries
    BY <1>1 DEF TypeOK, RefuseInactive, PostAccepted, PostRejected, PostFailed
  <1>3. AfterFailure(d) \in {"delivered", "retry", "dead_letter"}
    BY DEF AfterFailure
  <1>4. \E outcome \in {"delivered", "retry", "dead_letter"} : StartsJob(w, d, outcome)
    BY <1>1, <1>3 DEF RefuseInactive, PostAccepted, PostRejected, PostFailed
  <1> QED
    BY <1>2, <1>4, StartsJobTyped

LEMMA TypeStep == TypeOK /\ [Next]_vars => TypeOK'
  <1> SUFFICES ASSUME TypeOK, [Next]_vars PROVE TypeOK'
    OBVIOUS
  <1>1. CASE UNCHANGED vars
    BY <1>1 DEF TypeOK, vars, tableVars, workerVars, boundVars
  <1>2. CASE Next
    BY <1>2, ClaimTyped, DeliverTyped, SettleTyped, OthersTyped DEF Next
  <1> QED
    BY <1>1, <1>2

(* Tables, invocations and bounds keep the types of their columns, under   *)
(* every step of every invocation, operator and failure.                   *)
THEOREM DeliveryTypeCorrect == Spec => []TypeOK
  <1>1. Init => TypeOK
    BY DEF Init, TypeOK
  <1> QED
    BY <1>1, TypeStep, PTL DEF Spec

-----------------------------------------------------------------------------
(* Due deliveries are in nobody's hands.                                   *)
LEMMA DueIsFree ==
  ASSUME NEW d \in Due
  PROVE d \in Deliveries /\ delivery[d] \in {"none", "pending", "failed"}
  BY DEF Due, FannedOut

LEMMA HandsKept ==
  ASSUME OneWorkerPerDelivery,
         \A v \in Workers : Held(v)' \subseteq Held(v),
         \A v \in Workers : \A d \in Held(v)' : delivery'[d] = "delivering",
         \A v \in Workers : job'[v] # NoJob => job'[v].delivery \notin batch'[v]
  PROVE OneWorkerPerDelivery'
  BY DEF OneWorkerPerDelivery

LEMMA ClaimExclusive ==
  ASSUME TypeOK, OneWorkerPerDelivery, NEW w \in Workers, Claim(w)
  PROVE OneWorkerPerDelivery'
  <1>1. PICK claimed \in SUBSET Due :
          /\ delivery' = [d \in Deliveries |->
                            IF d \in claimed THEN "delivering"
                            ELSE IF d \in FannedOut THEN "pending" ELSE delivery[d]]
          /\ batch' = [batch EXCEPT ![w] = claimed]
    BY DEF Claim
  <1>2. job[w] = NoJob /\ batch[w] = {} /\ UNCHANGED job
    BY DEF Claim
  <1>3. Held(w)' = claimed
    BY <1>1, <1>2 DEF Held, TypeOK
  <1>4. \A v \in Workers \ {w} : Held(v)' = Held(v)
    BY <1>1, <1>2 DEF Held, TypeOK
  <1>5. \A v \in Workers : Held(v) \subseteq Deliveries
    BY DEF Held, TypeOK, Jobs
  <1>6. \A v \in Workers : \A d \in Held(v) : d \notin Due
    BY DueIsFree DEF OneWorkerPerDelivery
  <1>7. FannedOut \subseteq Due
    BY DEF Due
  <1>8. \A v \in Workers : \A d \in Held(v)' : delivery'[d] = "delivering"
    <2>1. ASSUME NEW d \in claimed PROVE delivery'[d] = "delivering"
      BY <1>1, DueIsFree
    <2>2. ASSUME NEW v \in Workers \ {w}, NEW d \in Held(v) PROVE delivery'[d] = "delivering"
      BY <1>1, <1>5, <1>6, <1>7, <2>2 DEF OneWorkerPerDelivery
    <2> QED
      BY <1>3, <1>4, <2>1, <2>2
  <1>9. \A u, v \in Workers : u # v => Held(u)' \cap Held(v)' = {}
    BY <1>3, <1>4, <1>6 DEF OneWorkerPerDelivery
  <1>10. \A v \in Workers : job'[v] # NoJob => job'[v].delivery \notin batch'[v]
    BY <1>1, <1>2 DEF OneWorkerPerDelivery, TypeOK
  <1> QED
    BY <1>8, <1>9, <1>10 DEF OneWorkerPerDelivery

LEMMA DeliverExclusive ==
  ASSUME TypeOK, OneWorkerPerDelivery, NEW w \in Workers, Deliver(w)
  PROVE OneWorkerPerDelivery'
  <1>1. PICK d \in Deliveries, outcome \in {"delivered", "retry", "dead_letter"} :
          StartsJob(w, d, outcome)
    BY DEF Deliver, RefuseInactive, PostAccepted, PostRejected, PostFailed, AfterFailure
  <1>2. /\ job[w] = NoJob /\ d \in batch[w]
        /\ batch' = [batch EXCEPT ![w] = batch[w] \ {d}]
        /\ job' = [job EXCEPT ![w] =
                     [delivery |-> d, outcome |-> outcome, verdict |-> "open"]]
        /\ UNCHANGED delivery
    BY <1>1 DEF StartsJob, tableVars
  <1>3. \A v \in Workers : Held(v)' \subseteq Held(v)
    BY <1>2 DEF Held, TypeOK
  <1>4. \A v \in Workers : job'[v] # NoJob => job'[v].delivery \notin batch'[v]
    BY <1>2 DEF OneWorkerPerDelivery, TypeOK
  <1>5. \A v \in Workers : \A o \in Held(v)' : delivery'[o] = "delivering"
    BY <1>2, <1>3 DEF OneWorkerPerDelivery
  <1> QED
    BY <1>3, <1>4, <1>5, HandsKept

(* A free id of an echo has no delivery in anybody's hands.                *)
LEMMA FreeEchoNotHeld ==
  ASSUME TypeOK, OneWorkerPerDelivery, NEW f \in Echoes, FreeEcho(f),
         NEW w \in Workers, NEW d \in Held(w)
  PROVE d \notin {f} \X Endpoints
  <1>1. delivery[d] = "delivering" /\ d \in Deliveries
    BY DEF OneWorkerPerDelivery, Held, TypeOK, Jobs
  <1> QED
    BY <1>1 DEF FreeEcho, DeliveriesOf, Terminal

LEMMA SettleExclusive ==
  ASSUME TypeOK, OneWorkerPerDelivery, NEW w \in Workers, Settle(w)
  PROVE OneWorkerPerDelivery'
  <1> DEFINE d == job[w].delivery
             outcome == job[w].outcome
  <1>1. job[w] \in Jobs /\ job[w] # NoJob
    BY DEF TypeOK, Settle, SettleDecides, SettleQuietly, SettleAnnouncing
  <1>2. d \in Deliveries /\ outcome \in {"delivered", "retry", "dead_letter"} /\ d \in Held(w)
    BY <1>1 DEF Jobs, Held
  <1>3. CASE SettleDecides(w)
    <2>1. job' = [job EXCEPT ![w] = [job[w] EXCEPT !.verdict = Verdict(d, outcome)]]
      BY <1>3 DEF SettleDecides
    <2>2. job'[w].delivery = d
      BY <1>1, <2>1 DEF Jobs, TypeOK
    <2>3. /\ \A v \in Workers : v # w => job'[v] = job[v]
          /\ UNCHANGED <<batch, delivery>>
      BY <1>3, <2>1 DEF TypeOK, SettleDecides, tableVars
    <2>4. \A v \in Workers : Held(v)' \subseteq Held(v)
      BY <1>1, <2>2, <2>3 DEF Held
    <2>5. \A v \in Workers : job'[v] # NoJob => job'[v].delivery \notin batch'[v]
      BY <1>1, <2>2, <2>3 DEF OneWorkerPerDelivery
    <2>6. \A v \in Workers : \A o \in Held(v)' : delivery'[o] = "delivering"
      BY <2>3, <2>4 DEF OneWorkerPerDelivery
    <2> QED
      BY <2>4, <2>5, <2>6, HandsKept
  <1>4. ASSUME job' = [job EXCEPT ![w] = NoJob], UNCHANGED batch
        PROVE /\ \A v \in Workers : Held(v)' \subseteq Held(v)
              /\ \A v \in Workers : d \notin Held(v)'
              /\ \A v \in Workers : job'[v] # NoJob => job'[v].delivery \notin batch'[v]
    <2>1. Held(w)' = batch[w]
      BY <1>4 DEF Held, TypeOK
    <2>2. \A v \in Workers : v # w => Held(v)' = Held(v) /\ d \notin Held(v)
      BY <1>2, <1>4 DEF Held, TypeOK, OneWorkerPerDelivery
    <2>3. d \notin batch[w]
      BY <1>1 DEF OneWorkerPerDelivery
    <2>4. \A v \in Workers : job'[v] # NoJob => job'[v].delivery \notin batch'[v]
      BY <1>4 DEF OneWorkerPerDelivery, TypeOK
    <2> QED
      BY <2>1, <2>2, <2>3, <2>4 DEF Held
  <1>5. \A o \in Deliveries : o # d => Row(d, outcome)[o] = delivery[o]
    BY DEF Row, TypeOK
  <1>6. \A v \in Workers : Held(v) \subseteq Deliveries
    BY DEF Held, TypeOK, Jobs
  <1>7. CASE SettleQuietly(w)
    <2>1. /\ job' = [job EXCEPT ![w] = NoJob] /\ UNCHANGED batch
          /\ delivery' = Row(d, outcome)
      BY <1>7 DEF SettleQuietly
    <2>2. \A v \in Workers : \A o \in Held(v)' : delivery'[o] = "delivering"
      BY <1>4, <1>5, <1>6, <2>1 DEF OneWorkerPerDelivery
    <2> QED
      BY <1>4, <2>1, <2>2, HandsKept
  <1>8. ASSUME NEW f \in Echoes, SettleAnnouncing(w, f) PROVE OneWorkerPerDelivery'
    <2>1. /\ job' = [job EXCEPT ![w] = NoJob] /\ UNCHANGED batch
          /\ delivery' = [o \in Deliveries |->
                            IF o \in {f} \X Endpoints THEN "none" ELSE Row(d, outcome)[o]]
          /\ FreeEcho(f)
      BY <1>8 DEF SettleAnnouncing
    <2>2. ASSUME NEW v \in Workers, NEW o \in Held(v)' PROVE delivery'[o] = "delivering"
      <3>1. o \in Held(v) /\ o # d /\ o \in Deliveries
        BY <1>4, <1>6, <2>1, <2>2
      <3>2. o \notin {f} \X Endpoints
        BY <2>1, <3>1, FreeEchoNotHeld
      <3> QED
        BY <1>5, <2>1, <3>1, <3>2 DEF OneWorkerPerDelivery
    <2> QED
      BY <1>4, <2>1, <2>2, HandsKept
  <1> QED
    BY <1>3, <1>7, <1>8 DEF Settle

LEMMA OthersExclusive ==
  ASSUME TypeOK, OneWorkerPerDelivery,
         \/ \E e \in Platform : Emit(e)
         \/ \E x \in Endpoints : ToggleEndpoint(x)
         \/ \E d \in Deliveries : BackoffElapses(d) \/ RetryDelivery(d)
         \/ \E w \in Workers : SettlementLost(w) \/ Crash(w)
         \/ UNCHANGED vars
  PROVE OneWorkerPerDelivery'
  <1>1. ASSUME UNCHANGED <<batch, job>>,
               \A d \in Deliveries : delivery[d] = "delivering" => delivery'[d] = "delivering"
        PROVE OneWorkerPerDelivery'
    <2>1. \A v \in Workers : Held(v)' = Held(v) /\ Held(v) \subseteq Deliveries
      BY <1>1 DEF Held, TypeOK, Jobs
    <2> QED
      BY <1>1, <2>1 DEF OneWorkerPerDelivery
  <1>2. ASSUME NEW w \in Workers, job' = [job EXCEPT ![w] = NoJob],
               batch' = batch \/ batch' = [batch EXCEPT ![w] = {}], UNCHANGED delivery
        PROVE OneWorkerPerDelivery'
    <2>1. \A v \in Workers : Held(v)' \subseteq Held(v)
      BY <1>2 DEF Held, TypeOK
    <2>2. \A v \in Workers : job'[v] # NoJob => job'[v].delivery \notin batch'[v]
      BY <1>2 DEF OneWorkerPerDelivery, TypeOK
    <2>3. \A v \in Workers : \A d \in Held(v)' : delivery'[d] = "delivering"
      BY <1>2, <2>1 DEF OneWorkerPerDelivery
    <2> QED
      BY <2>1, <2>2, <2>3, HandsKept
  <1>3. ASSUME NEW e \in Platform, Emit(e) PROVE OneWorkerPerDelivery'
    BY <1>1, <1>3 DEF Emit, workerVars
  <1>4. ASSUME NEW x \in Endpoints, ToggleEndpoint(x) PROVE OneWorkerPerDelivery'
    BY <1>1, <1>4 DEF ToggleEndpoint, workerVars, tableVars
  <1>5. ASSUME NEW d \in Deliveries, BackoffElapses(d) PROVE OneWorkerPerDelivery'
    BY <1>1, <1>5 DEF BackoffElapses, workerVars
  <1>6. ASSUME NEW d \in Deliveries, RetryDelivery(d) PROVE OneWorkerPerDelivery'
    <2>1. \A o \in Deliveries : delivery[o] = "delivering" => delivery'[o] = "delivering"
      BY <1>6 DEF RetryDelivery, TypeOK
    <2> QED
      BY <1>1, <1>6, <2>1 DEF RetryDelivery, workerVars
  <1>7. ASSUME NEW w \in Workers, SettlementLost(w) PROVE OneWorkerPerDelivery'
    BY <1>2, <1>7 DEF SettlementLost, tableVars
  <1>8. ASSUME NEW w \in Workers, Crash(w) PROVE OneWorkerPerDelivery'
    BY <1>2, <1>8 DEF Crash, tableVars
  <1>9. CASE UNCHANGED vars
    BY <1>1, <1>9 DEF vars, workerVars, tableVars
  <1> QED
    BY <1>3, <1>4, <1>5, <1>6, <1>7, <1>8, <1>9

LEMMA ExclusiveStep ==
  TypeOK /\ OneWorkerPerDelivery /\ [Next]_vars => OneWorkerPerDelivery'
  BY ClaimExclusive, DeliverExclusive, SettleExclusive, OthersExclusive DEF Next

(* Overlapping invocations never hold the same delivery, and what one      *)
(* holds is marked delivering, whatever is retried or crashes meanwhile.   *)
THEOREM ClaimsExclusive == Spec => []OneWorkerPerDelivery
  <1>1. Init => OneWorkerPerDelivery
    BY DEF Init, OneWorkerPerDelivery, Held
  <1> QED
    BY <1>1, ExclusiveStep, DeliveryTypeCorrect, PTL DEF Spec

-----------------------------------------------------------------------------
(* Why the budget holds: what may still be claimed has an attempt left, and *)
(* what is about to be tried again has one left without a manual retry.    *)
AttemptsLeft ==
  /\ AttemptBudget
  /\ \A d \in Deliveries : delivery[d] \in {"none", "pending", "failed"} =>
       attempts[d] < MaxAttempts + retries
  /\ \A w \in Workers : job[w] # NoJob /\ job[w].outcome = "retry" =>
       attempts[job[w].delivery] < MaxAttempts

LEMMA ClaimAttempts ==
  ASSUME TypeOK, OneWorkerPerDelivery, AttemptsLeft, NEW w \in Workers, Claim(w)
  PROVE AttemptsLeft'
  <1>1. PICK claimed \in SUBSET Due :
          /\ delivery' = [d \in Deliveries |->
                            IF d \in claimed THEN "delivering"
                            ELSE IF d \in FannedOut THEN "pending" ELSE delivery[d]]
          /\ attempts' = [d \in Deliveries |->
                            IF d \in claimed THEN attempts[d] + 1 ELSE attempts[d]]
    BY DEF Claim
  <1>2. UNCHANGED <<job, retries>>
    BY DEF Claim, boundVars
  <1>3. \A d \in claimed : delivery[d] \in {"none", "pending", "failed"}
    BY <1>1, DueIsFree
  <1>4. \A d \in Deliveries : attempts[d] \in Nat
    BY DEF TypeOK
  <1>5. AttemptBudget'
    BY <1>1, <1>2, <1>3, <1>4 DEF AttemptsLeft, AttemptBudget, TypeOK
  <1>6. ASSUME NEW d \in Deliveries, delivery'[d] \in {"none", "pending", "failed"}
        PROVE attempts'[d] < MaxAttempts + retries'
    <2>1. d \notin claimed /\ attempts'[d] = attempts[d]
      BY <1>1, <1>6
    <2>2. d \in FannedOut => delivery[d] = "none"
      BY DEF FannedOut
    <2>3. delivery[d] \in {"none", "pending", "failed"}
      BY <1>1, <1>6, <2>1, <2>2
    <2> QED
      BY <1>2, <2>1, <2>3 DEF AttemptsLeft
  <1>7. ASSUME NEW v \in Workers, job[v] # NoJob, job[v].outcome = "retry"
        PROVE attempts'[job[v].delivery] < MaxAttempts
    <2>1. delivery[job[v].delivery] = "delivering" /\ job[v].delivery \in Deliveries
      BY <1>7 DEF OneWorkerPerDelivery, Held, TypeOK, Jobs
    <2> QED
      BY <1>1, <1>3, <1>7, <2>1 DEF AttemptsLeft
  <1> QED
    BY <1>2, <1>5, <1>6, <1>7 DEF AttemptsLeft

LEMMA DeliverAttempts ==
  ASSUME TypeOK, AttemptsLeft, NEW w \in Workers, Deliver(w)
  PROVE AttemptsLeft'
  <1>1. PICK d \in Deliveries, outcome \in {"delivered", "retry", "dead_letter"} :
          StartsJob(w, d, outcome) /\ (outcome = "retry" => attempts[d] < MaxAttempts)
    BY DEF Deliver, RefuseInactive, PostAccepted, PostRejected, PostFailed, AfterFailure
  <1>2. /\ job' = [job EXCEPT ![w] =
                     [delivery |-> d, outcome |-> outcome, verdict |-> "open"]]
        /\ UNCHANGED <<delivery, attempts, retries>>
    BY <1>1 DEF StartsJob, tableVars, boundVars
  <1>3. \A v \in Workers : job'[v] # NoJob /\ job'[v].outcome = "retry" =>
          attempts'[job'[v].delivery] < MaxAttempts
    BY <1>1, <1>2 DEF AttemptsLeft, TypeOK
  <1> QED
    BY <1>2, <1>3 DEF AttemptsLeft, AttemptBudget

LEMMA SettleAttempts ==
  ASSUME TypeOK, OneWorkerPerDelivery, AttemptsLeft, NEW w \in Workers, Settle(w)
  PROVE AttemptsLeft'
  <1> DEFINE d == job[w].delivery
             outcome == job[w].outcome
  <1>1. job[w] \in Jobs /\ job[w] # NoJob
    BY DEF TypeOK, Settle, SettleDecides, SettleQuietly, SettleAnnouncing
  <1>2. d \in Deliveries
    BY <1>1 DEF Jobs
  <1>3. \A o \in Deliveries : attempts[o] \in Nat
    BY DEF TypeOK
  <1>4. \A o \in Deliveries : Row(d, outcome)[o] \in {"none", "pending", "failed"} =>
          attempts[o] < MaxAttempts + retries
    <2>1. \A o \in Deliveries : o # d => Row(d, outcome)[o] = delivery[o]
      BY DEF Row, TypeOK
    <2>2. Row(d, outcome)[d] = StatusOf(outcome)
      BY <1>2 DEF Row, TypeOK
    <2>3. outcome # "retry" => StatusOf(outcome) \in {"delivered", "dead_letter"}
      BY <1>1 DEF StatusOf, Jobs
    <2>4. outcome = "retry" => attempts[d] < MaxAttempts
      BY <1>1 DEF AttemptsLeft
    <2>5. retries \in Nat
      BY DEF TypeOK
    <2>6. outcome = "retry" => attempts[d] < MaxAttempts + retries
      BY <1>2, <1>3, <2>4, <2>5
    <2> QED
      BY <2>1, <2>2, <2>3, <2>6 DEF AttemptsLeft
  <1>5. CASE SettleDecides(w)
    <2>1. job' = [job EXCEPT ![w] = [job[w] EXCEPT !.verdict = Verdict(d, outcome)]]
      BY <1>5 DEF SettleDecides
    <2>2. job'[w].delivery = d /\ job'[w].outcome = outcome
      BY <1>1, <2>1 DEF Jobs, TypeOK
    <2>3. UNCHANGED <<delivery, attempts, retries>>
      BY <1>5 DEF SettleDecides, tableVars, boundVars
    <2>4. \A v \in Workers : v # w => job'[v] = job[v]
      BY <2>1 DEF TypeOK
    <2>5. \A v \in Workers : job'[v] # NoJob /\ job'[v].outcome = "retry" =>
            attempts'[job'[v].delivery] < MaxAttempts
      BY <1>1, <2>2, <2>3, <2>4 DEF AttemptsLeft
    <2> QED
      BY <2>3, <2>5 DEF AttemptsLeft, AttemptBudget
  <1>6. CASE SettleQuietly(w)
    <2>1. /\ job' = [job EXCEPT ![w] = NoJob] /\ UNCHANGED <<attempts, retries>>
          /\ delivery' = Row(d, outcome)
      BY <1>6 DEF SettleQuietly, boundVars
    <2>2. \A v \in Workers : job'[v] # NoJob /\ job'[v].outcome = "retry" =>
            attempts'[job'[v].delivery] < MaxAttempts
      BY <2>1 DEF AttemptsLeft, TypeOK
    <2> QED
      BY <1>4, <2>1, <2>2 DEF AttemptsLeft, AttemptBudget
  <1>7. ASSUME NEW f \in Echoes, SettleAnnouncing(w, f) PROVE AttemptsLeft'
    <2>1. /\ job' = [job EXCEPT ![w] = NoJob] /\ UNCHANGED retries /\ FreeEcho(f)
          /\ delivery' = [o \in Deliveries |->
                            IF o \in {f} \X Endpoints THEN "none" ELSE Row(d, outcome)[o]]
          /\ attempts' = [o \in Deliveries |->
                            IF o \in {f} \X Endpoints THEN 0 ELSE attempts[o]]
      BY <1>7 DEF SettleAnnouncing, boundVars
    <2>2. 0 < MaxAttempts + retries /\ 0 <= MaxAttempts + retries
      BY DEF TypeOK
    <2>4. AttemptBudget'
      <3>1. \A o \in Deliveries : attempts[o] <= MaxAttempts + retries
        BY DEF AttemptsLeft, AttemptBudget
      <3>2. \A o \in Deliveries : attempts'[o] <= MaxAttempts + retries
        BY <2>1, <2>2, <3>1
      <3> QED
        BY <2>1, <3>2 DEF AttemptBudget
    <2>5. \A o \in Deliveries : delivery'[o] \in {"none", "pending", "failed"} =>
            attempts'[o] < MaxAttempts + retries'
      BY <1>4, <2>1, <2>2
    <2>6. \A v \in Workers : job'[v] # NoJob /\ job'[v].outcome = "retry" =>
            attempts'[job'[v].delivery] < MaxAttempts
      BY <1>3, <2>1 DEF AttemptsLeft, TypeOK, Jobs
    <2> QED
      BY <2>4, <2>5, <2>6 DEF AttemptsLeft
  <1> QED
    BY <1>5, <1>6, <1>7 DEF Settle

LEMMA OthersAttempts ==
  ASSUME TypeOK, OneWorkerPerDelivery, AttemptsLeft,
         \/ \E e \in Platform : Emit(e)
         \/ \E x \in Endpoints : ToggleEndpoint(x)
         \/ \E d \in Deliveries : BackoffElapses(d) \/ RetryDelivery(d)
         \/ \E w \in Workers : SettlementLost(w) \/ Crash(w)
         \/ UNCHANGED vars
  PROVE AttemptsLeft'
  <1>1. ASSUME UNCHANGED <<delivery, attempts, retries>>,
               \A w \in Workers : job'[w] = NoJob \/ job'[w] = job[w]
        PROVE AttemptsLeft'
    BY <1>1 DEF AttemptsLeft, AttemptBudget
  <1>2. ASSUME NEW d \in Deliveries, RetryDelivery(d) PROVE AttemptsLeft'
    <2>1. /\ delivery' = [delivery EXCEPT ![d] = "pending"]
          /\ UNCHANGED <<attempts, job>> /\ retries' = retries + 1
      BY <1>2 DEF RetryDelivery, workerVars
    <2>2. \A o \in Deliveries : attempts[o] < MaxAttempts + retries'
      BY <2>1 DEF AttemptsLeft, AttemptBudget, TypeOK
    <2> QED
      BY <2>1, <2>2 DEF AttemptsLeft, AttemptBudget, TypeOK
  <1>3. ASSUME NEW e \in Platform, Emit(e) PROVE AttemptsLeft'
    BY <1>1, <1>3 DEF Emit, workerVars, boundVars
  <1>4. ASSUME NEW x \in Endpoints, ToggleEndpoint(x) PROVE AttemptsLeft'
    BY <1>1, <1>4 DEF ToggleEndpoint, workerVars, tableVars
  <1>5. ASSUME NEW d \in Deliveries, BackoffElapses(d) PROVE AttemptsLeft'
    BY <1>1, <1>5 DEF BackoffElapses, workerVars, boundVars
  <1>6. ASSUME NEW w \in Workers, SettlementLost(w) \/ Crash(w) PROVE AttemptsLeft'
    BY <1>1, <1>6 DEF SettlementLost, Crash, tableVars, TypeOK
  <1>7. CASE UNCHANGED vars
    BY <1>1, <1>7 DEF vars, workerVars, tableVars, boundVars
  <1> QED
    BY <1>2, <1>3, <1>4, <1>5, <1>6, <1>7

LEMMA AttemptsStep ==
  TypeOK /\ OneWorkerPerDelivery /\ AttemptsLeft /\ [Next]_vars => AttemptsLeft'
  BY ClaimAttempts, DeliverAttempts, SettleAttempts, OthersAttempts DEF Next

(* An endpoint is asked at most MAX_ATTEMPTS times for one event, and once *)
(* more for each manual retry.                                             *)
THEOREM BudgetKept == Spec => []AttemptBudget
  <1>1. Init => AttemptsLeft
    BY DEF Init, AttemptsLeft, AttemptBudget
  <1>2. AttemptsLeft => AttemptBudget
    BY DEF AttemptsLeft
  <1> QED
    BY <1>1, <1>2, AttemptsStep, DeliveryTypeCorrect, ClaimsExclusive, PTL DEF Spec

-----------------------------------------------------------------------------
(* What a row or an invocation calls delivered has been received.          *)
ReceivedFirst ==
  /\ \A d \in Deliveries : delivery[d] = "delivered" => d \in received
  /\ \A w \in Workers : job[w] # NoJob /\ job[w].outcome = "delivered" =>
       job[w].delivery \in received

LEMMA DeliverReceived ==
  ASSUME TypeOK, ReceivedFirst, NEW w \in Workers, Deliver(w)
  PROVE ReceivedFirst'
  <1>1. PICK d \in Deliveries, outcome \in {"delivered", "retry", "dead_letter"} :
          /\ StartsJob(w, d, outcome) /\ received \subseteq received'
          /\ outcome = "delivered" => d \in received'
    BY DEF Deliver, RefuseInactive, PostAccepted, PostRejected, PostFailed, AfterFailure
  <1>2. /\ job' = [job EXCEPT ![w] =
                     [delivery |-> d, outcome |-> outcome, verdict |-> "open"]]
        /\ UNCHANGED delivery
    BY <1>1 DEF StartsJob, tableVars
  <1> QED
    BY <1>1, <1>2 DEF ReceivedFirst, TypeOK

LEMMA SettleReceived ==
  ASSUME TypeOK, OneWorkerPerDelivery, ReceivedFirst, NEW w \in Workers, Settle(w)
  PROVE ReceivedFirst'
  <1> DEFINE d == job[w].delivery
             outcome == job[w].outcome
  <1>1. job[w] \in Jobs /\ job[w] # NoJob
    BY DEF TypeOK, Settle, SettleDecides, SettleQuietly, SettleAnnouncing
  <1>2. \A o \in Deliveries : Row(d, outcome)[o] = "delivered" => o \in received
    BY <1>1 DEF Row, StatusOf, ReceivedFirst, TypeOK, Jobs
  <1>3. CASE SettleDecides(w)
    <2>1. job' = [job EXCEPT ![w] = [job[w] EXCEPT !.verdict = Verdict(d, outcome)]]
      BY <1>3 DEF SettleDecides
    <2>2. job'[w].delivery = d /\ job'[w].outcome = outcome
      BY <1>1, <2>1 DEF Jobs, TypeOK
    <2>3. UNCHANGED <<delivery, received>>
      BY <1>3 DEF SettleDecides, tableVars
    <2>4. \A v \in Workers : v # w => job'[v] = job[v]
      BY <2>1 DEF TypeOK
    <2> QED
      BY <1>1, <2>2, <2>3, <2>4 DEF ReceivedFirst
  <1>4. CASE SettleQuietly(w)
    <2>1. /\ job' = [job EXCEPT ![w] = NoJob] /\ UNCHANGED received
          /\ delivery' = Row(d, outcome)
      BY <1>4 DEF SettleQuietly
    <2> QED
      BY <1>2, <2>1 DEF ReceivedFirst, TypeOK
  <1>5. ASSUME NEW f \in Echoes, SettleAnnouncing(w, f) PROVE ReceivedFirst'
    <2>1. /\ job' = [job EXCEPT ![w] = NoJob] /\ FreeEcho(f)
          /\ delivery' = [o \in Deliveries |->
                            IF o \in {f} \X Endpoints THEN "none" ELSE Row(d, outcome)[o]]
          /\ received' = received \ ({f} \X Endpoints)
      BY <1>5 DEF SettleAnnouncing
    <2>2. \A o \in Deliveries : delivery'[o] = "delivered" => o \in received'
      BY <1>2, <2>1
    <2>3. ASSUME NEW v \in Workers, job'[v] # NoJob, job'[v].outcome = "delivered"
          PROVE job'[v].delivery \in received'
      <3>1. job'[v] = job[v] /\ job[v] # NoJob
        BY <2>1, <2>3 DEF TypeOK
      <3>2. job[v].delivery \in Held(v)
        BY <3>1 DEF Held
      <3>3. job[v].delivery \notin {f} \X Endpoints
        BY <2>1, <3>2, FreeEchoNotHeld
      <3> QED
        BY <2>1, <2>3, <3>1, <3>3 DEF ReceivedFirst
    <2> QED
      BY <2>2, <2>3 DEF ReceivedFirst
  <1> QED
    BY <1>3, <1>4, <1>5 DEF Settle

LEMMA OthersReceived ==
  ASSUME TypeOK, OneWorkerPerDelivery, ReceivedFirst,
         \/ \E e \in Platform : Emit(e)
         \/ \E x \in Endpoints : ToggleEndpoint(x)
         \/ \E d \in Deliveries : BackoffElapses(d) \/ RetryDelivery(d)
         \/ \E w \in Workers : Claim(w) \/ SettlementLost(w) \/ Crash(w)
         \/ UNCHANGED vars
  PROVE ReceivedFirst'
  <1>1. ASSUME UNCHANGED received, \A w \in Workers : job'[w] = NoJob \/ job'[w] = job[w],
               \A d \in Deliveries : delivery'[d] = "delivered" => delivery[d] = "delivered"
        PROVE ReceivedFirst'
    BY <1>1 DEF ReceivedFirst
  <1>2. ASSUME NEW d \in Deliveries, RetryDelivery(d) PROVE ReceivedFirst'
    BY <1>1, <1>2 DEF RetryDelivery, workerVars, TypeOK
  <1>3. ASSUME NEW w \in Workers, Claim(w) PROVE ReceivedFirst'
    <2>1. \A d \in Deliveries : delivery'[d] = "delivered" => delivery[d] = "delivered"
      BY <1>3 DEF Claim
    <2> QED
      BY <1>1, <1>3, <2>1 DEF Claim
  <1>4. ASSUME NEW e \in Platform, Emit(e) PROVE ReceivedFirst'
    BY <1>1, <1>4 DEF Emit, workerVars
  <1>5. ASSUME NEW x \in Endpoints, ToggleEndpoint(x) PROVE ReceivedFirst'
    BY <1>1, <1>5 DEF ToggleEndpoint, workerVars, tableVars
  <1>6. ASSUME NEW d \in Deliveries, BackoffElapses(d) PROVE ReceivedFirst'
    BY <1>1, <1>6 DEF BackoffElapses, workerVars
  <1>7. ASSUME NEW w \in Workers, SettlementLost(w) \/ Crash(w) PROVE ReceivedFirst'
    BY <1>1, <1>7 DEF SettlementLost, Crash, tableVars, TypeOK
  <1>8. CASE UNCHANGED vars
    BY <1>1, <1>8 DEF vars, workerVars, tableVars
  <1> QED
    BY <1>2, <1>3, <1>4, <1>5, <1>6, <1>7, <1>8

LEMMA ReceivedAlways == Spec => []ReceivedFirst
  <1>1. Init => ReceivedFirst
    BY DEF Init, ReceivedFirst
  <1>2. TypeOK /\ OneWorkerPerDelivery /\ ReceivedFirst /\ [Next]_vars => ReceivedFirst'
    BY DeliverReceived, SettleReceived, OthersReceived DEF Next
  <1> QED
    BY <1>1, <1>2, DeliveryTypeCorrect, ClaimsExclusive, PTL DEF Spec

-----------------------------------------------------------------------------
(* Implementation of AtLeastOnce, where no event is emitted about          *)
(* deliveries: an id of such an event stands for many.                     *)
DebtOf(s) ==
  CASE s \in {"none", "delivered"} -> s [] s = "dead_letter" -> "abandoned" [] OTHER -> "owed"

LEMMA DebtStep ==
  ASSUME Echoes = {}, TypeOK, OneWorkerPerDelivery, ReceivedFirst, [Next]_vars
  PROVE [Debt!DebtNext]_(Debt!debtVars)
  <1> USE DEF DebtOf
  <1>1. ASSUME UNCHANGED received, \A d \in Deliveries : DebtOf(delivery'[d]) = DebtOf(delivery[d])
        PROVE UNCHANGED Debt!debtVars
    BY <1>1 DEF Debt!debtVars
  <1>2. ASSUME NEW e \in Platform, Emit(e) PROVE UNCHANGED Debt!debtVars
    BY <1>1, <1>2 DEF Emit
  <1>3. ASSUME NEW x \in Endpoints, ToggleEndpoint(x) PROVE UNCHANGED Debt!debtVars
    BY <1>1, <1>3 DEF ToggleEndpoint, tableVars
  <1>4. ASSUME NEW d \in Deliveries, BackoffElapses(d) PROVE UNCHANGED Debt!debtVars
    BY <1>1, <1>4 DEF BackoffElapses
  <1>5. ASSUME NEW w \in Workers, SettlementLost(w) \/ Crash(w) PROVE UNCHANGED Debt!debtVars
    BY <1>1, <1>5 DEF SettlementLost, Crash, tableVars
  <1>6. CASE UNCHANGED vars
    BY <1>1, <1>6 DEF vars, tableVars
  <1>7. ASSUME NEW d \in Deliveries, RetryDelivery(d)
        PROVE Debt!Reopen(d) \/ UNCHANGED Debt!debtVars
    <2>1. delivery' = [delivery EXCEPT ![d] = "pending"] /\ UNCHANGED received
      BY <1>7 DEF RetryDelivery
    <2>2. CASE delivery[d] = "failed"
      BY <1>1, <2>1, <2>2 DEF TypeOK
    <2>3. CASE delivery[d] = "dead_letter"
      BY <2>1, <2>3 DEF Debt!Reopen, Debt!Becomes, TypeOK
    <2> QED
      BY <1>7, <2>2, <2>3 DEF RetryDelivery
  <1>8. ASSUME NEW w \in Workers, Claim(w)
        PROVE \E S \in SUBSET Deliveries : Debt!Owe(S)
    <2>1. PICK claimed \in SUBSET Due :
            delivery' = [d \in Deliveries |->
                           IF d \in claimed THEN "delivering"
                           ELSE IF d \in FannedOut THEN "pending" ELSE delivery[d]]
      BY <1>8 DEF Claim
    <2>2. UNCHANGED received
      BY <1>8 DEF Claim
    <2>3. \A d \in Due : d \in FannedOut \/ delivery[d] \in {"pending", "failed"}
      BY DEF Due
    <2>4. \A d \in FannedOut : delivery[d] = "none" /\ d \in Deliveries
      BY DEF FannedOut
    <2>5. \A d \in Deliveries : DebtOf(delivery'[d]) =
            IF d \in FannedOut THEN "owed" ELSE DebtOf(delivery[d])
      BY <2>1, <2>3, <2>4
    <2>6. PICK S \in SUBSET Deliveries : S = FannedOut
      BY <2>4
    <2>7. Debt!Owe(S)
      BY <2>2, <2>4, <2>5, <2>6 DEF Debt!Owe, Debt!Becomes
    <2> QED
      BY <2>7
  <1>9. ASSUME NEW w \in Workers, Deliver(w)
        PROVE (\E d \in Deliveries : Debt!Receive(d)) \/ UNCHANGED Debt!debtVars
    <2>1. PICK d \in Deliveries :
            /\ d \in batch[w] /\ UNCHANGED delivery
            /\ UNCHANGED received \/ received' = received \cup {d}
      BY <1>9 DEF Deliver, RefuseInactive, PostAccepted, PostRejected, PostFailed,
                  StartsJob, tableVars
    <2>2. delivery[d] = "delivering"
      BY <2>1 DEF OneWorkerPerDelivery, Held
    <2>3. CASE UNCHANGED received
      BY <1>1, <2>1, <2>3
    <2>4. CASE received' = received \cup {d}
      BY <2>1, <2>2, <2>4 DEF Debt!Receive
    <2> QED
      BY <2>1, <2>3, <2>4
  <1>10. ASSUME NEW w \in Workers, Settle(w)
         PROVE \/ \E d \in Deliveries : Debt!Conclude(d) \/ Debt!Abandon(d)
               \/ UNCHANGED Debt!debtVars
    <2>1. CASE SettleDecides(w)
      BY <1>1, <2>1 DEF SettleDecides, tableVars
    <2>2. CASE SettleQuietly(w)
      <3>1. job[w] \in Jobs /\ job[w] # NoJob
        BY <2>2 DEF TypeOK, SettleQuietly
      <3>2. PICK d \in Deliveries, outcome \in {"delivered", "retry", "dead_letter"} :
              d = job[w].delivery /\ outcome = job[w].outcome
        BY <3>1 DEF Jobs
      <3>3. delivery[d] = "delivering"
        BY <3>1, <3>2 DEF OneWorkerPerDelivery, Held
      <3>4. /\ UNCHANGED received
            /\ delivery' = [delivery EXCEPT ![d] = StatusOf(outcome)]
        BY <2>2, <3>2 DEF SettleQuietly, Row
      <3>5. CASE outcome = "retry"
        BY <1>1, <3>2, <3>3, <3>4, <3>5 DEF StatusOf, TypeOK
      <3>6. CASE outcome = "delivered"
        <4>1. d \in received
          BY <3>1, <3>2, <3>6 DEF ReceivedFirst
        <4>2. Debt!Conclude(d)
          BY <3>2, <3>3, <3>4, <3>6, <4>1 DEF Debt!Conclude, Debt!Becomes, StatusOf, TypeOK
        <4> QED
          BY <4>2
      <3>7. CASE outcome = "dead_letter"
        <4>1. Debt!Abandon(d)
          BY <3>2, <3>3, <3>4, <3>7 DEF Debt!Abandon, Debt!Becomes, StatusOf, TypeOK
        <4> QED
          BY <4>1
      <3> QED
        BY <3>2, <3>5, <3>6, <3>7
    <2> QED
      BY <1>10, <2>1, <2>2 DEF Settle
  <1> QED
    <2> SUFFICES ASSUME Next PROVE Debt!DebtNext \/ UNCHANGED Debt!debtVars
      BY <1>6
    <2>1. CASE \E w \in Workers : Claim(w)
      BY <1>8, <2>1 DEF Debt!DebtNext
    <2>2. CASE \E w \in Workers : Deliver(w) \/ Settle(w)
      BY <1>9, <1>10, <2>2 DEF Debt!DebtNext
    <2>3. CASE \E d \in Deliveries : RetryDelivery(d)
      BY <1>7, <2>3 DEF Debt!DebtNext
    <2> QED
      BY <1>2, <1>3, <1>4, <1>5, <2>1, <2>2, <2>3 DEF Next

(* The protocol of claims and settlements keeps the promise of the outbox: *)
(* nothing is called delivered that was not received, and nothing leaves   *)
(* the books but by delivery, by a dead letter, or back by a manual retry. *)
THEOREM DebtImplemented == Echoes = {} => (Spec => ImplementsAtLeastOnce)
  <1> SUFFICES ASSUME Echoes = {} PROVE Spec => Debt!DebtSpec
    BY DEF ImplementsAtLeastOnce
  <1>1. Init => Debt!DebtInit
    BY DEF Init, Debt!DebtInit
  <1>2. TypeOK /\ OneWorkerPerDelivery /\ ReceivedFirst /\ [Next]_vars
          => [Debt!DebtNext]_(Debt!debtVars)
    BY DebtStep
  <1> QED
    BY <1>1, <1>2, DeliveryTypeCorrect, ClaimsExclusive, ReceivedAlways, PTL
       DEF Spec, Debt!DebtSpec

-----------------------------------------------------------------------------
(* An event is marked processed on a verdict that was reached earlier.     *)
(* The verdict stays true until it is written: a delivered row is final,   *)
(* and the row of the verdict itself is about to be delivered.  While no   *)
(* endpoint is paused, one fan-out reaches all subscribers of an event.    *)
VerdictHolds(w) ==
  job[w] # NoJob /\ job[w].verdict = "processed" =>
    /\ job[w].outcome = "delivered"
    /\ \A x \in Endpoints : job[w].delivery[1] \in Listens[x] =>
         LET o == <<job[w].delivery[1], x>>
         IN o = job[w].delivery \/ delivery[o] = "delivered"

FannedOutTogether ==
  \A d, o \in Deliveries :
    d[1] = o[1] /\ delivery[d] # "none" /\ d[1] \in Listens[o[2]] => delivery[o] # "none"

ReachesAll ==
  /\ active = Endpoints
  /\ FannedOutTogether
  /\ \A w \in Workers : VerdictHolds(w)
  /\ \A e \in Events : outbox[e] = "processed" =>
       \A x \in Endpoints : e \in Listens[x] => delivery[<<e, x>>] = "delivered"

LEMMA SameDelivery ==
  ASSUME NEW d \in Deliveries PROVE d = <<d[1], d[2]>> /\ d[1] \in Events /\ d[2] \in Endpoints
  BY DEF Deliveries

LEMMA PairIsDelivery ==
  ASSUME NEW e \in Events, NEW x \in Endpoints PROVE <<e, x>> \in Deliveries
  BY DEF Deliveries

LEMMA ClaimReaches ==
  ASSUME TypeOK, OneWorkerPerDelivery, ReachesAll, NEW w \in Workers, Claim(w)
  PROVE ReachesAll'
  <1>1. PICK claimed \in SUBSET Due :
          delivery' = [d \in Deliveries |->
                         IF d \in claimed THEN "delivering"
                         ELSE IF d \in FannedOut THEN "pending" ELSE delivery[d]]
    BY DEF Claim
  <1>2. UNCHANGED <<job, active>>
    BY DEF Claim
  <1>3. \A d \in Deliveries : delivery[d] = "delivered" => delivery'[d] = "delivered"
    <2>1. \A d \in claimed : delivery[d] # "delivered"
      BY <1>1, DueIsFree
    <2>2. \A d \in FannedOut : delivery[d] # "delivered"
      BY DEF FannedOut
    <2> QED
      BY <1>1, <2>1, <2>2
  <1>4. FannedOutTogether'
    <2> SUFFICES ASSUME NEW d \in Deliveries, NEW o \in Deliveries, d[1] = o[1],
                        delivery'[d] # "none", d[1] \in Listens[o[2]], delivery'[o] = "none"
                 PROVE FALSE
      BY DEF FannedOutTogether
    <2>1. delivery[o] = "none" /\ o \notin FannedOut
      BY <1>1
    <2>2. delivery[d] = "none"
      BY <2>1 DEF ReachesAll, FannedOutTogether
    <2>3. d \in FannedOut
      BY <1>1, <2>2 DEF Due
    <2>4. outbox[o[1]] = "pending"
      BY <2>3 DEF FannedOut
    <2>5. Subscribed(o[1], o[2])
      BY SameDelivery DEF Subscribed, ReachesAll
    <2> QED
      BY <2>1, <2>4, <2>5 DEF FannedOut
  <1>5. ASSUME NEW v \in Workers PROVE VerdictHolds(v)'
    <2>1. VerdictHolds(v)
      BY DEF ReachesAll
    <2>2. job[v] # NoJob => job[v].delivery[1] \in Events
      BY DEF TypeOK, Jobs, Deliveries
    <2> QED
      BY <1>2, <1>3, <2>1, <2>2, PairIsDelivery DEF VerdictHolds
  <1>6. ASSUME NEW e \in Events, outbox'[e] = "processed",
               NEW x \in Endpoints, e \in Listens[x]
        PROVE delivery'[<<e, x>>] = "delivered"
    <2>1. ~Unowed(e)
      BY <1>6 DEF Unowed, Subscribed, ReachesAll
    <2>2. outbox[e] = "processed"
      BY <1>6, <2>1 DEF Claim
    <2> QED
      BY <1>3, <1>6, <2>2, PairIsDelivery DEF ReachesAll
  <1> QED
    BY <1>2, <1>4, <1>5, <1>6 DEF ReachesAll

LEMMA DeliverReaches ==
  ASSUME TypeOK, ReachesAll, NEW w \in Workers, Deliver(w)
  PROVE ReachesAll'
  <1>1. PICK d \in Deliveries, outcome \in {"delivered", "retry", "dead_letter"} :
          StartsJob(w, d, outcome)
    BY DEF Deliver, RefuseInactive, PostAccepted, PostRejected, PostFailed, AfterFailure
  <1>2. /\ job' = [job EXCEPT ![w] =
                     [delivery |-> d, outcome |-> outcome, verdict |-> "open"]]
        /\ UNCHANGED <<outbox, delivery, active>>
    BY <1>1 DEF StartsJob, tableVars
  <1>3. ASSUME NEW v \in Workers PROVE VerdictHolds(v)'
    <2>1. CASE v = w
      BY <1>2, <2>1 DEF VerdictHolds, TypeOK
    <2>2. CASE v # w
      <3>1. job'[v] = job[v]
        BY <1>2, <2>2 DEF TypeOK
      <3> QED
        BY <1>2, <3>1 DEF ReachesAll, VerdictHolds
    <2> QED
      BY <2>1, <2>2
  <1> QED
    BY <1>2, <1>3 DEF ReachesAll, FannedOutTogether

LEMMA DecideReaches ==
  ASSUME TypeOK, OneWorkerPerDelivery, ReachesAll, NEW w \in Workers, SettleDecides(w)
  PROVE ReachesAll'
  <1>1. job[w] \in Jobs /\ job[w] # NoJob
    BY DEF TypeOK, SettleDecides
  <1>2. PICK d \in Deliveries, outcome \in {"delivered", "retry", "dead_letter"} :
          d = job[w].delivery /\ outcome = job[w].outcome
    BY <1>1 DEF Jobs
  <1>3. job' = [job EXCEPT ![w] = [job[w] EXCEPT !.verdict = Verdict(d, outcome)]]
    BY <1>2 DEF SettleDecides
  <1>4. UNCHANGED <<outbox, delivery, active>>
    BY DEF SettleDecides, tableVars
  <1>5. ASSUME Verdict(d, outcome) = "processed"
        PROVE /\ outcome = "delivered"
              /\ \A x \in Endpoints : d[1] \in Listens[x] =>
                   <<d[1], x>> = d \/ delivery[<<d[1], x>>] = "delivered"
    <2>1. delivery[d] = "delivering"
      BY <1>1, <1>2 DEF OneWorkerPerDelivery, Held
    <2>2. d \in DeliveriesOf(d[1])
      BY <2>1 DEF DeliveriesOf
    <2>3. ASSUME NEW o \in DeliveriesOf(d[1]) PROVE Row(d, outcome)[o] = "delivered"
      BY <1>5 DEF Verdict, Terminal
    <2>4. outcome = "delivered"
      <3>1. StatusOf(outcome) = "delivered"
        BY <2>2, <2>3 DEF Row, TypeOK
      <3> QED
        BY <3>1 DEF StatusOf
    <2>5. ASSUME NEW x \in Endpoints, d[1] \in Listens[x], <<d[1], x>> # d
          PROVE delivery[<<d[1], x>>] = "delivered"
      <3>1. <<d[1], x>> \in Deliveries
        BY SameDelivery, PairIsDelivery
      <3>2. delivery[<<d[1], x>>] # "none"
        BY <2>1, <2>5, <3>1 DEF ReachesAll, FannedOutTogether
      <3>3. <<d[1], x>> \in DeliveriesOf(d[1])
        BY <3>1, <3>2 DEF DeliveriesOf
      <3> QED
        BY <2>3, <2>5, <3>1, <3>3 DEF Row, TypeOK
    <2> QED
      BY <2>4, <2>5
  <1>6. ASSUME NEW v \in Workers PROVE VerdictHolds(v)'
    <2>1. CASE v = w
      <3>1. /\ job'[w].delivery = d /\ job'[w].outcome = outcome
            /\ job'[w].verdict = Verdict(d, outcome)
        BY <1>1, <1>2, <1>3 DEF Jobs, TypeOK
      <3> QED
        BY <1>4, <1>5, <2>1, <3>1 DEF VerdictHolds
    <2>2. CASE v # w
      <3>1. job'[v] = job[v]
        BY <1>3, <2>2 DEF TypeOK
      <3> QED
        BY <1>4, <3>1 DEF ReachesAll, VerdictHolds
    <2> QED
      BY <2>1, <2>2
  <1> QED
    BY <1>4, <1>6 DEF ReachesAll, FannedOutTogether

(* What the commit of a settlement leaves true, before an echo resets the  *)
(* rows of its id.                                                         *)
LEMMA CommitKeeps ==
  ASSUME TypeOK, OneWorkerPerDelivery, ReachesAll, NEW w \in Workers,
         job[w] # NoJob, job[w].verdict # "open"
  PROVE LET d == job[w].delivery
            row == Row(d, job[w].outcome)
        IN /\ d \in Deliveries /\ delivery[d] = "delivering"
           /\ \A o \in Deliveries : delivery[o] = "delivered" => row[o] = "delivered"
           /\ \A o \in Deliveries : row[o] = "none" <=> delivery[o] = "none"
           /\ \A e \in Events : Settled(d[1], job[w].verdict)[e] = "processed" =>
                \A x \in Endpoints : e \in Listens[x] => row[<<e, x>>] = "delivered"
  <1>1. job[w] \in Jobs
    BY DEF TypeOK
  <1>2. PICK d \in Deliveries, outcome \in {"delivered", "retry", "dead_letter"} :
          d = job[w].delivery /\ outcome = job[w].outcome
    BY <1>1 DEF Jobs
  <1>3. delivery[d] = "delivering"
    BY <1>2 DEF OneWorkerPerDelivery, Held
  <1>4. \A o \in Deliveries : delivery[o] = "delivered" => Row(d, outcome)[o] = "delivered"
    BY <1>3 DEF Row, TypeOK
  <1>5. \A o \in Deliveries : Row(d, outcome)[o] = "none" <=> delivery[o] = "none"
    BY <1>3 DEF Row, StatusOf, TypeOK
  <1>6. ASSUME NEW e \in Events, Settled(d[1], job[w].verdict)[e] = "processed",
               NEW x \in Endpoints, e \in Listens[x]
        PROVE Row(d, outcome)[<<e, x>>] = "delivered"
    <2>1. <<e, x>> \in Deliveries
      BY PairIsDelivery
    <2>2. CASE outbox[e] = "processed"
      BY <1>4, <1>6, <2>1, <2>2 DEF ReachesAll
    <2>3. CASE outbox[e] # "processed"
      <3>1. e = d[1] /\ job[w].verdict = "processed"
        BY <1>6, <2>3, SameDelivery DEF Settled, TypeOK
      <3>2. outcome = "delivered" /\ (<<e, x>> = d \/ delivery[<<e, x>>] = "delivered")
        BY <1>2, <1>6, <3>1 DEF ReachesAll, VerdictHolds
      <3>3. Row(d, "delivered")[d] = "delivered"
        BY DEF Row, StatusOf, TypeOK
      <3> QED
        BY <1>4, <2>1, <3>2, <3>3
    <2> QED
      BY <2>2, <2>3
  <1> QED
    BY <1>2, <1>3, <1>4, <1>5, <1>6

LEMMA QuietReaches ==
  ASSUME TypeOK, OneWorkerPerDelivery, ReachesAll, NEW w \in Workers, SettleQuietly(w)
  PROVE ReachesAll'
  <1> DEFINE d == job[w].delivery
             row == Row(d, job[w].outcome)
  <1>1. /\ job[w] # NoJob /\ job[w].verdict # "open"
        /\ job' = [job EXCEPT ![w] = NoJob] /\ UNCHANGED active
        /\ delivery' = row /\ outbox' = Settled(d[1], job[w].verdict)
    BY DEF SettleQuietly
  <1>2. FannedOutTogether'
    BY <1>1, CommitKeeps DEF FannedOutTogether, ReachesAll
  <1>3. ASSUME NEW v \in Workers PROVE VerdictHolds(v)'
    <2>1. job'[v] = NoJob \/ job'[v] = job[v]
      BY <1>1 DEF TypeOK
    <2>2. job[v] # NoJob => job[v].delivery[1] \in Events
      BY DEF TypeOK, Jobs, Deliveries
    <2>3. \A o \in Deliveries : delivery[o] = "delivered" => delivery'[o] = "delivered"
      BY <1>1, CommitKeeps
    <2>4. VerdictHolds(v)
      BY DEF ReachesAll
    <2> QED
      BY <2>1, <2>2, <2>3, <2>4, PairIsDelivery DEF VerdictHolds
  <1> QED
    BY <1>1, <1>2, <1>3, CommitKeeps DEF ReachesAll

LEMMA AnnouncingReaches ==
  ASSUME TypeOK, OneWorkerPerDelivery, ReachesAll, NEW w \in Workers,
         NEW f \in Echoes, SettleAnnouncing(w, f)
  PROVE ReachesAll'
  <1> DEFINE d == job[w].delivery
             row == Row(d, job[w].outcome)
             fresh == {f} \X Endpoints
  <1>1. /\ job[w] # NoJob /\ job[w].verdict # "open" /\ FreeEcho(f)
        /\ job' = [job EXCEPT ![w] = NoJob] /\ UNCHANGED active
        /\ delivery' = [o \in Deliveries |-> IF o \in fresh THEN "none" ELSE row[o]]
        /\ outbox' = [Settled(d[1], job[w].verdict) EXCEPT ![f] = "pending"]
    BY DEF SettleAnnouncing
  <1>2. \A o \in Deliveries : o \in fresh <=> o[1] = f
    BY SameDelivery
  <1>3. f \in Events
    BY DEF Events
  <1>4. FannedOutTogether'
    <2> SUFFICES ASSUME NEW c \in Deliveries, NEW o \in Deliveries, c[1] = o[1],
                        delivery'[c] # "none", c[1] \in Listens[o[2]]
                 PROVE delivery'[o] # "none"
      BY DEF FannedOutTogether
    <2>1. c \notin fresh /\ o \notin fresh /\ row[c] # "none"
      BY <1>1, <1>2
    <2>2. delivery[c] # "none"
      BY <1>1, <2>1, CommitKeeps
    <2>3. delivery[o] # "none"
      BY <2>2 DEF ReachesAll, FannedOutTogether
    <2> QED
      BY <1>1, <2>1, <2>3, CommitKeeps
  <1>5. ASSUME NEW v \in Workers PROVE VerdictHolds(v)'
    <2> SUFFICES ASSUME job'[v] # NoJob PROVE VerdictHolds(v)'
      BY DEF VerdictHolds
    <2>1. job'[v] = job[v] /\ job[v] # NoJob
      BY <1>1 DEF TypeOK
    <2>2. job[v].delivery \in Deliveries /\ job[v].delivery \in Held(v)
      BY <2>1 DEF TypeOK, Jobs, Held
    <2>3. job[v].delivery[1] # f /\ job[v].delivery[1] \in Events
      BY <1>1, <1>2, <2>2, FreeEchoNotHeld, SameDelivery
    <2>4. ASSUME NEW o \in Deliveries, o[1] # f, delivery[o] = "delivered"
          PROVE delivery'[o] = "delivered"
      BY <1>1, <1>2, <2>4, CommitKeeps
    <2>5. VerdictHolds(v)
      BY DEF ReachesAll
    <2>6. \A x \in Endpoints : LET o == <<job[v].delivery[1], x>>
            IN delivery[o] = "delivered" => delivery'[o] = "delivered"
      BY <2>3, <2>4, PairIsDelivery
    <2> QED
      BY <2>1, <2>5, <2>6 DEF VerdictHolds
  <1>6. ASSUME NEW e \in Events, outbox'[e] = "processed",
               NEW x \in Endpoints, e \in Listens[x]
        PROVE delivery'[<<e, x>>] = "delivered"
    <2>1. Settled(d[1], job[w].verdict)
            \in [Events -> {"none", "pending", "processed", "failed"}]
      <3>1. /\ d[1] \in Events
            /\ job[w].verdict \in {"keep", "processed", "failed"}
        BY <1>1 DEF TypeOK, Jobs, Deliveries
      <3> QED
        BY <3>1, SettledTyped
    <2>2. e # f /\ Settled(d[1], job[w].verdict)[e] = "processed"
      BY <1>1, <1>3, <1>6, <2>1
    <2>3. <<e, x>> \in Deliveries /\ <<e, x>> \notin fresh
      BY <2>2, PairIsDelivery
    <2>4. row[<<e, x>>] = "delivered"
      BY <1>1, <1>6, <2>2, CommitKeeps
    <2> QED
      BY <1>1, <2>3, <2>4
  <1> QED
    BY <1>1, <1>4, <1>5, <1>6 DEF ReachesAll

LEMMA OthersReach ==
  ASSUME toggles' = 0, TypeOK, OneWorkerPerDelivery, ReachesAll,
         \/ \E e \in Platform : Emit(e)
         \/ \E x \in Endpoints : ToggleEndpoint(x)
         \/ \E d \in Deliveries : BackoffElapses(d) \/ RetryDelivery(d)
         \/ \E w \in Workers : SettlementLost(w) \/ Crash(w)
         \/ UNCHANGED vars
  PROVE ReachesAll'
  <1>1. ASSUME UNCHANGED active,
               \A w \in Workers : job'[w] = NoJob \/ job'[w] = job[w],
               \A e \in Events : outbox'[e] = "processed" => outbox[e] = "processed",
               \A d \in Deliveries : delivery[d] = "delivered" => delivery'[d] = "delivered",
               \A d \in Deliveries : delivery'[d] = "none" <=> delivery[d] = "none"
        PROVE ReachesAll'
    <2>1. FannedOutTogether'
      BY <1>1 DEF FannedOutTogether, ReachesAll
    <2>2. ASSUME NEW w \in Workers PROVE VerdictHolds(w)'
      <3>1. job[w] # NoJob => job[w].delivery[1] \in Events
        BY DEF TypeOK, Jobs, Deliveries
      <3>2. VerdictHolds(w)
        BY DEF ReachesAll
      <3> QED
        BY <1>1, <3>1, <3>2, PairIsDelivery DEF VerdictHolds
    <2> QED
      BY <1>1, <2>1, <2>2, PairIsDelivery DEF ReachesAll
  <1>2. ASSUME NEW d \in Deliveries, RetryDelivery(d) PROVE ReachesAll'
    BY <1>1, <1>2 DEF RetryDelivery, workerVars, TypeOK
  <1>3. ASSUME NEW e \in Platform, Emit(e) PROVE ReachesAll'
    BY <1>1, <1>3 DEF Emit, workerVars, TypeOK
  <1>4. ASSUME NEW x \in Endpoints, ToggleEndpoint(x) PROVE ReachesAll'
    BY <1>4 DEF ToggleEndpoint, TypeOK
  <1>5. ASSUME NEW d \in Deliveries, BackoffElapses(d) PROVE ReachesAll'
    BY <1>1, <1>5 DEF BackoffElapses, workerVars
  <1>6. ASSUME NEW w \in Workers, SettlementLost(w) \/ Crash(w) PROVE ReachesAll'
    BY <1>1, <1>6 DEF SettlementLost, Crash, tableVars, TypeOK
  <1>7. CASE UNCHANGED vars
    BY <1>1, <1>7 DEF vars, workerVars, tableVars
  <1> QED
    BY <1>2, <1>3, <1>4, <1>5, <1>6, <1>7

(* As long as no endpoint was paused, all of this holds.                   *)
ReachesUnpaused == toggles = 0 => ReachesAll

LEMMA PausesAreCounted ==
  ASSUME TypeOK, Next, toggles' = 0
  PROVE toggles = 0
  <1>1. ASSUME NEW x \in Endpoints, ToggleEndpoint(x) PROVE FALSE
    BY <1>1 DEF ToggleEndpoint, TypeOK
  <1>2. ASSUME NEW e \in Platform, Emit(e) PROVE toggles = 0
    BY <1>2 DEF Emit, boundVars
  <1>3. ASSUME NEW d \in Deliveries, BackoffElapses(d) \/ RetryDelivery(d) PROVE toggles = 0
    BY <1>3 DEF BackoffElapses, RetryDelivery, boundVars
  <1>4. ASSUME NEW w \in Workers, Claim(w) \/ Deliver(w) \/ Settle(w) PROVE toggles = 0
    <2>1. CASE Claim(w)
      BY <2>1, Zenon DEF Claim, boundVars
    <2>2. CASE Deliver(w)
      BY <2>2 DEF Deliver, RefuseInactive, PostAccepted, PostRejected, PostFailed,
                  StartsJob, boundVars
    <2>3. CASE SettleDecides(w)
      BY <2>3 DEF SettleDecides, boundVars
    <2>4. CASE SettleQuietly(w)
      <3>1. UNCHANGED boundVars
        BY <2>4, Zenon DEF SettleQuietly
      <3> QED
        BY <3>1 DEF boundVars
    <2>5. ASSUME NEW f \in Echoes, SettleAnnouncing(w, f) PROVE toggles = 0
      <3>1. UNCHANGED boundVars
        BY <2>5, Zenon DEF SettleAnnouncing
      <3> QED
        BY <3>1 DEF boundVars
    <2> QED
      BY <1>4, <2>1, <2>2, <2>3, <2>4, <2>5 DEF Settle
  <1>5. ASSUME NEW w \in Workers, SettlementLost(w) \/ Crash(w) PROVE toggles = 0
    BY <1>5 DEF SettlementLost, Crash
  <1> QED
    BY <1>1, <1>2, <1>3, <1>4, <1>5 DEF Next

(* As long as no endpoint was paused, an event marked processed was        *)
(* received by every subscriber, although the mark is written on a verdict *)
(* reached before other settlements, claims and manual retries.            *)
THEOREM ProcessedAlwaysReachedAll == Spec => []ProcessedReachedAll
  <1>1. Init => ReachesUnpaused
    <2> SUFFICES ASSUME Init PROVE ReachesAll
      BY DEF ReachesUnpaused
    <2>1. FannedOutTogether
      BY DEF Init, FannedOutTogether
    <2> QED
      BY <2>1 DEF Init, ReachesAll, VerdictHolds
  <1>2. TypeOK /\ OneWorkerPerDelivery /\ ReachesUnpaused /\ [Next]_vars => ReachesUnpaused'
    <2> SUFFICES ASSUME TypeOK, OneWorkerPerDelivery, ReachesUnpaused, [Next]_vars, toggles' = 0
                 PROVE ReachesAll'
      BY DEF ReachesUnpaused
    <2>1. toggles = 0
      BY PausesAreCounted DEF vars, boundVars
    <2>2. ReachesAll
      BY <2>1 DEF ReachesUnpaused
    <2> QED
      BY <2>2, ClaimReaches, DeliverReaches, DecideReaches, QuietReaches, AnnouncingReaches,
         OthersReach DEF Next, Settle
  <1>3. ReceivedFirst /\ ReachesUnpaused => ProcessedReachedAll
    BY PairIsDelivery DEF ReceivedFirst, ReachesUnpaused, ReachesAll, ProcessedReachedAll
  <1> QED
    BY <1>1, <1>2, <1>3, DeliveryTypeCorrect, ClaimsExclusive, ReceivedAlways, PTL DEF Spec
=============================================================================
