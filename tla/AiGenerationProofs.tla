------------------------- MODULE AiGenerationProofs -------------------------
(***************************************************************************)
(* For any number of calls, rows, profiles, limits and costs: the types,   *)
(* the exclusion the advisory lock gives, the moves of the ledger, that an *)
(* accepted output is in a draft, and that the reservations of a month fit *)
(* the highest limit it had.                                               *)
(***************************************************************************)
EXTENDS AiGeneration, FiniteSetTheorems, WellFoundedInduction, TLAPS

LEMMA CallTypes == NoCall \in Call /\ NoCall.at = "idle"
<1>1. 1 \in Months
  BY AiAssumption DEF Months
<1> QED BY <1>1 DEF NoCall, Call, Stages

LEMMA InitTyped == Init => TypeOK
<1> SUFFICES ASSUME Init PROVE TypeOK
  OBVIOUS
<1>1. 1 \in Months /\ NoRow \in Row
  BY AiAssumption DEF Months, NoRow, Row, Statuses
<1>2. call \in [Calls -> Call] /\ \A c \in Calls : call[c].at = "idle"
  BY CallTypes DEF Init
<1>3. ledger \in [Generations -> Row] /\ pieces \in [Generations -> BOOLEAN]
  BY <1>1 DEF Init
<1>4. highest \in [Months -> Nat]
  BY AiAssumption DEF Init
<1> QED BY AiAssumption, <1>1, <1>2, <1>3, <1>4 DEF Init, TypeOK, Reserving, At

LEMMA CallForTyped ==
  ASSUME NEW g \in Generations, NEW stage \in Stages
  PROVE  CallFor(g, stage) \in Call /\ CallFor(g, stage).at = stage /\ CallFor(g, stage).gen = g
<1>1. 1 \in Months
  BY AiAssumption DEF Months
<1>2. PICK q : q = CallFor(g, stage)
  OBVIOUS
<1>3. q = [at |-> stage, profile |-> None, limit |-> 0, month |-> 1,
           gen |-> g, outcome |-> "none", cost |-> 0]
  BY <1>2 DEF NoCall, CallFor
<1>4. q \in Call /\ q.at = stage /\ q.gen = g
  BY <1>1, <1>3 DEF Call
<1> QED BY <1>2, <1>4

(* The actions of a call that leave the ledger alone.                  *)
LEMMA TypedReserving ==
  ASSUME TypeOK, NEW c \in Calls, NEW p \in Profiles, Enter(c, p) \/ Lock(c) \/ Count(c)
  PROVE  TypeOK'
<1> USE AiAssumption DEF Reserving, Stages, Content, Settings, At
<1>1. call \in [Calls -> Call] /\ limit \in Nat /\ month \in Months
  BY DEF TypeOK
<1>2. CASE Enter(c, p)
  <2>1. call'[c] \in Call /\ call' \in [Calls -> Call] /\ call'[c].at = "entered"
        /\ call'[c].profile = p
    BY <1>1, <1>2 DEF Enter, NoCall, Call
  <2>2. \A d \in Calls : d # c => call'[d] = call[d]
    BY <1>1, <1>2 DEF Enter
  <2> QED BY <1>2, <2>1, <2>2 DEF Enter, TypeOK, Status
<1>3. CASE Lock(c)
  <2>1. call' \in [Calls -> Call] /\ call'[c].at = "locked" /\ call[c].at = "entered"
        /\ call'[c].profile = call[c].profile
    BY <1>1, <1>3 DEF Lock, Go, Call
  <2>2. \A d \in Calls : d # c => call'[d] = call[d]
    BY <1>1, <1>3 DEF Lock, Go
  <2> QED BY <1>3, <2>1, <2>2 DEF Lock, TypeOK, Status
<1>4. CASE Count(c)
  <2>1. lock' \in Calls \cup {None}
    BY <1>4 DEF Count, Unlock, TypeOK
  <2>2. \A d \in Calls : d # c => call'[d] = call[d]
    BY <1>1, <1>4 DEF Count, Go, Return
  <2>3. CASE Go(c, "counted")
    <3>1. call' \in [Calls -> Call] /\ call'[c].at = "counted" /\ call[c].at = "locked"
          /\ call'[c].profile = call[c].profile
      BY <1>1, <1>4, <2>3 DEF Count, Go, Call
    <3> QED BY <1>4, <2>1, <2>2, <3>1 DEF Count, TypeOK, Status
  <2>4. CASE Return(c)
    <3>1. call' \in [Calls -> Call] /\ call'[c].at = "idle"
      BY <1>1, <2>4 DEF Return, NoCall, Call, Months
    <3> QED BY <1>4, <2>1, <2>2, <3>1 DEF Count, TypeOK, Status
  <2> QED BY <1>4, <2>3, <2>4 DEF Count
<1> QED BY <1>2, <1>3, <1>4

LEMMA TypedInsert ==
  ASSUME TypeOK, NEW c \in Calls, NEW g \in Generations, Insert(c, g)
  PROVE  TypeOK'
<1> USE AiAssumption DEF Reserving, Stages, Content, Settings, At
<1>1. call \in [Calls -> Call] /\ ledger \in [Generations -> Row]
  BY DEF TypeOK
<1>2. call[c].profile \in Profiles /\ call[c].month \in Months
  BY <1>1 DEF Insert, TypeOK, Call
<1>3. /\ ledger' \in [Generations -> Row] /\ ledger'[g].status = "reserved"
      /\ \A h \in Generations : h # g => ledger'[h] = ledger[h]
  BY <1>1, <1>2 DEF Insert, Row, Statuses
<1>4. /\ call' \in [Calls -> Call] /\ call'[c].at = "asking" /\ call'[c].gen = g
      /\ \A d \in Calls : d # c => call'[d] = call[d]
  <2>1. call' = [call EXCEPT ![c] = CallFor(g, "asking")]
    BY DEF Insert
  <2> QED BY <1>1, <2>1, CallForTyped
<1>5. lock' \in Calls \cup {None}
  BY DEF Insert, Unlock, TypeOK
<1>6. \A h \in Generations : Status(h) # "none" => ledger'[h].status # "none"
  BY <1>3 DEF Status
<1> QED BY <1>3, <1>4, <1>5, <1>6 DEF Insert, TypeOK, Status

LEMMA TypedRunning ==
  ASSUME TypeOK, NEW c \in Calls, Provide(c) \/ Settle(c)
  PROVE  TypeOK'
<1> USE AiAssumption DEF Reserving, Stages, Content, Settings, At
<1>1. call \in [Calls -> Call] /\ ledger \in [Generations -> Row]
  BY DEF TypeOK
<1>2. CASE Provide(c)
  <2>1. PICK outcome \in {"completed", "failed"}, cost \in Costs :
          call' = [call EXCEPT ![c].at = "settling", ![c].outcome = outcome,
                               ![c].cost = IF outcome = "completed" THEN cost ELSE 0]
    BY <1>2 DEF Provide
  <2>2. /\ call' \in [Calls -> Call] /\ call'[c].at = "settling"
        /\ call'[c].outcome # "none"
        /\ call'[c].gen = call[c].gen /\ call[c].at = "asking"
        /\ \A d \in Calls : d # c => call'[d] = call[d]
    <3>1. (IF outcome = "completed" THEN cost ELSE 0) \in Nat /\ call[c].at = "asking"
      BY <1>2 DEF Provide
    <3> DEFINE spent == IF outcome = "completed" THEN cost ELSE 0
    <3>2. call' = [call EXCEPT ![c].at = "settling", ![c].outcome = outcome, ![c].cost = spent]
      BY <2>1
    <3>3. spent \in Nat
      BY <3>1
    <3> HIDE DEF spent
    <3>4. \A d \in Calls : d # c => call'[d] = call[d]
      BY <1>1, <3>2
    <3>5. call'[c] = [call[c] EXCEPT !.at = "settling", !.outcome = outcome, !.cost = spent]
      BY <1>1, <3>2
    <3>6. call[c] \in Call
      BY <1>1
    <3>7. call'[c] \in Call /\ call'[c].at = "settling" /\ call'[c].gen = call[c].gen
          /\ call'[c].outcome # "none"
      BY <3>3, <3>5, <3>6 DEF Call
    <3>8. call' \in [Calls -> Call]
      BY <1>1, <3>2, <3>4, <3>7
    <3> QED BY <3>1, <3>4, <3>7, <3>8
  <2> QED BY <1>2, <2>2 DEF Provide, TypeOK, Status
<1>3. CASE Settle(c)
  <2>1. call[c].gen \in Generations /\ call[c].cost \in Nat
        /\ call[c].outcome \in {"completed", "failed"}
    BY <1>1, <1>3 DEF Settle, TypeOK, Call
  <2>2. ledger' \in [Generations -> Row]
    BY <1>1, <1>3, <2>1 DEF Settle, Row, Statuses
  <2>3. /\ call' \in [Calls -> Call] /\ call'[c].at = "idle"
        /\ \A d \in Calls : d # c => call'[d] = call[d]
    BY <1>1, <1>3 DEF Settle, Return, NoCall, Call, Months
  <2>4. \A h \in Generations : Status(h) # "none" => ledger'[h].status # "none"
    <3>1. \A h \in Generations : h # call[c].gen => ledger'[h] = ledger[h]
      BY <1>1, <1>3, <2>1 DEF Settle
    <3>2. Status(call[c].gen) # "none" => ledger'[call[c].gen].status # "none"
      BY <1>1, <1>3, <2>1 DEF Settle, Status, Row
    <3> QED BY <2>1, <3>1, <3>2 DEF Status
  <2> QED BY <1>3, <2>2, <2>3, <2>4 DEF Settle, TypeOK, Status
<1> QED BY <1>2, <1>3

LEMMA TypedResolved ==
  ASSUME TypeOK, NEW g \in Generations, NEW accepted \in BOOLEAN, Resolved(g, accepted)
  PROVE  /\ ledger' \in [Generations -> Row]
         /\ \A h \in Generations : Status(h) # "none" => ledger'[h].status # "none"
<1>1. ledger \in [Generations -> Row]
  BY DEF TypeOK
<1> QED BY <1>1 DEF Resolved, Row, Statuses, Status

LEMMA TypedAuthors ==
  ASSUME TypeOK, NEW c \in Calls, NEW g \in Generations,
         Accept(c, g) \/ Applied(c) \/ Advised(c) \/ ApplyFails(c) \/ Resolve(c) \/ Reject(c, g)
  PROVE  TypeOK'
<1> USE AiAssumption DEF Reserving, Stages, Content, Settings, At
<1>1. call \in [Calls -> Call] /\ ledger \in [Generations -> Row]
      /\ applied \in [Generations -> Nat] /\ pieces \in [Generations -> BOOLEAN]
  BY DEF TypeOK
<1>2. CASE Accept(c, g)
  <2>1. /\ call' \in [Calls -> Call] /\ call'[c].at = "applying" /\ call'[c].gen = g
        /\ \A d \in Calls : d # c => call'[d] = call[d]
    BY <1>1, <1>2, CallForTyped DEF Accept
  <2> QED BY <1>2, <2>1 DEF Accept, TypeOK, Status
<1>3. CASE Applied(c)
  <2>1. call[c].gen \in Generations
    BY <1>3 DEF Applied, TypeOK
  <2>2. applied' \in [Generations -> Nat]
    BY <1>1, <1>3, <2>1 DEF Applied
  <2>3. /\ call' \in [Calls -> Call] /\ call'[c].at = "resolving"
        /\ call'[c].gen = call[c].gen /\ call[c].at = "applying"
        /\ \A d \in Calls : d # c => call'[d] = call[d]
    BY <1>1, <1>3 DEF Applied, Go, Call
  <2> QED BY <1>3, <2>2, <2>3 DEF Applied, TypeOK, Status
<1>6. CASE Advised(c)
  <2>1. /\ call' \in [Calls -> Call] /\ call'[c].at = "resolving"
        /\ call'[c].gen = call[c].gen /\ call[c].at = "applying"
        /\ \A d \in Calls : d # c => call'[d] = call[d]
    BY <1>1, <1>6 DEF Advised, Go, Call
  <2> QED BY <1>6, <2>1 DEF Advised, TypeOK, Status
<1>4. CASE ApplyFails(c) \/ Resolve(c)
  <2>1. /\ call' \in [Calls -> Call] /\ call'[c].at = "idle"
        /\ \A d \in Calls : d # c => call'[d] = call[d]
    BY <1>1, <1>4, CallTypes DEF ApplyFails, Resolve, Return
  <2>2. call[c].gen \in Generations
    BY <1>4 DEF ApplyFails, Resolve, TypeOK
  <2>3. CASE ApplyFails(c)
    <3>1. pieces' \in [Generations -> BOOLEAN]
      BY <1>1, <2>2, <2>3 DEF ApplyFails
    <3> QED BY <2>3, <2>1, <3>1 DEF ApplyFails, TypeOK, Status
  <2>4. CASE Resolve(c)
    <3>1. /\ ledger' \in [Generations -> Row]
          /\ \A h \in Generations : Status(h) # "none" => ledger'[h].status # "none"
      BY <2>2, <2>4, TypedResolved DEF Resolve
    <3> QED BY <2>4, <2>1, <3>1 DEF Resolve, TypeOK, Status
  <2> QED BY <1>4, <2>3, <2>4
<1>5. CASE Reject(c, g)
  <2>1. /\ ledger' \in [Generations -> Row]
        /\ \A h \in Generations : Status(h) # "none" => ledger'[h].status # "none"
    BY <1>5, TypedResolved DEF Reject
  <2> QED BY <1>5, <2>1 DEF Reject, TypeOK, Status
<1> QED BY <1>2, <1>3, <1>4, <1>5, <1>6

LEMMA TypedOutside ==
  ASSUME TypeOK,
         (\E c \in Calls : Crash(c)) \/ (\E l \in Limits : SetLimit(l)) \/ NextMonth
  PROVE  TypeOK'
<1> USE AiAssumption DEF Reserving, Stages, Content, Settings, At
<1>1. call \in [Calls -> Call] /\ highest \in [Months -> Nat] /\ limit \in Nat /\ month \in Months
  BY DEF TypeOK
<1>2. CASE \E c \in Calls : Crash(c)
  <2>1. PICK c \in Calls : Crash(c)
    BY <1>2
  <2>2. /\ call' \in [Calls -> Call] /\ call'[c].at = "idle"
        /\ \A d \in Calls : d # c => call'[d] = call[d]
    BY <1>1, <2>1 DEF Crash, Return, NoCall, Call, Months
  <2>3. lock' \in Calls \cup {None}
    BY <2>1 DEF Crash, Released, Unlock, TypeOK
  <2> QED BY <2>1, <2>2, <2>3 DEF Crash, TypeOK, Status
<1>3. CASE \E l \in Limits : SetLimit(l)
  <2>1. PICK l \in Limits : SetLimit(l)
    BY <1>3
  <2>2. l \in Nat
    OBVIOUS
  <2>3. highest' \in [Months -> Nat] /\ limit' \in Nat
    BY <1>1, <2>1, <2>2 DEF SetLimit
  <2> QED BY <2>1, <2>3 DEF SetLimit, TypeOK, Status
<1>4. CASE NextMonth
  <2>1. highest' \in [Months -> Nat] /\ month' \in Months
    BY <1>1, <1>4 DEF NextMonth, Months
  <2> QED BY <1>4, <2>1 DEF NextMonth, TypeOK, Status
<1> QED BY <1>2, <1>3, <1>4

LEMMA TypedNext == TypeOK /\ [Next]_vars => TypeOK'
<1> SUFFICES ASSUME TypeOK, [Next]_vars PROVE TypeOK'
  OBVIOUS
<1>1. CASE UNCHANGED vars
  BY <1>1 DEF vars, TypeOK, Status, At
<1>2. ASSUME NEW c \in Calls, Working(c) PROVE TypeOK'
  <2>1. CASE Lock(c) \/ Count(c)
    <3>1. call[c].profile \in Profiles
      BY <2>1 DEF TypeOK, Lock, Count, At, Reserving
    <3> QED BY <2>1, <3>1, TypedReserving
  <2>2. CASE \E g \in Generations : Insert(c, g)
    BY <2>2, TypedInsert
  <2>3. CASE Provide(c) \/ Settle(c)
    BY <2>3, TypedRunning
  <2>4. CASE Applied(c) \/ Advised(c) \/ ApplyFails(c) \/ Resolve(c)
    <3>1. call[c].gen \in Generations
      BY <2>4 DEF TypeOK, Applied, Advised, ApplyFails, Resolve, At, Reserving
    <3> QED BY <2>4, <3>1, TypedAuthors
  <2> QED BY <1>2, <2>1, <2>2, <2>3, <2>4 DEF Working
<1>3. ASSUME NEW c \in Calls, NEW p \in Profiles, Enter(c, p) PROVE TypeOK'
  BY <1>3, TypedReserving
<1>4. ASSUME NEW c \in Calls, NEW g \in Generations, Accept(c, g) \/ Reject(c, g) PROVE TypeOK'
  BY <1>4, TypedAuthors
<1> QED BY <1>1, <1>2, <1>3, <1>4, TypedOutside DEF Next

(* The types of the ledger and its calls hold in every state.              *)
THEOREM LedgerTypeCorrect == Spec => []TypeOK
<1>1. Init => TypeOK
  BY InitTyped
<1>2. TypeOK /\ [Next]_vars => TypeOK'
  BY TypedNext
<1> QED BY <1>1, <1>2, PTL DEF Spec

-----------------------------------------------------------------------------
(* The advisory lock                                                       *)

(* A call takes part in a reservation exactly while it holds the lock.     *)
LEMMA OneCountsNext ==
  ASSUME TypeOK, OneCounts, [Next]_vars
  PROVE  OneCounts'
<1> USE AiAssumption DEF OneCounts, InTransaction, At, Content, Settings
<1>1. call \in [Calls -> Call]
  BY DEF TypeOK
<1>2. CASE UNCHANGED vars
  BY <1>2 DEF vars
<1>3. ASSUME NEW c \in Calls, Lock(c) PROVE OneCounts'
  BY <1>1, <1>3 DEF Lock, Unlocked, Go, Call
<1>4. ASSUME NEW c \in Calls, Count(c) PROVE OneCounts'
  BY <1>1, <1>4 DEF Count, Go, Return, Unlock, NoCall, Call
<1>5. ASSUME NEW c \in Calls, NEW g \in Generations, Insert(c, g) PROVE OneCounts'
  BY <1>1, <1>5, CallForTyped DEF Insert, Unlock, Stages
<1>6. ASSUME NEW c \in Calls, NEW p \in Profiles, Enter(c, p) PROVE OneCounts'
  BY <1>1, <1>6 DEF Enter, NoCall, Call
<1>7. ASSUME NEW c \in Calls, Provide(c) PROVE OneCounts'
  <2>1. \A d \in Calls : call'[d].at \in InTransaction <=> call[d].at \in InTransaction
    <3>1. PICK outcome \in {"completed", "failed"}, cost \in Costs :
            call' = [call EXCEPT ![c].at = "settling", ![c].outcome = outcome,
                                 ![c].cost = IF outcome = "completed" THEN cost ELSE 0]
      BY <1>7 DEF Provide
    <3>2. call[c].at = "asking" /\ call'[c].at = "settling"
      BY <1>1, <1>7, <3>1 DEF Provide, Call
    <3>3. \A d \in Calls : d # c => call'[d] = call[d]
      BY <1>1, <3>1
    <3> QED BY <3>2, <3>3
  <2> QED BY <1>7, <2>1 DEF Provide
<1>8. ASSUME NEW c \in Calls, Settle(c) \/ ApplyFails(c) \/ Resolve(c) PROVE OneCounts'
  <2>1. call[c].at \notin InTransaction /\ call' = [call EXCEPT ![c] = NoCall] /\ lock' = lock
    BY <1>8 DEF Settle, ApplyFails, Resolve, Return
  <2> QED BY <1>1, <2>1 DEF NoCall
<1>9. ASSUME NEW c \in Calls, Applied(c) \/ Advised(c) PROVE OneCounts'
  BY <1>1, <1>9 DEF Applied, Advised, Go, Call
<1>10. ASSUME NEW c \in Calls, NEW g \in Generations, Accept(c, g) PROVE OneCounts'
  BY <1>1, <1>10, CallForTyped DEF Accept, Stages
<1>11. ASSUME NEW c \in Calls, NEW g \in Generations, Reject(c, g) PROVE OneCounts'
  BY <1>11 DEF Reject
<1>12. ASSUME NEW c \in Calls, Crash(c) PROVE OneCounts'
  BY <1>1, <1>12 DEF Crash, Released, Unlock, Return, NoCall, Call
<1>13. CASE (\E l \in Limits : SetLimit(l)) \/ NextMonth
  BY <1>13 DEF SetLimit, NextMonth
<1> QED
  BY <1>2, <1>3, <1>4, <1>5, <1>6, <1>7, <1>8, <1>9, <1>10, <1>11, <1>12, <1>13
  DEF Next, Working

(* No two calls count the ledger before either has committed its row, even *)
(* when one of them dies in between.                                       *)
THEOREM ReservationsSerialized == Spec => []OneCounts
<1>1. Init => OneCounts
  BY AiAssumption DEF Init, OneCounts, NoCall, InTransaction
<1>2. TypeOK /\ OneCounts /\ [Next]_vars => OneCounts'
  BY OneCountsNext
<1> QED BY <1>1, <1>2, LedgerTypeCorrect, PTL DEF Spec

-----------------------------------------------------------------------------
(* The moves of a row                                                      *)

LEMMA RowMoves ==
  ASSUME TypeOK, [Next]_vars, NEW g \in Generations, ledger'[g] # ledger[g]
  PROVE  /\ <<Status(g), ledger'[g].status>> \in Transitions
         /\ ledger[g].status \in Settled => ledger'[g].actual = ledger[g].actual
<1> USE DEF Status
<1>1. ledger \in [Generations -> Row]
  BY DEF TypeOK
<1>2. ASSUME NEW c \in Calls, NEW h \in Generations, Insert(c, h)
      PROVE  h = g /\ ledger[g].status = "none" /\ ledger'[g].status = "reserved"
  BY <1>1, <1>2 DEF Insert, Unused
<1>3. ASSUME NEW c \in Calls, Settle(c)
      PROVE  ledger[g].status = "reserved" /\ ledger'[g].status \in {"completed", "failed"}
  <2>1. call[c].gen \in Generations /\ call[c].outcome \in {"completed", "failed"}
    BY <1>3 DEF Settle, TypeOK, Call, At, Reserving
  <2>2. g = call[c].gen /\ ledger[g].status = "reserved"
    BY <1>1, <1>3, <2>1 DEF Settle
  <2>3. ledger'[g].status = call[c].outcome
    BY <1>1, <1>3, <2>1, <2>2 DEF Settle, Row
  <2> QED BY <2>1, <2>2, <2>3
<1>4. ASSUME NEW h \in Generations, NEW accepted \in BOOLEAN, Resolved(h, accepted)
      PROVE  /\ ledger[g].status = "completed" /\ ledger'[g].actual = ledger[g].actual
             /\ ledger'[g].status \in {"accepted", "rejected"}
  <2>1. h = g /\ ledger[g].status = "completed"
    BY <1>1, <1>4 DEF Resolved, Resolvable
  <2>2. ledger'[g] = [ledger[g] EXCEPT !.status = IF accepted THEN "accepted" ELSE "rejected"]
    BY <1>1, <1>4, <2>1 DEF Resolved, Resolvable
  <2>3. ledger[g] \in Row
    BY <1>1
  <2> QED BY <2>1, <2>2, <2>3 DEF Row
<1>5. ASSUME NEW c \in Calls, Resolve(c)
      PROVE  call[c].gen \in Generations /\ Resolved(call[c].gen, TRUE)
  BY <1>5 DEF Resolve, TypeOK, At, Reserving
<1>6. \/ \E c \in Calls, h \in Generations : Insert(c, h)
      \/ \E c \in Calls : Settle(c) \/ Resolve(c)
      \/ \E c \in Calls, h \in Generations : Reject(c, h)
  BY DEF Next, vars, Working, Enter, Lock, Count, Provide, Accept, Applied, Advised, ApplyFails,
         Crash, SetLimit, NextMonth
<1>7. CASE \E c \in Calls, h \in Generations : Insert(c, h)
  BY <1>2, <1>7 DEF Transitions, Settled
<1>8. CASE \E c \in Calls : Settle(c)
  BY <1>3, <1>8 DEF Transitions, Settled
<1>9. CASE (\E c \in Calls : Resolve(c)) \/ (\E c \in Calls, h \in Generations : Reject(c, h))
  <2>1. PICK h \in Generations, accepted \in BOOLEAN : Resolved(h, accepted)
    BY <1>5, <1>9 DEF Reject
  <2> QED BY <1>4, <2>1 DEF Transitions
<1> QED BY <1>6, <1>7, <1>8, <1>9

(* Settlements, acceptances and rejections, in any order and from any call,*)
(* move a row only along the domain's table, and never change a settled    *)
(* cost.                                                                   *)
THEOREM LedgerFollowsDomain == Spec => LedgerMoves
<1>1. TypeOK /\ [Next]_vars =>
        [\A g \in Generations : ledger'[g] # ledger[g] =>
           /\ <<Status(g), ledger'[g].status>> \in Transitions
           /\ ledger[g].status \in Settled => ledger'[g].actual = ledger[g].actual]_vars
  BY RowMoves
<1> QED BY <1>1, LedgerTypeCorrect, PTL DEF Spec, LedgerMoves

-----------------------------------------------------------------------------
(* Acceptance                                                              *)

(* A call that applies an output saw it completed, and no row leaves the   *)
(* settled statuses; one about to record the acceptance has applied it, if *)
(* its operation inserts.                                                  *)
InHand ==
  \A c \in Calls :
    /\ At(c, "applying") \/ At(c, "resolving") => Status(call[c].gen) \in Settled
    /\ At(c, "resolving") /\ call[c].gen \notin Advisory => applied[call[c].gen] > 0

AppliedInv == AcceptedIsApplied /\ InHand

LEMMA SettledStays ==
  ASSUME TypeOK, [Next]_vars, NEW g \in Generations
  PROVE  /\ Status(g) \in Settled => ledger'[g].status \in Settled
         /\ ledger'[g].status = "accepted" =>
              \/ Status(g) = "accepted"
              \/ \E c \in Calls : Resolve(c) /\ call[c].gen = g
<1>1. CASE ledger'[g] = ledger[g]
  BY <1>1 DEF Status
<1>2. CASE ledger'[g] # ledger[g]
  <2>1. <<Status(g), ledger'[g].status>> \in Transitions
    BY <1>2, RowMoves
  <2>2. Status(g) \in Settled => ledger'[g].status \in Settled
    BY <2>1 DEF Transitions, Settled
  <2>3. ASSUME ledger'[g].status = "accepted"
        PROVE  \E c \in Calls : Resolve(c) /\ call[c].gen = g
    <3>1. Status(g) = "completed"
      BY <2>1, <2>3 DEF Transitions
    <3>2. ledger \in [Generations -> Row]
      BY DEF TypeOK
    <3>3. \A c \in Calls, h \in Generations : ~Insert(c, h)
      BY <1>2, <2>3, <3>1, <3>2 DEF Insert, Unused, Status
    <3>4. ASSUME NEW c \in Calls, Settle(c) PROVE FALSE
      <4>1. call[c].gen \in Generations
        BY <3>4 DEF Settle, TypeOK, At, Reserving
      <4> QED BY <1>2, <3>1, <3>2, <3>4, <4>1 DEF Settle, Status
    <3>5. ASSUME NEW c \in Calls, NEW h \in Generations, Reject(c, h) PROVE FALSE
      <4>1. h = g
        BY <1>2, <3>2, <3>5 DEF Reject, Resolved
      <4>2. ledger[g] \in Row /\ ledger' = [ledger EXCEPT ![g].status = "rejected"]
        BY <1>2, <3>2, <3>5, <4>1 DEF Reject, Resolved
      <4> QED BY <2>3, <3>2, <4>2 DEF Row
    <3>6. PICK c \in Calls : Resolve(c)
      BY <1>2, <3>3, <3>4, <3>5 DEF Next, vars, Working, Enter, Lock, Count, Provide, Accept,
         Applied, Advised, ApplyFails, Crash, SetLimit, NextMonth
    <3>7. call[c].gen \in Generations
      BY <3>6 DEF Resolve, TypeOK, At, Reserving
    <3>8. call[c].gen = g
      BY <1>2, <3>2, <3>6, <3>7 DEF Resolve, Resolved
    <3> QED BY <3>6, <3>8
  <2> QED BY <2>2, <2>3
<1> QED BY <1>1, <1>2

LEMMA AppliedNext ==
  ASSUME TypeOK, TypeOK', AppliedInv, [Next]_vars
  PROVE  AppliedInv'
<1>1. /\ call \in [Calls -> Call] /\ ledger \in [Generations -> Row]
      /\ applied \in [Generations -> Nat] /\ pieces \in [Generations -> BOOLEAN]
      /\ applied' \in [Generations -> Nat]
  BY DEF TypeOK
<1>2. \A c \in Calls : call[c].at \in {"applying", "resolving"} => call[c].gen \in Generations
  BY DEF TypeOK, Reserving
<1>3. \A g \in Generations : applied[g] > 0 => applied'[g] > 0
  <2>1. CASE applied' = applied
    BY <2>1
  <2>2. CASE \E c \in Calls : Applied(c)
    BY <1>1, <1>2, <2>2 DEF Applied, At
  <2> QED BY <2>1, <2>2 DEF Next, vars, Working, Enter, Lock, Count, Insert, Provide, Settle,
        Accept, Advised, ApplyFails, Resolve, Reject, Crash, SetLimit, NextMonth, Content
<1>4. \A g \in Generations :
        applied'[g] > 0 \/ pieces'[g] =>
          applied[g] > 0 \/ pieces[g] \/ \E c \in Calls : At(c, "applying") /\ call[c].gen = g
  <2>1. CASE UNCHANGED Content
    BY <2>1 DEF Content
  <2>2. CASE \E c \in Calls : Applied(c)
    BY <1>1, <1>2, <2>2 DEF Applied, At
  <2>3. CASE \E c \in Calls : ApplyFails(c)
    BY <1>1, <1>2, <2>3 DEF ApplyFails, At
  <2> QED BY <2>1, <2>2, <2>3 DEF Next, vars, Working, Enter, Lock, Count, Insert, Provide, Settle,
        Accept, Advised, Resolve, Reject, Crash, SetLimit, NextMonth, Content
<1>5. AcceptedIsApplied'
  <2> SUFFICES ASSUME NEW g \in Generations
               PROVE  /\ ledger'[g].status = "accepted" /\ g \notin Advisory => applied'[g] > 0
                      /\ applied'[g] > 0 \/ pieces'[g] => ledger'[g].status \in Settled
    BY DEF AcceptedIsApplied, Status
  <2>1. ledger'[g].status = "accepted" /\ g \notin Advisory => applied[g] > 0
    BY SettledStays DEF AppliedInv, AcceptedIsApplied, InHand, Resolve
  <2>2. applied'[g] > 0 \/ pieces'[g] => Status(g) \in Settled
    BY <1>4 DEF AppliedInv, AcceptedIsApplied, InHand
  <2> QED BY <1>3, <2>1, <2>2, SettledStays
<1>6. InHand'
  <2> SUFFICES ASSUME NEW c \in Calls
               PROVE  /\ call'[c].at \in {"applying", "resolving"} =>
                           ledger'[call'[c].gen].status \in Settled
                      /\ call'[c].at = "resolving" /\ call'[c].gen \notin Advisory =>
                           applied'[call'[c].gen] > 0
    BY DEF InHand, At, Status
  <2>1. CASE call'[c] = call[c]
    <3>1. call[c].at \in {"applying", "resolving"} => Status(call[c].gen) \in Settled
      BY DEF AppliedInv, InHand, At
    <3>2. call[c].at = "resolving" /\ call[c].gen \notin Advisory => applied[call[c].gen] > 0
      BY DEF AppliedInv, InHand, At
    <3> QED BY <1>2, <1>3, <2>1, <3>1, <3>2, SettledStays
  <2>2. CASE \E g \in Generations : Accept(c, g)
    <3>1. PICK g \in Generations : Accept(c, g)
      BY <2>2
    <3>2. call'[c].at = "applying" /\ call'[c].gen = g
      BY <1>1, <3>1, CallForTyped DEF Accept, Stages
    <3>3. ledger' = ledger /\ Status(g) = "completed"
      BY <3>1 DEF Accept
    <3> QED BY <3>2, <3>3 DEF Status, Settled
  <2>3. CASE Applied(c)
    <3>1. call'[c].at = "resolving" /\ call'[c].gen = call[c].gen /\ call[c].gen \in Generations
      BY <1>1, <1>2, <2>3 DEF Applied, Go, At, Call
    <3>2. applied'[call[c].gen] > 0
      BY <1>1, <2>3, <3>1 DEF Applied
    <3>3. ledger'[call[c].gen].status \in Settled
      BY <2>3 DEF Applied, AppliedInv, InHand, At, Status
    <3> QED BY <3>1, <3>2, <3>3
  <2>6. CASE Advised(c)
    <3>1. call'[c].at = "resolving" /\ call'[c].gen = call[c].gen /\ call[c].gen \in Advisory
      BY <1>1, <2>6 DEF Advised, Go, Call
    <3>2. ledger'[call[c].gen].status \in Settled
      BY <2>6 DEF Advised, AppliedInv, InHand, At, Status
    <3> QED BY <3>1, <3>2
  <2>4. CASE call'[c].at \notin {"applying", "resolving"}
    BY <2>4
  <2>5. \/ call'[c] = call[c] \/ Applied(c) \/ Advised(c) \/ \E g \in Generations : Accept(c, g)
        \/ call'[c].at \notin {"applying", "resolving"}
    <3>1. ASSUME NEW d \in Calls, Working(d) \/ Crash(d)
          PROVE  \/ call'[c] = call[c] \/ Applied(c) \/ Advised(c)
                 \/ call'[c].at \notin {"applying", "resolving"}
      <4>1. CASE d # c
        BY <1>1, <3>1, <4>1 DEF Working, Lock, Count, Insert, Provide, Settle, Applied, Advised, ApplyFails,
           Resolve, Crash, Go, Return
      <4>2. CASE d = c
        <5>1. CASE Settle(c) \/ ApplyFails(c) \/ Resolve(c) \/ Crash(c) \/ Count(c) \/ Lock(c)
          BY <1>1, <5>1, CallTypes DEF Settle, ApplyFails, Resolve, Crash, Count, Lock, Go, Return, Call
        <5>2. CASE Provide(c)
          <6>1. PICK outcome \in {"completed", "failed"}, cost \in Costs :
                  call' = [call EXCEPT ![c].at = "settling", ![c].outcome = outcome,
                                       ![c].cost = IF outcome = "completed" THEN cost ELSE 0]
            BY <5>2 DEF Provide
          <6> QED BY <1>1, <6>1 DEF Call
        <5>3. CASE \E g \in Generations : Insert(c, g)
          BY <1>1, <5>3, CallForTyped DEF Insert, Stages
        <5> QED BY <3>1, <4>2, <5>1, <5>2, <5>3 DEF Working
      <4> QED BY <4>1, <4>2
    <3>2. ASSUME NEW d \in Calls, NEW p \in Profiles, Enter(d, p)
          PROVE  call'[c] = call[c] \/ call'[c].at \notin {"applying", "resolving"}
      BY <1>1, <3>2 DEF Enter, NoCall
    <3>3. ASSUME NEW d \in Calls, NEW g \in Generations, Accept(d, g)
          PROVE  call'[c] = call[c] \/ Accept(c, g)
      BY <1>1, <3>3 DEF Accept
    <3> QED BY <3>1, <3>2, <3>3 DEF Next, vars, Reject, SetLimit, NextMonth
  <2> QED BY <2>1, <2>2, <2>3, <2>4, <2>5, <2>6
<1> QED BY <1>5, <1>6 DEF AppliedInv

(* An output recorded as accepted has been applied in full, although the   *)
(* application is many statements and other calls accept and discard the   *)
(* same output meanwhile.                                                  *)
THEOREM AcceptedOutputsApplied == Spec => []AcceptedIsApplied
<1>1. Init => AppliedInv
  BY AiAssumption DEF Init, AppliedInv, AcceptedIsApplied, InHand, Status, At, NoRow, NoCall, Settled
<1>2. TypeOK /\ TypeOK' /\ AppliedInv /\ [Next]_vars => AppliedInv'
  BY AppliedNext
<1>3. AppliedInv => AcceptedIsApplied
  BY DEF AppliedInv
<1> QED BY <1>1, <1>2, <1>3, LedgerTypeCorrect, PTL DEF Spec

-----------------------------------------------------------------------------
(* A sum over a finite set, as the number of its cents: the fold takes one *)
(* element of the set after another, and the count of the pairs of an      *)
(* element and one of its cents loses, with an element, the cents it has.  *)

LEMMA LeastNumber ==
  ASSUME NEW T, T \subseteq Nat, T # {}
  PROVE  \E m \in T : \A n \in T : m <= n
<1> DEFINE Less == {ss \in Nat \X Nat : ss[1] < ss[2]}
<1>1. IsWellFoundedOn(Less, Nat)
  BY NatLessThanWellFounded DEF OpToRel
<1>2. \A x, y \in Nat : x < y => <<x, y>> \in Less
  OBVIOUS
<1> HIDE DEF Less
<1>3. PICK m \in T : \A n \in T : <<n, m>> \notin Less
  BY <1>1, WFMin
<1>4. \A n \in T : ~(n < m)
  BY <1>2, <1>3
<1>5. \A n \in T : n \in Nat /\ m \in Nat
  OBVIOUS
<1> QED BY <1>4, <1>5

Cents(w, T) == {cent \in T \X Nat : 1 <= cent[2] /\ cent[2] <= w[cent[1]]}

LEMMA CentsOfOne ==
  ASSUME NEW x, NEW n \in Nat
  PROVE  IsFiniteSet({x} \X (1 .. n)) /\ Cardinality({x} \X (1 .. n)) = n
<1>1. IsFiniteSet(1 .. n) /\ Cardinality(1 .. n) = n
  BY FS_Interval
<1>2. IsFiniteSet({x}) /\ Cardinality({x}) = 1
  BY FS_Singleton
<1> DEFINE A == 1 .. n
<1> HIDE DEF A
<1>3. IsFiniteSet({x} \X A) /\ Cardinality({x} \X A) = 1 * n
  BY <1>1, <1>2, FS_Product DEF A
<1> QED BY <1>3 DEF A

LEMMA CentsFinite ==
  ASSUME NEW T, IsFiniteSet(T), NEW w, \A x \in T : w[x] \in Nat
  PROVE  IsFiniteSet(Cents(w, T)) /\ Cardinality(Cents(w, T)) \in Nat
<1> DEFINE F == [x \in T |-> {x} \X (1 .. w[x])]
           R == {F[x] : x \in T}
<1>1. F \in Surjection(T, R)
  BY DEF Surjection
<1>2. IsFiniteSet(R)
  BY <1>1, FS_Surjection
<1>3. \A r \in R : IsFiniteSet(r)
  <2>1. ASSUME NEW x \in T PROVE IsFiniteSet({x} \X (1 .. w[x]))
    BY CentsOfOne
  <2>2. \A x \in T : IsFiniteSet(F[x])
    BY <2>1
  <2> QED BY <2>2
<1>4. IsFiniteSet(UNION R)
  BY <1>2, <1>3, FS_UNION
<1>5. Cents(w, T) \subseteq UNION R
  BY DEF Cents
<1> QED BY <1>4, <1>5, FS_Subset, FS_CardinalityType

LEMMA CentsLess ==
  ASSUME NEW T, IsFiniteSet(T), NEW w, \A x \in T : w[x] \in Nat, NEW x \in T
  PROVE  Cardinality(Cents(w, T)) = w[x] + Cardinality(Cents(w, T \ {x}))
<1> DEFINE A == {x} \X (1 .. w[x])
           B == Cents(w, T \ {x})
<1>1. IsFiniteSet(A) /\ Cardinality(A) = w[x]
  BY CentsOfOne
<1>2. IsFiniteSet(B) /\ Cardinality(B) \in Nat
  BY CentsFinite, FS_RemoveElement
<1>3. Cents(w, T) = A \cup B
  BY DEF Cents
<1>4. A \cap B = {}
  BY DEF Cents
<1>5. Cardinality({}) = 0
  BY FS_EmptySet
<1> HIDE DEF A, B
<1>6. Cardinality(A \cup B) = Cardinality(A) + Cardinality(B) - Cardinality(A \cap B)
  BY <1>1, <1>2, FS_Union
<1>7. Cardinality(Cents(w, T)) = w[x] + Cardinality(B)
  <2>1. Cardinality(A \cap B) = 0 /\ w[x] \in Nat
    BY <1>4, <1>5
  <2>2. Cardinality(Cents(w, T)) = Cardinality(A \cup B)
    BY <1>3
  <2> QED BY <1>1, <1>2, <1>6, <2>1, <2>2
<1> QED BY <1>7 DEF B

Pick(s) == CHOOSE x \in s : TRUE
Sums(f, w, T) ==
  f = [s \in SUBSET T |-> IF s = {} THEN 0 ELSE w[Pick(s)] + f[s \ {Pick(s)}]]

LEMMA SumsCount ==
  ASSUME NEW T, IsFiniteSet(T), NEW w, \A x \in T : w[x] \in Nat, NEW f, Sums(f, w, T)
  PROVE  f[T] = Cardinality(Cents(w, T))
<1> DEFINE Wrong == {s \in SUBSET T : f[s] # Cardinality(Cents(w, s))}
           Sizes == {Cardinality(s) : s \in Wrong}
<1>1. \A s \in SUBSET T : IsFiniteSet(s) /\ Cardinality(s) \in Nat
  BY FS_Subset, FS_CardinalityType
<1> SUFFICES ASSUME Wrong # {} PROVE FALSE
  OBVIOUS
<1>2. PICK n \in Sizes : \A k \in Sizes : n <= k
  <2>1. Sizes \subseteq Nat /\ Sizes # {}
    BY <1>1
  <2> QED BY <2>1, LeastNumber
<1>3. PICK s \in Wrong : n = Cardinality(s)
  BY <1>2
<1>4. s \in SUBSET T /\ f[s] = IF s = {} THEN 0 ELSE w[Pick(s)] + f[s \ {Pick(s)}]
  BY DEF Sums
<1>5. CASE s = {}
  <2>1. Cents(w, s) = {}
    BY <1>5 DEF Cents
  <2> QED BY <1>3, <1>4, <1>5, <2>1, FS_EmptySet
<1>6. CASE s # {}
  <2>1. Pick(s) \in s
    BY <1>6 DEF Pick
  <2>2. s \ {Pick(s)} \in SUBSET T /\ Cardinality(s \ {Pick(s)}) = Cardinality(s) - 1
    BY <1>1, <1>4, <2>1, FS_RemoveElement
  <2>3. f[s \ {Pick(s)}] = Cardinality(Cents(w, s \ {Pick(s)}))
    <3>1. Cardinality(s \ {Pick(s)}) < n /\ n \in Nat
      BY <1>1, <1>3, <1>4, <2>2
    <3>2. s \ {Pick(s)} \notin Wrong
      BY <1>1, <1>2, <2>2, <3>1
    <3> QED BY <2>2, <3>2
  <2>4. Cardinality(Cents(w, s)) = w[Pick(s)] + Cardinality(Cents(w, s \ {Pick(s)}))
    BY <1>1, <1>4, <2>1, CentsLess
  <2> QED BY <1>3, <1>4, <1>6, <2>3, <2>4
<1> QED BY <1>5, <1>6

LEMMA SumsExist ==
  ASSUME NEW T, IsFiniteSet(T), NEW w, \A x \in T : w[x] \in Nat
  PROVE  \E f : Sums(f, w, T)
<1> DEFINE g == [s \in SUBSET T |-> Cardinality(Cents(w, s))]
<1>1. ASSUME NEW s \in SUBSET T
      PROVE  g[s] = IF s = {} THEN 0 ELSE w[Pick(s)] + g[s \ {Pick(s)}]
  <2>1. IsFiniteSet(s)
    BY FS_Subset
  <2>2. CASE s = {}
    <3>1. Cents(w, s) = {}
      BY <2>2 DEF Cents
    <3> QED BY <2>2, <3>1, FS_EmptySet
  <2>3. CASE s # {}
    <3>1. Pick(s) \in s /\ s \ {Pick(s)} \in SUBSET T
      BY <2>3 DEF Pick
    <3>2. Cardinality(Cents(w, s)) = w[Pick(s)] + Cardinality(Cents(w, s \ {Pick(s)}))
      BY <2>1, <3>1, CentsLess
    <3> QED BY <2>3, <3>1, <3>2
  <2> QED BY <2>2, <2>3
<1>2. g = [s \in SUBSET T |-> IF s = {} THEN 0 ELSE w[Pick(s)] + g[s \ {Pick(s)}]]
  BY <1>1
<1> HIDE DEF g
<1> QED BY <1>2 DEF Sums

Promises == [g \in Generations |-> Promised(ledger[g])]
Counts == [g \in Generations |-> Counted(ledger[g])]

LEMMA SumOfPromises ==
  ASSUME NEW T \in SUBSET Generations, \A g \in T : Promised(ledger[g]) \in Nat
  PROVE  MapThenSumSet(LAMBDA g : Promised(ledger[g]), T) = Cardinality(Cents(Promises, T))
<1> DEFINE Eq(h) == h = [s \in SUBSET T |->
                     IF s = {} THEN 0
                     ELSE LET x == CHOOSE x \in s : TRUE
                          IN  Promised(ledger[x]) + h[s \ {x}]]
           f == CHOOSE h : Eq(h)
<1>1. IsFiniteSet(T)
  BY AiAssumption, FS_Subset
<1>2. \A g \in T : Promises[g] = Promised(ledger[g])
  BY DEF Promises
<1>3. \A h : Eq(h) <=> Sums(h, Promises, T)
  <2> TAKE h
  <2>1. \A s \in SUBSET T : s # {} => Pick(s) \in T
    BY DEF Pick
  <2>2. \A s \in SUBSET T :
          (IF s = {} THEN 0
           ELSE LET x == CHOOSE x \in s : TRUE IN Promised(ledger[x]) + h[s \ {x}])
          = IF s = {} THEN 0 ELSE Promises[Pick(s)] + h[s \ {Pick(s)}]
    BY <1>2, <2>1 DEF Pick
  <2> QED BY <2>2, Zenon DEF Sums
<1>4. Eq(f)
  <2>1. \A x \in T : Promises[x] \in Nat
    BY <1>2
  <2>2. \E h : Sums(h, Promises, T)
    BY <1>1, <2>1, SumsExist
  <2> HIDE DEF Eq
  <2>3. \E h : Eq(h)
    BY <1>3, <2>2
  <2> QED BY <2>3, Zenon
<1>5. MapThenSumSet(LAMBDA g : Promised(ledger[g]), T) = f[T]
  BY Zenon DEF MapThenSumSet, MapThenFoldSet
<1> HIDE DEF f
<1> QED BY <1>1, <1>2, <1>3, <1>4, <1>5, SumsCount

LEMMA SumOfCounts ==
  ASSUME NEW T \in SUBSET Generations, \A g \in T : Counted(ledger[g]) \in Nat
  PROVE  MapThenSumSet(LAMBDA g : Counted(ledger[g]), T) = Cardinality(Cents(Counts, T))
<1> DEFINE Eq(h) == h = [s \in SUBSET T |->
                     IF s = {} THEN 0
                     ELSE LET x == CHOOSE x \in s : TRUE
                          IN  Counted(ledger[x]) + h[s \ {x}]]
           f == CHOOSE h : Eq(h)
<1>1. IsFiniteSet(T)
  BY AiAssumption, FS_Subset
<1>2. \A g \in T : Counts[g] = Counted(ledger[g])
  BY DEF Counts
<1>3. \A h : Eq(h) <=> Sums(h, Counts, T)
  <2> TAKE h
  <2>1. \A s \in SUBSET T : s # {} => Pick(s) \in T
    BY DEF Pick
  <2>2. \A s \in SUBSET T :
          (IF s = {} THEN 0
           ELSE LET x == CHOOSE x \in s : TRUE IN Counted(ledger[x]) + h[s \ {x}])
          = IF s = {} THEN 0 ELSE Counts[Pick(s)] + h[s \ {Pick(s)}]
    BY <1>2, <2>1 DEF Pick
  <2> QED BY <2>2, Zenon DEF Sums
<1>4. Eq(f)
  <2>1. \A x \in T : Counts[x] \in Nat
    BY <1>2
  <2>2. \E h : Sums(h, Counts, T)
    BY <1>1, <2>1, SumsExist
  <2> HIDE DEF Eq
  <2>3. \E h : Eq(h)
    BY <1>3, <2>2
  <2> QED BY <2>3, Zenon
<1>5. MapThenSumSet(LAMBDA g : Counted(ledger[g]), T) = f[T]
  BY Zenon DEF MapThenSumSet, MapThenFoldSet
<1> HIDE DEF f
<1> QED BY <1>1, <1>2, <1>3, <1>4, <1>5, SumsCount

-----------------------------------------------------------------------------
(* The month's reservations                                                *)

PromisedIn(m) == MapThenSumSet(LAMBDA g : Promised(ledger[g]), OfMonth(m))

(* Every limit in force, or read by a call, is within the highest of its   *)
(* month, and no month but the current one has its limits changed.         *)
LimitSeen ==
  /\ limit <= highest[month]
  /\ \A m \in Months : m > month => highest[m] = 0
  /\ \A c \in Calls : call[c].at \in Reserving =>
       call[c].month <= month /\ call[c].limit <= highest[call[c].month]

(* What a call counted still leaves room for its reservation when it       *)
(* commits: only the holder of the lock adds to the month.                 *)
CountFits ==
  \A c \in Calls : At(c, "counted") =>
    PromisedIn(call[c].month) + Reservation[call[c].profile] <= highest[call[c].month]

InCents ==
  \A m \in Months :
    /\ PromisedIn(m) = Cardinality(Cents(Promises, OfMonth(m)))
    /\ PromisedIn(m) \in Nat /\ IsFiniteSet(Cents(Promises, OfMonth(m)))

LEMMA PromisedIsCents == TypeOK => InCents
<1> SUFFICES ASSUME TypeOK, NEW m \in Months
             PROVE  /\ PromisedIn(m) = Cardinality(Cents(Promises, OfMonth(m)))
                    /\ PromisedIn(m) \in Nat /\ IsFiniteSet(Cents(Promises, OfMonth(m)))
  BY DEF InCents
<1>1. OfMonth(m) \in SUBSET Generations
  BY DEF OfMonth
<1>2. \A g \in OfMonth(m) : Promised(ledger[g]) \in Nat /\ Promises[g] \in Nat
  <2>1. \A g \in Generations : ledger[g] \in Row
    BY DEF TypeOK
  <2> QED BY <1>1, <2>1 DEF Promised, Lesser, Row, Promises
<1>3. PromisedIn(m) = Cardinality(Cents(Promises, OfMonth(m)))
  BY <1>1, <1>2, SumOfPromises DEF PromisedIn
<1>4. IsFiniteSet(OfMonth(m))
  BY <1>1, AiAssumption, FS_Subset
<1> QED BY <1>2, <1>3, <1>4, CentsFinite

(* What a month counts as used covers what was promised in it.             *)
LEMMA UsedCoversPromised ==
  TypeOK => \A m \in Months : Used(m) \in Nat /\ PromisedIn(m) <= Used(m)
<1> SUFFICES ASSUME TypeOK, NEW m \in Months
             PROVE  Used(m) \in Nat /\ PromisedIn(m) <= Used(m)
  OBVIOUS
<1>1. OfMonth(m) \in SUBSET Generations
  BY DEF OfMonth
<1>2. \A g \in OfMonth(m) : Counted(ledger[g]) \in Nat /\ Promises[g] \in Nat /\ Promises[g] <= Counts[g]
                            /\ Counts[g] \in Nat
  <2>1. \A g \in Generations : ledger[g] \in Row
    BY DEF TypeOK
  <2> QED BY <1>1, <2>1 DEF Promised, Counted, Lesser, Row, Promises, Counts, Settled
<1>3. Used(m) = Cardinality(Cents(Counts, OfMonth(m)))
  BY <1>1, <1>2, SumOfCounts DEF Used
<1>4. IsFiniteSet(OfMonth(m))
  BY <1>1, AiAssumption, FS_Subset
<1>5. IsFiniteSet(Cents(Counts, OfMonth(m))) /\ Cardinality(Cents(Counts, OfMonth(m))) \in Nat
  BY <1>2, <1>4, CentsFinite
<1>6. Cents(Promises, OfMonth(m)) \subseteq Cents(Counts, OfMonth(m))
  BY <1>2 DEF Cents
<1> QED BY <1>3, <1>5, <1>6, PromisedIsCents, FS_Subset DEF InCents

(* Only an insertion adds to a month: to settle, accept or reject a row    *)
(* never promises more than its reservation did.                           *)
LEMMA RowsPromiseLess ==
  ASSUME TypeOK, [Next]_vars, \A c \in Calls, g \in Generations : ~Insert(c, g),
         NEW g \in Generations
  PROVE  ledger'[g].month = ledger[g].month /\ Promised(ledger'[g]) <= Promised(ledger[g])
<1>1. ledger \in [Generations -> Row] /\ ledger[g] \in Row
  BY DEF TypeOK
<1>2. Promised(ledger[g]) \in Nat
  BY <1>1 DEF Promised, Lesser, Row
<1>3. CASE ledger'[g] = ledger[g]
  BY <1>2, <1>3
<1>4. ASSUME ledger'[g] # ledger[g], NEW c \in Calls, Settle(c)
      PROVE  ledger'[g].month = ledger[g].month /\ Promised(ledger'[g]) <= Promised(ledger[g])
  <2>1. /\ call[c].gen \in Generations /\ call[c].outcome \in {"completed", "failed"}
        /\ call[c].cost \in Nat
    BY <1>4 DEF Settle, TypeOK, Call, At, Reserving
  <2>2. g = call[c].gen /\ ledger[g].status = "reserved"
    BY <1>1, <1>4, <2>1 DEF Settle, Status
  <2>3. ledger'[g] = [ledger[g] EXCEPT !.status = call[c].outcome, !.actual = call[c].cost]
    BY <1>1, <1>4, <2>1, <2>2 DEF Settle, Status
  <2>4. /\ ledger'[g].month = ledger[g].month /\ ledger'[g].reserved = ledger[g].reserved
        /\ ledger'[g].status \in {"completed", "failed"} /\ ledger'[g].actual \in Nat
    BY <1>1, <2>1, <2>3 DEF Row
  <2> QED BY <1>1, <2>2, <2>4 DEF Promised, Lesser, Settled, Row
<1>5. ASSUME ledger'[g] # ledger[g], NEW h \in Generations, NEW accepted \in BOOLEAN,
             Resolved(h, accepted)
      PROVE  ledger'[g].month = ledger[g].month /\ Promised(ledger'[g]) <= Promised(ledger[g])
  <2>1. h = g /\ ledger[g].status = "completed"
    BY <1>1, <1>5 DEF Resolved, Resolvable, Status
  <2>2. ledger'[g] = [ledger[g] EXCEPT !.status = IF accepted THEN "accepted" ELSE "rejected"]
    BY <1>1, <1>5, <2>1 DEF Resolved, Resolvable, Status
  <2>3. /\ ledger'[g].month = ledger[g].month /\ ledger'[g].reserved = ledger[g].reserved
        /\ ledger'[g].status \in {"accepted", "rejected"} /\ ledger'[g].actual = ledger[g].actual
    BY <1>1, <2>2 DEF Row
  <2> QED BY <1>1, <2>1, <2>3 DEF Promised, Lesser, Settled, Row
<1>6. CASE ledger'[g] # ledger[g]
  <2>1. \/ \E c \in Calls : Settle(c) \/ Resolve(c)
        \/ \E c \in Calls, h \in Generations : Reject(c, h)
    BY <1>6 DEF Next, vars, Working, Enter, Lock, Count, Provide, Accept, Applied, Advised, ApplyFails,
           Crash, SetLimit, NextMonth
  <2>2. CASE \E c \in Calls : Settle(c)
    BY <1>4, <1>6, <2>2
  <2>3. CASE (\E c \in Calls : Resolve(c)) \/ (\E c \in Calls, h \in Generations : Reject(c, h))
    <3>1. PICK h \in Generations, accepted \in BOOLEAN : Resolved(h, accepted)
      BY <2>3 DEF Reject, Resolve, TypeOK, At, Reserving
    <3> QED BY <1>5, <1>6, <3>1
  <2> QED BY <2>1, <2>2, <2>3
<1> QED BY <1>3, <1>6

LEMMA PromisedNeverGrows ==
  ASSUME TypeOK, TypeOK', [Next]_vars, \A c \in Calls, g \in Generations : ~Insert(c, g),
         NEW m \in Months
  PROVE  PromisedIn(m)' <= PromisedIn(m)
<1>1. OfMonth(m)' = OfMonth(m)
  BY RowsPromiseLess DEF OfMonth
<1>2. \A g \in OfMonth(m) : Promises'[g] \in Nat /\ Promises[g] \in Nat /\ Promises'[g] <= Promises[g]
  <2>1. \A g \in Generations : ledger[g] \in Row /\ ledger'[g] \in Row
    BY DEF TypeOK
  <2>2. \A g \in Generations : Promised(ledger[g]) \in Nat /\ Promised(ledger'[g]) \in Nat
    BY <2>1 DEF Promised, Lesser, Row
  <2> QED BY <2>2, RowsPromiseLess DEF OfMonth, Promises
<1>3. Cents(Promises, OfMonth(m))' = Cents(Promises', OfMonth(m)')
  BY DEF Cents
<1>4. Cents(Promises, OfMonth(m))' \subseteq Cents(Promises, OfMonth(m))
  BY <1>1, <1>2, <1>3 DEF Cents
<1>5. /\ PromisedIn(m)' = Cardinality(Cents(Promises, OfMonth(m))')
      /\ PromisedIn(m) = Cardinality(Cents(Promises, OfMonth(m)))
      /\ IsFiniteSet(Cents(Promises, OfMonth(m)))
  <2>1. TypeOK' => InCents'
    BY PromisedIsCents, PTL
  <2> QED BY <2>1, PromisedIsCents DEF InCents
<1> QED BY <1>4, <1>5, FS_Subset

(* An insertion adds the reservation of its profile to the month its       *)
(* call entered in.                                                        *)
LEMMA PromisedByInsert ==
  ASSUME TypeOK, TypeOK', NEW c \in Calls, NEW g \in Generations, Insert(c, g),
         NEW m \in Months
  PROVE  /\ m # call[c].month => PromisedIn(m)' <= PromisedIn(m)
         /\ m = call[c].month => PromisedIn(m)' <= PromisedIn(m) + Reservation[call[c].profile]
<1> DEFINE p == call[c].profile
           Old == Cents(Promises, OfMonth(m))
           New == Cents(Promises, OfMonth(m))'
           Own == {g} \X (1 .. Reservation[p])
<1>1. /\ ledger \in [Generations -> Row] /\ p \in Profiles
      /\ ledger[g].status = "none" /\ Reservation[p] \in Nat
  BY AiAssumption DEF TypeOK, Insert, At, Reserving, Unused, Status
<1>2. /\ ledger'[g] = [status |-> "reserved", reserved |-> Reservation[p],
                       actual |-> 0, month |-> call[c].month]
      /\ \A h \in Generations : h # g => ledger'[h] = ledger[h]
  BY <1>1 DEF Insert
<1>3. Promised(ledger'[g]) = Reservation[p] /\ ledger'[g].month = call[c].month
  BY <1>2 DEF Promised
<1>4. New = {cent \in OfMonth(m)' \X Nat : 1 <= cent[2] /\ cent[2] <= Promised(ledger'[cent[1]])}
  BY DEF Cents, Promises, OfMonth
<1>5. Old = {cent \in OfMonth(m) \X Nat : 1 <= cent[2] /\ cent[2] <= Promised(ledger[cent[1]])}
  BY DEF Cents, Promises, OfMonth
<1>6. /\ PromisedIn(m)' = Cardinality(New) /\ PromisedIn(m) = Cardinality(Old)
      /\ IsFiniteSet(Old) /\ IsFiniteSet(New) /\ Cardinality(Old) \in Nat
  <2>1. TypeOK' => InCents'
    BY PromisedIsCents, PTL
  <2>2. Cardinality(Old) \in Nat
    BY PromisedIsCents DEF InCents
  <2> QED BY <2>1, <2>2, PromisedIsCents DEF InCents
<1>7. \A h \in OfMonth(m)' : (h = g /\ m = call[c].month) \/ (h # g /\ h \in OfMonth(m))
  BY <1>2, <1>3 DEF OfMonth
<1> HIDE DEF Old, New, p
<1>8. CASE m # call[c].month
  <2>1. New \subseteq Old
    BY <1>2, <1>4, <1>5, <1>7, <1>8 DEF OfMonth
  <2> QED BY <1>6, <1>8, <2>1, FS_Subset
<1>9. CASE m = call[c].month
  <2>1. New \subseteq Old \cup Own
    BY <1>1, <1>2, <1>3, <1>4, <1>5, <1>7 DEF OfMonth
  <2>2. IsFiniteSet(Own) /\ Cardinality(Own) = Reservation[p]
    BY <1>1, CentsOfOne
  <2> HIDE DEF Own
  <2>3. IsFiniteSet(Old \cup Own)
        /\ Cardinality(Old \cup Own) = Cardinality(Old) + Cardinality(Own) - Cardinality(Old \cap Own)
    BY <1>6, <2>2, FS_Union
  <2>4. Cardinality(Old \cap Own) \in Nat
    BY <1>6, FS_Intersection, FS_CardinalityType
  <2>5. Cardinality(New) <= Cardinality(Old \cup Own) /\ Cardinality(New) \in Nat
    BY <1>6, <2>1, <2>3, FS_Subset, FS_CardinalityType
  <2>6. Cardinality(New) <= Cardinality(Old) + Reservation[p]
    BY <1>1, <1>6, <2>2, <2>3, <2>4, <2>5
  <2> QED BY <1>6, <1>9, <2>6 DEF p
<1> QED BY <1>8, <1>9

(* What a step does to a call on its way to a reservation.                 *)
LEMMA ReservingSteps ==
  ASSUME TypeOK, [Next]_vars, NEW c \in Calls, call'[c].at \in Reserving
  PROVE  \/ /\ call[c].at \in Reserving /\ call'[c].month = call[c].month
            /\ call'[c].limit = call[c].limit /\ call'[c].profile = call[c].profile
            /\ call'[c].at = "counted" => (call[c].at = "counted" \/ (Count(c) /\ Allowed(c)))
         \/ \E p \in Profiles : Enter(c, p)
<1> USE DEF Reserving
<1>1. call \in [Calls -> Call]
  BY DEF TypeOK
<1>2. CASE call'[c] = call[c]
  BY <1>2
<1>3. ASSUME NEW d \in Calls, Working(d) \/ Crash(d), call'[c] # call[c]
      PROVE  /\ call[c].at \in Reserving /\ call'[c].month = call[c].month
             /\ call'[c].limit = call[c].limit /\ call'[c].profile = call[c].profile
             /\ call'[c].at = "counted" => (Count(c) /\ Allowed(c))
  <2>1. d = c
    BY <1>1, <1>3 DEF Working, Lock, Count, Insert, Provide, Settle, Applied, Advised, ApplyFails,
       Resolve, Crash, Go, Return
  <2>2. CASE Lock(c)
    BY <1>1, <2>2 DEF Lock, Go, At, Call
  <2>3. CASE Count(c)
    <3>1. Allowed(c) /\ Go(c, "counted")
      BY <1>1, <2>3, CallTypes DEF Count, Return
    <3> QED BY <1>1, <2>3, <3>1 DEF Count, Go, At, Call
  <2>4. CASE Settle(c) \/ ApplyFails(c) \/ Resolve(c) \/ Crash(c)
    BY <1>1, <2>4, CallTypes DEF Settle, ApplyFails, Resolve, Crash, Return
  <2>5. CASE Applied(c) \/ Advised(c)
    BY <1>1, <2>5 DEF Applied, Advised, Go, Call
  <2>6. CASE Provide(c)
    <3>1. PICK outcome \in {"completed", "failed"}, cost \in Costs :
            call' = [call EXCEPT ![c].at = "settling", ![c].outcome = outcome,
                                 ![c].cost = IF outcome = "completed" THEN cost ELSE 0]
      BY <2>6 DEF Provide
    <3> QED BY <1>1, <3>1 DEF Call
  <2>7. CASE \E g \in Generations : Insert(c, g)
    BY <1>1, <2>7, CallForTyped DEF Insert, Stages
  <2> QED BY <1>3, <2>1, <2>2, <2>3, <2>4, <2>5, <2>6, <2>7 DEF Working
<1>4. ASSUME NEW d \in Calls, NEW g \in Generations, Accept(d, g), call'[c] # call[c]
      PROVE  FALSE
  BY <1>1, <1>4, CallForTyped DEF Accept, Stages
<1>5. ASSUME NEW d \in Calls, NEW p \in Profiles, Enter(d, p), call'[c] # call[c]
      PROVE  d = c
  BY <1>1, <1>5 DEF Enter
<1> QED BY <1>2, <1>3, <1>4, <1>5 DEF Next, vars, Reject, SetLimit, NextMonth

LEMMA HighestGrows ==
  ASSUME TypeOK, LimitSeen, [Next]_vars
  PROVE  /\ limit' <= highest'[month'] /\ month <= month'
         /\ \A m \in Months : m <= month => highest[m] <= highest'[m]
         /\ \A m \in Months : highest[m] <= highest'[m]
         /\ \A m \in Months : m > month' => highest'[m] = 0
<1>1. /\ highest \in [Months -> Nat] /\ month \in Months /\ limit \in Nat /\ Months \subseteq Nat
      /\ month \in Nat
  BY DEF TypeOK, Months
<1>2. CASE UNCHANGED Settings
  BY <1>1, <1>2 DEF Settings, LimitSeen
<1>3. ASSUME NEW l \in Limits, SetLimit(l)
      PROVE  /\ limit' <= highest'[month'] /\ month <= month'
             /\ \A m \in Months : highest[m] <= highest'[m]
             /\ \A m \in Months : m > month' => highest'[m] = 0
  <2>1. l \in Nat
    BY AiAssumption
  <2> QED BY <1>1, <1>3, <2>1 DEF SetLimit, LimitSeen
<1>4. CASE NextMonth
  <2>1. month + 1 \in Months /\ highest[month + 1] = 0
    BY <1>1, <1>4, AiAssumption DEF NextMonth, LimitSeen, Months
  <2> QED BY <1>1, <1>4, <2>1 DEF NextMonth, LimitSeen
<1> QED BY <1>2, <1>3, <1>4 DEF Next, vars, Working, Enter, Lock, Count, Insert, Provide, Settle,
        Accept, Applied, Advised, ApplyFails, Resolve, Reject, Crash, Settings

LEMMA LimitSeenNext ==
  ASSUME TypeOK, TypeOK', LimitSeen, [Next]_vars
  PROVE  LimitSeen'
<1>1. /\ highest \in [Months -> Nat] /\ highest' \in [Months -> Nat] /\ month \in Months
      /\ month' \in Months /\ limit \in Nat /\ Months \subseteq Nat /\ call \in [Calls -> Call]
  BY DEF TypeOK, Months
<1>2. ASSUME NEW c \in Calls, call'[c].at \in Reserving
      PROVE  call'[c].month <= month' /\ call'[c].limit <= highest'[call'[c].month]
  <2>1. CASE \E p \in Profiles : Enter(c, p)
    <3>1. call'[c].month = month /\ call'[c].limit = limit /\ UNCHANGED Settings
      BY <1>1, <2>1 DEF Enter, NoCall
    <3> QED BY <1>1, <3>1 DEF Settings, LimitSeen
  <2>2. CASE /\ call[c].at \in Reserving /\ call'[c].month = call[c].month
             /\ call'[c].limit = call[c].limit
    <3>1. call[c].month \in Months /\ call[c].limit \in Nat
      BY <1>1 DEF Call
    <3>2. call[c].month <= month /\ call[c].limit <= highest[call[c].month]
      BY <2>2 DEF LimitSeen
    <3>3. month <= month' /\ highest[call[c].month] <= highest'[call[c].month]
      BY <3>1, HighestGrows
    <3>4. highest[call[c].month] \in Nat /\ highest'[call[c].month] \in Nat
      BY <1>1, <3>1
    <3> QED BY <1>1, <2>2, <3>1, <3>2, <3>3, <3>4
  <2> QED BY <1>2, <2>1, <2>2, ReservingSteps
<1> QED BY <1>2, HighestGrows DEF LimitSeen

LEMMA FitNext ==
  ASSUME TypeOK, TypeOK', OneCounts, LimitSeen, CountFits, ReservationsFit, [Next]_vars
  PROVE  CountFits' /\ ReservationsFit'
<1>1. /\ highest \in [Months -> Nat] /\ highest' \in [Months -> Nat]
      /\ Months \subseteq Nat /\ call \in [Calls -> Call]
  BY DEF TypeOK, Months
<1>2. \A m \in Months : PromisedIn(m) \in Nat /\ PromisedIn(m)' \in Nat
  <2>1. TypeOK' => InCents'
    BY PromisedIsCents, PTL
  <2> QED BY <2>1, PromisedIsCents DEF InCents
<1>3. \A m \in Months : PromisedIn(m) <= highest[m]
  BY DEF ReservationsFit, PromisedIn
<1>4. \A m \in Months : highest[m] <= highest'[m]
  BY HighestGrows
<1>5. CASE \E c \in Calls, g \in Generations : Insert(c, g)
  <2>1. PICK c \in Calls, g \in Generations : Insert(c, g)
    BY <1>5
  <2>2. /\ call[c].month \in Months /\ call[c].profile \in Profiles
        /\ Reservation[call[c].profile] \in Nat /\ UNCHANGED Settings
    BY <1>1, <2>1, AiAssumption DEF TypeOK, Insert, At, Reserving, Call
  <2>3. PromisedIn(call[c].month) + Reservation[call[c].profile] <= highest[call[c].month]
    BY <2>1 DEF Insert, CountFits
  <2>4. \A m \in Months : PromisedIn(m)' <= highest'[m]
    <3> SUFFICES ASSUME NEW m \in Months PROVE PromisedIn(m)' <= highest'[m]
      OBVIOUS
    <3>1. CASE m = call[c].month
      BY <1>1, <1>2, <2>1, <2>2, <2>3, <3>1, PromisedByInsert DEF Settings
    <3>2. CASE m # call[c].month
      BY <1>1, <1>2, <1>3, <2>1, <2>2, <3>2, PromisedByInsert DEF Settings
    <3> QED BY <3>1, <3>2
  <2>5. \A d \in Calls : call'[d].at # "counted"
    <3>1. call[c].at = "counted" /\ lock = c
      BY <2>1 DEF Insert, At, OneCounts, InTransaction
    <3>2. \A d \in Calls : d # c => call[d].at # "counted"
      BY <3>1 DEF OneCounts, InTransaction
    <3>3. call' = [call EXCEPT ![c] = CallFor(g, "asking")] /\ CallFor(g, "asking").at = "asking"
      BY <2>1, CallForTyped DEF Insert, Stages
    <3> QED BY <1>1, <3>2, <3>3
  <2> QED BY <2>4, <2>5 DEF CountFits, ReservationsFit, PromisedIn, At
<1>6. CASE \A c \in Calls, g \in Generations : ~Insert(c, g)
  <2>1. \A m \in Months : PromisedIn(m)' <= PromisedIn(m)
    BY <1>6, PromisedNeverGrows
  <2>2. \A m \in Months : PromisedIn(m)' <= highest'[m]
    <3> SUFFICES ASSUME NEW m \in Months PROVE PromisedIn(m)' <= highest'[m]
      OBVIOUS
    <3>1. highest[m] \in Nat /\ highest'[m] \in Nat
      BY <1>1
    <3> QED BY <1>2, <1>3, <1>4, <2>1, <3>1
  <2>3. ASSUME NEW c \in Calls, call'[c].at = "counted"
        PROVE  \A m \in Months : m = call'[c].month =>
                 PromisedIn(m)' + Reservation[call'[c].profile] <= highest'[m]
    <3>1. ~ \E p \in Profiles : Enter(c, p)
      BY <1>1, <2>3 DEF Enter, NoCall
    <3>2. /\ call[c].at \in Reserving /\ call'[c].month = call[c].month
          /\ call'[c].limit = call[c].limit /\ call'[c].profile = call[c].profile
          /\ (call[c].at = "counted" \/ (Count(c) /\ Allowed(c)))
      <4>1. call'[c].at \in Reserving
        BY <2>3 DEF Reserving
      <4> QED BY <2>3, <3>1, <4>1, ReservingSteps
    <3>3. /\ call[c].month \in Months /\ call[c].limit \in Nat /\ call[c].profile \in Profiles
          /\ Reservation[call[c].profile] \in Nat
      BY <1>1, <3>2, AiAssumption DEF TypeOK, Call
    <3>4. PromisedIn(call[c].month) + Reservation[call[c].profile] <= highest[call[c].month]
      <4>1. CASE call[c].at = "counted"
        BY <4>1 DEF CountFits, At
      <4>2. CASE Count(c) /\ Allowed(c)
        <5>1. Used(call[c].month) + Reservation[call[c].profile] <= call[c].limit
          BY <4>2 DEF Allowed
        <5>2. PromisedIn(call[c].month) <= Used(call[c].month) /\ Used(call[c].month) \in Nat
          BY <3>3, UsedCoversPromised
        <5>3. call[c].limit <= highest[call[c].month] /\ highest[call[c].month] \in Nat
          BY <1>1, <3>2, <3>3 DEF LimitSeen
        <5> QED BY <1>2, <3>3, <5>1, <5>2, <5>3
      <4> QED BY <3>2, <4>1, <4>2
    <3>5. ASSUME NEW m \in Months, m = call'[c].month
          PROVE  PromisedIn(m)' + Reservation[call'[c].profile] <= highest'[m]
      <4>1. PromisedIn(m) + Reservation[call[c].profile] <= highest[m]
        BY <3>2, <3>4, <3>5
      <4>2. highest[m] \in Nat /\ highest'[m] \in Nat /\ highest[m] <= highest'[m]
        BY <1>1, <1>4
      <4>3. PromisedIn(m)' <= PromisedIn(m) /\ PromisedIn(m) \in Nat /\ PromisedIn(m)' \in Nat
        BY <1>2, <2>1
      <4> QED BY <3>2, <3>3, <4>1, <4>2, <4>3
    <3> QED BY <3>5
  <2>4. CountFits'
    <3>1. \A c \in Calls : call'[c].month \in Months
      BY DEF TypeOK, Call
    <3> QED BY <2>3, <3>1 DEF CountFits, At, PromisedIn, OfMonth
  <2> QED BY <2>2, <2>4 DEF ReservationsFit, PromisedIn
<1> QED BY <1>5, <1>6

LEMMA InitFits == Init => LimitSeen /\ CountFits /\ ReservationsFit
<1> SUFFICES ASSUME Init PROVE LimitSeen /\ CountFits /\ ReservationsFit
  OBVIOUS
<1>1. TypeOK
  BY InitTyped
<1>2. \A c \in Calls : call[c].at = "idle"
  BY CallTypes DEF Init
<1>3. /\ month = 1 /\ 1 \in Months /\ limit = Cap /\ Cap \in Nat /\ Months \subseteq Nat
      /\ highest = [m \in Months |-> IF m = 1 THEN Cap ELSE 0]
  BY AiAssumption DEF Init, Months
<1>4. LimitSeen /\ CountFits
  BY <1>2, <1>3 DEF LimitSeen, CountFits, Reserving, At
<1>5. \A m \in Months : PromisedIn(m) <= highest[m]
  <2> SUFFICES ASSUME NEW m \in Months PROVE PromisedIn(m) <= highest[m]
    OBVIOUS
  <2>1. \A g \in Generations : Promises[g] = 0
    BY DEF Init, NoRow, Promises, Promised, Settled
  <2>2. Cents(Promises, OfMonth(m)) = {}
    BY <2>1 DEF Cents, OfMonth
  <2>3. PromisedIn(m) = 0
    BY <1>1, <2>2, PromisedIsCents, FS_EmptySet DEF InCents
  <2> QED BY <1>3, <2>3
<1> QED BY <1>4, <1>5 DEF ReservationsFit, PromisedIn

(* However calls, settlements, failures, dying processes and changes of    *)
(* the limit meet, what a month has promised is within the highest limit   *)
(* it had.                                                                 *)
THEOREM ReservationsAlwaysFit == Spec => []ReservationsFit
<1>1. Init => LimitSeen /\ CountFits /\ ReservationsFit
  BY InitFits
<1>2. TypeOK /\ TypeOK' /\ OneCounts /\ LimitSeen /\ CountFits /\ ReservationsFit /\ [Next]_vars
        => (LimitSeen /\ CountFits /\ ReservationsFit)'
  BY LimitSeenNext, FitNext
<1> QED BY <1>1, <1>2, LedgerTypeCorrect, ReservationsSerialized, PTL DEF Spec
=============================================================================
