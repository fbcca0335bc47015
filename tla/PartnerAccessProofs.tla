------------------------ MODULE PartnerAccessProofs -------------------------
(***************************************************************************)
(* Theorems about PartnerAccess for any number of users, requests,         *)
(* connections and handoffs, any limit and any bounds; and about           *)
(* Memberships for any people, roles and permissions of roles, whatever    *)
(* the members ask for and however their transactions interleave.          *)
(***************************************************************************)
EXTENDS PartnerAccess, Memberships, FiniteSetTheorems, TLAPS

-----------------------------------------------------------------------------
(* What the steps of a call do to its connection                           *)

LEMMA AnswerTyped ==
  /\ Answer("rate_limited", None) \in Answers /\ Answer("not_found", None) \in Answers
  /\ Answer("forbidden", None) \in Answers /\ Answer("error", None) \in Answers
  /\ NoAnswer \in Answers
  /\ \A i \in Ids : Answer("conflict", i) \in Answers /\ Answer("created", i) \in Answers
BY DEF Answer, Answers, NoAnswer

LEMMA IdleTyped == Idle \in Calls
BY AnswerTyped DEF Idle, Calls, Stages

LEMMA FinishTyped ==
  ASSUME TypeOK, NEW c \in Conns, NEW a \in Answers, Finish(c, a), ~At(c, "idle")
  PROVE  /\ call' \in [Conns -> Calls]
         /\ call'[c].stage = "answer" /\ call'[c].key = call[c].key /\ call'[c].answer = a
         /\ call'[c].late = FALSE
         /\ \A d \in Conns : d # c => call'[d] = call[d]
<1> DEFINE new == [Idle EXCEPT !.stage = "answer", !.key = call[c].key, !.answer = a]
<1>1. call \in [Conns -> Calls] /\ call[c].key \in Keys
  BY DEF TypeOK
<1>2. new \in Calls /\ new.stage = "answer" /\ new.key = call[c].key /\ new.answer = a
      /\ new.late = FALSE
  BY <1>1, IdleTyped DEF Calls, Stages, Idle
<1>3. call' = [call EXCEPT ![c] = new]
  BY DEF Finish
<1> HIDE DEF new
<1> QED BY <1>1, <1>2, <1>3

LEMMA GoesTyped ==
  ASSUME TypeOK, NEW c \in Conns, NEW s \in Stages, Goes(c, s)
  PROVE  /\ call' \in [Conns -> Calls]
         /\ call'[c] = [call[c] EXCEPT !.stage = s]
         /\ call'[c].stage = s /\ call'[c].key = call[c].key
         /\ call'[c].user = call[c].user /\ call'[c].cleared = call[c].cleared
         /\ \A d \in Conns : d # c => call'[d] = call[d]
<1>1. call \in [Conns -> Calls]
  BY DEF TypeOK
<1>2. call'[c] = [call[c] EXCEPT !.stage = s]
  BY <1>1 DEF Goes
<1>3. call'[c] \in Calls /\ call'[c].stage = s /\ call'[c].key = call[c].key
      /\ call'[c].user = call[c].user /\ call'[c].cleared = call[c].cleared
  BY <1>1, <1>2 DEF Calls
<1> QED BY <1>1, <1>2, <1>3 DEF Goes

(* A connection that moves leaves the others where they are.               *)
LEMMA CallsTyped ==
  ASSUME TypeOK, NEW c \in Conns, call' \in [Conns -> Calls],
         \A d \in Conns : d # c => call'[d] = call[d],
         call'[c].stage = "idle" \/ call'[c].key \in Keys,
         call'[c].stage \in {"target", "existing", "create"} => call'[c].user \in Users
  PROVE  /\ \A d \in Conns : ~At(d, "idle")' => call'[d].key \in Keys
         /\ \A d \in Judged' : call'[d].user \in Users
BY DEF TypeOK, At, Judged

LEMMA ChargesTyped ==
  ASSUME TypeOK, NEW c \in Conns, Charges(c)
  PROVE  hits' \in [ApiKeys -> [BOOLEAN -> 0 .. Limit + 1]]
<1>1. /\ hits \in [ApiKeys -> [BOOLEAN -> 0 .. Limit + 1]]
      /\ KeyOf[c] \in ApiKeys /\ call[c].late \in BOOLEAN /\ Limit \in Nat
  BY PartnerAssumption DEF TypeOK, Calls
<1>2. CASE Limit = 0
  BY <1>1, <1>2 DEF Charges
<1>3. CASE Limit # 0
  <2> DEFINE n == hits[KeyOf[c]][call[c].late]
             m == IF n > Limit THEN n ELSE n + 1
  <2>1. n \in 0 .. Limit + 1
    BY <1>1
  <2>2. m \in 0 .. Limit + 1
    BY <1>1, <2>1
  <2>3. hits' = [hits EXCEPT ![KeyOf[c]][call[c].late] = m]
    BY <1>3 DEF Charges
  <2> HIDE DEF m
  <2> QED BY <1>1, <2>2, <2>3
<1> QED BY <1>2, <1>3

LEMMA EndsTyped ==
  ASSUME TypeOK, NEW c \in Conns, NEW a \in Answers, Ends(c, a), ~At(c, "idle"),
         UNCHANGED enrollment
  PROVE  TypeOK'
<1>1. ledger' \in [Keys -> Answers] /\ keeper' \in [Keys -> ApiKeys \cup {None}]
  <2>1. KeyOf[c] \in ApiKeys
    BY PartnerAssumption
  <2> QED BY <2>1 DEF Ends, TypeOK
<1>2. hits' \in [ApiKeys -> [BOOLEAN -> 0 .. Limit + 1]]
  BY ChargesTyped DEF Ends
<1>3. /\ call' \in [Conns -> Calls] /\ call'[c].stage = "answer" /\ call'[c].key \in Keys
      /\ \A d \in Conns : d # c => call'[d] = call[d]
  BY FinishTyped DEF Ends, TypeOK
<1>4. /\ \A d \in Conns : ~At(d, "idle")' => call'[d].key \in Keys
      /\ \A d \in Judged' : call'[d].user \in Users
  BY <1>3, CallsTyped
<1> QED BY <1>1, <1>2, <1>3, <1>4 DEF Ends, TypeOK, people

LEMMA GoesKeepsTypes ==
  ASSUME TypeOK, NEW c \in Conns, NEW s \in Stages, Goes(c, s), Reads, ~At(c, "idle"),
         s \in {"existing", "create"} => c \in Judged, s # "target"
  PROVE  TypeOK'
<1>1. /\ call' \in [Conns -> Calls] /\ call'[c].stage = s /\ call'[c].key = call[c].key
      /\ call'[c].user = call[c].user /\ \A d \in Conns : d # c => call'[d] = call[d]
  BY GoesTyped
<1>2. call[c].key \in Keys /\ (c \in Judged => call[c].user \in Users)
  BY DEF TypeOK
<1>3. /\ \A d \in Conns : ~At(d, "idle")' => call'[d].key \in Keys
      /\ \A d \in Judged' : call'[d].user \in Users
  BY <1>1, <1>2, CallsTyped
<1> QED BY <1>1, <1>3 DEF Reads, TypeOK, people

-----------------------------------------------------------------------------
(* Type correctness, step by step                                          *)

LEMMA TypedHandoff ==
  ASSUME TypeOK, NEW n \in Nonces, Handoff(n)
  PROVE  TypeOK'
<1> DEFINE u == UserOfClaims(Claims[n])
<1>1. Claims[n] \in [ext : ExternalIds, user : Users, audiences : SUBSET Audiences]
  BY PartnerAssumption
<1>2. u \in Users
  <2>1. CASE UsersNamed(Claims[n].ext) = {}
    BY <1>1, <2>1 DEF UserOfClaims
  <2>2. CASE UsersNamed(Claims[n].ext) # {}
    <3>1. u \in UsersNamed(Claims[n].ext)
      BY <2>2 DEF UserOfClaims
    <3> QED BY <3>1 DEF UsersNamed
  <2> QED BY <2>1, <2>2
<1>3. identity' \in [Users -> Mappings]
  <2>1. identity \in [Users -> Mappings]
    BY DEF TypeOK
  <2>2. Linked(u, Claims[n]) \in Mappings
    BY <1>1, <1>2, <2>1 DEF Linked, Mappings
  <2>3. identity' = identity \/ identity' = [identity EXCEPT ![u] = Linked(u, Claims[n])]
    BY DEF Handoff
  <2> QED BY <2>1, <2>2, <2>3
<1>4. member' \in [Users -> {"none", "active", "suspended"}]
  <2>1. member' = member \/ member' = [member EXCEPT ![u] = "active"]
    BY DEF Handoff
  <2> QED BY <2>1 DEF TypeOK
<1> HIDE DEF u
<1> QED BY <1>3, <1>4 DEF Handoff, TypeOK, api, Judged, At

LEMMA TypedIdentityStatus ==
  ASSUME TypeOK, NEW u \in Users, NEW st \in {"active", "revoked"}, SetIdentityStatus(u, st)
  PROVE  /\ TypeOK'
         /\ \A c \in Conns :
              /\ call'[c].stage = call[c].stage /\ call'[c].key = call[c].key
              /\ call'[c].user = call[c].user /\ call'[c].answer = call[c].answer
              /\ call[c].cleared \subseteq call'[c].cleared
              /\ st = "active" /\ call[c].stage # "idle" => u \in call'[c].cleared
<1>1. identity' \in [Users -> Mappings]
  BY DEF SetIdentityStatus, TypeOK, Mappings
<1>2. \A c \in Conns :
        /\ call'[c] \in Calls
        /\ call'[c].stage = call[c].stage /\ call'[c].key = call[c].key
        /\ call'[c].user = call[c].user /\ call'[c].answer = call[c].answer
        /\ call[c].cleared \subseteq call'[c].cleared
        /\ st = "active" /\ call[c].stage # "idle" => u \in call'[c].cleared
  <2> SUFFICES ASSUME NEW c \in Conns
               PROVE  /\ call'[c] \in Calls
                      /\ call'[c].stage = call[c].stage /\ call'[c].key = call[c].key
                      /\ call'[c].user = call[c].user /\ call'[c].answer = call[c].answer
                      /\ call[c].cleared \subseteq call'[c].cleared
                      /\ st = "active" /\ call[c].stage # "idle" => u \in call'[c].cleared
    OBVIOUS
  <2>1. call[c] \in Calls
    BY DEF TypeOK
  <2>2. CASE call'[c] = call[c] /\ ~(st = "active" /\ call[c].stage # "idle")
    BY <2>1, <2>2
  <2>3. CASE call'[c] = [call[c] EXCEPT !.cleared = @ \cup {u}]
    BY <2>1, <2>3 DEF Calls
  <2> QED BY <2>2, <2>3 DEF SetIdentityStatus
<1>3. call' \in [Conns -> Calls]
  BY <1>2 DEF SetIdentityStatus
<1>4. staffed' \in 0 .. MaxStaff
  BY PartnerAssumption DEF SetIdentityStatus, StaffActs, TypeOK
<1>5. barred' \subseteq Users
  BY DEF SetIdentityStatus, TypeOK
<1> QED BY <1>1, <1>2, <1>3, <1>4, <1>5 DEF SetIdentityStatus, TypeOK, Judged, At

LEMMA TypedStaff ==
  ASSUME TypeOK, StaffStep
  PROVE  TypeOK'
<1>1. ASSUME NEW u \in Users, NEW st \in {"active", "revoked"}, SetIdentityStatus(u, st)
      PROVE  TypeOK'
  BY <1>1, TypedIdentityStatus
<1>2. ASSUME NEW u \in Users, NEW st \in {"active", "suspended"}, SetMembershipStatus(u, st)
      PROVE  TypeOK'
  BY <1>2, PartnerAssumption DEF SetMembershipStatus, StaffActs, TypeOK, api, Judged, At
<1>3. ASSUME NEW t \in Targets, SetOffered(t)
      PROVE  TypeOK'
  BY <1>3, PartnerAssumption DEF SetOffered, StaffActs, TypeOK, api, people, Judged, At
<1>4. ASSUME NEW u \in Users, NEW t \in Targets, EnrollByStaff(u, t)
      PROVE  TypeOK'
  <2>1. enrollment' \in
          [Users -> [Targets -> [Ids -> {"none", "active", "withdrawn", "expired"}]]]
    <3>1. enrollment' = [enrollment EXCEPT ![u][t][Staff] = "active"]
      BY <1>4 DEF EnrollByStaff
    <3>2. Staff \in Ids
      BY DEF Ids
    <3> QED BY <3>1, <3>2 DEF TypeOK
  <2>2. staffed' \in 0 .. MaxStaff
    BY <1>4, PartnerAssumption DEF EnrollByStaff, StaffActs, TypeOK
  <2> QED BY <1>4, <2>1, <2>2 DEF EnrollByStaff, TypeOK, api, people, Judged, At
<1>5. ASSUME NEW u \in Users, NEW t \in Targets, NEW i \in Ids,
             NEW st \in {"active", "withdrawn", "expired"}, SetEnrollmentStatus(u, t, i, st)
      PROVE  TypeOK'
  BY <1>5, PartnerAssumption
  DEF SetEnrollmentStatus, StaffActs, TypeOK, api, people, Judged, At
<1> QED BY <1>1, <1>2, <1>3, <1>4, <1>5 DEF StaffStep

LEMMA TypedConnection ==
  ASSUME TypeOK, NEW c \in Conns, Lose(c) \/ Hear(c) \/ \E k \in Keys : Send(c, k)
  PROVE  TypeOK'
<1> DEFINE New(k) == [Idle EXCEPT !.stage = "charge", !.key = k, !.cleared = Users \ barred]
<1>1. call \in [Conns -> Calls]
  BY DEF TypeOK
<1>2. CASE Lose(c) \/ Hear(c)
  <2>1. /\ call' \in [Conns -> Calls] /\ call'[c].stage = "idle"
        /\ \A d \in Conns : d # c => call'[d] = call[d]
    <3>1. call' = [call EXCEPT ![c] = Idle]
      BY <1>2 DEF Lose, Hear
    <3>2. Idle.stage = "idle"
      BY DEF Idle
    <3> QED BY <1>1, <3>1, <3>2, IdleTyped
  <2>2. /\ \A d \in Conns : ~At(d, "idle")' => call'[d].key \in Keys
        /\ \A d \in Judged' : call'[d].user \in Users
    BY <2>1, CallsTyped
  <2>3. heard' \in [Keys -> SUBSET Answers]
    <3>1. CASE Lose(c)
      BY <3>1 DEF Lose, TypeOK
    <3>2. CASE Hear(c)
      <4>1. call[c].answer \in Answers
        BY <1>1 DEF Calls
      <4> QED BY <3>2, <4>1 DEF Hear, TypeOK
    <3> QED BY <1>2, <3>1, <3>2
  <2>4. lost' \in 0 .. MaxLosses
    BY <1>2, PartnerAssumption DEF Lose, Hear, TypeOK
  <2> QED BY <1>2, <2>1, <2>2, <2>3, <2>4 DEF Lose, Hear, TypeOK, people
<1>3. ASSUME NEW k \in Keys, Send(c, k)
      PROVE  TypeOK'
  <2>1. New(k) \in Calls /\ New(k).stage = "charge" /\ New(k).key = k
    BY IdleTyped DEF Calls, Stages, Idle
  <2>2. call' = [call EXCEPT ![c] = New(k)]
    BY <1>3 DEF Send
  <2> HIDE DEF New
  <2>3. /\ call' \in [Conns -> Calls] /\ call'[c].stage = "charge" /\ call'[c].key = k
        /\ \A d \in Conns : d # c => call'[d] = call[d]
    BY <1>1, <2>1, <2>2
  <2>4. /\ \A d \in Conns : ~At(d, "idle")' => call'[d].key \in Keys
        /\ \A d \in Judged' : call'[d].user \in Users
    BY <2>3, CallsTyped
  <2> QED BY <1>3, <2>3, <2>4 DEF Send, TypeOK, people
<1> QED BY <1>2, <1>3

LEMMA MinuteTyped ==
  ASSUME TypeOK, NextMinute
  PROVE  /\ TypeOK'
         /\ \A c \in Conns :
              /\ call'[c].stage = call[c].stage /\ call'[c].key = call[c].key
              /\ call'[c].user = call[c].user /\ call'[c].answer = call[c].answer
              /\ call'[c].cleared = call[c].cleared
<1>1. hits' \in [ApiKeys -> [BOOLEAN -> 0 .. Limit + 1]]
  <2>1. hits' = [a \in ApiKeys |-> [late \in BOOLEAN |-> IF late THEN hits[a][FALSE] ELSE 0]]
    BY DEF NextMinute
  <2>2. \A a \in ApiKeys : hits[a][FALSE] \in 0 .. Limit + 1
    BY DEF TypeOK
  <2>3. 0 \in 0 .. Limit + 1
    BY PartnerAssumption
  <2> QED BY <2>1, <2>2, <2>3
<1>2. \A c \in Conns :
        /\ call'[c] \in Calls
        /\ call'[c].stage = call[c].stage /\ call'[c].key = call[c].key
        /\ call'[c].user = call[c].user /\ call'[c].answer = call[c].answer
        /\ call'[c].cleared = call[c].cleared
  <2> SUFFICES ASSUME NEW c \in Conns
               PROVE  /\ call'[c] \in Calls
                      /\ call'[c].stage = call[c].stage /\ call'[c].key = call[c].key
                      /\ call'[c].user = call[c].user /\ call'[c].answer = call[c].answer
                      /\ call'[c].cleared = call[c].cleared
    OBVIOUS
  <2>1. call[c] \in Calls
    BY DEF TypeOK
  <2>2. call'[c] = call[c] \/ call'[c] = [call[c] EXCEPT !.late = TRUE]
    BY DEF NextMinute
  <2> QED BY <2>1, <2>2 DEF Calls
<1>3. call' \in [Conns -> Calls]
  BY <1>2 DEF NextMinute
<1> QED BY <1>1, <1>2, <1>3 DEF NextMinute, TypeOK, people, Judged, At

LEMMA TypedJudge ==
  ASSUME TypeOK, NEW c \in Conns, Judge(c)
  PROVE  TypeOK'
<1>1. ~At(c, "idle") /\ call[c] \in Calls /\ call[c].key \in Keys
  BY DEF Judge, At, TypeOK
<1>2. CASE \E a \in Answers : Ends(c, a) /\ UNCHANGED enrollment
  BY <1>1, <1>2, EndsTyped
<1>3. ASSUME NEW u \in Users, Reads,
             call' = [call EXCEPT ![c].stage = "target", ![c].user = u,
                                  ![c].audiences = identity[u].audiences]
      PROVE  TypeOK'
  <2> DEFINE new == [call[c] EXCEPT !.stage = "target", !.user = u,
                                    !.audiences = identity[u].audiences]
  <2>1. new \in Calls /\ new.stage = "target" /\ new.user = u /\ new.key = call[c].key
    BY <1>1 DEF Calls, Stages, TypeOK, Mappings
  <2>2. call' = [call EXCEPT ![c] = new]
    BY <1>3, <1>1 DEF Calls, TypeOK
  <2> HIDE DEF new
  <2>3. /\ call' \in [Conns -> Calls] /\ call'[c].stage = "target" /\ call'[c].user = u
        /\ call'[c].key \in Keys /\ \A d \in Conns : d # c => call'[d] = call[d]
    BY <1>1, <2>1, <2>2 DEF TypeOK
  <2>4. /\ \A d \in Conns : ~At(d, "idle")' => call'[d].key \in Keys
        /\ \A d \in Judged' : call'[d].user \in Users
    BY <2>3, CallsTyped
  <2> QED BY <1>3, <2>3, <2>4 DEF Reads, TypeOK, people
<1> QED BY <1>2, <1>3, AnswerTyped DEF Judge, Known, UsersNamed

LEMMA TypedCreate ==
  ASSUME TypeOK, NEW c \in Conns, Create(c)
  PROVE  TypeOK'
<1>1. c \in Judged /\ ~At(c, "idle") /\ call[c].key \in Keys /\ call[c].user \in Users
  BY DEF Create, At, Judged, TypeOK
<1>2. NewRow(c) \in Ids /\ Answer("created", NewRow(c)) \in Answers
  <2>1. NewRow(c) \in Ids
    BY <1>1, PartnerAssumption DEF Ids, NewRow
  <2> QED BY <2>1, AnswerTyped
<1>3. enrollment' \in
        [Users -> [Targets -> [Ids -> {"none", "active", "withdrawn", "expired"}]]]
  <2>1. Request(c).target \in Targets
    BY <1>1, PartnerAssumption DEF Request
  <2> HIDE DEF Request
  <2> QED BY <1>1, <1>2, <2>1 DEF Create, TypeOK
<1>4. ledger' \in [Keys -> Answers] /\ keeper' \in [Keys -> ApiKeys \cup {None}]
  <2>1. KeyOf[c] \in ApiKeys
    BY <1>1, PartnerAssumption DEF Judged
  <2> QED BY <1>1, <1>2, <2>1 DEF Create, Ends, TypeOK
<1>5. hits' \in [ApiKeys -> [BOOLEAN -> 0 .. Limit + 1]]
  BY ChargesTyped DEF Create, Ends
<1>6. /\ call' \in [Conns -> Calls] /\ call'[c].stage = "answer" /\ call'[c].key \in Keys
      /\ \A d \in Conns : d # c => call'[d] = call[d]
  BY <1>1, <1>2, FinishTyped DEF Create, Ends
<1>7. /\ \A d \in Conns : ~At(d, "idle")' => call'[d].key \in Keys
      /\ \A d \in Judged' : call'[d].user \in Users
  BY <1>6, CallsTyped
<1> QED BY <1>3, <1>4, <1>5, <1>6, <1>7 DEF Create, Ends, TypeOK, people

LEMMA TypedRefusal ==
  ASSUME TypeOK, NEW c \in Conns, CreateRefused(c)
  PROVE  TypeOK'
<1>1. ~At(c, "idle") /\ call[c].key \in Keys
  BY DEF CreateRefused, At, TypeOK
<1>2. /\ call' \in [Conns -> Calls] /\ call'[c].stage = "answer" /\ call'[c].key \in Keys
      /\ \A d \in Conns : d # c => call'[d] = call[d]
  BY <1>1, AnswerTyped, FinishTyped DEF CreateRefused
<1>3. /\ \A d \in Conns : ~At(d, "idle")' => call'[d].key \in Keys
      /\ \A d \in Judged' : call'[d].user \in Users
  BY <1>2, CallsTyped
<1> QED BY <1>2, <1>3 DEF CreateRefused, TypeOK, people

(* The steps of a call that either end it or only move it on.              *)
LEMMA MovesTyped ==
  ASSUME TypeOK, NEW c \in Conns,
         Charge(c) \/ Use(c) \/ Lookup(c) \/ FindTarget(c) \/ FindExisting(c)
  PROVE  TypeOK'
<1>1. ~At(c, "idle") /\ call[c].key \in Keys
  BY DEF Charge, Use, Lookup, FindTarget, FindExisting, At, TypeOK
<1>2. CASE \E a \in Answers : Ends(c, a) /\ UNCHANGED enrollment
  BY <1>1, <1>2, EndsTyped
<1>3. CASE \E s \in {"use", "lookup", "judge"} : Goes(c, s) /\ Reads
  BY <1>1, <1>3, GoesKeepsTypes DEF Stages
<1>4. CASE c \in Judged /\ \E s \in {"existing", "create"} : Goes(c, s) /\ Reads
  BY <1>1, <1>4, GoesKeepsTypes DEF Stages
<1>5. CASE Charge(c)
  BY <1>2, <1>3, <1>5, AnswerTyped DEF Charge
<1>6. CASE Use(c)
  BY <1>3, <1>6 DEF Use
<1>7. CASE Lookup(c)
  <2>1. ledger[call[c].key] \in Answers
    BY <1>1 DEF TypeOK
  <2> QED BY <1>2, <1>3, <1>7, <2>1 DEF Lookup
<1>8. CASE FindTarget(c)
  <2>1. c \in Judged
    BY <1>8 DEF FindTarget, At, Judged
  <2> QED BY <1>2, <1>4, <1>8, <2>1, AnswerTyped DEF FindTarget
<1>9. CASE FindExisting(c)
  <2>1. c \in Judged
    BY <1>9 DEF FindExisting, At, Judged
  <2>2. \A i \in InTheWay(call[c].user, Request(c).target) : Answer("conflict", i) \in Answers
    BY AnswerTyped DEF InTheWay
  <2> QED BY <1>2, <1>4, <1>9, <2>1, <2>2 DEF FindExisting
<1> QED BY <1>5, <1>6, <1>7, <1>8, <1>9

LEMMA TypeInit == Init => TypeOK
<1> SUFFICES ASSUME Init PROVE TypeOK
  OBVIOUS
<1>1. Unmapped \in Mappings
  BY DEF Unmapped, Mappings
<1>2. Idle.stage = "idle"
  BY DEF Idle
<1>3. 0 \in 0 .. Limit + 1 /\ 0 \in 0 .. MaxStaff /\ 0 \in 0 .. MaxLosses
  BY PartnerAssumption
<1> QED BY <1>1, <1>2, <1>3, IdleTyped, AnswerTyped DEF Init, TypeOK, At, Judged

LEMMA TypeStep == TypeOK /\ [Next]_vars => TypeOK'
<1> SUFFICES ASSUME TypeOK, [Next]_vars PROVE TypeOK'
  OBVIOUS
<1>1. CASE UNCHANGED vars
  BY <1>1 DEF vars, TypeOK, At, Judged
<1>2. CASE Next
  BY <1>2, TypedHandoff, TypedStaff, TypedConnection, MovesTyped, TypedJudge, TypedCreate,
     TypedRefusal, MinuteTyped DEF Next, CallStep
<1> QED BY <1>1, <1>2

(* Every variable of the partner's interface keeps its shape, and a call   *)
(* that has judged its member knows who that is.                           *)
THEOREM PartnerTypeCorrect == Spec => []TypeOK
BY TypeInit, TypeStep, PTL DEF Spec

-----------------------------------------------------------------------------
(* A revoked user stays out: whom a call may enroll was not barred at some *)
(* time after the call was sent.                                           *)

Deciding == {c \in Conns : call[c].stage \notin {"idle", "answer"}}

ClearedInv ==
  /\ \A u \in barred : Mapped(u) /\ identity[u].status = "revoked"
  /\ \A c \in Deciding : Users \ barred \subseteq call[c].cleared
  /\ \A c \in Judged : call[c].user \in call[c].cleared

(* A connection that moves on keeps its clearances and is the only one to  *)
(* move.                                                                   *)
LEMMA MovesKeepClearance ==
  ASSUME TypeOK, ClearedInv, NEW c \in Conns, UNCHANGED <<identity, barred>>,
         \A d \in Conns : d # c => call'[d] = call[d],
         c \in Deciding' => Users \ barred \subseteq call'[c].cleared,
         c \in Judged' => call'[c].user \in call'[c].cleared
  PROVE  ClearedInv'
BY DEF ClearedInv, Deciding, Judged, Mapped

LEMMA GoesKeepsClearance ==
  ASSUME TypeOK, ClearedInv, NEW c \in Conns, NEW s \in Stages, Goes(c, s), Reads,
         c \in Deciding, s \in {"existing", "create"} => c \in Judged, s # "target"
  PROVE  ClearedInv'
<1>1. /\ call'[c].stage = s /\ call'[c].user = call[c].user
      /\ call'[c].cleared = call[c].cleared /\ \A d \in Conns : d # c => call'[d] = call[d]
  BY GoesTyped
<1>2. c \in Deciding' => Users \ barred \subseteq call'[c].cleared
  BY <1>1 DEF ClearedInv
<1>3. c \in Judged' => call'[c].user \in call'[c].cleared
  BY <1>1 DEF ClearedInv, Judged
<1>4. UNCHANGED <<identity, barred>>
  BY DEF Reads, people
<1> QED BY <1>1, <1>2, <1>3, <1>4, MovesKeepClearance

LEMMA FinishKeepsClearance ==
  ASSUME TypeOK, ClearedInv, NEW c \in Conns, NEW a \in Answers, Finish(c, a), ~At(c, "idle"),
         UNCHANGED people
  PROVE  ClearedInv'
<1>1. call'[c].stage = "answer" /\ \A d \in Conns : d # c => call'[d] = call[d]
  BY FinishTyped
<1> QED BY <1>1, MovesKeepClearance DEF Deciding, Judged, people

LEMMA ClearedHandoff ==
  ASSUME TypeOK, ClearedInv, NEW n \in Nonces, Handoff(n)
  PROVE  ClearedInv'
<1> DEFINE u == UserOfClaims(Claims[n])
<1>1. Claims[n].ext # None
  <2>1. Claims[n].ext \in ExternalIds
    BY PartnerAssumption
  <2> QED BY <2>1, PartnerAssumption
<1>2. \A v \in barred : Mapped(v)' /\ identity'[v].status = "revoked"
  <2> SUFFICES ASSUME NEW v \in barred PROVE Mapped(v)' /\ identity'[v].status = "revoked"
    OBVIOUS
  <2>1. v \in Users /\ Mapped(v) /\ identity[v].status = "revoked"
    BY DEF ClearedInv, TypeOK
  <2>2. CASE identity' = identity
    BY <2>1, <2>2 DEF Mapped
  <2>3. CASE identity' = [identity EXCEPT ![u] = Linked(u, Claims[n])]
    <3>1. CASE u = v
      <4>1. identity'[v] = Linked(u, Claims[n])
        BY <2>1, <2>3, <3>1 DEF TypeOK
      <4> HIDE DEF u
      <4> QED BY <1>1, <2>1, <3>1, <4>1 DEF Linked, Mapped
    <3>2. CASE u # v
      <4> HIDE DEF u
      <4> QED BY <2>1, <2>3, <3>2 DEF Mapped, TypeOK
    <3> QED BY <3>1, <3>2
  <2> QED BY <2>2, <2>3 DEF Handoff
<1>3. UNCHANGED <<barred, call>>
  BY DEF Handoff, api
<1> QED BY <1>2, <1>3 DEF ClearedInv, Deciding, Judged

LEMMA ClearedStaff ==
  ASSUME TypeOK, ClearedInv, StaffStep
  PROVE  ClearedInv'
<1>1. CASE UNCHANGED <<identity, barred, call>>
  BY <1>1 DEF ClearedInv, Deciding, Judged, Mapped
<1>2. ASSUME NEW u \in Users, NEW st \in {"active", "revoked"}, SetIdentityStatus(u, st)
      PROVE  ClearedInv'
  <2>1. \A c \in Conns :
          /\ call'[c].stage = call[c].stage /\ call'[c].user = call[c].user
          /\ call[c].cleared \subseteq call'[c].cleared
          /\ st = "active" /\ call[c].stage # "idle" => u \in call'[c].cleared
    BY <1>2, TypedIdentityStatus
  <2>2. \A v \in barred' : Mapped(v)' /\ identity'[v].status = "revoked"
    <3>1. identity' = [identity EXCEPT ![u].status = st] /\ Mapped(u)
          /\ barred' = IF st = "revoked" THEN barred \cup {u} ELSE barred \ {u}
      BY <1>2 DEF SetIdentityStatus
    <3>2. identity'[u].status = st /\ identity'[u].ext = identity[u].ext
      BY <3>1 DEF TypeOK, Mappings
    <3>3. \A v \in Users : v # u => identity'[v] = identity[v]
      BY <3>1 DEF TypeOK
    <3>4. barred \subseteq Users
      BY DEF TypeOK
    <3> QED BY <3>1, <3>2, <3>3, <3>4 DEF ClearedInv, Mapped
  <2>3. \A c \in Deciding' : Users \ barred' \subseteq call'[c].cleared
    BY <1>2, <2>1 DEF ClearedInv, Deciding, SetIdentityStatus
  <2>4. \A c \in Judged' : call'[c].user \in call'[c].cleared
    BY <2>1 DEF ClearedInv, Judged
  <2> QED BY <2>2, <2>3, <2>4 DEF ClearedInv
<1>3. CASE \/ \E u \in Users, st \in {"active", "suspended"} : SetMembershipStatus(u, st)
           \/ \E t \in Targets : SetOffered(t)
           \/ \E u \in Users, t \in Targets : EnrollByStaff(u, t)
           \/ \E u \in Users, t \in Targets, i \in Ids,
                 st \in {"active", "withdrawn", "expired"} : SetEnrollmentStatus(u, t, i, st)
  BY <1>1, <1>3
  DEF SetMembershipStatus, SetOffered, EnrollByStaff, SetEnrollmentStatus, people, api
<1> QED BY <1>2, <1>3 DEF StaffStep

LEMMA ClearedConnection ==
  ASSUME TypeOK, ClearedInv, NEW c \in Conns, Lose(c) \/ Hear(c) \/ \E k \in Keys : Send(c, k)
  PROVE  ClearedInv'
<1>1. UNCHANGED <<identity, barred>>
  BY DEF Lose, Hear, Send, people
<1>2. CASE Lose(c) \/ Hear(c)
  <2>1. call' = [call EXCEPT ![c] = Idle]
    BY <1>2 DEF Lose, Hear
  <2>2. Idle.stage = "idle"
    BY DEF Idle
  <2>3. call'[c].stage = "idle" /\ \A d \in Conns : d # c => call'[d] = call[d]
    BY <2>1, <2>2 DEF TypeOK
  <2> QED BY <1>1, <2>3, MovesKeepClearance DEF Deciding, Judged
<1>3. ASSUME NEW k \in Keys, Send(c, k)
      PROVE  ClearedInv'
  <2> DEFINE new == [Idle EXCEPT !.stage = "charge", !.key = k, !.cleared = Users \ barred]
  <2>1. new.stage = "charge" /\ new.cleared = Users \ barred
    BY DEF Idle
  <2>2. call' = [call EXCEPT ![c] = new]
    BY <1>3 DEF Send
  <2> HIDE DEF new
  <2>3. /\ call'[c].stage = "charge" /\ call'[c].cleared = Users \ barred
        /\ \A d \in Conns : d # c => call'[d] = call[d]
    BY <2>1, <2>2 DEF TypeOK
  <2> QED BY <1>1, <2>3, MovesKeepClearance DEF Judged
<1> QED BY <1>2, <1>3

LEMMA ClearedJudge ==
  ASSUME TypeOK, ClearedInv, NEW c \in Conns, Judge(c)
  PROVE  ClearedInv'
<1>1. ~At(c, "idle") /\ c \in Deciding /\ call[c] \in Calls
  BY DEF Judge, At, TypeOK, Deciding
<1>2. CASE \E a \in Answers : Ends(c, a)
  BY <1>1, <1>2, FinishKeepsClearance DEF Ends
<1>3. ASSUME NEW u \in Users, identity[u].status # "revoked", Reads,
             call' = [call EXCEPT ![c].stage = "target", ![c].user = u,
                                  ![c].audiences = identity[u].audiences]
      PROVE  ClearedInv'
  <2> DEFINE new == [call[c] EXCEPT !.stage = "target", !.user = u,
                                    !.audiences = identity[u].audiences]
  <2>1. new.user = u /\ new.cleared = call[c].cleared
    BY <1>1 DEF Calls
  <2>2. call' = [call EXCEPT ![c] = new]
    BY <1>3, <1>1 DEF Calls, TypeOK
  <2> HIDE DEF new
  <2>3. /\ call'[c].user = u /\ call'[c].cleared = call[c].cleared
        /\ \A d \in Conns : d # c => call'[d] = call[d]
    BY <2>1, <2>2 DEF TypeOK
  <2>4. u \notin barred /\ Users \ barred \subseteq call[c].cleared
    BY <1>1, <1>3 DEF ClearedInv
  <2>5. UNCHANGED <<identity, barred>>
    BY <1>3 DEF Reads, people
  <2> QED BY <2>3, <2>4, <2>5, MovesKeepClearance
<1> QED BY <1>2, <1>3, AnswerTyped DEF Judge, Known, UsersNamed

LEMMA ClearedMoves ==
  ASSUME TypeOK, ClearedInv, NEW c \in Conns,
         \/ Charge(c) \/ Use(c) \/ Lookup(c) \/ FindTarget(c) \/ FindExisting(c)
         \/ Create(c) \/ CreateRefused(c)
  PROVE  ClearedInv'
<1>1. c \in Deciding /\ ~At(c, "idle") /\ call[c].key \in Keys
  BY DEF Charge, Use, Lookup, FindTarget, FindExisting, Create, CreateRefused, At, TypeOK,
         Deciding
<1>2. CASE \E a \in Answers : Ends(c, a)
  BY <1>1, <1>2, FinishKeepsClearance DEF Ends
<1>3. CASE \E s \in {"use", "lookup", "judge"} : Goes(c, s) /\ Reads
  BY <1>1, <1>3, GoesKeepsClearance DEF Stages
<1>4. CASE c \in Judged /\ \E s \in {"existing", "create"} : Goes(c, s) /\ Reads
  BY <1>1, <1>4, GoesKeepsClearance DEF Stages
<1>5. CASE Charge(c)
  BY <1>2, <1>3, <1>5, AnswerTyped DEF Charge
<1>6. CASE Use(c)
  BY <1>3, <1>6 DEF Use
<1>7. CASE Lookup(c)
  <2>1. ledger[call[c].key] \in Answers
    BY <1>1 DEF TypeOK
  <2> QED BY <1>2, <1>3, <1>7, <2>1 DEF Lookup
<1>8. CASE FindTarget(c)
  <2>1. c \in Judged
    BY <1>8 DEF FindTarget, At, Judged
  <2> QED BY <1>2, <1>4, <1>8, <2>1, AnswerTyped DEF FindTarget
<1>9. CASE FindExisting(c)
  <2>1. c \in Judged
    BY <1>9 DEF FindExisting, At, Judged
  <2>2. \A i \in InTheWay(call[c].user, Request(c).target) : Answer("conflict", i) \in Answers
    BY AnswerTyped DEF InTheWay
  <2> QED BY <1>2, <1>4, <1>9, <2>1, <2>2 DEF FindExisting
<1>10. CASE Create(c)
  <2>1. NewRow(c) \in Ids
    BY <1>1, PartnerAssumption DEF Ids, NewRow
  <2>2. Answer("created", NewRow(c)) \in Answers
    BY <2>1, AnswerTyped
  <2> QED BY <1>2, <1>10, <2>2 DEF Create
<1>11. CASE CreateRefused(c)
  BY <1>1, <1>11, FinishKeepsClearance, AnswerTyped DEF CreateRefused
<1> QED BY <1>5, <1>6, <1>7, <1>8, <1>9, <1>10, <1>11

LEMMA ClearedMinute ==
  ASSUME TypeOK, ClearedInv, NextMinute
  PROVE  ClearedInv'
<1>1. \A c \in Conns :
        /\ call'[c].stage = call[c].stage /\ call'[c].user = call[c].user
        /\ call'[c].cleared = call[c].cleared
  BY MinuteTyped
<1>2. UNCHANGED <<identity, barred>>
  BY DEF NextMinute, people
<1> QED BY <1>1, <1>2 DEF ClearedInv, Deciding, Judged, Mapped

LEMMA ClearedInit == Init => ClearedInv
<1>1. Idle.stage = "idle"
  BY DEF Idle
<1> QED BY <1>1 DEF Init, ClearedInv, Deciding, Judged

LEMMA ClearedStep == TypeOK /\ ClearedInv /\ [Next]_vars => ClearedInv'
<1> SUFFICES ASSUME TypeOK, ClearedInv, [Next]_vars PROVE ClearedInv'
  OBVIOUS
<1>1. CASE UNCHANGED vars
  BY <1>1 DEF vars, ClearedInv, Deciding, Judged, Mapped
<1>2. CASE Next
  BY <1>2, ClearedHandoff, ClearedStaff, ClearedConnection, ClearedMoves, ClearedJudge,
     ClearedMinute DEF Next, CallStep
<1> QED BY <1>1, <1>2

(* No call enrolls a user whose mapping was revoked all the time since it  *)
(* was sent, whatever handoffs rename the mapping meanwhile.               *)
THEOREM RevokedUsersStayOut == Spec => RevokedStaysOut
<1> DEFINE A == \A c \in Conns :
                  At(c, "create") /\ call'[c].answer.status = "created"
                    => call[c].user \in call[c].cleared
<1>1. TypeOK /\ ClearedInv /\ [Next]_vars => [A]_vars
  BY DEF ClearedInv, Judged, At
<1>2. Spec => [](TypeOK /\ ClearedInv)
  BY TypeInit, TypeStep, ClearedInit, ClearedStep, PTL DEF Spec
<1> QED BY <1>1, <1>2, PTL DEF Spec, RevokedStaysOut

-----------------------------------------------------------------------------
(* One outcome per key.  The calls of one API key pass one at a time       *)
(* between the update of its row and the end of their transactions, so     *)
(* what a call has read in the ledger still holds when it stores, unless a *)
(* call over another API key has stored meanwhile.                         *)

Decided == {c \in Conns : call[c].stage \in {"judge", "target", "existing", "create"}}

OutcomeInv ==
  /\ \A c, d \in Using : KeyOf[c] = KeyOf[d] => c = d
  /\ \A c \in Decided : Enrolled(NewRow(c)) = {} /\ keeper[call[c].key] # KeyOf[c]
  /\ \A k \in Keys : ledger[k] = NoAnswer <=> keeper[k] = None
  /\ \A k \in Keys, a \in ApiKeys : Enrolled(<<k, a>>) # {} => ledger[k] # NoAnswer
  /\ \A k \in Keys, a \in ApiKeys :
       ledger[k] = Answer("created", <<k, a>>) <=> keeper[k] = a /\ Enrolled(<<k, a>>) # {}
  /\ \A k \in Keys, a \in ApiKeys : \A p, q \in Enrolled(<<k, a>>) : p = q

LEMMA OutcomeGivesDone == OutcomeInv => StoredIsDone
<1> SUFFICES ASSUME OutcomeInv, NEW k \in Keys, NEW a \in ApiKeys
             PROVE  Cardinality(Enrolled(<<k, a>>)) <= 1
  BY DEF OutcomeInv, StoredIsDone
<1>1. CASE Enrolled(<<k, a>>) = {}
  BY <1>1, FS_EmptySet
<1>2. CASE Enrolled(<<k, a>>) # {}
  <2>1. PICK p \in Enrolled(<<k, a>>) : TRUE
    BY <1>2
  <2>2. Enrolled(<<k, a>>) = {p}
    BY <2>1 DEF OutcomeInv
  <2> QED BY <2>2, FS_Singleton
<1> QED BY <1>1, <1>2

LEMMA UsingStages ==
  \A c \in Conns :
    /\ c \in Using <=> call[c].stage \notin {"idle", "charge", "use", "answer"}
    /\ c \in Using' <=> call'[c].stage \notin {"idle", "charge", "use", "answer"}
    /\ c \in Decided => c \in Using
BY DEF Using, Charged, At, Decided

LEMMA KeysTyped == \A c \in Conns : KeyOf[c] \in ApiKeys /\ KeyOf[c] # None
BY PartnerAssumption

(* A connection moves and nothing is stored.                               *)
LEMMA NothingStored ==
  ASSUME OutcomeInv, NEW c \in Conns, UNCHANGED <<ledger, keeper, enrollment>>,
         \A d \in Conns : d # c => call'[d] = call[d],
         c \in Using' => c \in Using \/ \A d \in Using : KeyOf[d] # KeyOf[c],
         c \in Decided' => /\ call'[c].key \in Keys
                           /\ \/ c \in Decided /\ call'[c].key = call[c].key
                              \/ ledger[call'[c].key] = NoAnswer
  PROVE  OutcomeInv'
<1>1. \A d, e \in Using' : KeyOf[d] = KeyOf[e] => d = e
  BY UsingStages DEF OutcomeInv, Using, Charged
<1>2. \A i : Enrolled(i)' = Enrolled(i)
  BY DEF Enrolled
<1>3. \A d \in Decided' : (Enrolled(NewRow(d)) = {})' /\ keeper'[call'[d].key] # KeyOf[d]
  <2> SUFFICES ASSUME NEW d \in Decided'
               PROVE  Enrolled(NewRow(d)') = {} /\ keeper[call'[d].key] # KeyOf[d]
    BY <1>2
  <2>1. d \in Conns
    BY DEF Decided
  <2>2. CASE d # c \/ (c \in Decided /\ call'[c].key = call[c].key)
    <3>1. d \in Decided /\ call'[d].key = call[d].key
      BY <2>1, <2>2 DEF Decided
    <3> QED BY <3>1 DEF OutcomeInv, NewRow
  <2>3. CASE d = c /\ ledger[call'[c].key] = NoAnswer /\ call'[c].key \in Keys
    BY <2>3, KeysTyped DEF OutcomeInv, NewRow
  <2> QED BY <2>2, <2>3
<1> QED BY <1>1, <1>2, <1>3 DEF OutcomeInv

(* The connections stay where they are, and so does whom they enrolled.    *)
LEMMA NobodyMoves ==
  ASSUME TypeOK, OutcomeInv, UNCHANGED <<ledger, keeper>>,
         \A k \in Keys, a \in ApiKeys : Enrolled(<<k, a>>)' = Enrolled(<<k, a>>),
         \A c \in Conns :
           call'[c].stage = call[c].stage /\ call'[c].key = call[c].key
  PROVE  OutcomeInv'
<1>1. \A d, e \in Using' : KeyOf[d] = KeyOf[e] => d = e
  BY UsingStages DEF OutcomeInv, Using, Charged
<1>2. \A d \in Decided' : (Enrolled(NewRow(d)) = {})' /\ keeper'[call'[d].key] # KeyOf[d]
  <2> SUFFICES ASSUME NEW d \in Decided'
               PROVE  (Enrolled(NewRow(d)) = {})' /\ keeper[call'[d].key] # KeyOf[d]
    OBVIOUS
  <2>1. d \in Decided /\ call'[d].key = call[d].key
    BY DEF Decided
  <2>2. call[d].key \in Keys /\ KeyOf[d] \in ApiKeys
    BY <2>1, KeysTyped DEF Decided, TypeOK, At
  <2>3. NewRow(d)' = <<call[d].key, KeyOf[d]>> /\ NewRow(d) = <<call[d].key, KeyOf[d]>>
    BY <2>1 DEF NewRow
  <2> QED BY <2>1, <2>2, <2>3 DEF OutcomeInv
<1> QED BY <1>1, <1>2 DEF OutcomeInv

(* A call that ends without having enrolled anybody: with what is stored,  *)
(* with what is not stored, or with what it stores.                        *)
LEMMA OutcomeEnds ==
  ASSUME TypeOK, OutcomeInv, NEW c \in Conns, NEW a \in Answers, Ends(c, a), ~At(c, "idle"),
         UNCHANGED enrollment,
         \/ ~Kept(a)
         \/ ledger[call[c].key] # NoAnswer
         \/ c \in Decided /\ a.status # "created"
  PROVE  OutcomeInv'
<1>1. /\ call'[c].stage = "answer" /\ \A d \in Conns : d # c => call'[d] = call[d]
  BY FinishTyped DEF Ends
<1>2. c \notin Using' /\ c \notin Decided'
  BY <1>1, UsingStages DEF Decided
<1>3. CASE UNCHANGED <<ledger, keeper>>
  BY <1>1, <1>2, <1>3, NothingStored
<1>4. CASE Kept(a) /\ ledger[call[c].key] = NoAnswer
  <2>1. PICK k0 \in Keys, b0 \in ApiKeys : k0 = call[c].key /\ b0 = KeyOf[c]
    BY KeysTyped DEF TypeOK
  <2>2. c \in Decided /\ c \in Using /\ a.status # "created"
    BY <1>4, UsingStages
  <2>3. /\ ledger' = [ledger EXCEPT ![k0] = a]
        /\ keeper' = [keeper EXCEPT ![k0] = b0]
    BY <1>4, <2>1 DEF Ends
  <2>4. /\ ledger'[k0] = a /\ \A k \in Keys \ {k0} : ledger'[k] = ledger[k]
        /\ keeper'[k0] = b0 /\ \A k \in Keys \ {k0} : keeper'[k] = keeper[k]
    BY <2>3 DEF TypeOK
  <2>5. a # NoAnswer /\ b0 # None /\ \A i : a # Answer("created", i)
    BY <1>4, <2>1, <2>2, KeysTyped DEF Kept, NoAnswer, Answer
  <2>6. \A i : Enrolled(i)' = Enrolled(i)
    BY DEF Enrolled
  <2>7. Enrolled(<<k0, b0>>) = {}
    BY <2>1, <2>2 DEF OutcomeInv, NewRow
  <2>8. \A d, e \in Using' : KeyOf[d] = KeyOf[e] => d = e
    BY <1>1, <1>2, UsingStages DEF OutcomeInv, Using, Charged
  <2>9. \A d \in Decided' : (Enrolled(NewRow(d)) = {})' /\ keeper'[call'[d].key] # KeyOf[d]
    <3> SUFFICES ASSUME NEW d \in Decided'
                 PROVE  Enrolled(NewRow(d)') = {} /\ keeper'[call'[d].key] # KeyOf[d]
      BY <2>6
    <3>1. d \in Conns /\ d # c /\ d \in Decided /\ call'[d] = call[d]
      BY <1>1, <1>2 DEF Decided
    <3>2. d \in Using /\ KeyOf[d] # b0 /\ call[d].key \in Keys
      BY <2>1, <2>2, <3>1, UsingStages DEF OutcomeInv, Decided, TypeOK, At
    <3>3. Enrolled(NewRow(d)) = {} /\ keeper[call[d].key] # KeyOf[d]
      BY <3>1 DEF OutcomeInv
    <3> QED BY <2>4, <3>1, <3>2, <3>3 DEF NewRow
  <2>10. \A k \in Keys : ledger'[k] = NoAnswer <=> keeper'[k] = None
    BY <2>4, <2>5 DEF OutcomeInv
  <2>11. \A k \in Keys, b \in ApiKeys : Enrolled(<<k, b>>)' # {} => ledger'[k] # NoAnswer
    BY <2>4, <2>5, <2>6 DEF OutcomeInv
  <2>12. \A k \in Keys, b \in ApiKeys :
           ledger'[k] = Answer("created", <<k, b>>) <=>
             keeper'[k] = b /\ Enrolled(<<k, b>>)' # {}
    <3> SUFFICES ASSUME NEW k \in Keys, NEW b \in ApiKeys
                 PROVE  ledger'[k] = Answer("created", <<k, b>>) <=>
                          keeper'[k] = b /\ Enrolled(<<k, b>>)' # {}
      OBVIOUS
    <3>1. ledger[k] = Answer("created", <<k, b>>) <=> keeper[k] = b /\ Enrolled(<<k, b>>) # {}
      BY DEF OutcomeInv
    <3>2. Enrolled(<<k, b>>)' = Enrolled(<<k, b>>)
      BY <2>6
    <3>3. CASE k # k0
      BY <2>4, <3>1, <3>2, <3>3
    <3>4. CASE k = k0
      <4>1. ledger'[k] # Answer("created", <<k, b>>)
        BY <2>4, <2>5, <3>4
      <4>2. keeper'[k] = b => Enrolled(<<k, b>>)' = {}
        BY <2>4, <2>7, <3>2, <3>4
      <4> QED BY <4>1, <4>2
    <3> QED BY <3>3, <3>4
  <2> QED BY <2>6, <2>8, <2>9, <2>10, <2>11, <2>12 DEF OutcomeInv
<1> QED BY <1>3, <1>4 DEF Ends

LEMMA OutcomeStaff ==
  ASSUME TypeOK, OutcomeInv, StaffStep
  PROVE  OutcomeInv'
<1>1. UNCHANGED <<ledger, keeper>>
  BY DEF StaffStep, SetIdentityStatus, SetMembershipStatus, SetOffered, EnrollByStaff,
         SetEnrollmentStatus, api
<1>2. \A c \in Conns :
        call'[c].stage = call[c].stage /\ call'[c].key = call[c].key
  <2>1. CASE \E u \in Users, st \in {"active", "revoked"} : SetIdentityStatus(u, st)
    BY <2>1, TypedIdentityStatus
  <2>2. CASE call' = call
    BY <2>2
  <2> QED BY <2>1, <2>2
      DEF StaffStep, SetMembershipStatus, SetOffered, EnrollByStaff, SetEnrollmentStatus, api
<1>3. \A k \in Keys, a \in ApiKeys : Enrolled(<<k, a>>)' = Enrolled(<<k, a>>)
  <2> SUFFICES ASSUME NEW j \in Keys \X ApiKeys PROVE Enrolled(j)' = Enrolled(j)
    OBVIOUS
  <2>0. j \in Ids /\ j # Staff
    BY PartnerAssumption DEF Ids
  <2>1. CASE enrollment' = enrollment
    BY <2>1 DEF Enrolled
  <2>2. ASSUME NEW u \in Users, NEW t \in Targets, NEW i \in Ids,
               NEW st \in {"active", "withdrawn", "expired"},
               enrollment' = [enrollment EXCEPT ![u][t][i] = st],
               i # j \/ enrollment[u][t][i] # "none"
        PROVE  Enrolled(j)' = Enrolled(j)
    <3>1. \A v \in Users, s \in Targets :
            enrollment'[v][s][j] # "none" <=> enrollment[v][s][j] # "none"
      BY <2>0, <2>2 DEF TypeOK
    <3>2. \A p \in Users \X Targets : p[1] \in Users /\ p[2] \in Targets
      OBVIOUS
    <3> QED BY <3>1, <3>2 DEF Enrolled
  <2>3. ASSUME NEW u \in Users, NEW t \in Targets, EnrollByStaff(u, t)
        PROVE  Enrolled(j)' = Enrolled(j)
    <3>1. Staff \in Ids /\ enrollment' = [enrollment EXCEPT ![u][t][Staff] = "active"]
      BY <2>3 DEF EnrollByStaff, Ids
    <3> QED BY <2>0, <2>2, <3>1
  <2>4. ASSUME NEW u \in Users, NEW t \in Targets, NEW i \in Ids,
               NEW st \in {"active", "withdrawn", "expired"}, SetEnrollmentStatus(u, t, i, st)
        PROVE  Enrolled(j)' = Enrolled(j)
    <3>1. /\ enrollment[u][t][i] # "none"
          /\ enrollment' = [enrollment EXCEPT ![u][t][i] = st]
      BY <2>4 DEF SetEnrollmentStatus
    <3> QED BY <2>2, <3>1
  <2> QED BY <2>1, <2>3, <2>4 DEF StaffStep, SetIdentityStatus, SetMembershipStatus, SetOffered
<1> QED BY <1>1, <1>2, <1>3, NobodyMoves

LEMMA OutcomeOthers ==
  ASSUME TypeOK, OutcomeInv, NextMinute \/ (\E n \in Nonces : Handoff(n)) \/ UNCHANGED vars
  PROVE  OutcomeInv'
<1>1. UNCHANGED <<ledger, keeper, enrollment>>
  BY DEF NextMinute, Handoff, vars, api
<1>2. \A c \in Conns :
        call'[c].stage = call[c].stage /\ call'[c].key = call[c].key
  BY MinuteTyped DEF Handoff, vars, api
<1> QED BY <1>1, <1>2, NobodyMoves DEF Enrolled

LEMMA OutcomeConnection ==
  ASSUME TypeOK, OutcomeInv, NEW c \in Conns, Lose(c) \/ Hear(c) \/ \E k \in Keys : Send(c, k)
  PROVE  OutcomeInv'
<1>1. UNCHANGED <<ledger, keeper, enrollment>>
  BY DEF Lose, Hear, Send
<1>2. /\ call'[c].stage \in {"idle", "charge"}
      /\ \A d \in Conns : d # c => call'[d] = call[d]
  <2>1. Idle.stage = "idle"
    BY DEF Idle
  <2>2. CASE Lose(c) \/ Hear(c)
    BY <2>1, <2>2 DEF Lose, Hear, TypeOK
  <2>3. ASSUME NEW k \in Keys, Send(c, k)
        PROVE  /\ call'[c].stage = "charge"
               /\ \A d \in Conns : d # c => call'[d] = call[d]
    <3> DEFINE new == [Idle EXCEPT !.stage = "charge", !.key = k, !.cleared = Users \ barred]
    <3>1. new.stage = "charge"
      BY DEF Idle
    <3>2. call' = [call EXCEPT ![c] = new]
      BY <2>3 DEF Send
    <3> HIDE DEF new
    <3> QED BY <3>1, <3>2 DEF TypeOK
  <2> QED BY <2>2, <2>3
<1>3. c \notin Using' /\ c \notin Decided'
  BY <1>2, UsingStages DEF Decided
<1> QED BY <1>1, <1>2, <1>3, NothingStored

LEMMA OutcomeGoes ==
  ASSUME TypeOK, OutcomeInv, NEW c \in Conns, NEW s \in Stages \ {"answer"}, Goes(c, s), Reads,
         ~At(c, "idle"),
         s = "use" \/ c \in Using \/ \A d \in Using : KeyOf[d] # KeyOf[c],
         s \in {"use", "lookup"} \/ c \in Decided \/ ledger[call[c].key] = NoAnswer
  PROVE  OutcomeInv'
<1>1. /\ call'[c].stage = s /\ call'[c].key = call[c].key /\ call[c].key \in Keys
      /\ \A d \in Conns : d # c => call'[d] = call[d]
  BY GoesTyped DEF TypeOK
<1>2. UNCHANGED <<ledger, keeper, enrollment>>
  BY DEF Reads
<1>3. c \in Using' => c \in Using \/ \A d \in Using : KeyOf[d] # KeyOf[c]
  BY <1>1, UsingStages
<1>4. c \in Decided' => c \in Decided \/ ledger[call'[c].key] = NoAnswer
  BY <1>1 DEF Decided
<1> QED BY <1>1, <1>2, <1>3, <1>4, NothingStored

LEMMA OutcomeCreate ==
  ASSUME TypeOK, OutcomeInv, NEW c \in Conns, Create(c)
  PROVE  OutcomeInv'
<1> DEFINE Names(u, t, k, a) ==
      u = call[c].user /\ t = Request(c).target /\ k = call[c].key /\ a = KeyOf[c]
<1>a. call[c].user \in Users /\ Request(c).target \in Targets /\ call[c].key \in Keys
  BY PartnerAssumption DEF Create, At, Judged, TypeOK, Request
<1>b. PICK u \in Users, t \in Targets, k \in Keys, a \in ApiKeys : Names(u, t, k, a)
  BY <1>a, KeysTyped
<1>1. c \in Decided /\ c \in Using /\ ~At(c, "idle")
  BY UsingStages DEF Create, At, Decided
<1>2. Enrolled(<<k, a>>) = {} /\ keeper[k] # a
  BY <1>b, <1>1 DEF OutcomeInv, NewRow
<1>3. \A v \in Users, s \in Targets, i \in Keys \X ApiKeys :
        enrollment'[v][s][i] =
          IF v = u /\ s = t /\ i = <<k, a>> THEN "active" ELSE enrollment[v][s][i]
  <2>1. enrollment' = [enrollment EXCEPT ![u][t][<<k, a>>] = "active"]
    BY <1>b DEF Create, NewRow
  <2>2. <<k, a>> \in Ids /\ Keys \X ApiKeys \subseteq Ids
    BY DEF Ids
  <2> QED BY <2>1, <2>2 DEF TypeOK
<1>4. \A p \in Users \X Targets : p[1] \in Users /\ p[2] \in Targets /\ p = <<p[1], p[2]>>
  OBVIOUS
<1>5. \A i \in Keys \X ApiKeys : i # <<k, a>> => Enrolled(i)' = Enrolled(i)
  BY <1>3, <1>4 DEF Enrolled
<1>6. Enrolled(<<k, a>>)' = {<<u, t>>}
  <2>0. <<k, a>> \in Keys \X ApiKeys
    OBVIOUS
  <2>1. \A p \in Enrolled(<<k, a>>)' : p = <<u, t>>
    BY <1>2, <1>3, <1>4, <2>0 DEF Enrolled
  <2>2. <<u, t>> \in Enrolled(<<k, a>>)'
    BY <1>3, <2>0 DEF Enrolled
  <2> QED BY <2>1, <2>2
<1> DEFINE made == Answer("created", <<k, a>>)
<1>7. /\ made \in Answers /\ Kept(made) /\ made # NoAnswer
      /\ \A i : made = Answer("created", i) => i = <<k, a>>
  <2>1. <<k, a>> \in Ids
    BY DEF Ids
  <2> QED BY <2>1, AnswerTyped DEF Kept, Answer, NoAnswer
<1>8. Ends(c, made)
  BY <1>b DEF Create, NewRow
<1>9. /\ call'[c].stage = "answer" /\ \A d \in Conns : d # c => call'[d] = call[d]
  BY <1>1, <1>7, <1>8, FinishTyped DEF Ends
<1>10. c \notin Using' /\ c \notin Decided'
  BY <1>9, UsingStages DEF Decided
<1>11. IF ledger[k] = NoAnswer
       THEN ledger' = [ledger EXCEPT ![k] = made] /\ keeper' = [keeper EXCEPT ![k] = a]
       ELSE UNCHANGED <<ledger, keeper>>
  BY <1>b, <1>7, <1>8 DEF Ends
<1> HIDE DEF made
<1>12. /\ \A j \in Keys \ {k} : ledger'[j] = ledger[j] /\ keeper'[j] = keeper[j]
       /\ ledger[k] = NoAnswer => ledger'[k] = made /\ keeper'[k] = a
       /\ ledger[k] # NoAnswer => ledger'[k] = ledger[k] /\ keeper'[k] = keeper[k]
  BY <1>11 DEF TypeOK
<1>13. a # None
  BY <1>b, KeysTyped
<1>14. \A d, e \in Using' : KeyOf[d] = KeyOf[e] => d = e
  BY <1>9, <1>10, UsingStages DEF OutcomeInv, Using, Charged
<1>15. \A d \in Decided' : (Enrolled(NewRow(d)) = {})' /\ keeper'[call'[d].key] # KeyOf[d]
  <2> SUFFICES ASSUME NEW d \in Decided'
               PROVE  (Enrolled(NewRow(d)) = {})' /\ keeper'[call'[d].key] # KeyOf[d]
    OBVIOUS
  <2>1. d \in Conns /\ d # c /\ d \in Decided /\ call'[d] = call[d]
    BY <1>9, <1>10 DEF Decided
  <2>2. d \in Using /\ KeyOf[d] # a /\ call[d].key \in Keys /\ KeyOf[d] \in ApiKeys
    BY <1>b, <1>1, <2>1, UsingStages, KeysTyped DEF OutcomeInv, Decided, TypeOK, At
  <2>3. PICK row \in Keys \X ApiKeys : row = <<call[d].key, KeyOf[d]>>
    BY <2>2
  <2>4. Enrolled(row) = {} /\ keeper[call[d].key] # KeyOf[d]
    BY <2>1, <2>3 DEF OutcomeInv, NewRow
  <2>5. NewRow(d)' = row /\ row # <<k, a>>
    BY <2>1, <2>2, <2>3 DEF NewRow
  <2>6. Enrolled(row)' = {}
    BY <1>5, <2>4, <2>5
  <2>7. (Enrolled(NewRow(d)) = {})'
    BY <2>5, <2>6
  <2>8. keeper'[call[d].key] # KeyOf[d]
    BY <1>12, <2>2, <2>4
  <2> QED BY <2>1, <2>7, <2>8
<1>16. \A j \in Keys : ledger'[j] = NoAnswer <=> keeper'[j] = None
  BY <1>7, <1>12, <1>13 DEF OutcomeInv, made
<1>17. \A j \in Keys, b \in ApiKeys : Enrolled(<<j, b>>)' # {} => ledger'[j] # NoAnswer
  <2> SUFFICES ASSUME NEW j \in Keys, NEW b \in ApiKeys, Enrolled(<<j, b>>)' # {}
               PROVE  ledger'[j] # NoAnswer
    OBVIOUS
  <2>1. made # NoAnswer
    BY <1>7 DEF made
  <2>2. CASE j = k
    BY <1>12, <2>1, <2>2
  <2>3. CASE j # k
    <3>1. <<j, b>> # <<k, a>> /\ <<j, b>> \in Keys \X ApiKeys
      BY <2>3
    <3>2. Enrolled(<<j, b>>) # {}
      BY <1>5, <3>1
    <3> QED BY <1>12, <2>3, <3>2 DEF OutcomeInv
  <2> QED BY <2>2, <2>3
<1>18. \A j \in Keys, b \in ApiKeys :
         ledger'[j] = Answer("created", <<j, b>>) <=>
           keeper'[j] = b /\ Enrolled(<<j, b>>)' # {}
  <2> SUFFICES ASSUME NEW j \in Keys, NEW b \in ApiKeys
               PROVE  ledger'[j] = Answer("created", <<j, b>>) <=>
                        keeper'[j] = b /\ Enrolled(<<j, b>>)' # {}
    OBVIOUS
  <2>1. ledger[j] = Answer("created", <<j, b>>) <=> keeper[j] = b /\ Enrolled(<<j, b>>) # {}
    BY DEF OutcomeInv
  <2>2. CASE j = k /\ b = a /\ ledger[k] = NoAnswer
    BY <1>6, <1>12, <2>2 DEF made
  <2>3. CASE j = k /\ b # a /\ ledger[k] = NoAnswer
    <3>1. <<j, b>> # <<k, a>>
      BY <2>3
    <3>2. made # Answer("created", <<j, b>>)
      BY <1>7, <3>1 DEF made
    <3> QED BY <1>12, <2>3, <3>2
  <2>4. CASE j = k /\ b = a /\ ledger[k] # NoAnswer
    BY <1>2, <1>12, <2>1, <2>4
  <2>5. CASE (j = k /\ b # a /\ ledger[k] # NoAnswer) \/ j # k
    <3>1. Enrolled(<<j, b>>)' = Enrolled(<<j, b>>)
      BY <1>5, <2>5
    <3> QED BY <1>12, <2>1, <2>5, <3>1
  <2> QED BY <2>2, <2>3, <2>4, <2>5
<1>19. \A j \in Keys, b \in ApiKeys : \A p, q \in Enrolled(<<j, b>>)' : p = q
  <2> SUFFICES ASSUME NEW j \in Keys, NEW b \in ApiKeys
               PROVE  \A p, q \in Enrolled(<<j, b>>)' : p = q
    OBVIOUS
  <2>1. CASE <<j, b>> = <<k, a>>
    BY <1>6, <2>1
  <2>2. CASE <<j, b>> # <<k, a>>
    BY <1>5, <2>2 DEF OutcomeInv
  <2> QED BY <2>1, <2>2
<1> QED BY <1>14, <1>15, <1>16, <1>17, <1>18, <1>19 DEF OutcomeInv

LEMMA OutcomeRefused ==
  ASSUME TypeOK, OutcomeInv, NEW c \in Conns, CreateRefused(c)
  PROVE  OutcomeInv'
<1>1. ~At(c, "idle") /\ UNCHANGED <<ledger, keeper, enrollment>>
  BY DEF CreateRefused, At
<1>2. /\ call'[c].stage = "answer" /\ \A d \in Conns : d # c => call'[d] = call[d]
  BY <1>1, FinishTyped, AnswerTyped DEF CreateRefused
<1>3. c \notin Using' /\ c \notin Decided'
  BY <1>2, UsingStages DEF Decided
<1> QED BY <1>1, <1>2, <1>3, NothingStored

LEMMA OutcomeMoves ==
  ASSUME TypeOK, OutcomeInv, NEW c \in Conns,
         \/ Charge(c) \/ Use(c) \/ Lookup(c) \/ Judge(c) \/ FindTarget(c) \/ FindExisting(c)
  PROVE  OutcomeInv'
<1>1. ~At(c, "idle") /\ call[c].key \in Keys
  BY DEF Charge, Use, Lookup, Judge, FindTarget, FindExisting, At, TypeOK
<1>2. /\ ~Kept(Answer("rate_limited", None)) /\ ~Kept(Answer("not_found", None))
      /\ Answer("forbidden", None).status # "created"
      /\ \A i \in Ids : Answer("conflict", i).status # "created"
  BY DEF Kept, Answer
<1>3. CASE Charge(c)
  <2>1. CASE Goes(c, "use") /\ Reads
    BY <1>1, <2>1, OutcomeGoes DEF Stages
  <2>2. CASE Ends(c, Answer("rate_limited", None)) /\ UNCHANGED enrollment
    BY <1>1, <1>2, <2>2, OutcomeEnds, AnswerTyped
  <2> QED BY <1>3, <2>1, <2>2 DEF Charge
<1>4. CASE Use(c)
  <2>1. \A d \in Using : KeyOf[d] # KeyOf[c]
    BY <1>4 DEF Use, KeyFree
  <2> QED BY <1>1, <1>4, <2>1, OutcomeGoes DEF Use, Stages
<1>5. CASE Lookup(c)
  <2>1. c \in Using
    BY <1>5, UsingStages DEF Lookup, At
  <2>2. CASE ledger[call[c].key] = NoAnswer
    BY <1>1, <1>5, <2>1, <2>2, OutcomeGoes DEF Lookup, Stages
  <2>3. CASE ledger[call[c].key] # NoAnswer
    <3>1. ledger[call[c].key] \in Answers
      BY <1>1 DEF TypeOK
    <3> QED BY <1>1, <1>5, <2>3, <3>1, OutcomeEnds DEF Lookup
  <2> QED BY <2>2, <2>3
<1>6. CASE Judge(c)
  <2>1. c \in Decided /\ c \in Using
    BY <1>6, UsingStages DEF Judge, At, Decided
  <2>2. CASE Ends(c, Answer("not_found", None)) /\ UNCHANGED enrollment
    BY <1>1, <1>2, <2>2, OutcomeEnds, AnswerTyped
  <2>3. CASE Ends(c, Answer("forbidden", None)) /\ UNCHANGED enrollment
    BY <1>1, <1>2, <2>1, <2>3, OutcomeEnds, AnswerTyped
  <2>4. ASSUME NEW u \in Users, Reads,
               call' = [call EXCEPT ![c].stage = "target", ![c].user = u,
                                    ![c].audiences = identity[u].audiences]
        PROVE  OutcomeInv'
    <3> DEFINE new == [call[c] EXCEPT !.stage = "target", !.user = u,
                                      !.audiences = identity[u].audiences]
    <3>1. call[c] \in Calls
      BY DEF TypeOK
    <3>2. new.stage = "target" /\ new.key = call[c].key
      BY <3>1 DEF Calls
    <3>3. call' = [call EXCEPT ![c] = new]
      BY <2>4, <3>1 DEF Calls, TypeOK
    <3> HIDE DEF new
    <3>4. /\ call'[c].stage = "target" /\ call'[c].key = call[c].key
          /\ \A d \in Conns : d # c => call'[d] = call[d]
      BY <3>2, <3>3 DEF TypeOK
    <3>5. UNCHANGED <<ledger, keeper, enrollment>>
      BY <2>4 DEF Reads
    <3> QED BY <1>1, <2>1, <3>4, <3>5, NothingStored
  <2> QED BY <1>6, <2>2, <2>3, <2>4 DEF Judge, Known, UsersNamed
<1>7. CASE FindTarget(c)
  <2>1. c \in Decided /\ c \in Using
    BY <1>7, UsingStages DEF FindTarget, At, Decided
  <2>2. CASE Goes(c, "existing") /\ Reads
    BY <1>1, <2>1, <2>2, OutcomeGoes DEF Stages
  <2>3. CASE \E a \in {Answer("not_found", None), Answer("forbidden", None)} :
               Ends(c, a) /\ UNCHANGED enrollment
    BY <1>1, <1>2, <2>1, <2>3, OutcomeEnds, AnswerTyped
  <2> QED BY <1>7, <2>2, <2>3 DEF FindTarget
<1>8. CASE FindExisting(c)
  <2>1. c \in Decided /\ c \in Using
    BY <1>8, UsingStages DEF FindExisting, At, Decided
  <2>2. CASE Goes(c, "create") /\ Reads
    BY <1>1, <2>1, <2>2, OutcomeGoes DEF Stages
  <2>3. ASSUME NEW i \in Ids, Ends(c, Answer("conflict", i)), UNCHANGED enrollment
        PROVE  OutcomeInv'
    BY <1>1, <1>2, <2>1, <2>3, OutcomeEnds, AnswerTyped
  <2> QED BY <1>8, <2>2, <2>3 DEF FindExisting, InTheWay
<1> QED BY <1>3, <1>4, <1>5, <1>6, <1>7, <1>8

LEMMA OutcomeInit == Init => OutcomeInv
<1> SUFFICES ASSUME Init PROVE OutcomeInv
  OBVIOUS
<1>1. Idle.stage = "idle"
  BY DEF Idle
<1>2. Using = {} /\ Decided = {}
  BY <1>1 DEF Init, Using, Charged, Decided, At
<1>3. \A i \in Keys \X ApiKeys : Enrolled(i) = {}
  <2>1. \A p \in Users \X Targets : p[1] \in Users /\ p[2] \in Targets
    OBVIOUS
  <2> QED BY <2>1 DEF Init, Enrolled, Ids
<1>4. \A i : NoAnswer # Answer("created", i)
  BY DEF NoAnswer, Answer
<1> QED BY <1>2, <1>3, <1>4 DEF Init, OutcomeInv

LEMMA OutcomeStep == TypeOK /\ OutcomeInv /\ [Next]_vars => OutcomeInv'
<1> SUFFICES ASSUME TypeOK, OutcomeInv, [Next]_vars PROVE OutcomeInv'
  OBVIOUS
<1> QED BY OutcomeOthers, OutcomeStaff, OutcomeConnection, OutcomeMoves, OutcomeCreate,
           OutcomeRefused DEF Next, CallStep

(* What a call that ends is told.                                          *)
Excused(c) ==
  \/ Transient(Told(c))
  \/ Told(c) = ledger'[call[c].key]
  \/ Told(c).status = "not_found" /\ ledger[call[c].key] = NoAnswer
  \/ Overtaken(c)

LEMMA EndsTold ==
  ASSUME TypeOK, OutcomeInv, NEW c \in Conns, NEW a \in Answers, Ends(c, a), ~At(c, "idle"),
         \/ a.status = "rate_limited" \/ a = ledger[call[c].key]
         \/ c \in Decided /\ (Kept(a) \/ a.status = "not_found")
  PROVE  Excused(c)
<1>1. Told(c) = a
  BY FinishTyped DEF Ends, Told
<1>2. call[c].key \in Keys
  BY DEF TypeOK
<1>3. CASE a.status = "rate_limited"
  BY <1>1, <1>3 DEF Excused, Transient
<1>4. CASE ledger[call[c].key] # NoAnswer /\ c \in Decided
  BY <1>2, <1>4 DEF OutcomeInv, Excused, Overtaken
<1>5. CASE Kept(a) /\ ledger[call[c].key] = NoAnswer
  BY <1>1, <1>2, <1>5 DEF Excused, Ends, TypeOK
<1>6. CASE a.status = "not_found" /\ ledger[call[c].key] = NoAnswer
  BY <1>1, <1>6 DEF Excused
<1>7. CASE a = ledger[call[c].key]
  <2>1. ~Kept(NoAnswer)
    BY DEF Kept, NoAnswer, Answer
  <2>2. ledger'[call[c].key] = ledger[call[c].key]
    BY <1>7, <2>1 DEF Ends
  <2> QED BY <1>1, <1>7, <2>2 DEF Excused
<1> QED BY <1>3, <1>4, <1>5, <1>6, <1>7

(* A connection reaches its answer only by a step of its own call.         *)
LEMMA AnswersByOwnCall ==
  ASSUME TypeOK, [Next]_vars, NEW c \in Conns, ~At(c, "answer"), At(c, "answer")'
  PROVE  CallStep(c)
<1>1. ASSUME call'[c].stage = call[c].stage PROVE FALSE
  BY <1>1 DEF At
<1>2. ASSUME NEW d \in Conns, Lose(d) \/ \E k \in Keys : Send(d, k) PROVE FALSE
  <2>1. Idle.stage = "idle"
    BY DEF Idle
  <2>2. CASE Lose(d)
    BY <1>1, <2>1, <2>2 DEF Lose, TypeOK, At
  <2>3. ASSUME NEW k \in Keys, Send(d, k) PROVE FALSE
    <3> DEFINE new == [Idle EXCEPT !.stage = "charge", !.key = k, !.cleared = Users \ barred]
    <3>1. new.stage = "charge" /\ call' = [call EXCEPT ![d] = new]
      BY <2>3 DEF Send, Idle
    <3> HIDE DEF new
    <3> QED BY <1>1, <3>1 DEF TypeOK, At
  <2> QED BY <1>2, <2>2, <2>3
<1>3. ASSUME NEW d \in Conns, d # c, CallStep(d) PROVE FALSE
  <2>1. call'[c] = call[c]
    BY <1>3 DEF CallStep, Charge, Use, Lookup, Judge, FindTarget, FindExisting, Create,
       CreateRefused, Hear, Ends, Finish, Goes, TypeOK
  <2> QED BY <1>1, <2>1
<1>4. ASSUME NEW u \in Users, NEW st \in {"active", "revoked"}, SetIdentityStatus(u, st)
      PROVE  FALSE
  BY <1>1, <1>4, TypedIdentityStatus
<1>5. ASSUME NextMinute PROVE FALSE
  BY <1>1, <1>5, MinuteTyped
<1> QED BY <1>1, <1>2, <1>3, <1>4, <1>5
  DEF Next, Handoff, StaffStep, SetMembershipStatus, SetOffered, EnrollByStaff,
      SetEnrollmentStatus, api, vars

LEMMA CallTold ==
  ASSUME TypeOK, OutcomeInv, NEW c \in Conns, CallStep(c), ~At(c, "answer"), At(c, "answer")'
  PROVE  Excused(c)
<1> USE AnswerTyped
<1>1. ~At(c, "idle") /\ call[c].key \in Keys
  BY DEF CallStep, Charge, Use, Lookup, Judge, FindTarget, FindExisting, Create,
     CreateRefused, Hear, At, TypeOK
<1>2. ASSUME NEW s \in Stages \ {"answer"}, Goes(c, s) PROVE FALSE
  BY <1>2, GoesTyped DEF At
<1>3. /\ \A s \in {"use", "lookup", "judge", "existing", "create"} : ~Goes(c, s)
  BY <1>2 DEF Stages
<1>4. /\ Answer("rate_limited", None).status = "rate_limited"
      /\ Answer("not_found", None).status = "not_found"
      /\ Kept(Answer("forbidden", None))
      /\ \A i : Kept(Answer("conflict", i)) /\ Kept(Answer("created", i))
  BY DEF Answer, Kept
<1>5. CASE Charge(c)
  BY <1>1, <1>3, <1>4, <1>5, EndsTold DEF Charge
<1>6. CASE Lookup(c)
  <2>1. ledger[call[c].key] \in Answers
    BY <1>1 DEF TypeOK
  <2> QED BY <1>1, <1>3, <1>6, <2>1, EndsTold DEF Lookup
<1>7. CASE Judge(c)
  <2>1. c \in Decided
    BY <1>7 DEF Judge, At, Decided
  <2>2. ASSUME NEW u \in Users,
               call' = [call EXCEPT ![c].stage = "target", ![c].user = u,
                                    ![c].audiences = identity[u].audiences]
        PROVE  FALSE
    <3>1. call[c] \in Calls
      BY DEF TypeOK
    <3>2. call'[c].stage = "target"
      BY <2>2, <3>1 DEF Calls, TypeOK
    <3> QED BY <3>2 DEF At
  <2>3. \E a \in {Answer("not_found", None), Answer("forbidden", None)} : Ends(c, a)
    BY <1>7, <2>2 DEF Judge, Known, UsersNamed
  <2> QED BY <1>1, <1>4, <2>1, <2>3, EndsTold
<1>8. CASE FindTarget(c)
  <2>1. c \in Decided
    BY <1>8 DEF FindTarget, At, Decided
  <2>2. \E a \in {Answer("not_found", None), Answer("forbidden", None)} : Ends(c, a)
    BY <1>3, <1>8 DEF FindTarget
  <2> QED BY <1>1, <1>4, <2>1, <2>2, EndsTold
<1>9. CASE FindExisting(c)
  <2>1. c \in Decided
    BY <1>9 DEF FindExisting, At, Decided
  <2>2. \E i \in Ids : Ends(c, Answer("conflict", i))
    BY <1>3, <1>9 DEF FindExisting, InTheWay
  <2> QED BY <1>1, <1>4, <2>1, <2>2, EndsTold
<1>10. CASE Create(c)
  <2>1. c \in Decided
    BY <1>10 DEF Create, At, Decided
  <2>2. NewRow(c) \in Ids
    BY <1>1, PartnerAssumption DEF Ids, NewRow
  <2> QED BY <1>1, <1>4, <1>10, <2>1, <2>2, EndsTold DEF Create
<1>11. CASE CreateRefused(c)
  <2>1. Told(c) = Answer("error", None)
    BY <1>1, <1>11, FinishTyped DEF CreateRefused, Told
  <2> QED BY <2>1 DEF Excused, Transient, Answer
<1>12. ~Use(c) /\ ~Hear(c)
  BY <1>3 DEF Use, Hear, At
<1> QED BY <1>5, <1>6, <1>7, <1>8, <1>9, <1>10, <1>11, <1>12 DEF CallStep

LEMMA LedgerStays ==
  ASSUME TypeOK, [Next]_vars, NEW k \in Keys, ledger[k] # NoAnswer
  PROVE  ledger'[k] = ledger[k]
<1>1. ASSUME NEW c \in Conns, NEW a, Ends(c, a) PROVE ledger'[k] = ledger[k]
  BY <1>1 DEF Ends, TypeOK
<1>2. CASE UNCHANGED ledger
  BY <1>2
<1>3. ASSUME NEW c \in Conns, CallStep(c) PROVE ledger'[k] = ledger[k]
  BY <1>1, <1>2, <1>3 DEF CallStep, Charge, Use, Lookup, Judge, FindTarget, FindExisting,
     Create, CreateRefused, Hear, Reads
<1> QED BY <1>2, <1>3
  DEF Next, Handoff, StaffStep, SetIdentityStatus, SetMembershipStatus, SetOffered,
      EnrollByStaff, SetEnrollmentStatus, Lose, Send, NextMinute, api, vars

(* Whatever API keys the partner uses: an idempotency key's stored outcome *)
(* is what was done, never changes, and is what every call of the key is   *)
(* told, but for the throttled and the undone, for a member or target not  *)
(* found while nothing is stored, and for a call that one over another API *)
(* key has overtaken.  For one API key it is the lock on its row that      *)
(* leaves no other exception.                                              *)
THEOREM OneOutcomeForAKey == Spec => OneOutcomePerKey
<1> DEFINE A == /\ \A k \in Keys : ledger[k] # NoAnswer => ledger'[k] = ledger[k]
                /\ \A c \in Conns : ~At(c, "answer") /\ At(c, "answer")' => Excused(c)
<1>1. TypeOK /\ OutcomeInv /\ [Next]_vars => [A]_vars
  BY LedgerStays, AnswersByOwnCall, CallTold
<1>2. Spec => [](TypeOK /\ OutcomeInv)
  BY TypeInit, TypeStep, OutcomeInit, OutcomeStep, PTL DEF Spec
<1>3. Spec => []StoredIsDone
  BY <1>2, OutcomeGivesDone, PTL
<1>4. Spec => [][A]_vars
  BY <1>1, <1>2, PTL DEF Spec
<1> QED BY <1>3, <1>4 DEF OneOutcomePerKey, Excused

-----------------------------------------------------------------------------
(* Memberships: its types                                                  *)
RequestTypes == [at : Standings, raced : BOOLEAN, call : Requests \cup {NoCall}]

Calling(p) == request[p].at # "idle" => request[p].call \in Requests

LEMMA NoRequestTyped ==
  NoRequest \in RequestTypes /\ NoRequest.at = "idle" /\ ~NoRequest.raced
BY DEF NoRequest, RequestTypes, Standings

LEMMA CallTyped ==
  ASSUME NEW c \in Requests
  PROVE  /\ c.op \in {"status", "invite", "assign", "revoke", "permit", "forbid"}
         /\ c.op = "status" => c.row \in Rows /\ c.to \in {"active", "suspended", "removed"}
         /\ c.op = "invite" => c.person \in Persons /\ c.role \in Roles \cup {NoRole}
         /\ c.op \in {"assign", "revoke"} => c.row \in Rows /\ c.role \in Roles
         /\ c.op \in {"permit", "forbid"} => c.role \in Roles /\ c.code \in Permissions
<1>1. CASE c \in [op : {"status"}, row : Rows, to : {"active", "suspended", "removed"}]
  BY <1>1
<1>2. CASE c \in [op : {"invite"}, person : Persons, role : Roles \cup {NoRole}]
  BY <1>2
<1>3. CASE c \in [op : {"assign", "revoke"}, row : Rows, role : Roles]
  BY <1>3
<1>4. CASE c \in [op : {"permit", "forbid"}, role : Roles, code : Permissions]
  BY <1>4
<1> QED BY <1>1, <1>2, <1>3, <1>4 DEF Requests

(* What each way of writing a request leaves.                              *)
LEMMA EnterTyped ==
  ASSUME request \in [Persons -> RequestTypes], NEW p \in Persons, NEW r \in RequestTypes,
         Enter(p, r)
  PROVE  /\ request' \in [Persons -> RequestTypes]
         /\ request'[p] = r /\ \A q \in Persons \ {p} : request'[q] = request[q]
BY DEF Enter

LEMMA MoveTyped ==
  ASSUME request \in [Persons -> RequestTypes], NEW p \in Persons, NEW at \in Standings,
         Move(p, at)
  PROVE  /\ request' \in [Persons -> RequestTypes]
         /\ request'[p].at = at /\ request'[p].call = request[p].call
         /\ request'[p].raced = request[p].raced
         /\ \A q \in Persons \ {p} : request'[q] = request[q]
<1> DEFINE new == [request[p] EXCEPT !.at = at]
<1>1. request[p] \in RequestTypes
  OBVIOUS
<1>2. /\ new \in RequestTypes /\ new.at = at /\ new.call = request[p].call
      /\ new.raced = request[p].raced
  BY <1>1 DEF RequestTypes
<1>3. request' = [request EXCEPT ![p] = new]
  BY DEF Move
<1> HIDE DEF new
<1> QED BY <1>2, <1>3

LEMMA CommitsTyped ==
  ASSUME request \in [Persons -> RequestTypes], NEW p \in Persons, Commits(p)
  PROVE  /\ request' \in [Persons -> RequestTypes] /\ request'[p] = NoRequest
         /\ \A q \in Persons \ {p} :
              /\ request'[q].at = request[q].at /\ request'[q].call = request[q].call
              /\ request[q].at = "guarded" => request'[q].raced
<1>1. ASSUME NEW q \in Persons \ {p}
      PROVE  /\ request'[q] \in RequestTypes
             /\ request'[q].at = request[q].at /\ request'[q].call = request[q].call
             /\ request[q].at = "guarded" => request'[q].raced
  <2> DEFINE new == [request[q] EXCEPT !.raced = TRUE]
  <2>1. request[q] \in RequestTypes
    OBVIOUS
  <2>2. /\ new \in RequestTypes /\ new.at = request[q].at /\ new.call = request[q].call
        /\ new.raced
    BY <2>1 DEF RequestTypes
  <2>3. request'[q] = IF request[q].at = "guarded" THEN new ELSE request[q]
    BY DEF Commits
  <2> HIDE DEF new
  <2> QED BY <2>1, <2>2, <2>3
<1>2. request'[p] = NoRequest
  BY DEF Commits
<1>3. \A q \in Persons : request'[q] \in RequestTypes
  BY <1>1, <1>2, NoRequestTyped
<1>4. request' = [q \in Persons |-> request'[q]]
  BY DEF Commits
<1> QED BY <1>1, <1>2, <1>3, <1>4

-----------------------------------------------------------------------------
(* The seats                                                               *)
MembershipRows ==
  [status : Statuses, user : Persons \cup {Nobody}, email : Persons \cup {Nobody}]

(* Nobody loses an active membership or a role.                            *)
OwnersStay ==
  /\ granted' = granted
  /\ \A r \in Rows : mem[r].status = "active" => mem'[r].status = "active"

(* A step, for one person's request: what it is permitted by its           *)
(* transaction, and, where its guard still holds, what that rests on.      *)
Granted(p) ==
  request[p].at \in {"permitted", "guarded"} /\ Assign \in Needed(request[p].call)
    => Assign \in held[p]

Guarded(p) ==
  LET c == request[p].call
  IN /\ request[p].at = "guarded" /\ ~request[p].raced
     /\ c.op = "status" /\ c.to # "active" /\ Owns(c.row)
     => AnotherOwner(c.row)

MembersInv ==
  /\ MembersTypeOK
  /\ \A p \in Persons : Calling(p) /\ Granted(p) /\ Guarded(p)

(* What a step does with the request of p.                                 *)
Stands(p) ==
  /\ request'[p].at = request[p].at /\ request'[p].call = request[p].call
  /\ request[p].at = "guarded" /\ ~request'[p].raced => ~request[p].raced /\ OwnersStay

Over(p) == request'[p] = NoRequest

Begins(p) == request'[p].at = "asked" /\ request'[p].call \in Requests

Advances(p) ==
  /\ request[p].at # "idle" /\ request'[p].call = request[p].call
  /\ UNCHANGED <<mem, granted>>
  /\ \/ request'[p].at \in {"sent", "locked"}
     \/ /\ request'[p].at \in {"permitted", "guarded"}
        /\ request[p].at \notin {"permitted", "guarded"}
        /\ \A code \in Needed(request[p].call) : HasOrgPermission(p, code)
        /\ request'[p].at = "guarded" => request[p].call.op # "status"
     \/ /\ request[p].at = "permitted" /\ request'[p].at = "guarded"
        /\ LET c == request[p].call
           IN c.op = "status" /\ c.to # "active" /\ Owns(c.row) => AnotherOwner(c.row)

(* The types of what a step writes, and what becomes of each request.      *)
StepOk ==
  /\ mem' \in [Rows -> MembershipRows] /\ granted' \subseteq Rows \X Roles
  /\ perms' \in [Roles -> SUBSET Permissions] /\ status' \in {"active", "suspended"}
  /\ account' \subseteq Persons /\ own' \subseteq Persons
  /\ request' \in [Persons -> RequestTypes]
  /\ calls' \in 0..MaxCalls /\ switches' \in 0..MaxSwitches
  /\ \A p \in Persons : Stands(p) \/ Over(p) \/ Begins(p) \/ Advances(p)

(* A step that writes no row, of one request or of none.                   *)
LEMMA RowsStay ==
  ASSUME MembersTypeOK, UNCHANGED <<mem, granted, perms, status, account, own, calls, switches>>
  PROVE  /\ mem' \in [Rows -> MembershipRows] /\ granted' \subseteq Rows \X Roles
         /\ perms' \in [Roles -> SUBSET Permissions] /\ status' \in {"active", "suspended"}
         /\ account' \subseteq Persons /\ own' \subseteq Persons
         /\ calls' \in 0..MaxCalls /\ switches' \in 0..MaxSwitches
         /\ OwnersStay
BY DEF MembersTypeOK, MembershipRows, OwnersStay

LEMMA Untold ==
  ASSUME OwnersStay, NEW p, request'[p] = request[p]
  PROVE  Stands(p)
BY DEF Stands

LEMMA AskStep ==
  ASSUME MembersInv, NEW p \in Persons, Ask(p)
  PROVE  StepOk
<1>1. MembersTypeOK /\ request \in [Persons -> RequestTypes]
  BY DEF MembersInv, MembersTypeOK, RequestTypes
<1>2. PICK c \in Requests : Enter(p, [at |-> "asked", raced |-> FALSE, call |-> c])
  BY DEF Ask
<1>3. [at |-> "asked", raced |-> FALSE, call |-> c] \in RequestTypes
  BY DEF RequestTypes, Standings
<1>4. /\ request' \in [Persons -> RequestTypes] /\ Begins(p)
      /\ \A q \in Persons \ {p} : request'[q] = request[q]
  BY <1>1, <1>2, <1>3, EnterTyped DEF Begins
<1>5. calls' \in 0..MaxCalls
  BY <1>1, MaximaAssumption DEF Ask, MembersTypeOK
<1>6. OwnersStay
  BY DEF Ask, OwnersStay
<1>7. \A q \in Persons : q = p \/ Stands(q)
  BY <1>4, <1>6, Untold
<1> QED BY <1>1, <1>4, <1>5, <1>7 DEF Ask, StepOk, MembersTypeOK, MembershipRows

(* A request that is moved on, or refused, and nothing else.               *)
LEMMA MovedStep ==
  ASSUME MembersInv, Unchanged, NEW p \in Persons,
         \/ Refused(p)
         \/ \E at \in Standings : Move(p, at) /\ Advances(p)
  PROVE  StepOk
<1>1. MembersTypeOK /\ request \in [Persons -> RequestTypes]
  BY DEF MembersInv, MembersTypeOK, RequestTypes
<1>2. CASE Refused(p)
  <2>1. /\ request' \in [Persons -> RequestTypes] /\ Over(p)
        /\ \A q \in Persons \ {p} : request'[q] = request[q]
    BY <1>1, <1>2, EnterTyped, NoRequestTyped DEF Refused, Over
  <2>2. \A q \in Persons : q = p \/ Stands(q)
    BY <1>1, <2>1, RowsStay, Untold DEF Unchanged
  <2> QED BY <1>1, <2>1, <2>2, RowsStay DEF Unchanged, StepOk
<1>3. ASSUME NEW at \in Standings, Move(p, at), Advances(p)
      PROVE  StepOk
  <2>1. /\ request' \in [Persons -> RequestTypes]
        /\ \A q \in Persons \ {p} : request'[q] = request[q]
    BY <1>1, <1>3, MoveTyped
  <2>2. \A q \in Persons : q = p \/ Stands(q)
    BY <1>1, <2>1, RowsStay, Untold DEF Unchanged
  <2> QED BY <1>1, <1>3, <2>1, <2>2, RowsStay DEF Unchanged, StepOk
<1> QED BY <1>2, <1>3

LEMMA ContextStep ==
  ASSUME MembersInv, NEW p \in Persons, Context(p) \/ Lock(p) \/ Fail(p)
  PROVE  StepOk
<1>1. Unchanged /\ UNCHANGED <<mem, granted>>
  BY DEF Context, Lock, Fail, Unchanged
<1>2. request \in [Persons -> RequestTypes]
  BY DEF MembersInv, MembersTypeOK, RequestTypes
<1>3. \/ Refused(p)
      \/ \E at \in {"sent", "locked"} : Move(p, at) /\ request[p].at # "idle"
  BY DEF Context, Lock, Fail
<1>4. ASSUME NEW at \in {"sent", "locked"}, Move(p, at), request[p].at # "idle"
      PROVE  at \in Standings /\ Advances(p)
  BY <1>1, <1>2, <1>4, MoveTyped DEF Standings, Advances
<1> QED BY <1>1, <1>3, <1>4, MovedStep

LEMMA PermitStep ==
  ASSUME MembersInv, NEW p \in Persons, Permit(p)
  PROVE  StepOk
<1> DEFINE c == request[p].call
           at == IF c.op \in {"status", "invite"} THEN "permitted" ELSE "guarded"
<1>1. Unchanged /\ UNCHANGED <<mem, granted>>
  BY DEF Permit, Unchanged
<1>2. request \in [Persons -> RequestTypes]
  BY DEF MembersInv, MembersTypeOK, RequestTypes
<1>3. request[p].at \in {"locked", "sent"}
  BY DEF Permit
<1>4. \/ Refused(p)
      \/ Move(p, at) /\ \A code \in Needed(c) : HasOrgPermission(p, code)
  BY DEF Permit, NeededByDatabase
<1>5. CASE Move(p, at) /\ \A code \in Needed(c) : HasOrgPermission(p, code)
  <2>1. at \in {"permitted", "guarded"} /\ at \in Standings /\ (at = "guarded" => c.op # "status")
    BY DEF Standings
  <2> HIDE DEF at
  <2>2. request'[p].at = at /\ request'[p].call = c
    BY <1>2, <1>5, <2>1, MoveTyped
  <2>3. Advances(p)
    BY <1>1, <1>3, <1>5, <2>1, <2>2 DEF Advances
  <2> QED BY <1>1, <1>5, <2>1, <2>3, MovedStep
<1> QED BY <1>1, <1>4, <1>5, MovedStep

LEMMA GuardStep ==
  ASSUME MembersInv, NEW p \in Persons, Guard(p)
  PROVE  StepOk
<1> DEFINE c == request[p].call
<1>1. Unchanged /\ UNCHANGED <<mem, granted>>
  BY DEF Guard, Unchanged
<1>2. request \in [Persons -> RequestTypes] /\ "guarded" \in Standings
  BY DEF MembersInv, MembersTypeOK, RequestTypes, Standings
<1>3. \/ Refused(p)
      \/ /\ Move(p, "guarded")
         /\ c.op = "status" /\ c.to # "active" /\ Owns(c.row) => AnotherOwner(c.row)
  BY DEF Guard
<1>4. CASE /\ Move(p, "guarded")
           /\ c.op = "status" /\ c.to # "active" /\ Owns(c.row) => AnotherOwner(c.row)
  <2>1. request[p].at = "permitted" /\ request'[p].at = "guarded" /\ request'[p].call = c
    BY <1>2, <1>4, MoveTyped DEF Guard
  <2>2. Advances(p)
    BY <1>1, <1>4, <2>1 DEF Advances
  <2> QED BY <1>1, <1>2, <1>4, <2>2, MovedStep
<1> QED BY <1>1, <1>3, <1>4, MovedStep

(* A transaction that commits: every other one past its guard is raced.    *)
LEMMA CommitStands ==
  ASSUME MembersInv, NEW p \in Persons, Commits(p)
  PROVE  /\ request' \in [Persons -> RequestTypes]
         /\ \A q \in Persons : Stands(q) \/ Over(q)
<1>1. request \in [Persons -> RequestTypes]
  BY DEF MembersInv, MembersTypeOK, RequestTypes
<1> QED BY <1>1, CommitsTyped DEF Stands, Over

LEMMA CommitStep ==
  ASSUME MembersInv, NEW p \in Persons, SetStatus(p) \/ Invite(p) \/ SetRole(p) \/ SetPermission(p)
  PROVE  StepOk
<1> DEFINE c == request[p].call
<1>0. MembersTypeOK /\ mem \in [Rows -> MembershipRows] /\ c \in Requests
      /\ request[p].at = "guarded"
  BY DEF MembersInv, MembersTypeOK, MembershipRows, Calling, SetStatus, Invite, SetRole,
         SetPermission
<1>1. /\ request' \in [Persons -> RequestTypes]
      /\ \A q \in Persons : Stands(q) \/ Over(q)
  BY CommitStands DEF SetStatus, Invite, SetRole, SetPermission
<1>2. CASE SetStatus(p)
  <2>1. c.row \in Rows /\ c.to \in Statuses
    BY <1>0, <1>2, CallTyped DEF SetStatus, Statuses
  <2>2. mem' = [mem EXCEPT ![c.row].status = c.to]
    BY <1>2 DEF SetStatus
  <2> HIDE DEF c
  <2>3. mem' \in [Rows -> MembershipRows]
    BY <1>0, <2>1, <2>2 DEF MembershipRows
  <2> QED BY <1>0, <1>1, <1>2, <2>3 DEF SetStatus, StepOk, MembersTypeOK
<1>3. CASE Invite(p)
  <2> DEFINE r == CHOOSE r \in Unused : TRUE
             new == [status |-> "invited", user |-> Nobody, email |-> c.person]
  <2>1. r \in Rows
    BY <1>3 DEF Invite, Unused
  <2>2. c.person \in Persons /\ c.role \in Roles \cup {NoRole}
    BY <1>0, <1>3, CallTyped DEF Invite
  <2>3. /\ mem' = [mem EXCEPT ![r] = new]
        /\ granted' = granted \cup {<<r, role>> : role \in {c.role} \ {NoRole}}
    BY <1>3 DEF Invite
  <2>4. new \in MembershipRows
    BY <2>2 DEF MembershipRows, Statuses
  <2> HIDE DEF c, r, new
  <2>5. mem' \in [Rows -> MembershipRows]
    BY <1>0, <2>1, <2>3, <2>4
  <2>6. granted' \subseteq Rows \X Roles
    BY <1>0, <2>1, <2>2, <2>3 DEF MembersTypeOK
  <2> QED BY <1>0, <1>1, <1>3, <2>5, <2>6 DEF Invite, StepOk, MembersTypeOK
<1>4. CASE SetRole(p)
  <2>1. c.row \in Rows /\ c.role \in Roles
    BY <1>0, <1>4, CallTyped DEF SetRole
  <2>2. granted' \subseteq granted \cup {<<c.row, c.role>>}
    BY <1>4 DEF SetRole
  <2> HIDE DEF c
  <2>3. granted' \subseteq Rows \X Roles
    BY <1>0, <2>1, <2>2 DEF MembersTypeOK
  <2> QED BY <1>0, <1>1, <1>4, <2>3 DEF SetRole, StepOk, MembersTypeOK
<1>5. CASE SetPermission(p)
  <2>1. c.role \in Roles /\ c.code \in Permissions
    BY <1>0, <1>5, CallTyped DEF SetPermission
  <2>2. \/ perms' = [perms EXCEPT ![c.role] = @ \cup {c.code}]
        \/ perms' = [perms EXCEPT ![c.role] = @ \ {c.code}]
    BY <1>5 DEF SetPermission
  <2> HIDE DEF c
  <2>3. perms' \in [Roles -> SUBSET Permissions]
    BY <1>0, <2>1, <2>2 DEF MembersTypeOK
  <2> QED BY <1>0, <1>1, <1>5, <2>3 DEF SetPermission, StepOk, MembersTypeOK
<1> QED BY <1>2, <1>3, <1>4, <1>5

(* The invited and the platform: no request moves.                         *)
LEMMA OutsideStep ==
  ASSUME MembersInv,
         \/ \E p \in Persons : SignUp(p) \/ CreateOrganization(p) \/ AcceptInvitation(p)
         \/ SetOrganizationStatus
  PROVE  StepOk
<1>0. MembersTypeOK /\ mem \in [Rows -> MembershipRows] /\ request' = request
      /\ request \in [Persons -> RequestTypes] /\ granted' = granted
  BY DEF MembersInv, MembersTypeOK, MembershipRows, RequestTypes, SignUp, CreateOrganization,
         AcceptInvitation, SetOrganizationStatus
<1>1. mem' \in [Rows -> MembershipRows]
      /\ \A r \in Rows : mem[r].status = "active" => mem'[r].status = "active"
  <2>1. ASSUME NEW p \in Persons, AcceptInvitation(p)
        PROVE  /\ mem' \in [Rows -> MembershipRows]
               /\ \A r \in Rows : mem[r].status = "active" => mem'[r].status = "active"
    <3>1. PICK r \in Rows : mem' = [mem EXCEPT ![r].status = "active", ![r].user = p]
      BY <2>1 DEF AcceptInvitation, Invitation, Open
    <3>2. [mem[r] EXCEPT !.status = "active", !.user = p] \in MembershipRows
          /\ [mem[r] EXCEPT !.status = "active", !.user = p].status = "active"
      BY <1>0 DEF MembershipRows, Statuses
    <3>3. mem' = [mem EXCEPT ![r] = [mem[r] EXCEPT !.status = "active", !.user = p]]
      BY <1>0, <3>1
    <3> QED BY <1>0, <3>2, <3>3
  <2>2. mem' = mem \/ \E p \in Persons : AcceptInvitation(p)
    BY DEF SignUp, CreateOrganization, SetOrganizationStatus
  <2> QED BY <1>0, <2>1, <2>2
<1>2. OwnersStay
  BY <1>0, <1>1 DEF OwnersStay
<1>3. \A p \in Persons : Stands(p)
  BY <1>0, <1>2, Untold
<1>4. /\ account' \subseteq Persons /\ own' \subseteq Persons
      /\ status' \in {"active", "suspended"} /\ perms' \in [Roles -> SUBSET Permissions]
      /\ calls' \in 0..MaxCalls
  BY <1>0 DEF MembersTypeOK, SignUp, CreateOrganization, AcceptInvitation, SetOrganizationStatus
<1>5. switches' \in 0..MaxSwitches
  <2>1. switches' = switches \/ (switches < MaxSwitches /\ switches' = switches + 1)
    BY DEF SignUp, CreateOrganization, AcceptInvitation, SetOrganizationStatus
  <2>2. switches \in 0..MaxSwitches
    BY <1>0 DEF MembersTypeOK
  <2> QED BY <2>1, <2>2, MaximaAssumption
<1> QED BY <1>0, <1>1, <1>3, <1>4, <1>5 DEF StepOk, MembersTypeOK

LEMMA MembersStepOk ==
  ASSUME MembersInv, MembersNext
  PROVE  StepOk
BY AskStep, ContextStep, PermitStep, GuardStep, CommitStep, OutsideStep
DEF MembersNext, Called
-----------------------------------------------------------------------------
(* MembersInv, conjunct by conjunct, for the request of one person         *)
LEMMA HeldStep ==
  ASSUME MembersInv, History
  PROVE  /\ held' \in [Persons -> SUBSET Permissions]
         /\ \A p \in Persons : request'[p].at \in {"permitted", "guarded"} =>
              held'[p] = held[p] \cup {code \in Permissions : HasOrgPermission(p, code)}
<1>1. held \in [Persons -> SUBSET Permissions]
  BY DEF MembersInv, MembersTypeOK
<1>2. \A q \in Persons : held'[q] \in SUBSET Permissions
  BY <1>1 DEF History
<1>3. held' = [q \in Persons |-> held'[q]]
  BY DEF History
<1> QED BY <1>2, <1>3 DEF History

LEMMA CallingStep ==
  ASSUME MembersInv, StepOk, NEW p \in Persons
  PROVE  Calling(p)'
<1>1. Calling(p) /\ (Stands(p) \/ Over(p) \/ Begins(p) \/ Advances(p))
  BY DEF MembersInv, StepOk
<1> QED BY <1>1, NoRequestTyped DEF Calling, Stands, Over, Begins, Advances

LEMMA GrantedStep ==
  ASSUME MembersInv, StepOk, History, NEW p \in Persons
  PROVE  Granted(p)'
<1> SUFFICES ASSUME request'[p].at \in {"permitted", "guarded"},
                    Assign \in Needed(request'[p].call)
             PROVE  Assign \in held'[p]
  BY DEF Granted, Needed
<1>1. Granted(p) /\ (Stands(p) \/ Advances(p))
  BY NoRequestTyped DEF MembersInv, StepOk, Over, Begins
<1>2. held'[p] = held[p] \cup {code \in Permissions : HasOrgPermission(p, code)}
  BY HeldStep
<1>3. request'[p].call = request[p].call
  BY <1>1 DEF Stands, Advances
<1>4. CASE request[p].at \in {"permitted", "guarded"}
  BY <1>1, <1>2, <1>3, <1>4 DEF Granted
<1>5. CASE request[p].at \notin {"permitted", "guarded"}
  <2>1. HasOrgPermission(p, Assign)
    BY <1>1, <1>3, <1>5 DEF Stands, Advances
  <2> QED BY <1>2, <2>1 DEF Permissions
<1> QED BY <1>4, <1>5

LEMMA AnotherOwnerStays ==
  ASSUME OwnersStay, NEW r
  PROVE  (Owns(r)' <=> Owns(r)) /\ (AnotherOwner(r) => AnotherOwner(r)')
BY DEF OwnersStay, Owns, AnotherOwner

LEMMA GuardedStep ==
  ASSUME MembersInv, StepOk, NEW p \in Persons
  PROVE  Guarded(p)'
<1> DEFINE c == request[p].call
<1> SUFFICES ASSUME request'[p].at = "guarded", ~request'[p].raced,
                    request'[p].call.op = "status", request'[p].call.to # "active",
                    NEW r, r = request'[p].call.row, Owns(r)'
             PROVE  AnotherOwner(r)'
  BY DEF Guarded, Owns, AnotherOwner
<1>1. Guarded(p) /\ (Stands(p) \/ Advances(p))
  BY NoRequestTyped DEF MembersInv, StepOk, Over, Begins
<1>2. request'[p].call = c
  BY <1>1 DEF Stands, Advances
<1>3. CASE Stands(p)
  <2>1. request[p].at = "guarded" /\ ~request[p].raced /\ OwnersStay
    BY <1>3 DEF Stands
  <2>2. (Owns(r)' <=> Owns(r)) /\ (AnotherOwner(r) => AnotherOwner(r)')
    BY <2>1, AnotherOwnerStays
  <2> QED BY <1>1, <1>2, <2>1, <2>2 DEF Guarded
<1>4. CASE Advances(p)
  <2>1. UNCHANGED <<mem, granted>>
    BY <1>4 DEF Advances
  <2>2. Owns(c.row) => AnotherOwner(c.row)
    BY <1>2, <1>4 DEF Advances
  <2> QED BY <1>2, <2>1, <2>2 DEF Owns, AnotherOwner
<1> QED BY <1>1, <1>3, <1>4

LEMMA MembersInvStep ==
  ASSUME MembersInv, [MembersNext]_membersVars
  PROVE  MembersInv'
<1>1. CASE MembersNext
  <2>1. StepOk /\ History
    BY <1>1, MembersStepOk DEF MembersNext
  <2>2. MembersTypeOK'
    BY <2>1, HeldStep DEF StepOk, MembersTypeOK, MembershipRows, RequestTypes
  <2> QED BY <2>1, <2>2, CallingStep, GrantedStep, GuardedStep DEF MembersInv
<1>2. CASE UNCHANGED membersVars
  BY <1>2
  DEF membersVars, MembersInv, MembersTypeOK, Calling, Granted, Guarded, Needed, Owns, AnotherOwner
<1> QED BY <1>1, <1>2

LEMMA MembersInvInit == MembersInit => MembersInv
<1> SUFFICES ASSUME MembersInit PROVE MembersInv
  OBVIOUS
<1>1. Seat \in [Founders -> Rows]
  BY RowsAssumption DEF Seat
<1>2. \A r \in Rows : mem[r] \in MembershipRows
  <2> SUFFICES ASSUME NEW r \in Rows PROVE mem[r] \in MembershipRows
    OBVIOUS
  <2>1. CASE \E p \in Founders : Seat[p] = r
    <3> DEFINE q == CHOOSE p \in Founders : Seat[p] = r
    <3>1. q \in Persons
      BY <2>1, PersonsAssumption
    <3>2. mem[r] = [status |-> "active", email |-> Nobody, user |-> q]
      BY <2>1 DEF MembersInit
    <3> HIDE DEF q
    <3> QED BY <3>1, <3>2 DEF MembershipRows, Statuses
  <2>2. CASE ~\E p \in Founders : Seat[p] = r
    BY <2>2 DEF MembersInit, MembershipRows, Statuses
  <2> QED BY <2>1, <2>2
<1>3. mem \in [Rows -> MembershipRows]
  <2>1. mem = [r \in Rows |-> mem[r]]
    BY DEF MembersInit
  <2> QED BY <1>2, <2>1
<1>4. granted \subseteq Rows \X Roles
  BY <1>1, RoleOfAssumption DEF MembersInit
<1>5. perms \in [Roles -> SUBSET Permissions] /\ account \subseteq Persons
  BY PermsOfAssumption, PersonsAssumption DEF MembersInit
<1>6. request \in [Persons -> RequestTypes] /\ \A p \in Persons : request[p] = NoRequest
  BY NoRequestTyped DEF MembersInit
<1>7. calls \in 0..MaxCalls /\ switches \in 0..MaxSwitches
  BY MaximaAssumption DEF MembersInit
<1>8. MembersTypeOK
  BY <1>3, <1>4, <1>5, <1>6, <1>7 DEF MembersInit, MembersTypeOK, MembershipRows, RequestTypes
<1> QED BY <1>6, <1>8, NoRequestTyped DEF MembersInv, Calling, Granted, Guarded

(* MembersTypeOK, for any people, roles and calls.                         *)
THEOREM MembersTypeCorrect == MembersSpec => []MembersTypeOK
<1>1. MembersInv => MembersTypeOK
  BY DEF MembersInv
<1> QED BY <1>1, MembersInvInit, MembersInvStep, PTL DEF MembersSpec

-----------------------------------------------------------------------------
(* LastOwnerOnlyRaced: set_membership_status counts the other owners in a  *)
(* statement before the one that updates, so only a commit in between can  *)
(* take the organization's last owner.                                     *)
LEMMA OwnerLeft ==
  ASSUME MembersInv, NEW p \in Persons, SetStatus(p), ActiveOwners # {}, ~request[p].raced
  PROVE  ActiveOwners' # {}
<1> DEFINE c == request[p].call
           r == c.row
<1>0. mem \in [Rows -> MembershipRows] /\ c \in Requests /\ Guarded(p)
  BY DEF MembersInv, MembersTypeOK, MembershipRows, Calling, SetStatus
<1>1. r \in Rows /\ mem' = [mem EXCEPT ![r].status = c.to] /\ granted' = granted
  BY <1>0, CallTyped DEF SetStatus
<1>2. \A s \in Rows \ {r} : mem'[s] = mem[s]
  BY <1>0, <1>1
<1>3. CASE \E s \in Rows \ {r} : s \in ActiveOwners
  BY <1>1, <1>2, <1>3 DEF ActiveOwners, Owns
<1>4. CASE r \in ActiveOwners /\ c.to = "active"
  <2>1. mem'[r].status = "active"
    BY <1>0, <1>1, <1>4 DEF MembershipRows
  <2> QED BY <1>1, <1>4, <2>1 DEF ActiveOwners, Owns
<1>5. CASE r \in ActiveOwners /\ c.to # "active"
  <2>1. AnotherOwner(r)
    BY <1>0, <1>5 DEF Guarded, SetStatus, ActiveOwners
  <2>2. \E s \in Rows \ {r} : s \in ActiveOwners
    BY <2>1 DEF AnotherOwner, ActiveOwners
  <2> QED BY <1>3, <2>2
<1> QED BY <1>3, <1>4, <1>5 DEF ActiveOwners

THEOREM OwnerOnlyLostInRace == MembersSpec => LastOwnerOnlyRaced
<1>1. MembersInv =>
        \A p \in Persons :
          (SetStatus(p) /\ ActiveOwners # {} /\ ActiveOwners' = {}) => request[p].raced
  BY OwnerLeft
<1> QED BY <1>1, MembersInvInit, MembersInvStep, PTL DEF MembersSpec, LastOwnerOnlyRaced

(* GrantsByHolders: whatever route a role takes to a member, the procedure *)
(* or the policy has asked for org.roles.manage within the transaction.    *)
LEMMA GrantHeld ==
  ASSUME MembersInv, NEW p \in Persons, Called(p), <<granted, perms>>' # <<granted, perms>>
  PROVE  Assign \in held[p]
<1> DEFINE c == request[p].call
<1>1. Invite(p) \/ SetRole(p) \/ SetPermission(p)
  BY DEF Called, Context, Lock, Permit, Guard, SetStatus, Fail, Unchanged
<1>2. Granted(p) /\ request[p].at = "guarded"
  BY <1>1 DEF MembersInv, Invite, SetRole, SetPermission
<1>3. CASE Invite(p)
  <2>1. c.op = "invite"
    BY <1>3 DEF Invite
  <2>2. c.role # NoRole
    <3>1. ASSUME c.role = NoRole
          PROVE  <<granted, perms>>' = <<granted, perms>>
      BY <1>3, <3>1 DEF Invite
    <3> QED BY <3>1
  <2>3. Assign \in Needed(c)
    BY <2>1, <2>2 DEF Needed
  <2> QED BY <1>2, <2>3 DEF Granted
<1>4. CASE SetRole(p) \/ SetPermission(p)
  <2>1. c.op \in {"assign", "revoke", "permit", "forbid"}
    BY <1>4 DEF SetRole, SetPermission
  <2>2. Assign \in Needed(c)
    BY <2>1 DEF Needed
  <2> QED BY <1>2, <2>2 DEF Granted
<1> QED BY <1>1, <1>3, <1>4

THEOREM GrantsOnlyByHolders == MembersSpec => GrantsByHolders
<1>1. MembersInv =>
        \A p \in Persons :
          (Called(p) /\ <<granted, perms>>' # <<granted, perms>>) => Assign \in held[p]
  BY GrantHeld
<1> QED BY <1>1, MembersInvInit, MembersInvStep, PTL DEF MembersSpec, GrantsByHolders
=============================================================================
