---------------------------- MODULE PartnerAccess ----------------------------
(***************************************************************************)
(* A partner's server signs its members in by handoffs and enrolls them    *)
(* through an API with idempotency keys, under a rate limit, while the     *)
(* organization's staff enroll, withdraw, suspend and revoke.              *)
(*                                                                         *)
(* A call of the API is one transaction of several statements: each of     *)
(* them sees what is committed when it begins, and the rows it updates     *)
(* stay locked until the end.  A handoff and an operation of the staff are *)
(* one step each.                                                          *)
(***************************************************************************)
EXTENDS Naturals, FiniteSets

CONSTANTS
  Users, Targets, Audiences,
  ExternalIds,            \* the partner's names for its members
  AudienceOf,             \* the audience a path is for; None for courses
  Nonces, Claims,         \* handoffs the partner signs: who, and for which audiences
  Keys, RequestOf,        \* idempotency keys, and whom each of them enrolls in what
  ApiKeys, Conns, KeyOf,  \* connections, and the API key that each one uses
  Limit,                  \* rate_limit_per_minute: 0 disables it
  Staff,                  \* the enrollment that the staff created
  MaxStaff, MaxLosses,    \* bounds: operations of the staff, calls or answers lost
  None

(* Rows by the key of the request that made them and the API key it came   *)
(* with: a request makes at most one over each.                            *)
Ids == (Keys \X ApiKeys) \cup {Staff}

ASSUME PartnerAssumption ==
  /\ AudienceOf \in [Targets -> Audiences \cup {None}]
  /\ Claims \in [Nonces -> [ext : ExternalIds, user : Users, audiences : SUBSET Audiences]]
  /\ RequestOf \in [Keys -> [ext : ExternalIds, target : Targets]]
  /\ KeyOf \in [Conns -> ApiKeys]
  /\ Limit \in Nat /\ MaxStaff \in Nat /\ MaxLosses \in Nat
  /\ Staff \notin Keys \X ApiKeys
  /\ None \notin Ids \cup ApiKeys \cup Users \cup Audiences \cup ExternalIds

Answer(status, id) == [status |-> status, enrollment |-> id]
NoAnswer == Answer("none", None)
Answers ==
  [status : {"created", "conflict"}, enrollment : Ids]
    \cup [status : {"none", "forbidden", "not_found", "rate_limited", "error"},
          enrollment : {None}]

(* Which answers the API stores under the key of their request.            *)
KeptThrottled(a) == a.status \in {"created", "conflict", "forbidden", "rate_limited"}
Kept(a) == a.status \in {"created", "conflict", "forbidden"}

(* Which answers leave the partner to ask again, with the same key.        *)
Transient(a) == a.status \in {"rate_limited", "error"}

VARIABLES
  identity,    \* external_identities, by user
  barred,      \* users whose mapping the staff revoked and did not restore
  member,      \* organization_memberships.status, or "none"
  nonces,      \* bfh_handoff_nonces
  offered,     \* targets that are published and not archived
  enrollment,  \* per user, target and id: the status of the row, or "none"
  ledger,      \* bfh_api_idempotency
  keeper,      \* per idempotency key: the API key of the call whose answer is stored
  hits,        \* rate_limits: calls charged per API key to this minute (FALSE) and to
               \* the last one (TRUE), up to one above the limit
  call,        \* per connection: the transaction under way and what it has read
  asked,       \* keys the partner has sent
  heard,       \* per key: the answers that reached the partner, for good
  staffed, lost

vars == <<identity, barred, member, nonces, offered, enrollment, ledger, keeper, hits, call,
          asked, heard, staffed, lost>>

people == <<identity, barred, member, nonces>>
api == <<ledger, keeper, hits, call, asked, heard>>

Unmapped == [ext |-> None, status |-> "none", audiences |-> {}]

(* late: the minute of the call has passed.                                *)
Idle == [stage |-> "idle", key |-> None, late |-> FALSE, user |-> None,
         audiences |-> {}, cleared |-> {}, answer |-> NoAnswer]

Init ==
  /\ identity = [u \in Users |-> Unmapped]
  /\ barred = {}
  /\ member = [u \in Users |-> "none"]
  /\ nonces = {}
  /\ offered = Targets
  /\ enrollment = [u \in Users |-> [t \in Targets |-> [i \in Ids |-> "none"]]]
  /\ ledger = [k \in Keys |-> NoAnswer]
  /\ keeper = [k \in Keys |-> None]
  /\ hits = [a \in ApiKeys |-> [late \in BOOLEAN |-> 0]]
  /\ call = [c \in Conns |-> Idle]
  /\ asked = {}
  /\ heard = [k \in Keys |-> {}]
  /\ staffed = 0 /\ lost = 0

-----------------------------------------------------------------------------
(* bfh_exchange_handoff: the signature and the times of the claims are     *)
(* right; the nonce is used up whatever follows.                           *)

Mapped(u) == identity[u].ext # None
UsersNamed(x) == {u \in Users : identity[u].ext = x}

LinkedAfresh(u, claims) ==   \* an upsert that sets the default status as well
  [ext |-> claims.ext, status |-> "active", audiences |-> claims.audiences]

(* insert ... on conflict (organization_id, provider, user_id) do update:  *)
(* a mapping the user has keeps its status under its new name.             *)
Linked(u, claims) ==
  [ext |-> claims.ext, audiences |-> claims.audiences,
   status |-> IF Mapped(u) THEN identity[u].status ELSE "active"]

(* The user of a mapping is the one it has; a new name is looked up by the *)
(* email of the claims.                                                    *)
UserOfClaims(claims) ==
  IF UsersNamed(claims.ext) = {} THEN claims.user
  ELSE CHOOSE u \in UsersNamed(claims.ext) : TRUE

Handoff(n) ==
  LET u == UserOfClaims(Claims[n])
      refused == UsersNamed(Claims[n].ext) # {} /\ identity[u].status = "revoked"
  IN  /\ n \notin nonces
      /\ nonces' = nonces \cup {n}
      /\ identity' = IF refused THEN identity
                     ELSE [identity EXCEPT ![u] = Linked(u, Claims[n])]
      /\ member' = IF refused \/ member[u] # "none" THEN member
                   ELSE [member EXCEPT ![u] = "active"]
      /\ UNCHANGED <<barred, offered, enrollment, api, staffed, lost>>

-----------------------------------------------------------------------------
(* The staff *)

(* What they do counts against the bound, but for taking it back.          *)
StaffActs(takenBack) ==
  IF takenBack THEN UNCHANGED staffed
  ELSE staffed < MaxStaff /\ staffed' = staffed + 1

(* bfh_set_external_identity_status.  A call under way when the mapping is *)
(* restored may pass: its user is cleared for it.                          *)
SetIdentityStatus(u, st) ==
  /\ StaffActs(st = "active")
  /\ Mapped(u) /\ identity[u].status # st
  /\ identity' = [identity EXCEPT ![u].status = st]
  /\ barred' = IF st = "revoked" THEN barred \cup {u} ELSE barred \ {u}
  /\ call' = [c \in Conns |->
       IF st = "active" /\ call[c].stage # "idle"
       THEN [call[c] EXCEPT !.cleared = @ \cup {u}] ELSE call[c]]
  /\ UNCHANGED <<member, nonces, offered, enrollment, ledger, keeper, hits, asked,
                 heard, lost>>

SetMembershipStatus(u, st) ==
  /\ StaffActs(st = "active")
  /\ member[u] \notin {"none", st}
  /\ member' = [member EXCEPT ![u] = st]
  /\ UNCHANGED <<identity, barred, nonces, offered, enrollment, api, lost>>

(* Archiving a course, or taking a path out of use, and back.              *)
SetOffered(t) ==
  /\ StaffActs(t \notin offered)
  /\ offered' = IF t \in offered THEN offered \ {t} ELSE offered \cup {t}
  /\ UNCHANGED <<people, enrollment, api, lost>>

(* enrollments_one_live_course and enrollments_one_live_path               *)
Live(u, t) == \E i \in Ids : enrollment[u][t][i] = "active"

(* create_enrollment                                                       *)
EnrollByStaff(u, t) ==
  /\ StaffActs(FALSE)
  /\ member[u] = "active" /\ t \in offered /\ ~Live(u, t)
  /\ enrollment[u][t][Staff] = "none"
  /\ enrollment' = [enrollment EXCEPT ![u][t][Staff] = "active"]
  /\ UNCHANGED <<people, offered, api, lost>>

(* set_enrollment_status                                                   *)
SetEnrollmentStatus(u, t, i, st) ==
  /\ StaffActs(st = "active")
  /\ enrollment[u][t][i] \notin {"none", st}
  /\ st = "active" => ~Live(u, t)
  /\ enrollment' = [enrollment EXCEPT ![u][t][i] = st]
  /\ UNCHANGED <<people, offered, api, lost>>

StaffStep ==
  \/ \E u \in Users, st \in {"active", "revoked"} : SetIdentityStatus(u, st)
  \/ \E u \in Users, st \in {"active", "suspended"} : SetMembershipStatus(u, st)
  \/ \E t \in Targets : SetOffered(t)
  \/ \E u \in Users, t \in Targets : EnrollByStaff(u, t)
  \/ \E u \in Users, t \in Targets, i \in Ids, st \in {"active", "withdrawn", "expired"} :
       SetEnrollmentStatus(u, t, i, st)

-----------------------------------------------------------------------------
(* bfh_enroll_or_assign_external, statement by statement                   *)

At(c, stage) == call[c].stage = stage
Request(c) == RequestOf[call[c].key]

Concluded(k) == heard[k] # {}

(* The mapping, joined with an active membership.                          *)
Known(x) == {u \in UsersNamed(x) : member[u] = "active"}

Findable(k) == Known(RequestOf[k].ext) # {} /\ RequestOf[k].target \in offered

(* The partner asks until it has an answer, and may ask again while an     *)
(* earlier call is still under way, or when what it was told was not found *)
(* is there.                                                               *)
Send(c, k) ==
  /\ At(c, "idle") /\ ~\E a \in heard[k] : Kept(a)
  /\ Concluded(k) => Findable(k)
  /\ call' = [call EXCEPT ![c] =
       [Idle EXCEPT !.stage = "charge", !.key = k, !.cleared = Users \ barred]]
  /\ asked' = asked \cup {k}
  /\ UNCHANGED <<people, offered, enrollment, ledger, keeper, hits, heard, staffed, lost>>

Goes(c, stage) == call' = [call EXCEPT ![c].stage = stage]

(* Calls whose transaction holds the row of its API key and minute, and    *)
(* those that hold the row of the API key.                                 *)
Charged == {c \in Conns : call[c].stage \notin {"idle", "charge", "answer"}}
Using == Charged \ {c \in Conns : At(c, "use")}

Charges(c) ==
  hits' = IF Limit = 0 THEN hits
          ELSE [hits EXCEPT ![KeyOf[c]][call[c].late] =
                  IF @ > Limit THEN @ ELSE @ + 1]

Finish(c, a) ==
  call' = [call EXCEPT ![c] = [Idle EXCEPT !.stage = "answer", !.key = call[c].key,
                                           !.answer = a]]

(* The transaction ends with an answer, which is stored unless the key has *)
(* one already.                                                            *)
Ends(c, a) ==
  /\ Finish(c, a)
  /\ IF Kept(a) /\ ledger[call[c].key] = NoAnswer
     THEN /\ ledger' = [ledger EXCEPT ![call[c].key] = a]
          /\ keeper' = [keeper EXCEPT ![call[c].key] = KeyOf[c]]
     ELSE UNCHANGED <<ledger, keeper>>
  /\ Charges(c)
  /\ UNCHANGED <<people, offered, asked, heard, staffed, lost>>

Reads == UNCHANGED <<people, offered, enrollment, ledger, keeper, hits, asked, heard,
                     staffed, lost>>

(* consume_rate_limit: the insert waits for the transaction that holds the *)
(* row.                                                                    *)
RowFree(c) ==
  Limit = 0 \/ \A d \in Charged : <<KeyOf[d], call[d].late>> # <<KeyOf[c], call[c].late>>

Charge(c) ==
  /\ At(c, "charge") /\ RowFree(c)
  /\ IF Limit = 0 \/ hits[KeyOf[c]][call[c].late] < Limit
     THEN Goes(c, "use") /\ Reads
     ELSE Ends(c, Answer("rate_limited", None)) /\ UNCHANGED enrollment

(* update organization_api_keys set last_used_at                           *)
KeyFreeUnused(c) == c \in Conns
KeyFree(c) == \A d \in Using : KeyOf[d] # KeyOf[c]

Use(c) ==
  /\ At(c, "use") /\ KeyFree(c)
  /\ Goes(c, "lookup") /\ Reads

Lookup(c) ==
  /\ At(c, "lookup")
  /\ IF ledger[call[c].key] = NoAnswer
     THEN Goes(c, "judge") /\ Reads
     ELSE Ends(c, ledger[call[c].key]) /\ UNCHANGED enrollment

Judge(c) ==
  /\ At(c, "judge")
  /\ \/ /\ Known(Request(c).ext) = {}
        /\ Ends(c, Answer("not_found", None)) /\ UNCHANGED enrollment
     \/ \E u \in Known(Request(c).ext) :
          IF identity[u].status = "revoked"
          THEN Ends(c, Answer("forbidden", None)) /\ UNCHANGED enrollment
          ELSE /\ call' = [call EXCEPT ![c].stage = "target", ![c].user = u,
                                       ![c].audiences = identity[u].audiences]
               /\ Reads

(* isEligibleForAudience, with what the mapping said when it was read.     *)
Eligible(c) == AudienceOf[Request(c).target] \in call[c].audiences \cup {None}

FindTarget(c) ==
  /\ At(c, "target")
  /\ CASE Request(c).target \notin offered ->
            Ends(c, Answer("not_found", None)) /\ UNCHANGED enrollment
       [] Request(c).target \in offered /\ ~Eligible(c) ->
            Ends(c, Answer("forbidden", None)) /\ UNCHANGED enrollment
       [] OTHER -> Goes(c, "existing") /\ Reads

(* Any enrollment that is not withdrawn is in the way.                     *)
InTheWay(u, t) == {i \in Ids : enrollment[u][t][i] \in {"active", "expired"}}

FindExisting(c) ==
  /\ At(c, "existing")
  /\ LET found == InTheWay(call[c].user, Request(c).target)
     IN  \/ /\ found = {}
            /\ Goes(c, "create") /\ Reads
         \/ \E i \in found : Ends(c, Answer("conflict", i)) /\ UNCHANGED enrollment

NewRow(c) == <<call[c].key, KeyOf[c]>>

Create(c) ==
  /\ At(c, "create") /\ ~Live(call[c].user, Request(c).target)
  /\ enrollment' = [enrollment EXCEPT ![call[c].user][Request(c).target][NewRow(c)] = "active"]
  /\ Ends(c, Answer("created", NewRow(c)))

(* The index refuses the row: the transaction is undone with its charge,   *)
(* and the route answers 500.                                              *)
CreateRefused(c) ==
  /\ At(c, "create") /\ Live(call[c].user, Request(c).target)
  /\ Finish(c, Answer("error", None))
  /\ UNCHANGED <<people, offered, enrollment, ledger, keeper, hits, asked, heard,
                 staffed, lost>>

Hear(c) ==
  /\ At(c, "answer")
  /\ heard' = [heard EXCEPT ![call[c].key] =
       IF Transient(call[c].answer) THEN @ ELSE @ \cup {call[c].answer}]
  /\ call' = [call EXCEPT ![c] = Idle]
  /\ UNCHANGED <<people, offered, enrollment, ledger, keeper, hits, asked, staffed, lost>>

(* The call fails and is undone, or its answer does not arrive.            *)
Lose(c) ==
  /\ lost < MaxLosses /\ lost' = lost + 1
  /\ ~At(c, "idle")
  /\ call' = [call EXCEPT ![c] = Idle]
  /\ UNCHANGED <<people, offered, enrollment, ledger, keeper, hits, asked, heard, staffed>>

(* A statement times out long before the minute after that of its call is  *)
(* over.                                                                   *)
NextMinute ==
  /\ \A c \in Conns : ~call[c].late
  /\ hits' = [a \in ApiKeys |->
       [late \in BOOLEAN |-> IF late THEN hits[a][FALSE] ELSE 0]]
  /\ call' = [c \in Conns |->
       IF c \in Charged \/ At(c, "charge") THEN [call[c] EXCEPT !.late = TRUE] ELSE call[c]]
  /\ UNCHANGED <<people, offered, enrollment, ledger, keeper, asked, heard, staffed, lost>>

CallStep(c) ==
  \/ Charge(c) \/ Use(c) \/ Lookup(c) \/ Judge(c) \/ FindTarget(c) \/ FindExisting(c)
  \/ Create(c) \/ CreateRefused(c) \/ Hear(c)

Next ==
  \/ \E n \in Nonces : Handoff(n)
  \/ StaffStep
  \/ \E c \in Conns :
       \/ \E k \in Keys : Send(c, k)
       \/ CallStep(c) \/ Lose(c)
  \/ NextMinute

Spec == Init /\ [][Next]_vars

-----------------------------------------------------------------------------
(* A call that may go on does, minutes pass, and the partner retries what  *)
(* it has no answer to.                                                    *)
Retry(k) ==
  /\ k \in asked /\ ~Concluded(k) /\ \A c \in Conns : call[c].key # k
  /\ \E c \in Conns : Send(c, k)

Fairness ==
  /\ \A c \in Conns : WF_vars(CallStep(c))
  /\ \A k \in Keys : WF_vars(Retry(k))
  /\ WF_vars(NextMinute)

FairSpec == Spec /\ Fairness

-----------------------------------------------------------------------------
Stages == {"idle", "charge", "use", "lookup", "judge", "target", "existing", "create",
           "answer"}

Mappings == [ext : ExternalIds \cup {None}, status : {"none", "active", "revoked"},
             audiences : SUBSET Audiences]
Calls == [stage : Stages, key : Keys \cup {None}, late : BOOLEAN,
          user : Users \cup {None}, audiences : SUBSET Audiences,
          cleared : SUBSET Users, answer : Answers]
Judged == {c \in Conns : call[c].stage \in {"target", "existing", "create"}}

TypeOK ==
  /\ identity \in [Users -> Mappings]
  /\ barred \subseteq Users
  /\ member \in [Users -> {"none", "active", "suspended"}]
  /\ nonces \subseteq Nonces /\ offered \subseteq Targets
  /\ enrollment \in
       [Users -> [Targets -> [Ids -> {"none", "active", "withdrawn", "expired"}]]]
  /\ ledger \in [Keys -> Answers] /\ keeper \in [Keys -> ApiKeys \cup {None}]
  /\ hits \in [ApiKeys -> [BOOLEAN -> 0 .. Limit + 1]]
  /\ call \in [Conns -> Calls]
  /\ \A c \in Conns : ~At(c, "idle") => call[c].key \in Keys
  /\ \A c \in Judged : call[c].user \in Users
  /\ asked \subseteq Keys /\ heard \in [Keys -> SUBSET Answers]
  /\ staffed \in 0 .. MaxStaff /\ lost \in 0 .. MaxLosses

(* Whom the calls that made a row have enrolled, and in what.              *)
Enrolled(i) == {p \in Users \X Targets : enrollment[p[1]][p[2]][i] # "none"}

(* A call over another API key has stored an answer under the same key.    *)
Overtaken(c) == keeper[call[c].key] \notin {None, KeyOf[c]}

Told(c) == call'[c].answer

(* What is stored for a key is what was done for it: over the API key      *)
(* whose call stored its answer it has enrolled somebody, and only once,   *)
(* exactly if that is the answer.                                          *)
StoredIsDone ==
  \A k \in Keys, a \in ApiKeys :
    /\ ledger[k] = Answer("created", <<k, a>>) <=>
         keeper[k] = a /\ Enrolled(<<k, a>>) # {}
    /\ Cardinality(Enrolled(<<k, a>>)) <= 1

(* An idempotency key has one outcome, however often and over whichever    *)
(* API keys it is sent, whatever is lost and whoever edits in between.     *)
(* What is stored for it never changes, and every call that ends is told   *)
(* that, with three exceptions: it was throttled or undone; nothing was    *)
(* stored and the member or the target was not found, which is not stored  *)
(* either; or a call over another API key stored its own answer after this *)
(* one had looked for one.                                                 *)
OneOutcomePerKey ==
  /\ []StoredIsDone
  /\ [][/\ \A k \in Keys : ledger[k] # NoAnswer => ledger'[k] = ledger[k]
        /\ \A c \in Conns : ~At(c, "answer") /\ At(c, "answer")' =>
             \/ Transient(Told(c))
             \/ Told(c) = ledger'[call[c].key]
             \/ Told(c).status = "not_found" /\ ledger[call[c].key] = NoAnswer
             \/ Overtaken(c)]_vars

(* docs/integrations/built-for-her/contract.md, section 7: retries "MUST   *)
(* reuse the original idempotencyKey and receive the same outcome".        *)
SameOutcome == \A k \in Keys : Cardinality(heard[k]) <= 1

(* While a mapping is revoked no call that is sent enrolls its user: not   *)
(* under another name either, to which a handoff may have moved it.        *)
RevokedStaysOut ==
  [][\A c \in Conns :
       At(c, "create") /\ call'[c].answer.status = "created"
         => call[c].user \in call[c].cleared]_vars

(* A request that was sent is answered in the end: being throttled or lost *)
(* only delays it.                                                         *)
ResultsArrive == \A k \in Keys : k \in asked ~> Concluded(k)

(* "409 on an existing live enrollment": not so, an expired enrollment is  *)
(* in the way of the partner and not of the staff.                         *)
ConflictsAreLive ==
  [][\A c \in Conns :
       At(c, "existing") /\ call'[c].answer.status = "conflict"
         => Live(call[c].user, Request(c).target)]_vars
=============================================================================
