---------------------------- MODULE RequestCache ----------------------------
(***************************************************************************)
(* The in-process cache above the pages' reads: every server instance has  *)
(* its own; readers share an entry or a load under way; entries expire,    *)
(* are evicted, and are dropped by an author's write.                      *)
(*                                                                         *)
(* What the database holds for an organization is a version number; what a *)
(* reader is shown is a version and the audience it was read for.  Time is *)
(* discrete: entries of one tick have no order among them.                 *)
(***************************************************************************)
EXTENDS Integers, FiniteSets, Sequences

CONSTANTS
  Instances, Requests,
  Members, Orgs, OrgOf,   \* OrgOf: [Members -> Orgs]
  Readers,                \* who reads what: pairs of a kind and a member
  MaxEntries,             \* MAX_ENTRIES
  TTL,                    \* in ticks
  MaxLoad,                \* the platform ends a function that runs longer
  MaxTime, MaxWrites,     \* bounds: ticks, changes of an organization
  None

Kinds == {"palette", "nova", "novaLearner"}
Versions == 0 .. MaxWrites
Missing == -1           \* an empty report: a failed query counts as no rows

ASSUME CacheAssumption ==
  /\ OrgOf \in [Members -> Orgs]
  /\ Readers \subseteq Kinds \X Members
  /\ MaxEntries \in Nat \ {0} /\ TTL \in Nat
  /\ MaxLoad \in Nat /\ MaxTime \in Nat /\ MaxWrites \in Nat
  /\ None \notin Members /\ None \notin Requests /\ IsFiniteSet(Readers)

(* Whom the rows of a load are for: an organization's drafts are the same  *)
(* for every reader of the palette; a Nova report shows "or the row is     *)
(* mine" rows, and more of them with the learner's part.                   *)
Audience(k, m) ==
  [kind |-> k, org |-> OrgOf[m], member |-> IF k = "palette" THEN None ELSE m]

OrgCacheKey(ns, org, gate) == [ns |-> ns, org |-> org, who |-> gate, variant |-> ""]
MemberCacheKeyShared(ns, org, m, variant) ==   \* keyed on the variant alone
  [ns |-> ns, org |-> org, who |-> None, variant |-> variant]

MemberCacheKey(ns, org, m, variant) ==
  [ns |-> ns, org |-> org, who |-> m, variant |-> variant]

KeyOf(k, m) ==
  CASE k = "palette" -> OrgCacheKey("palette", OrgOf[m], None)
    [] k = "nova" -> MemberCacheKey("nova", OrgOf[m], m, "base")
    [] k = "novaLearner" -> MemberCacheKey("nova", OrgOf[m], m, "learner")

Keys == {KeyOf(p[1], p[2]) : p \in Readers}

VARIABLES
  now,
  stamps,    \* per organization: when each of its changes was committed
  store,     \* per instance and key: the entry, or None
  inflight,  \* per instance and key: the request that loads it, or None
  pending,   \* per instance and organization: writes committed there, not invalidated yet
  request,   \* per request: what it asked, where and when, and how far it is
  cleared    \* per instance and organization: its version when last invalidated

vars == <<now, stamps, store, inflight, pending, request, cleared>>

Version(o) == Len(stamps[o])

(* raced: the load was under way when its organization was invalidated.    *)
Value(audience, version, raced) ==
  [audience |-> audience, version |-> version, raced |-> raced]
Entry(value) == [value |-> value, stored |-> now]
NoEntries == [key \in Keys |-> None]

Idle == [st |-> "idle"]
UnderWay == {"loading", "waiting"}
Closed == {r \in Requests : request[r].st \notin UnderWay}

Asked(st, i, k, m) ==
  [st |-> st, inst |-> i, kind |-> k, member |-> m, at |-> now,
   due |-> cleared[i][OrgOf[m]],
   from |-> Version(OrgOf[m]), raced |-> FALSE, value |-> None]

(* What remains of a request is who was shown what.                        *)
Answered(q, value) ==
  [q EXCEPT !.st = "answered", !.value = value,
            !.from = 0, !.at = 0, !.due = 0, !.raced = FALSE]

OrgAsked(q) == OrgOf[q.member]
KeyAsked(q) == KeyOf(q.kind, q.member)
Loading(r) == request[r].st = "loading"
Waiting(r) == request[r].st = "waiting"

Init ==
  /\ now = 0
  /\ stamps = [o \in Orgs |-> <<>>]
  /\ store = [i \in Instances |-> NoEntries]
  /\ inflight = [i \in Instances |-> NoEntries]
  /\ pending = [i \in Instances |-> [o \in Orgs |-> 0]]
  /\ request = [r \in Requests |-> Idle]
  /\ cleared = [i \in Instances |-> [o \in Orgs |-> 0]]

-----------------------------------------------------------------------------
(* cached: before its first await                                          *)

PresentIsFresh(i, key) == store[i][key] # None

Fresh(i, key) ==
  store[i][key] # None /\ now < store[i][key].stored + TTL

Hit(r, i, k, m) ==
  /\ r \in Closed /\ Fresh(i, KeyOf(k, m))
  /\ request' = [request EXCEPT ![r] =
       Answered(Asked("loading", i, k, m), store[i][KeyOf(k, m)].value)]
  /\ UNCHANGED <<now, stamps, store, inflight, pending, cleared>>

(* No entry, or an expired one, which is dropped.                          *)
Miss(r, i, k, m, st) ==
  /\ r \in Closed /\ ~Fresh(i, KeyOf(k, m))
  /\ store' = [store EXCEPT ![i][KeyOf(k, m)] = None]
  /\ request' = [request EXCEPT ![r] = Asked(st, i, k, m)]
  /\ UNCHANGED <<now, stamps, pending, cleared>>

Share(r, i, k, m) ==
  /\ inflight[i][KeyOf(k, m)] # None
  /\ Miss(r, i, k, m, "waiting")
  /\ UNCHANGED inflight

Load(r, i, k, m) ==
  /\ inflight[i][KeyOf(k, m)] = None
  /\ Miss(r, i, k, m, "loading")
  /\ inflight' = [inflight EXCEPT ![i][KeyOf(k, m)] = r]

-----------------------------------------------------------------------------
(* cached: after the load                                                  *)

Filled(s) == {key \in Keys : s[key] # None}
Oldest(s) == {key \in Filled(s) : \A other \in Filled(s) : s[key].stored <= s[other].stored}

Room(s) ==
  IF Cardinality(Filled(s)) < MaxEntries THEN {s}
  ELSE {[s EXCEPT ![key] = None] : key \in Oldest(s)}

(* The requests that one load answers: the one that made it, and those     *)
(* that share it.                                                          *)
Sharing(r) ==
  {w \in Requests : \/ w = r
                    \/ /\ Waiting(w) /\ request[w].inst = request[r].inst
                       /\ KeyAsked(request[w]) = KeyAsked(request[r])}

NoLongerLoading(r) ==
  inflight' = [inflight EXCEPT ![request[r].inst][KeyAsked(request[r])] = None]

(* The queries of a load run at some moment between its start and its end. *)
LoadEnds(r) ==
  /\ Loading(r)
  /\ LET q == request[r]
     IN  \E v \in {Missing} \cup (q.from .. Version(OrgAsked(q))),
            s \in Room(store[q.inst]) :
           LET value == Value(Audience(q.kind, q.member), v, q.raced)
           IN  /\ store' = [store EXCEPT ![q.inst] =
                              [s EXCEPT ![KeyAsked(q)] = Entry(value)]]
               /\ request' = [w \in Requests |->
                    IF w \in Sharing(r) THEN Answered(request[w], value) ELSE request[w]]
  /\ NoLongerLoading(r)
  /\ UNCHANGED <<now, stamps, pending, cleared>>

LoadFailsUncleaned(r) ==   \* no finally
  /\ Loading(r)
  /\ request' = [w \in Requests |-> IF w \in Sharing(r) THEN Idle ELSE request[w]]
  /\ UNCHANGED <<now, stamps, store, inflight, pending, cleared>>

LoadFails(r) ==
  /\ Loading(r)
  /\ request' = [w \in Requests |-> IF w \in Sharing(r) THEN Idle ELSE request[w]]
  /\ NoLongerLoading(r)
  /\ UNCHANGED <<now, stamps, store, pending, cleared>>

-----------------------------------------------------------------------------
(* Writes                                                                  *)

Changed(o) ==
  /\ Version(o) < MaxWrites
  /\ stamps' = [stamps EXCEPT ![o] = Append(@, now)]

(* A learner's progress, a role, a library block: nothing is invalidated.  *)
Change(o) ==
  /\ Changed(o)
  /\ UNCHANGED <<now, store, inflight, pending, request, cleared>>

(* An authoring action: it invalidates after the database has answered.    *)
Author(i, o) ==
  /\ Changed(o)
  /\ pending' = [pending EXCEPT ![i][o] = @ + 1]
  /\ UNCHANGED <<now, store, inflight, request, cleared>>

OfOrg(key, o) == key.org = o
Invalidated(s, o) == [key \in Keys |-> IF OfOrg(key, o) THEN None ELSE s[key]]

InvalidateOrg(i, o) ==
  /\ pending[i][o] > 0
  /\ pending' = [pending EXCEPT ![i][o] = @ - 1]
  /\ store' = [store EXCEPT ![i] = Invalidated(@, o)]
  /\ cleared' = [cleared EXCEPT ![i][o] = Version(o)]
  /\ request' = [r \in Requests |->
       IF Loading(r) /\ request[r].inst = i /\ OrgAsked(request[r]) = o
       THEN [request[r] EXCEPT !.raced = TRUE] ELSE request[r]]
  /\ UNCHANGED <<now, stamps, inflight>>

-----------------------------------------------------------------------------
(* The environment                                                         *)

(* An instance goes, with its cache and its requests; another takes its    *)
(* place.                                                                  *)
Restart(i) ==
  /\ store' = [store EXCEPT ![i] = NoEntries]
  /\ inflight' = [inflight EXCEPT ![i] = NoEntries]
  /\ pending' = [pending EXCEPT ![i] = [o \in Orgs |-> 0]]
  /\ cleared' = [cleared EXCEPT ![i] = [o \in Orgs |-> 0]]
  /\ request' = [r \in Requests |->
       IF request[r].st \in UnderWay /\ request[r].inst = i
       THEN Idle ELSE request[r]]
  /\ UNCHANGED <<now, stamps>>

Tick ==
  /\ now < MaxTime
  /\ \A r \in Requests : Loading(r) => now - request[r].at < MaxLoad
  /\ now' = now + 1
  /\ UNCHANGED <<stamps, store, inflight, pending, request, cleared>>

Ask(r) ==
  \E i \in Instances, p \in Readers :
    Hit(r, i, p[1], p[2]) \/ Share(r, i, p[1], p[2]) \/ Load(r, i, p[1], p[2])

Next ==
  \/ \E r \in Requests : Ask(r) \/ LoadEnds(r) \/ LoadFails(r)
  \/ \E o \in Orgs : Change(o)
  \/ \E i \in Instances, o \in Orgs : Author(i, o) \/ InvalidateOrg(i, o)
  \/ \E i \in Instances : Restart(i)
  \/ Tick

Spec == Init /\ [][Next]_vars

(* A load ends: its queries answer, or the platform ends the function.     *)
FairSpec == Spec /\ \A r \in Requests : WF_vars(LoadEnds(r) \/ LoadFails(r))

-----------------------------------------------------------------------------
Values ==
  [audience : {Audience(p[1], p[2]) : p \in Readers},
   version : {Missing} \cup Versions, raced : BOOLEAN]

Asking ==
  [st : {"loading", "waiting", "answered"}, inst : Instances,
   kind : Kinds, member : Members, at : 0 .. MaxTime, due : Versions,
   from : Versions, raced : BOOLEAN, value : Values \cup {None}]

(* Types; no instance keeps more than MAX_ENTRIES entries.                 *)
TypeOK ==
  /\ now \in 0 .. MaxTime
  /\ stamps \in [Orgs -> Seq(0 .. MaxTime)]
  /\ \A o \in Orgs : Version(o) \in Versions
  /\ store \in [Instances -> [Keys -> [value : Values, stored : 0 .. MaxTime] \cup {None}]]
  /\ inflight \in [Instances -> [Keys -> Requests \cup {None}]]
  /\ pending \in [Instances -> [Orgs -> Nat]]
  /\ request \in [Requests -> Asking \cup {Idle}]
  /\ \A r \in Requests : request[r] # Idle => <<request[r].kind, request[r].member>> \in Readers
  /\ cleared \in [Instances -> [Orgs -> Versions]]
  /\ \A i \in Instances : Cardinality(Filled(store[i])) <= MaxEntries

(* The promise each reader waits for is one that will settle: it belongs   *)
(* to a load of the same key, on the same instance, that is under way.  No *)
(* failed load stays in the way of the next reader, and no key is loaded   *)
(* twice at once.                                                          *)
LoadsUnderWay ==
  /\ \A r \in Requests : Loading(r) =>
       inflight[request[r].inst][KeyAsked(request[r])] = r
  /\ \A r \in Requests : Waiting(r) =>
       inflight[request[r].inst][KeyAsked(request[r])] # None
  /\ \A i \in Instances, key \in Keys : inflight[i][key] # None =>
       LET q == request[inflight[i][key]]
       IN  q.st = "loading" /\ q.inst = i /\ KeyAsked(q) = key

(* Whoever loaded what a reader is shown, it is what the reader's own      *)
(* queries would have returned: reports and palettes never cross members,  *)
(* organizations or variants.                                              *)
AnswersAreOwn ==
  \A r \in Requests : request[r].st = "answered" =>
    request[r].value.audience = Audience(request[r].kind, request[r].member)

(* After an author's write was invalidated on an instance, its cache holds *)
(* nothing read before, unless a load of it was under way then.            *)
InvalidationForgets ==
  \A i \in Instances, key \in Keys : store[i][key] # None =>
    LET value == store[i][key].value
    IN  value.version \in Versions /\ value.version < cleared[i][value.audience.org]
          => value.raced

(* In a step that answers r, with rows.                                    *)
ShownRows(r) ==
  /\ request'[r] # request[r] /\ request'[r].st = "answered"
  /\ request'[r].value.version \in Versions

(* What a reader is shown was true a lifetime and a load ago, or later.    *)
(* Not a lifetime only: the load starts the lifetime when it ends.         *)
StalenessBounded ==
  [][\A r \in Requests : ShownRows(r) =>
       LET s == OrgAsked(request'[r])
           v == request'[r].value.version
       IN  v < Version(s) =>
             stamps[s][v + 1] >= now - TTL - MaxLoad]_vars

(* Every reader is answered or told of a failure, also those that wait for *)
(* the load of another.                                                    *)
ReadersAnswered ==
  \A r \in Requests : request[r].st \in UnderWay ~> request[r].st \notin UnderWay

(* lib/data/palette.ts:53 and lib/cache.ts:110: an author's change is      *)
(* never missing from what is asked after it was invalidated.              *)
AuthorsFindTheirOwn ==
  [][\A r \in Requests : ShownRows(r) =>
       request'[r].value.version >=
         IF request[r].st \in UnderWay THEN request[r].due
         ELSE cleared[request'[r].inst][OrgAsked(request'[r])]]_vars

=============================================================================
