------------------------- MODULE RequestCacheProofs -------------------------
(***************************************************************************)
(* For any number of instances, requests, readers and entries: the types   *)
(* and the bound on the store, that every reader waits for a load under    *)
(* way, that nobody is shown another's rows, what an invalidation leaves,  *)
(* and how old what is shown can be.                                       *)
(***************************************************************************)
EXTENDS RequestCache, FiniteSetTheorems, TLAPS

ReaderOf(q) == <<q.kind, q.member>>

LEMMA ReaderTyped ==
  ASSUME NEW p \in Readers
  PROVE  /\ p[1] \in Kinds /\ p[2] \in Members /\ p = <<p[1], p[2]>>
         /\ KeyOf(p[1], p[2]) \in Keys /\ OrgOf[p[2]] \in Orgs
  BY CacheAssumption DEF Keys

LEMMA KeysFinite == IsFiniteSet(Keys)
<1> DEFINE f == [p \in Readers |-> KeyOf(p[1], p[2])]
<1>1. f \in [Readers -> Keys] /\ \A key \in Keys : \E p \in Readers : f[p] = key
  BY DEF Keys
<1>2. f \in Surjection(Readers, Keys)
  BY <1>1 DEF Surjection
<1> QED BY <1>2, FS_Surjection, CacheAssumption

(* A key names whose rows were read.                                       *)
LEMMA KeysSeparate ==
  ASSUME NEW p \in Readers, NEW q \in Readers, KeyOf(p[1], p[2]) = KeyOf(q[1], q[2])
  PROVE  Audience(p[1], p[2]) = Audience(q[1], q[2])
<1>1. p[1] \in Kinds /\ p[2] \in Members /\ q[1] \in Kinds /\ q[2] \in Members
  BY ReaderTyped
<1>2. p[1] = q[1]
  <2>1. ASSUME NEW r \in Readers
        PROVE  /\ r[1] = "palette" => KeyOf(r[1], r[2]).ns = "palette"
               /\ r[1] = "nova" => /\ KeyOf(r[1], r[2]).ns = "nova"
                                   /\ KeyOf(r[1], r[2]).variant = "base"
               /\ r[1] = "novaLearner" => /\ KeyOf(r[1], r[2]).ns = "nova"
                                          /\ KeyOf(r[1], r[2]).variant = "learner"
    BY DEF KeyOf, OrgCacheKey, MemberCacheKey
  <2> QED BY <1>1, <2>1 DEF Kinds
<1>3. CASE p[1] = "palette"
  <2>1. OrgOf[p[2]] = OrgOf[q[2]]
    BY <1>2, <1>3 DEF KeyOf, OrgCacheKey
  <2> QED BY <1>2, <1>3, <2>1 DEF Audience
<1>4. CASE p[1] # "palette"
  <2>1. p[2] = q[2]
    BY <1>1, <1>2, <1>4 DEF KeyOf, MemberCacheKey, Kinds
  <2> QED BY <1>2, <2>1
<1> QED BY <1>3, <1>4

LEMMA KeyOrg ==
  ASSUME NEW p \in Readers
  PROVE  KeyOf(p[1], p[2]).org = OrgOf[p[2]] /\ Audience(p[1], p[2]).org = OrgOf[p[2]]
  BY ReaderTyped DEF KeyOf, OrgCacheKey, MemberCacheKey, Kinds, Audience

-----------------------------------------------------------------------------
(* Types                                                                   *)

LEMMA RequestTyped ==
  ASSUME TypeOK, NEW r \in Requests, request[r].st # "idle"
  PROVE  /\ request[r] \in Asking /\ ReaderOf(request[r]) \in Readers
         /\ request[r].inst \in Instances
         /\ KeyAsked(request[r]) \in Keys /\ OrgAsked(request[r]) \in Orgs
         /\ request[r].from \in Versions
<1>1. request[r] \in Asking /\ request[r] # Idle
  BY DEF TypeOK, Idle
<1>2. ReaderOf(request[r]) \in Readers
  BY <1>1 DEF TypeOK, ReaderOf
<1>3. request[r].inst \in Instances /\ request[r].from \in Versions
  BY <1>1 DEF Asking
<1> QED BY <1>1, <1>2, <1>3, ReaderTyped DEF ReaderOf, KeyAsked, OrgAsked

LEMMA AskedTyped ==
  ASSUME TypeOK, NEW i \in Instances, NEW p \in Readers, NEW st \in {"loading", "waiting"}
  PROVE  /\ Asked(st, i, p[1], p[2]) \in Asking
         /\ Asked(st, i, p[1], p[2]).st = st
         /\ Asked(st, i, p[1], p[2]).inst = i
         /\ Asked(st, i, p[1], p[2]).kind = p[1]
         /\ Asked(st, i, p[1], p[2]).member = p[2]
         /\ Asked(st, i, p[1], p[2]).from = Version(OrgOf[p[2]])
         /\ Asked(st, i, p[1], p[2]) # Idle
<1>1. /\ p[1] \in Kinds /\ p[2] \in Members /\ OrgOf[p[2]] \in Orgs
  BY ReaderTyped
<1>2. /\ now \in 0 .. MaxTime /\ Version(OrgOf[p[2]]) \in Versions
      /\ cleared[i][OrgOf[p[2]]] \in Versions
  BY <1>1 DEF TypeOK
<1>3. PICK q : q = Asked(st, i, p[1], p[2])
  OBVIOUS
<1>4. q = [st |-> st, inst |-> i, kind |-> p[1], member |-> p[2], at |-> now,
           due |-> cleared[i][OrgOf[p[2]]], from |-> Version(OrgOf[p[2]]),
           raced |-> FALSE, value |-> None]
  BY <1>3 DEF Asked
<1>5. q \in Asking
  BY <1>1, <1>2, <1>4 DEF Asking
<1>6. q.st = st /\ q.inst = i /\ q.kind = p[1] /\ q.member = p[2]
      /\ q.from = Version(OrgOf[p[2]]) /\ q # Idle
  BY <1>4 DEF Idle
<1> QED BY <1>3, <1>5, <1>6

LEMMA AnsweredTyped ==
  ASSUME NEW q \in Asking, NEW v \in Values
  PROVE  /\ Answered(q, v) \in Asking /\ Answered(q, v).st = "answered"
         /\ Answered(q, v).value = v /\ Answered(q, v).inst = q.inst
         /\ Answered(q, v).kind = q.kind /\ Answered(q, v).member = q.member
         /\ Answered(q, v) # Idle
<1>1. 0 \in 0 .. MaxTime /\ 0 \in Versions
  BY CacheAssumption DEF Versions
<1>2. PICK a : a = Answered(q, v)
  OBVIOUS
<1>3. /\ a = [q EXCEPT !.st = "answered", !.value = v,
                     !.from = 0, !.at = 0, !.due = 0, !.raced = FALSE]
  BY <1>2 DEF Answered
<1>4. /\ q.inst \in Instances /\ q.kind \in Kinds /\ q.member \in Members
      /\ a = [st |-> "answered", inst |-> q.inst, kind |-> q.kind, member |-> q.member,
              at |-> 0, due |-> 0, from |-> 0, raced |-> FALSE, value |-> v]
  BY <1>3 DEF Asking
<1>5. a \in Asking /\ a # Idle
  BY <1>1, <1>4 DEF Asking, Idle
<1> QED BY <1>2, <1>4, <1>5

-----------------------------------------------------------------------------
(* The store                                                               *)

Stores == [Keys -> [value : Values, stored : 0 .. MaxTime] \cup {None}]

(* A store with room for one more entry has no more than MAX_ENTRIES of    *)
(* them with it.                                                           *)
LEMMA RoomBounds ==
  ASSUME NEW s0 \in Stores, NEW s \in Room(s0), NEW key \in Keys, NEW e,
         Cardinality(Filled(s0)) <= MaxEntries
  PROVE  /\ s \in Stores
         /\ Cardinality(Filled([s EXCEPT ![key] = e])) <= MaxEntries
         /\ \A k \in Keys : s[k] # None => s[k] = s0[k]
<1>1. IsFiniteSet(Filled(s0)) /\ Cardinality(Filled(s0)) \in Nat
  BY KeysFinite, FS_Subset, FS_CardinalityType DEF Filled
<1>2. /\ s \in Stores /\ Filled(s) \subseteq Filled(s0)
      /\ Cardinality(Filled(s)) < MaxEntries
      /\ \A k \in Keys : s[k] # None => s[k] = s0[k]
  <2>1. CASE Cardinality(Filled(s0)) < MaxEntries
    BY <2>1 DEF Room
  <2>2. CASE ~(Cardinality(Filled(s0)) < MaxEntries)
    <3>1. PICK k \in Oldest(s0) : s = [s0 EXCEPT ![k] = None]
      BY <2>2 DEF Room
    <3>2. k \in Filled(s0) /\ k \in Keys
      BY DEF Oldest, Filled
    <3>3. /\ s \in Stores /\ s[k] = None
          /\ \A j \in Keys : j # k => s[j] = s0[j]
      BY <3>1, <3>2 DEF Stores
    <3>4. Filled(s) = Filled(s0) \ {k}
      BY <3>2, <3>3 DEF Filled
    <3>5. Cardinality(Filled(s)) = Cardinality(Filled(s0)) - 1
      BY <1>1, <3>2, <3>4, FS_RemoveElement
    <3> QED BY <1>1, <3>3, <3>4, <3>5, CacheAssumption
  <2> QED BY <2>1, <2>2
<1>3. IsFiniteSet(Filled(s)) /\ Cardinality(Filled(s)) \in Nat
  BY <1>1, <1>2, FS_Subset, FS_CardinalityType
<1>4. Filled([s EXCEPT ![key] = e]) \subseteq Filled(s) \cup {key}
  BY <1>2 DEF Stores, Filled
<1>5. /\ IsFiniteSet(Filled(s) \cup {key})
      /\ Cardinality(Filled(s) \cup {key}) <= Cardinality(Filled(s)) + 1
      /\ Cardinality(Filled(s) \cup {key}) \in Nat
  <2>1. IsFiniteSet(Filled(s) \cup {key})
    BY <1>3, FS_AddElement
  <2>2. /\ Cardinality(Filled(s) \cup {key}) <= Cardinality(Filled(s)) + 1
        /\ Cardinality(Filled(s) \cup {key}) \in Nat
    <3>1. Cardinality(Filled(s) \cup {key}) =
            IF key \in Filled(s) THEN Cardinality(Filled(s)) ELSE Cardinality(Filled(s)) + 1
      BY <1>3, FS_AddElement
    <3> QED BY <1>3, <3>1
  <2> QED BY <2>1, <2>2
<1>6. \A T \in SUBSET (Filled(s) \cup {key}) :
        /\ Cardinality(T) <= Cardinality(Filled(s) \cup {key})
        /\ Cardinality(T) \in Nat
  BY <1>5, FS_Subset, FS_CardinalityType
<1>7. /\ Cardinality(Filled([s EXCEPT ![key] = e])) <= Cardinality(Filled(s) \cup {key})
      /\ Cardinality(Filled([s EXCEPT ![key] = e])) \in Nat
  BY <1>4, <1>6
<1> QED BY <1>2, <1>3, <1>5, <1>7, CacheAssumption

(* Emptying entries keeps a store within its bound.                        *)
LEMMA FewerEntries ==
  ASSUME NEW s0 \in Stores, Cardinality(Filled(s0)) <= MaxEntries,
         NEW s \in Stores, \A k \in Keys : s[k] = s0[k] \/ s[k] = None
  PROVE  Cardinality(Filled(s)) <= MaxEntries
<1>1. Filled(s) \in SUBSET Filled(s0)
  BY DEF Filled
<1>2. IsFiniteSet(Filled(s0)) /\ Cardinality(Filled(s0)) \in Nat
  BY KeysFinite, FS_Subset, FS_CardinalityType DEF Filled
<1>3. Cardinality(Filled(s)) <= Cardinality(Filled(s0)) /\ Cardinality(Filled(s)) \in Nat
  BY <1>1, <1>2, FS_Subset, FS_CardinalityType
<1> QED BY <1>2, <1>3, CacheAssumption

LEMMA NoEntriesTyped ==
  NoEntries \in Stores /\ Cardinality(Filled(NoEntries)) <= MaxEntries
<1>1. Filled(NoEntries) = {}
  BY DEF Filled, NoEntries
<1> QED BY <1>1, FS_EmptySet, CacheAssumption DEF NoEntries, Stores

-----------------------------------------------------------------------------
(* Types are kept, one part of the state at a time                         *)

VersionsTyped ==
  /\ now \in 0 .. MaxTime
  /\ stamps \in [Orgs -> Seq(0 .. MaxTime)]
  /\ \A o \in Orgs : Version(o) \in Versions
  /\ pending \in [Instances -> [Orgs -> Nat]]
  /\ cleared \in [Instances -> [Orgs -> Versions]]

StoresTyped ==
  /\ store \in [Instances -> Stores]
  /\ \A i \in Instances : Cardinality(Filled(store[i])) <= MaxEntries

RequestsTyped ==
  /\ inflight \in [Instances -> [Keys -> Requests \cup {None}]]
  /\ request \in [Requests -> Asking \cup {Idle}]
  /\ \A r \in Requests : request[r] # Idle => ReaderOf(request[r]) \in Readers

LEMMA TypeParts == TypeOK <=> VersionsTyped /\ StoresTyped /\ RequestsTyped
  BY DEF TypeOK, VersionsTyped, StoresTyped, RequestsTyped, Stores, ReaderOf

LEMMA InitTyped == Init => TypeOK
<1> SUFFICES ASSUME Init PROVE TypeOK
  OBVIOUS
<1>1. VersionsTyped
  <2>1. 0 \in 0 .. MaxTime /\ 0 \in Versions
    BY CacheAssumption DEF Versions
  <2>2. stamps \in [Orgs -> Seq(0 .. MaxTime)] /\ \A o \in Orgs : Len(stamps[o]) = 0
    BY DEF Init
  <2> QED BY <2>1, <2>2 DEF Init, VersionsTyped, Version
<1>2. StoresTyped
  BY NoEntriesTyped DEF Init, StoresTyped
<1>3. RequestsTyped
  BY DEF Init, RequestsTyped, NoEntries
<1> QED BY <1>1, <1>2, <1>3, TypeParts

LEMMA HitTyped ==
  ASSUME TypeOK, NEW r \in Requests, NEW i \in Instances, NEW p \in Readers,
         Hit(r, i, p[1], p[2])
  PROVE  TypeOK'
<1> DEFINE key == KeyOf(p[1], p[2])
           e == store[i][key]
           q == Answered(Asked("loading", i, p[1], p[2]), e.value)
<1>1. VersionsTyped /\ StoresTyped /\ RequestsTyped
  BY TypeParts
<1>2. e.value \in Values
  BY <1>1, ReaderTyped DEF Hit, Fresh, StoresTyped, Stores
<1>3. q \in Asking /\ q # Idle /\ q.kind = p[1] /\ q.member = p[2]
  BY <1>2, AskedTyped, AnsweredTyped
<1>4. ReaderOf(q) \in Readers
  BY <1>3, ReaderTyped DEF ReaderOf
<1>5. request' = [request EXCEPT ![r] = q]
  BY DEF Hit
<1> HIDE DEF q, e, key
<1>6. RequestsTyped'
  BY <1>1, <1>3, <1>4, <1>5 DEF Hit, RequestsTyped
<1>7. VersionsTyped' /\ StoresTyped'
  BY <1>1 DEF Hit, VersionsTyped, StoresTyped, Version
<1> QED BY <1>6, <1>7, TypeParts, PTL

LEMMA MissTyped ==
  ASSUME TypeOK, NEW r \in Requests, NEW i \in Instances, NEW p \in Readers,
         Share(r, i, p[1], p[2]) \/ Load(r, i, p[1], p[2])
  PROVE  TypeOK'
<1> DEFINE key == KeyOf(p[1], p[2])
<1>1. VersionsTyped /\ StoresTyped /\ RequestsTyped /\ key \in Keys
  BY TypeParts, ReaderTyped
<1>2. PICK st \in {"loading", "waiting"} : Miss(r, i, p[1], p[2], st)
  BY DEF Share, Load
<1> DEFINE q == Asked(st, i, p[1], p[2])
<1>3. q \in Asking /\ q # Idle /\ ReaderOf(q) \in Readers
  BY AskedTyped, ReaderTyped DEF ReaderOf
<1>4. request' = [request EXCEPT ![r] = q] /\ store' = [store EXCEPT ![i][key] = None]
  BY <1>2 DEF Miss
<1>5. inflight' \in [Instances -> [Keys -> Requests \cup {None}]]
  BY <1>1 DEF Share, Load, RequestsTyped
<1> HIDE DEF q
<1>6. RequestsTyped'
  BY <1>1, <1>3, <1>4, <1>5 DEF RequestsTyped
<1>7. StoresTyped'
  <2>1. store'[i] \in Stores /\ \A k \in Keys : store'[i][k] = store[i][k] \/ store'[i][k] = None
    BY <1>1, <1>4 DEF StoresTyped, Stores
  <2>2. Cardinality(Filled(store'[i])) <= MaxEntries
    BY <1>1, <2>1, FewerEntries DEF StoresTyped
  <2>3. store' \in [Instances -> Stores] /\ \A j \in Instances : j # i => store'[j] = store[j]
    BY <1>1, <1>4, <2>1 DEF StoresTyped
  <2> QED BY <1>1, <2>2, <2>3 DEF StoresTyped, Filled
<1>8. VersionsTyped'
  BY <1>1, <1>2 DEF Miss, VersionsTyped, Version
<1> QED BY <1>6, <1>7, <1>8, TypeParts, PTL

(* Those who share a load ask for the same key on the same instance.       *)
LEMMA SharingTyped ==
  ASSUME TypeOK, NEW r \in Requests, Loading(r), NEW w \in Sharing(r)
  PROVE  /\ w \in Requests /\ request[w].st \in UnderWay
         /\ request[w] \in Asking /\ ReaderOf(request[w]) \in Readers
         /\ request[w].inst = request[r].inst
         /\ KeyAsked(request[w]) = KeyAsked(request[r])
<1>1. w \in Requests /\ request[w].st \in UnderWay
  BY DEF Sharing, Loading, Waiting, UnderWay
<1>2. request[w] \in Asking /\ ReaderOf(request[w]) \in Readers
  BY <1>1, RequestTyped DEF UnderWay
<1> QED BY <1>1, <1>2 DEF Sharing

(* What a load brings, and what it leaves of the store.                    *)
LEMMA LoadedTyped ==
  ASSUME TypeOK, NEW r \in Requests, LoadEnds(r)
  PROVE  \E value \in Values, s \in Room(store[request[r].inst]) :
           /\ value.audience = Audience(request[r].kind, request[r].member)
           /\ value.raced = request[r].raced
           /\ value.version = Missing \/ value.version >= request[r].from
           /\ store' = [store EXCEPT ![request[r].inst] =
                          [s EXCEPT ![KeyAsked(request[r])] = Entry(value)]]
           /\ request' = [w \in Requests |->
                IF w \in Sharing(r) THEN Answered(request[w], value) ELSE request[w]]
<1> DEFINE q == request[r]
<1>1. VersionsTyped
  BY TypeParts
<1>2. /\ q \in Asking /\ ReaderOf(q) \in Readers
      /\ OrgAsked(q) \in Orgs /\ q.from \in Versions
  BY RequestTyped DEF LoadEnds, Loading
<1>3. PICK v \in {Missing} \cup (q.from .. Version(OrgAsked(q))), s \in Room(store[q.inst]) :
        LET value == Value(Audience(q.kind, q.member), v, q.raced)
        IN  /\ store' = [store EXCEPT ![q.inst] = [s EXCEPT ![KeyAsked(q)] = Entry(value)]]
            /\ request' = [w \in Requests |->
                 IF w \in Sharing(r) THEN Answered(request[w], value) ELSE request[w]]
  BY DEF LoadEnds
<1> DEFINE value == Value(Audience(q.kind, q.member), v, q.raced)
<1>4. Audience(q.kind, q.member) \in {Audience(x[1], x[2]) : x \in Readers}
  BY <1>2 DEF ReaderOf
<1>5. v \in {Missing} \cup Versions /\ (v = Missing \/ v >= q.from)
  <2>1. Version(OrgAsked(q)) \in Versions /\ q.from \in Versions
    BY <1>1, <1>2 DEF VersionsTyped
  <2>2. \A a, b \in Versions : a .. b \subseteq Versions /\ \A x \in a .. b : x >= a
    BY CacheAssumption DEF Versions
  <2> QED BY <2>1, <2>2
<1>6. q.raced \in BOOLEAN
  BY <1>2 DEF Asking
<1>7. value \in Values /\ value.audience = Audience(q.kind, q.member)
      /\ value.raced = q.raced /\ value.version = v
  BY <1>4, <1>5, <1>6 DEF Value, Values
<1> HIDE DEF value
<1>8. /\ store' = [store EXCEPT ![q.inst] = [s EXCEPT ![KeyAsked(q)] = Entry(value)]]
      /\ request' = [w \in Requests |->
           IF w \in Sharing(r) THEN Answered(request[w], value) ELSE request[w]]
  BY <1>3 DEF value
<1> QED BY <1>5, <1>7, <1>8

LEMMA LoadEndsTyped ==
  ASSUME TypeOK, NEW r \in Requests, LoadEnds(r)
  PROVE  TypeOK'
<1> DEFINE q == request[r]
           i == q.inst
           key == KeyAsked(q)
<1>1. VersionsTyped /\ StoresTyped /\ RequestsTyped
  BY TypeParts
<1>2. i \in Instances /\ key \in Keys
  BY RequestTyped DEF LoadEnds, Loading
<1>3. PICK value \in Values, s \in Room(store[i]) :
        /\ store' = [store EXCEPT ![i] = [s EXCEPT ![key] = Entry(value)]]
        /\ request' = [w \in Requests |->
             IF w \in Sharing(r) THEN Answered(request[w], value) ELSE request[w]]
  BY LoadedTyped
<1>5. Entry(value) \in [value : Values, stored : 0 .. MaxTime]
  BY <1>1 DEF Entry, VersionsTyped
<1>6. inflight' \in [Instances -> [Keys -> Requests \cup {None}]]
  BY <1>1, <1>2 DEF LoadEnds, NoLongerLoading, RequestsTyped
<1>7. \A w \in Sharing(r) : LET a == Answered(request[w], value)
                           IN  a \in Asking /\ a # Idle /\ ReaderOf(a) \in Readers
  <2> SUFFICES ASSUME NEW w \in Sharing(r)
               PROVE  LET a == Answered(request[w], value)
                      IN  a \in Asking /\ a # Idle /\ ReaderOf(a) \in Readers
    OBVIOUS
  <2>1. request[w] \in Asking /\ ReaderOf(request[w]) \in Readers
    BY SharingTyped DEF LoadEnds
  <2> DEFINE a == Answered(request[w], value)
  <2>2. a \in Asking /\ a # Idle /\ a.kind = request[w].kind /\ a.member = request[w].member
    BY <2>1, AnsweredTyped
  <2> HIDE DEF a
  <2>3. ReaderOf(a) \in Readers
    BY <2>1, <2>2 DEF ReaderOf
  <2> QED BY <2>2, <2>3 DEF a
<1>8. RequestsTyped'
  BY <1>1, <1>3, <1>6, <1>7 DEF RequestsTyped
<1>9. StoresTyped'
  <2>1. s \in Stores /\ Cardinality(Filled([s EXCEPT ![key] = Entry(value)])) <= MaxEntries
    BY <1>1, <1>2, RoomBounds DEF StoresTyped
  <2>2. [s EXCEPT ![key] = Entry(value)] \in Stores
    BY <1>2, <1>5, <2>1 DEF Stores
  <2>4. /\ store' \in [Instances -> Stores] /\ store'[i] = [s EXCEPT ![key] = Entry(value)]
        /\ \A j \in Instances : j # i => store'[j] = store[j]
    BY <1>1, <1>2, <1>3, <2>2 DEF StoresTyped
  <2> QED BY <1>1, <2>1, <2>4 DEF StoresTyped, Filled
<1>10. VersionsTyped'
  BY <1>1 DEF LoadEnds, VersionsTyped, Version
<1> QED BY <1>8, <1>9, <1>10, TypeParts, PTL

LEMMA LoadFailsTyped ==
  ASSUME TypeOK, NEW r \in Requests, LoadFails(r)
  PROVE  TypeOK'
<1>1. VersionsTyped /\ StoresTyped /\ RequestsTyped
  BY TypeParts
<1>2. request[r].inst \in Instances /\ KeyAsked(request[r]) \in Keys
  BY RequestTyped DEF LoadFails, Loading
<1>3. RequestsTyped'
  BY <1>1, <1>2 DEF LoadFails, NoLongerLoading, RequestsTyped
<1>4. VersionsTyped' /\ StoresTyped'
  BY <1>1 DEF LoadFails, VersionsTyped, StoresTyped, Version
<1> QED BY <1>3, <1>4, TypeParts, PTL

LEMMA WriteTyped ==
  ASSUME TypeOK, NEW o \in Orgs, Change(o) \/ \E i \in Instances : Author(i, o)
  PROVE  TypeOK'
<1>1. VersionsTyped /\ StoresTyped /\ RequestsTyped
  BY TypeParts
<1>2. stamps' \in [Orgs -> Seq(0 .. MaxTime)] /\ \A a \in Orgs : Len(stamps'[a]) \in Versions
  <2>1. /\ stamps[o] \in Seq(0 .. MaxTime) /\ Len(stamps[o]) \in Versions
        /\ Len(stamps[o]) < MaxWrites /\ stamps' = [stamps EXCEPT ![o] = Append(stamps[o], now)]
    BY <1>1 DEF Change, Author, Changed, VersionsTyped, Version
  <2>2. /\ Append(stamps[o], now) \in Seq(0 .. MaxTime)
        /\ Len(Append(stamps[o], now)) = Len(stamps[o]) + 1
    BY <1>1, <2>1 DEF VersionsTyped
  <2>3. Len(stamps[o]) + 1 \in Versions
    BY <2>1, CacheAssumption DEF Versions
  <2> QED BY <1>1, <2>1, <2>2, <2>3 DEF VersionsTyped, Version
<1>3. pending' \in [Instances -> [Orgs -> Nat]]
  <2>1. CASE Change(o)
    BY <1>1, <2>1 DEF Change, VersionsTyped
  <2>2. ASSUME NEW i \in Instances, Author(i, o)
        PROVE  pending' \in [Instances -> [Orgs -> Nat]]
    <3>1. pending[i] \in [Orgs -> Nat] /\ pending[i][o] + 1 \in Nat
      BY <1>1 DEF VersionsTyped
    <3>2. [pending[i] EXCEPT ![o] = pending[i][o] + 1] \in [Orgs -> Nat]
      BY <3>1
    <3>3. pending' = [pending EXCEPT ![i] = [pending[i] EXCEPT ![o] = pending[i][o] + 1]]
      BY <2>2 DEF Author
    <3> QED BY <1>1, <3>2, <3>3 DEF VersionsTyped
  <2> QED BY <2>1, <2>2
<1>4. VersionsTyped'
  BY <1>1, <1>2, <1>3 DEF Change, Author, VersionsTyped, Version
<1>5. StoresTyped' /\ RequestsTyped'
  BY <1>1 DEF Change, Author, StoresTyped, RequestsTyped
<1> QED BY <1>4, <1>5, TypeParts, PTL

LEMMA RacedTyped ==
  ASSUME NEW q \in Asking
  PROVE  LET a == [q EXCEPT !.raced = TRUE]
         IN  a \in Asking /\ a # Idle /\ ReaderOf(a) = ReaderOf(q)
  BY DEF Asking, Idle, ReaderOf

LEMMA InvalidateTyped ==
  ASSUME TypeOK, NEW i \in Instances, NEW o \in Orgs, InvalidateOrg(i, o)
  PROVE  TypeOK'
<1>1. VersionsTyped /\ StoresTyped /\ RequestsTyped
  BY TypeParts
<1>2. VersionsTyped'
  BY <1>1 DEF InvalidateOrg, VersionsTyped, Version
<1>3. StoresTyped'
  <2>1. Invalidated(store[i], o) \in Stores
    BY <1>1 DEF Invalidated, StoresTyped, Stores
  <2>2. \A k \in Keys : \/ Invalidated(store[i], o)[k] = store[i][k]
                        \/ Invalidated(store[i], o)[k] = None
    BY DEF Invalidated
  <2>3. Cardinality(Filled(Invalidated(store[i], o))) <= MaxEntries
    BY <1>1, <2>1, <2>2, FewerEntries DEF StoresTyped
  <2>4. store' = [store EXCEPT ![i] = Invalidated(store[i], o)]
    BY DEF InvalidateOrg
  <2>5. /\ store' \in [Instances -> Stores] /\ store'[i] = Invalidated(store[i], o)
        /\ \A j \in Instances : j # i => store'[j] = store[j]
    BY <1>1, <2>1, <2>4 DEF StoresTyped
  <2> QED BY <1>1, <2>3, <2>5 DEF StoresTyped, Filled
<1>4. RequestsTyped'
  <2>1. \A r \in Requests : Loading(r) => request[r] \in Asking
    BY RequestTyped DEF Loading
  <2>2. \A r \in Requests : request'[r] = request[r] \/
          /\ Loading(r) /\ request'[r] = [request[r] EXCEPT !.raced = TRUE]
    BY DEF InvalidateOrg
  <2>3. \A r \in Requests : /\ request'[r] \in Asking \cup {Idle}
                            /\ request'[r] # Idle => ReaderOf(request'[r]) \in Readers
    <3> SUFFICES ASSUME NEW r \in Requests
                 PROVE  /\ request'[r] \in Asking \cup {Idle}
                        /\ request'[r] # Idle => ReaderOf(request'[r]) \in Readers
      OBVIOUS
    <3>1. CASE request'[r] = request[r]
      BY <1>1, <3>1 DEF RequestsTyped
    <3>2. CASE Loading(r) /\ request'[r] = [request[r] EXCEPT !.raced = TRUE]
      BY <2>1, <3>2, RacedTyped, RequestTyped DEF Loading
    <3> QED BY <2>2, <3>1, <3>2
  <2>4. request' \in [Requests -> Asking \cup {Idle}]
    BY <2>3 DEF InvalidateOrg
  <2> QED BY <1>1, <2>3, <2>4 DEF InvalidateOrg, RequestsTyped
<1> QED BY <1>2, <1>3, <1>4, TypeParts, PTL

LEMMA RestartTyped ==
  ASSUME TypeOK, NEW i \in Instances, Restart(i)
  PROVE  TypeOK'
<1>1. VersionsTyped /\ StoresTyped /\ RequestsTyped
  BY TypeParts
<1>2. VersionsTyped'
  <2>1. [o \in Orgs |-> 0] \in [Orgs -> Nat] /\ [o \in Orgs |-> 0] \in [Orgs -> Versions]
    BY CacheAssumption DEF Versions
  <2> QED BY <1>1, <2>1 DEF Restart, VersionsTyped, Version
<1>3. StoresTyped'
  <2>1. /\ store' \in [Instances -> Stores] /\ store'[i] = NoEntries
        /\ \A j \in Instances : j # i => store'[j] = store[j]
    BY <1>1, NoEntriesTyped DEF Restart, StoresTyped
  <2> QED BY <1>1, <2>1, NoEntriesTyped DEF StoresTyped, Filled
<1>4. RequestsTyped'
  BY <1>1 DEF Restart, RequestsTyped, NoEntries
<1> QED BY <1>2, <1>3, <1>4, TypeParts, PTL

LEMMA TickTyped ==
  ASSUME TypeOK, Tick
  PROVE  TypeOK'
<1>1. VersionsTyped /\ StoresTyped /\ RequestsTyped
  BY TypeParts
<1>2. VersionsTyped'
  BY <1>1, CacheAssumption DEF Tick, VersionsTyped, Version
<1>3. StoresTyped' /\ RequestsTyped'
  BY <1>1 DEF Tick, StoresTyped, RequestsTyped
<1> QED BY <1>2, <1>3, TypeParts, PTL

LEMMA StutterTyped == TypeOK /\ UNCHANGED vars => TypeOK'
  BY DEF TypeOK, vars, Version

LEMMA Steps ==
  ASSUME Next
  PROVE  \/ \E r \in Requests, i \in Instances, p \in Readers :
              \/ Hit(r, i, p[1], p[2])
              \/ Share(r, i, p[1], p[2]) \/ Load(r, i, p[1], p[2])
         \/ \E r \in Requests : LoadEnds(r) \/ LoadFails(r)
         \/ \E o \in Orgs : Change(o)
         \/ \E i \in Instances, o \in Orgs : Author(i, o)
         \/ \E i \in Instances, o \in Orgs : InvalidateOrg(i, o)
         \/ \E i \in Instances : Restart(i)
         \/ Tick
  BY DEF Next, Ask

(* Types for every number of requests and instances, and the limit of      *)
(* entries (cached's MAX_ENTRIES, lib/cache.ts).                           *)
THEOREM CacheTypeCorrect == Spec => []TypeOK
<1>1. TypeOK /\ [Next]_vars => TypeOK'
  <2> SUFFICES ASSUME TypeOK, [Next]_vars PROVE TypeOK'
    OBVIOUS
  <2>1. CASE UNCHANGED vars
    BY <2>1, StutterTyped
  <2>2. CASE Next
    BY <2>2, Steps, HitTyped, MissTyped, LoadEndsTyped, LoadFailsTyped,
       WriteTyped, InvalidateTyped, RestartTyped, TickTyped
  <2> QED BY <2>1, <2>2
<1> QED BY InitTyped, <1>1, PTL DEF Spec

-----------------------------------------------------------------------------
(* Loads                                                                   *)

(* What a load's end has in common, whether it fails or not.               *)
LEMMA LoadOver ==
  ASSUME TypeOK, NEW r \in Requests, LoadEnds(r) \/ LoadFails(r)
  PROVE  /\ \A w \in Requests \ Sharing(r) : request'[w] = request[w]
         /\ \A w \in Sharing(r) : request'[w].st \notin UnderWay
<1>1. CASE LoadEnds(r)
  <2>1. PICK value \in Values :
          request' = [w \in Requests |->
            IF w \in Sharing(r) THEN Answered(request[w], value) ELSE request[w]]
    BY <1>1, LoadedTyped
  <2>2. \A w \in Sharing(r) : w \in Requests /\ request[w] \in Asking
    BY <1>1, SharingTyped DEF LoadEnds
  <2>3. \A w \in Sharing(r) : request'[w].st = "answered"
    BY <2>1, <2>2 DEF Answered, Asking
  <2> QED BY <2>1, <2>3 DEF UnderWay
<1>2. CASE LoadFails(r)
  <2>1. \A w \in Sharing(r) : w \in Requests
    BY DEF Sharing
  <2> QED BY <1>2, <2>1 DEF LoadFails, Idle, UnderWay
<1> QED BY <1>1, <1>2

(* Only a load of a key is in its way, and only until it ends.             *)
LEMMA LoadsKept ==
  ASSUME TypeOK, TypeOK', LoadsUnderWay, Next
  PROVE  LoadsUnderWay'
<1> USE CacheAssumption
<1>1. RequestsTyped /\ RequestsTyped'
  BY TypeParts, PTL
<1>0. \A j \in Instances, k \in Keys : inflight[j][k] # None =>
        /\ inflight[j][k] \in Requests
        /\ request[inflight[j][k]].st = "loading" /\ request[inflight[j][k]].inst = j
        /\ KeyAsked(request[inflight[j][k]]) = k
  BY <1>1 DEF LoadsUnderWay, RequestsTyped
<1>2. CASE \E r \in Requests, i \in Instances, p \in Readers : Hit(r, i, p[1], p[2])
  <2>1. PICK r \in Requests, i \in Instances, p \in Readers : Hit(r, i, p[1], p[2])
    BY <1>2
  <2>2. /\ request[r].st \notin UnderWay /\ inflight' = inflight
        /\ \A w \in Requests : w # r => request'[w] = request[w]
    BY <1>1, <2>1 DEF Hit, Closed, RequestsTyped
  <2>3. request'[r].st = "answered"
    <3>1. Asked("loading", i, p[1], p[2]) \in Asking
      BY AskedTyped
    <3>2. request'[r] = Answered(Asked("loading", i, p[1], p[2]),
                                 store[i][KeyOf(p[1], p[2])].value)
      BY <1>1, <2>1 DEF Hit, RequestsTyped
    <3> QED BY <3>1, <3>2 DEF Answered, Asking
  <2>4. \A w \in Requests : request'[w].st \in UnderWay => request'[w] = request[w]
    BY <2>2, <2>3 DEF UnderWay
  <2>5. \A j \in Instances, k \in Keys : inflight[j][k] # None => inflight[j][k] # r
    BY <1>0, <2>2 DEF UnderWay
  <2> QED BY <1>0, <2>2, <2>4, <2>5 DEF LoadsUnderWay, Loading, Waiting, UnderWay
<1>3. CASE \E r \in Requests, i \in Instances, p \in Readers :
             Share(r, i, p[1], p[2]) \/ Load(r, i, p[1], p[2])
  <2>1. PICK r \in Requests, i \in Instances, p \in Readers :
          Share(r, i, p[1], p[2]) \/ Load(r, i, p[1], p[2])
    BY <1>3
  <2>2. PICK st \in {"loading", "waiting"} :
          /\ Miss(r, i, p[1], p[2], st)
          /\ st = "waiting" => Share(r, i, p[1], p[2])
          /\ st = "loading" => Load(r, i, p[1], p[2])
    BY <2>1 DEF Share, Load
  <2>3. /\ request[r].st \notin UnderWay
        /\ request'[r].st = st /\ request'[r].inst = i
        /\ KeyAsked(request'[r]) = KeyOf(p[1], p[2])
        /\ \A w \in Requests : w # r => request'[w] = request[w]
    BY <1>1, <2>2, AskedTyped DEF Miss, Closed, RequestsTyped, KeyAsked
  <2>4. CASE Share(r, i, p[1], p[2])
    <3>1. inflight' = inflight /\ inflight[i][KeyOf(p[1], p[2])] # None
      BY <2>4 DEF Share
    <3>2. request'[r].st = "waiting"
      <4>1. request'[r] = Asked("waiting", i, p[1], p[2])
        BY <1>1, <2>4 DEF Share, Miss, RequestsTyped
      <4> QED BY <4>1, AskedTyped
    <3>3. \A j \in Instances, k \in Keys : inflight[j][k] # None => inflight[j][k] # r
      BY <1>0, <2>3 DEF UnderWay
    <3>4. \A w \in Requests : Loading(w)' => w # r /\ request'[w] = request[w]
      BY <2>3, <3>2 DEF Loading
    <3> QED BY <1>0, <2>3, <3>1, <3>3, <3>4 DEF LoadsUnderWay, Loading, Waiting
  <2>5. CASE Load(r, i, p[1], p[2])
    <3>1. KeyOf(p[1], p[2]) \in Keys /\ inflight[i][KeyOf(p[1], p[2])] = None
      BY <2>5, ReaderTyped DEF Load
    <3>2. /\ inflight'[i][KeyOf(p[1], p[2])] = r
          /\ \A j \in Instances, key \in Keys :
               j # i \/ key # KeyOf(p[1], p[2]) => inflight'[j][key] = inflight[j][key]
      BY <1>1, <2>5, <3>1 DEF Load, RequestsTyped
    <3>3. request'[r].st = "loading"
      <4>1. request'[r] = Asked("loading", i, p[1], p[2])
        BY <1>1, <2>5 DEF Load, Miss, RequestsTyped
      <4> QED BY <4>1, AskedTyped
    <3>4. ASSUME NEW w \in Requests, w # r, request[w].st \in UnderWay
          PROVE  request[w].inst \in Instances /\ KeyAsked(request[w]) \in Keys
      BY <3>4, RequestTyped DEF UnderWay
    <3>5. \A w \in Requests : Loading(w)' =>
            inflight'[request'[w].inst][KeyAsked(request'[w])] = w
      BY <2>3, <3>1, <3>2, <3>3, <3>4 DEF LoadsUnderWay, Loading, UnderWay
    <3>6. \A w \in Requests : Waiting(w)' =>
            inflight'[request'[w].inst][KeyAsked(request'[w])] # None
      BY <2>3, <3>1, <3>2, <3>3, <3>4 DEF LoadsUnderWay, Waiting, UnderWay
    <3>7. ASSUME NEW j \in Instances, NEW key \in Keys, inflight'[j][key] # None
          PROVE  LET q == request'[inflight'[j][key]]
                 IN  q.st = "loading" /\ q.inst = j /\ KeyAsked(q) = key
      <4>1. CASE j = i /\ key = KeyOf(p[1], p[2])
        BY <2>3, <3>2, <3>3, <4>1
      <4>2. CASE ~(j = i /\ key = KeyOf(p[1], p[2]))
        <5>1. inflight[j][key] \in Requests /\ inflight'[j][key] = inflight[j][key]
          BY <1>1, <3>2, <3>7, <4>2 DEF RequestsTyped
        <5>2. /\ request[inflight[j][key]].st = "loading"
              /\ request[inflight[j][key]].inst = j
              /\ KeyAsked(request[inflight[j][key]]) = key
          BY <3>7, <5>1 DEF LoadsUnderWay
        <5>3. inflight[j][key] # r
          BY <2>3, <5>2 DEF UnderWay
        <5> QED BY <2>3, <5>1, <5>2, <5>3
      <4> QED BY <4>1, <4>2
    <3> QED BY <3>5, <3>6, <3>7 DEF LoadsUnderWay
  <2> QED BY <2>1, <2>4, <2>5
<1>4. CASE \E r \in Requests : LoadEnds(r) \/ LoadFails(r)
  <2>1. PICK r \in Requests : LoadEnds(r) \/ LoadFails(r)
    BY <1>4
  <2> DEFINE i == request[r].inst
             key == KeyAsked(request[r])
  <2>2. /\ Loading(r) /\ i \in Instances /\ key \in Keys
        /\ inflight' = [inflight EXCEPT ![i][key] = None]
    BY <2>1, RequestTyped DEF LoadEnds, LoadFails, Loading, NoLongerLoading
  <2>3. /\ \A w \in Requests \ Sharing(r) : request'[w] = request[w]
        /\ \A w \in Sharing(r) : request'[w].st \notin UnderWay
    BY <2>1, LoadOver
  <2>4. /\ inflight'[i][key] = None
        /\ \A j \in Instances, k \in Keys :
             j # i \/ k # key => inflight'[j][k] = inflight[j][k]
    BY <1>1, <2>2 DEF RequestsTyped
  <2>5. \A w \in Requests : request[w].st \in UnderWay =>
          request[w].inst \in Instances /\ KeyAsked(request[w]) \in Keys
    BY RequestTyped DEF UnderWay
  <2>6. inflight[i][key] = r
    BY <2>2 DEF LoadsUnderWay
  <2>7. ASSUME NEW w \in Requests, Loading(w)'
        PROVE  inflight'[request'[w].inst][KeyAsked(request'[w])] = w
    <3>1. w \notin Sharing(r) /\ request'[w] = request[w] /\ Loading(w) /\ w # r
      BY <2>3, <2>7 DEF Loading, UnderWay, Sharing
    <3>2. inflight[request[w].inst][KeyAsked(request[w])] = w
      BY <3>1 DEF LoadsUnderWay
    <3>3. request[w].inst # i \/ KeyAsked(request[w]) # key
      BY <2>6, <3>1, <3>2
    <3> QED BY <2>4, <2>5, <3>1, <3>2, <3>3 DEF Loading, UnderWay
  <2>8. ASSUME NEW w \in Requests, Waiting(w)'
        PROVE  inflight'[request'[w].inst][KeyAsked(request'[w])] # None
    <3>1. w \notin Sharing(r) /\ request'[w] = request[w] /\ Waiting(w)
      BY <2>3, <2>8 DEF Waiting, UnderWay
    <3>2. request[w].inst # i \/ KeyAsked(request[w]) # key
      BY <3>1 DEF Sharing
    <3>3. inflight[request[w].inst][KeyAsked(request[w])] # None
      BY <3>1 DEF LoadsUnderWay
    <3> QED BY <2>4, <2>5, <3>1, <3>2, <3>3 DEF Waiting, UnderWay
  <2>9. ASSUME NEW j \in Instances, NEW k \in Keys, inflight'[j][k] # None
        PROVE  LET q == request'[inflight'[j][k]]
               IN  q.st = "loading" /\ q.inst = j /\ KeyAsked(q) = k
    <3>1. inflight'[j][k] = inflight[j][k] /\ (j # i \/ k # key)
      BY <2>4, <2>9
    <3>2. /\ inflight[j][k] \in Requests
          /\ request[inflight[j][k]].st = "loading"
          /\ request[inflight[j][k]].inst = j /\ KeyAsked(request[inflight[j][k]]) = k
      BY <1>1, <2>9, <3>1 DEF LoadsUnderWay, RequestsTyped
    <3>3. inflight[j][k] \notin Sharing(r)
      BY <3>1, <3>2 DEF Sharing
    <3> QED BY <2>3, <3>1, <3>2, <3>3
  <2> QED BY <2>7, <2>8, <2>9 DEF LoadsUnderWay
<1>5. CASE \/ \E o \in Orgs : Change(o)
           \/ \E i \in Instances, o \in Orgs : Author(i, o)
           \/ Tick
  BY <1>5 DEF Change, Author, Tick, LoadsUnderWay, Loading, Waiting
<1>6. CASE \E i \in Instances, o \in Orgs : InvalidateOrg(i, o)
  <2>1. PICK i \in Instances, o \in Orgs : InvalidateOrg(i, o)
    BY <1>6
  <2>2. \A r \in Requests : Loading(r) => request[r] \in Asking
    BY RequestTyped DEF Loading
  <2>3. \A r \in Requests : /\ request'[r].st = request[r].st
                            /\ request'[r] # Idle \/ request[r] # Idle =>
                                 /\ request'[r].inst = request[r].inst
                                 /\ KeyAsked(request'[r]) = KeyAsked(request[r])
    BY <2>1, <2>2 DEF InvalidateOrg, Asking, KeyAsked
  <2>4. inflight' = inflight /\ Idle.st = "idle"
    BY <2>1 DEF InvalidateOrg, Idle
  <2>5. \A r \in Requests : Loading(r) \/ Waiting(r) => request[r] # Idle
    BY <2>4 DEF Loading, Waiting
  <2>6. \A r \in Requests : (Loading(r)' <=> Loading(r)) /\ (Waiting(r)' <=> Waiting(r))
    BY <2>3 DEF Loading, Waiting
  <2>7. \A j \in Instances, k \in Keys : inflight[j][k] # None => inflight[j][k] \in Requests
    BY <1>1 DEF RequestsTyped
  <2> QED BY <2>3, <2>4, <2>5, <2>6, <2>7 DEF LoadsUnderWay, Loading, Waiting
<1>7. CASE \E i \in Instances : Restart(i)
  <2>1. PICK i \in Instances : Restart(i)
    BY <1>7
  <2>2. /\ inflight'[i] = NoEntries
        /\ \A j \in Instances : j # i => inflight'[j] = inflight[j]
    BY <1>1, <2>1 DEF Restart, RequestsTyped
  <2>3. \A r \in Requests :
          request'[r] = IF request[r].st \in UnderWay /\ request[r].inst = i
                        THEN Idle ELSE request[r]
    BY <2>1 DEF Restart
  <2>4. \A r \in Requests : request'[r].st \in UnderWay =>
          /\ request'[r] = request[r] /\ request[r].inst # i
          /\ request[r].inst \in Instances
    BY <2>3, RequestTyped DEF Idle, UnderWay
  <2>5. \A w \in Requests : Loading(w)' =>
          inflight'[request'[w].inst][KeyAsked(request'[w])] = w
    BY <2>2, <2>4 DEF LoadsUnderWay, Loading, UnderWay
  <2>6. \A w \in Requests : Waiting(w)' =>
          inflight'[request'[w].inst][KeyAsked(request'[w])] # None
    BY <2>2, <2>4 DEF LoadsUnderWay, Waiting, UnderWay
  <2>7. ASSUME NEW j \in Instances, NEW k \in Keys, inflight'[j][k] # None
        PROVE  LET q == request'[inflight'[j][k]]
               IN  q.st = "loading" /\ q.inst = j /\ KeyAsked(q) = k
    <3>1. j # i /\ inflight'[j][k] = inflight[j][k]
      BY <2>2, <2>7 DEF NoEntries
    <3>2. /\ inflight[j][k] \in Requests
          /\ request[inflight[j][k]].inst = j /\ request[inflight[j][k]].st = "loading"
          /\ KeyAsked(request[inflight[j][k]]) = k
      BY <1>1, <2>7, <3>1 DEF LoadsUnderWay, RequestsTyped
    <3> QED BY <2>3, <3>1, <3>2
  <2> QED BY <2>5, <2>6, <2>7 DEF LoadsUnderWay
<1> QED BY <1>2, <1>3, <1>4, <1>5, <1>6, <1>7, Steps

(* Nobody waits for a load that will not end (lib/cache.ts:86 and 103).    *)
THEOREM WaitersHaveALoad == Spec => []LoadsUnderWay
<1>1. Init => LoadsUnderWay
  BY DEF Init, LoadsUnderWay, Loading, Waiting, Idle, NoEntries
<1>2. TypeOK /\ TypeOK' /\ LoadsUnderWay /\ UNCHANGED vars => LoadsUnderWay'
  BY DEF LoadsUnderWay, Loading, Waiting, vars
<1>3. TypeOK /\ TypeOK' /\ LoadsUnderWay /\ [Next]_vars => LoadsUnderWay'
  BY <1>2, LoadsKept
<1> QED BY <1>1, <1>3, CacheTypeCorrect, PTL DEF Spec

-----------------------------------------------------------------------------
(* Whose rows                                                              *)

(* An entry is what each reader with its key would read.                   *)
EntriesOwn ==
  \A i \in Instances, p \in Readers : store[i][KeyOf(p[1], p[2])] # None =>
    store[i][KeyOf(p[1], p[2])].value.audience = Audience(p[1], p[2])

LEMMA OwnKept ==
  ASSUME TypeOK, EntriesOwn, AnswersAreOwn, Next
  PROVE  EntriesOwn' /\ AnswersAreOwn'
<1>1. StoresTyped /\ RequestsTyped
  BY TypeParts
<1>2. CASE \E r \in Requests, i \in Instances, p \in Readers : Hit(r, i, p[1], p[2])
  <2>1. PICK r \in Requests, i \in Instances, p \in Readers : Hit(r, i, p[1], p[2])
    BY <1>2
  <2> DEFINE e == store[i][KeyOf(p[1], p[2])]
             q == Answered(Asked("loading", i, p[1], p[2]), e.value)
  <2>2. /\ request' = [request EXCEPT ![r] = q] /\ store' = store
        /\ e # None /\ KeyOf(p[1], p[2]) \in Keys
    BY <2>1, ReaderTyped DEF Hit, Fresh
  <2>3. e.value \in Values /\ e.value.audience = Audience(p[1], p[2])
    BY <1>1, <2>2 DEF StoresTyped, Stores, EntriesOwn
  <2>4. q.value = e.value /\ q.kind = p[1] /\ q.member = p[2]
    BY <2>3, AskedTyped, AnsweredTyped
  <2> HIDE DEF q
  <2>5. AnswersAreOwn'
    BY <1>1, <2>2, <2>3, <2>4 DEF RequestsTyped, AnswersAreOwn
  <2> QED BY <2>2, <2>5 DEF EntriesOwn
<1>3. CASE \E r \in Requests, i \in Instances, p \in Readers :
             Share(r, i, p[1], p[2]) \/ Load(r, i, p[1], p[2])
  <2>1. PICK r \in Requests, i \in Instances, p \in Readers :
          Share(r, i, p[1], p[2]) \/ Load(r, i, p[1], p[2])
    BY <1>3
  <2>2. PICK st \in {"loading", "waiting"} : Miss(r, i, p[1], p[2], st)
    BY <2>1 DEF Share, Load
  <2>3. /\ request' = [request EXCEPT ![r] = Asked(st, i, p[1], p[2])]
        /\ store' = [store EXCEPT ![i][KeyOf(p[1], p[2])] = None]
        /\ Asked(st, i, p[1], p[2]).st # "answered"
    BY <2>2, AskedTyped DEF Miss
  <2>4. AnswersAreOwn'
    BY <1>1, <2>3 DEF RequestsTyped, AnswersAreOwn
  <2>5. \A j \in Instances, k \in Keys : store'[j][k] = store[j][k] \/ store'[j][k] = None
    BY <1>1, <2>3 DEF StoresTyped, Stores
  <2> QED BY <2>4, <2>5, ReaderTyped DEF EntriesOwn
<1>4. CASE \E r \in Requests : LoadEnds(r)
  <2>1. PICK r \in Requests : LoadEnds(r)
    BY <1>4
  <2> DEFINE own == request[r]
             i == own.inst
             key == KeyAsked(own)
  <2>2. /\ own \in Asking /\ ReaderOf(own) \in Readers /\ i \in Instances /\ key \in Keys
        /\ Loading(r)
    BY <2>1, RequestTyped DEF LoadEnds, Loading
  <2>3. PICK value \in Values, s \in Room(store[i]) :
          /\ value.audience = Audience(own.kind, own.member)
          /\ store' = [store EXCEPT ![i] = [s EXCEPT ![key] = Entry(value)]]
          /\ request' = [w \in Requests |->
               IF w \in Sharing(r) THEN Answered(request[w], value) ELSE request[w]]
    BY <2>1, LoadedTyped
  <2>4. ASSUME NEW p \in Readers, KeyOf(p[1], p[2]) = key
        PROVE  Audience(p[1], p[2]) = Audience(own.kind, own.member)
    BY <2>2, <2>4, KeysSeparate DEF KeyAsked, ReaderOf
  <2>5. EntriesOwn'
    <3>1. s \in Stores /\ \A k \in Keys : s[k] # None => s[k] = store[i][k]
      BY <1>1, <2>2, RoomBounds DEF StoresTyped
    <3>2. /\ store'[i] = [s EXCEPT ![key] = Entry(value)]
          /\ \A j \in Instances : j # i => store'[j] = store[j]
      BY <1>1, <2>2, <2>3 DEF StoresTyped
    <3>3. /\ store'[i][key] = Entry(value) /\ Entry(value).value = value
          /\ \A k \in Keys : k # key => store'[i][k] = s[k]
      BY <2>2, <3>1, <3>2 DEF Stores, Entry
    <3> SUFFICES ASSUME NEW j \in Instances, NEW p \in Readers,
                        store'[j][KeyOf(p[1], p[2])] # None
                 PROVE  store'[j][KeyOf(p[1], p[2])].value.audience = Audience(p[1], p[2])
      BY DEF EntriesOwn
    <3>4. KeyOf(p[1], p[2]) \in Keys
      BY ReaderTyped
    <3>5. CASE j = i /\ KeyOf(p[1], p[2]) = key
      BY <2>3, <2>4, <3>3, <3>5
    <3>6. CASE j = i /\ KeyOf(p[1], p[2]) # key
      BY <3>1, <3>3, <3>4, <3>6 DEF EntriesOwn
    <3>7. CASE j # i
      BY <3>2, <3>7 DEF EntriesOwn
    <3> QED BY <3>5, <3>6, <3>7
  <2>6. AnswersAreOwn'
    <3> SUFFICES ASSUME NEW w \in Requests, request'[w].st = "answered"
                 PROVE  request'[w].value.audience = Audience(request'[w].kind, request'[w].member)
      BY DEF AnswersAreOwn
    <3>1. CASE w \notin Sharing(r)
      BY <2>3, <3>1 DEF AnswersAreOwn
    <3>2. CASE w \in Sharing(r)
      <4>1. /\ request[w] \in Asking /\ ReaderOf(request[w]) \in Readers
            /\ KeyAsked(request[w]) = key
        BY <2>2, <3>2, SharingTyped
      <4>2. /\ request'[w].value = value /\ request'[w].kind = request[w].kind
            /\ request'[w].member = request[w].member
        BY <2>3, <3>2, <4>1, AnsweredTyped
      <4>3. Audience(request[w].kind, request[w].member) = Audience(own.kind, own.member)
        BY <2>4, <4>1 DEF KeyAsked, ReaderOf
      <4> QED BY <2>3, <4>2, <4>3
    <3> QED BY <3>1, <3>2
  <2> QED BY <2>5, <2>6
<1>5. CASE \E r \in Requests : LoadFails(r)
  BY <1>5 DEF LoadFails, EntriesOwn, AnswersAreOwn, Idle
<1>6. CASE \/ \E o \in Orgs : Change(o)
           \/ \E i \in Instances, o \in Orgs : Author(i, o)
           \/ Tick
  BY <1>6 DEF Change, Author, Tick, EntriesOwn, AnswersAreOwn
<1>7. CASE \E i \in Instances, o \in Orgs : InvalidateOrg(i, o)
  <2>1. PICK i \in Instances, o \in Orgs : InvalidateOrg(i, o)
    BY <1>7
  <2>2. \A j \in Instances, k \in Keys : store'[j][k] = store[j][k] \/ store'[j][k] = None
    BY <1>1, <2>1 DEF InvalidateOrg, Invalidated, StoresTyped, Stores
  <2>3. \A r \in Requests : request'[r].st = "answered" => request'[r] = request[r]
    <3>1. \A r \in Requests : Loading(r) => request[r] \in Asking /\ request[r].st = "loading"
      BY RequestTyped DEF Loading
    <3> QED BY <2>1, <3>1 DEF InvalidateOrg, Asking
  <2> QED BY <2>2, <2>3, ReaderTyped DEF EntriesOwn, AnswersAreOwn
<1>8. CASE \E i \in Instances : Restart(i)
  <2>1. PICK i \in Instances : Restart(i)
    BY <1>8
  <2>2. \A j \in Instances, k \in Keys : store'[j][k] = store[j][k] \/ store'[j][k] = None
    BY <1>1, <2>1 DEF Restart, NoEntries, StoresTyped, Stores
  <2>3. \A r \in Requests : request'[r].st = "answered" => request'[r] = request[r]
    BY <2>1 DEF Restart, Idle
  <2> QED BY <2>2, <2>3, ReaderTyped DEF EntriesOwn, AnswersAreOwn
<1> QED BY <1>2, <1>3, <1>4, <1>5, <1>6, <1>7, <1>8, Steps

(* A cached report or palette is shown only to those it was read for, as   *)
(* lib/cache.ts:18 demands of every key.                                   *)
THEOREM OnlyOwnRowsShown == Spec => []AnswersAreOwn
<1>1. Init => EntriesOwn /\ AnswersAreOwn
  BY ReaderTyped DEF Init, EntriesOwn, AnswersAreOwn, Idle, NoEntries
<1>2. EntriesOwn /\ AnswersAreOwn /\ UNCHANGED vars => EntriesOwn' /\ AnswersAreOwn'
  BY DEF EntriesOwn, AnswersAreOwn, vars
<1>3. TypeOK /\ EntriesOwn /\ AnswersAreOwn /\ [Next]_vars => EntriesOwn' /\ AnswersAreOwn'
  BY <1>2, OwnKept
<1> QED BY <1>1, <1>3, CacheTypeCorrect, PTL DEF Spec

-----------------------------------------------------------------------------
(* Invalidation                                                            *)

(* A load that was not overtaken by an invalidation reads what is newer    *)
(* than the last one.                                                      *)
LoadsAreLater ==
  \A r \in Requests : Loading(r) =>
    \/ request[r].raced
    \/ request[r].from >= cleared[request[r].inst][OrgAsked(request[r])]

ClearedBefore == \A i \in Instances, o \in Orgs : cleared[i][o] <= Version(o)

LEMMA LaterKept ==
  ASSUME TypeOK, LoadsAreLater, ClearedBefore, Next
  PROVE  LoadsAreLater' /\ ClearedBefore'
<1>1. VersionsTyped /\ RequestsTyped
  BY TypeParts
<1>2. \A r \in Requests : Loading(r) =>
        /\ request[r] \in Asking /\ request[r].inst \in Instances
        /\ OrgAsked(request[r]) \in Orgs /\ request[r].from \in Versions
  BY RequestTyped DEF Loading
<1>3. CASE \E r \in Requests, i \in Instances, p \in Readers : Hit(r, i, p[1], p[2])
  <2>1. PICK r \in Requests, i \in Instances, p \in Readers : Hit(r, i, p[1], p[2])
    BY <1>3
  <2>2. Asked("loading", i, p[1], p[2]) \in Asking
    BY AskedTyped
  <2>3. request'[r] = Answered(Asked("loading", i, p[1], p[2]), store[i][KeyOf(p[1], p[2])].value)
        /\ \A w \in Requests : w # r => request'[w] = request[w]
    BY <1>1, <2>1 DEF Hit, RequestsTyped
  <2>4. request'[r].st = "answered"
    BY <2>2, <2>3 DEF Answered, Asking
  <2> QED BY <2>1, <2>3, <2>4 DEF Hit, LoadsAreLater, ClearedBefore, Loading, Version
<1>4. CASE \E r \in Requests, i \in Instances, p \in Readers :
             Share(r, i, p[1], p[2]) \/ Load(r, i, p[1], p[2])
  <2>1. PICK r \in Requests, i \in Instances, p \in Readers :
          Share(r, i, p[1], p[2]) \/ Load(r, i, p[1], p[2])
    BY <1>4
  <2>2. PICK st \in {"loading", "waiting"} : Miss(r, i, p[1], p[2], st)
    BY <2>1 DEF Share, Load
  <2>3. /\ request'[r] = Asked(st, i, p[1], p[2])
        /\ \A w \in Requests : w # r => request'[w] = request[w]
        /\ cleared' = cleared /\ stamps' = stamps
    BY <1>1, <2>2 DEF Miss, RequestsTyped
  <2>4. request'[r].from >= cleared[request'[r].inst][OrgAsked(request'[r])]
    <3>1. /\ request'[r].from = Version(OrgOf[p[2]]) /\ request'[r].inst = i
          /\ OrgAsked(request'[r]) = OrgOf[p[2]]
      BY <2>3, AskedTyped DEF OrgAsked
    <3>2. /\ OrgOf[p[2]] \in Orgs /\ Version(OrgOf[p[2]]) \in Nat
          /\ cleared[i][OrgOf[p[2]]] \in Nat
      BY <1>1, ReaderTyped DEF VersionsTyped, Versions
    <3> QED BY <3>1, <3>2 DEF ClearedBefore
  <2> QED BY <2>3, <2>4 DEF LoadsAreLater, ClearedBefore, Loading, Version
<1>5. CASE \E r \in Requests : LoadEnds(r) \/ LoadFails(r)
  <2>1. PICK r \in Requests : LoadEnds(r) \/ LoadFails(r)
    BY <1>5
  <2>2. \A w \in Requests : Loading(w)' => request'[w] = request[w]
    BY <2>1, LoadOver DEF Loading, UnderWay
  <2> QED BY <2>1, <2>2 DEF LoadEnds, LoadFails, LoadsAreLater, ClearedBefore, Loading, Version
<1>6. CASE (\E o \in Orgs : Change(o)) \/ \E i \in Instances, o \in Orgs : Author(i, o)
  <2>1. PICK o \in Orgs : Changed(o) /\ request' = request /\ cleared' = cleared
    BY <1>6 DEF Change, Author
  <2>2. \A a \in Orgs : Version(a)' >= Version(a) /\ Version(a) \in Nat /\ Version(a)' \in Nat
    <3>1. stamps[o] \in Seq(0 .. MaxTime) /\ stamps' = [stamps EXCEPT ![o] = Append(stamps[o], now)]
      BY <1>1, <2>1 DEF Changed, VersionsTyped
    <3>2. Len(Append(stamps[o], now)) = Len(stamps[o]) + 1 /\ Len(stamps[o]) \in Nat
      BY <1>1, <3>1 DEF VersionsTyped
    <3>3. \A a \in Orgs : Len(stamps[a]) \in Nat
      BY <1>1 DEF VersionsTyped
    <3> QED BY <1>1, <3>1, <3>2, <3>3 DEF VersionsTyped, Version
  <2>3. \A i \in Instances, a \in Orgs : cleared[i][a] \in Nat
    BY <1>1 DEF VersionsTyped, Versions
  <2> QED BY <2>1, <2>2, <2>3 DEF LoadsAreLater, ClearedBefore, Loading
<1>7. CASE \E i \in Instances, o \in Orgs : InvalidateOrg(i, o)
  <2>1. PICK i \in Instances, o \in Orgs : InvalidateOrg(i, o)
    BY <1>7
  <2>2. /\ cleared'[i][o] = Version(o) /\ stamps' = stamps
        /\ \A j \in Instances, a \in Orgs : j # i \/ a # o => cleared'[j][a] = cleared[j][a]
    BY <1>1, <2>1 DEF InvalidateOrg, VersionsTyped
  <2>3. ClearedBefore'
    <3>1. Version(o) \in Nat
      BY <1>1 DEF VersionsTyped, Versions
    <3> QED BY <2>2, <3>1 DEF ClearedBefore, Version
  <2>4. LoadsAreLater'
    <3> SUFFICES ASSUME NEW r \in Requests, Loading(r)'
                 PROVE  \/ request'[r].raced
                        \/ request'[r].from >= cleared'[request'[r].inst][OrgAsked(request'[r])]
      BY DEF LoadsAreLater
    <3>1. CASE Loading(r) /\ request[r].inst = i /\ OrgAsked(request[r]) = o
      <4>1. request'[r] = [request[r] EXCEPT !.raced = TRUE] /\ request[r] \in Asking
        BY <1>2, <2>1, <3>1 DEF InvalidateOrg
      <4> QED BY <4>1 DEF Asking
    <3>2. CASE ~(Loading(r) /\ request[r].inst = i /\ OrgAsked(request[r]) = o)
      <4>1. request'[r] = request[r]
        BY <2>1, <3>2 DEF InvalidateOrg
      <4> QED BY <1>2, <2>2, <3>2, <4>1 DEF LoadsAreLater, Loading
    <3> QED BY <3>1, <3>2
  <2> QED BY <2>3, <2>4
<1>8. CASE \E i \in Instances : Restart(i)
  <2>1. PICK i \in Instances : Restart(i)
    BY <1>8
  <2>2. /\ stamps' = stamps /\ \A a \in Orgs : cleared'[i][a] = 0
        /\ \A j \in Instances : j # i => cleared'[j] = cleared[j]
    BY <1>1, <2>1 DEF Restart, VersionsTyped
  <2>3. \A a \in Orgs : Version(a) \in Nat
    BY <1>1 DEF VersionsTyped, Versions
  <2>4. \A r \in Requests : Loading(r)' =>
          Loading(r) /\ request'[r] = request[r] /\ request[r].inst # i
    BY <2>1 DEF Restart, Loading, Idle, UnderWay
  <2> QED BY <1>2, <2>2, <2>3, <2>4 DEF LoadsAreLater, ClearedBefore, Version
<1>9. CASE Tick
  BY <1>9 DEF Tick, LoadsAreLater, ClearedBefore, Loading, Version
<1> QED BY <1>3, <1>4, <1>5, <1>6, <1>7, <1>8, <1>9, Steps

LEMMA ForgetsKept ==
  ASSUME TypeOK, TypeOK', EntriesOwn, EntriesOwn', LoadsAreLater, InvalidationForgets, Next
  PROVE  InvalidationForgets'
<1>1. VersionsTyped /\ StoresTyped /\ RequestsTyped /\ StoresTyped'
  BY TypeParts, PTL
<1>2. \A i \in Instances, key \in Keys : store'[i][key] # None =>
        /\ store'[i][key].value.audience.org = key.org /\ key.org \in Orgs
        /\ store'[i][key].value \in Values
  <2> SUFFICES ASSUME NEW i \in Instances, NEW key \in Keys, store'[i][key] # None
               PROVE  /\ store'[i][key].value.audience.org = key.org /\ key.org \in Orgs
                      /\ store'[i][key].value \in Values
    OBVIOUS
  <2>1. PICK p \in Readers : key = KeyOf(p[1], p[2])
    BY DEF Keys
  <2>2. store'[i][key].value.audience = Audience(p[1], p[2])
    BY <2>1 DEF EntriesOwn
  <2>3. store'[i][key].value \in Values
    BY <1>1 DEF StoresTyped, Stores
  <2> QED BY <2>1, <2>2, <2>3, KeyOrg, ReaderTyped
<1> SUFFICES ASSUME NEW i \in Instances, NEW key \in Keys, store'[i][key] # None,
                    store'[i][key].value.version \in Versions,
                    store'[i][key].value.version < cleared'[i][key.org]
             PROVE  store'[i][key].value.raced
  BY <1>2 DEF InvalidationForgets
<1> DEFINE o == key.org
<1>3. o \in Orgs
  BY <1>2
(* What was there before the step, under no later invalidation.            *)
<1>4. ASSUME store'[i][key] = store[i][key], cleared'[i][o] = cleared[i][o]
      PROVE  store'[i][key].value.raced
  BY <1>2, <1>4 DEF InvalidationForgets
<1>5. CASE \E r \in Requests, j \in Instances, p \in Readers : Hit(r, j, p[1], p[2])
  BY <1>4, <1>5 DEF Hit
<1>6. CASE \E r \in Requests, j \in Instances, p \in Readers :
             Share(r, j, p[1], p[2]) \/ Load(r, j, p[1], p[2])
  <2>1. PICK r \in Requests, j \in Instances, p \in Readers, st \in {"loading", "waiting"} :
          Miss(r, j, p[1], p[2], st)
    BY <1>6 DEF Share, Load
  <2>2. store'[i][key] = store[i][key] \/ store'[i][key] = None
    BY <1>1, <2>1 DEF Miss, StoresTyped, Stores
  <2> QED BY <1>4, <2>1, <2>2 DEF Miss
<1>7. CASE \E r \in Requests : LoadEnds(r)
  <2>1. PICK r \in Requests : LoadEnds(r)
    BY <1>7
  <2> DEFINE own == request[r]
  <2>2. /\ own.inst \in Instances /\ KeyAsked(own) \in Keys /\ ReaderOf(own) \in Readers
        /\ own.from \in Versions /\ OrgAsked(own) \in Orgs
    BY <2>1, RequestTyped DEF LoadEnds, Loading
  <2>3. PICK value \in Values, s \in Room(store[own.inst]) :
          /\ value.raced = own.raced
          /\ value.version = Missing \/ value.version >= own.from
          /\ store' = [store EXCEPT ![own.inst] = [s EXCEPT ![KeyAsked(own)] = Entry(value)]]
    BY <2>1, LoadedTyped
  <2>4. s \in Stores /\ \A k \in Keys : s[k] # None => s[k] = store[own.inst][k]
    BY <1>1, <2>2, RoomBounds DEF StoresTyped
  <2>5. cleared' = cleared
    BY <2>1 DEF LoadEnds
  <2>6. CASE i = own.inst /\ key = KeyAsked(own)
    <3>1. store'[i][key] = Entry(value)
      BY <1>1, <2>2, <2>3, <2>4, <2>6 DEF StoresTyped, Stores
    <3>2. store'[i][key].value = value
      BY <3>1 DEF Entry
    <3>3. OrgAsked(own) = o
      BY <2>2, <2>6, KeyOrg DEF ReaderOf, KeyAsked, OrgAsked
    <3>4. own.raced \/ own.from >= cleared[i][o]
      BY <2>1, <2>6, <3>3 DEF LoadEnds, LoadsAreLater
    <3>5. value.version \in Versions /\ cleared[i][o] \in Versions
      BY <1>1, <1>3, <3>2 DEF VersionsTyped
    <3>6. value.version # Missing /\ value.version \in Nat /\ cleared[i][o] \in Nat /\ own.from \in Nat
      BY <2>2, <3>5, CacheAssumption DEF Versions, Missing
    <3>7. value.version < cleared[i][o]
      BY <2>5, <3>2
    <3>8. ~(own.from >= cleared[i][o])
      BY <2>3, <3>6, <3>7
    <3> QED BY <2>3, <3>2, <3>4, <3>8
  <2>7. CASE ~(i = own.inst /\ key = KeyAsked(own))
    <3>1. store'[i][key] = store[i][key]
      BY <1>1, <2>2, <2>3, <2>4, <2>7 DEF StoresTyped, Stores
    <3> QED BY <1>4, <2>5, <3>1
  <2> QED BY <2>6, <2>7
<1>8. CASE \/ \E r \in Requests : LoadFails(r)
           \/ \E a \in Orgs : Change(a)
           \/ \E j \in Instances, a \in Orgs : Author(j, a)
           \/ Tick
  BY <1>4, <1>8 DEF LoadFails, Change, Author, Tick
<1>9. CASE \E j \in Instances, a \in Orgs : InvalidateOrg(j, a)
  <2>1. PICK j \in Instances, a \in Orgs : InvalidateOrg(j, a)
    BY <1>9
  <2>2. CASE i = j /\ o = a
    <3>1. store'[i][key] = None
      BY <1>1, <2>1, <2>2 DEF InvalidateOrg, Invalidated, OfOrg, StoresTyped
    <3> QED BY <3>1
  <2>3. CASE ~(i = j /\ o = a)
    <3>1. store'[i][key] = store[i][key]
      BY <1>1, <2>1, <2>3 DEF InvalidateOrg, Invalidated, OfOrg, StoresTyped
    <3>2. cleared'[i][o] = cleared[i][o]
      BY <1>1, <1>3, <2>1, <2>3 DEF InvalidateOrg, VersionsTyped
    <3> QED BY <1>4, <3>1, <3>2
  <2> QED BY <2>2, <2>3
<1>10. CASE \E j \in Instances : Restart(j)
  <2>1. PICK j \in Instances : Restart(j)
    BY <1>10
  <2>2. i # j
    BY <1>1, <2>1 DEF Restart, NoEntries, StoresTyped
  <2>3. store'[i] = store[i] /\ cleared'[i] = cleared[i]
    BY <1>1, <2>1, <2>2 DEF Restart, StoresTyped, VersionsTyped
  <2> QED BY <1>4, <2>3
<1> QED BY <1>5, <1>6, <1>7, <1>8, <1>9, <1>10, Steps

(* Once an author's write was invalidated, an instance keeps nothing older *)
(* but what was being read meanwhile (lib/cache.ts:107-118).               *)
THEOREM WritesAreForgotten == Spec => []InvalidationForgets
<1> DEFINE IInv == EntriesOwn /\ AnswersAreOwn /\ LoadsAreLater /\ ClearedBefore
                   /\ InvalidationForgets
<1>1. Init => IInv
  <2> SUFFICES ASSUME Init PROVE IInv
    OBVIOUS
  <2>1. EntriesOwn /\ AnswersAreOwn /\ InvalidationForgets
    BY ReaderTyped DEF Init, EntriesOwn, AnswersAreOwn, InvalidationForgets, Idle, NoEntries
  <2>2. LoadsAreLater /\ ClearedBefore
    BY DEF Init, LoadsAreLater, ClearedBefore, Loading, Idle, Version
  <2> QED BY <2>1, <2>2
<1>2. IInv /\ UNCHANGED vars => IInv'
  BY DEF EntriesOwn, AnswersAreOwn, LoadsAreLater, ClearedBefore, InvalidationForgets,
         Loading, Version, vars
<1>3. TypeOK /\ TypeOK' /\ IInv /\ [Next]_vars => IInv'
  BY <1>2, OwnKept, LaterKept, ForgetsKept
<1> QED BY <1>1, <1>3, CacheTypeCorrect, PTL DEF Spec

-----------------------------------------------------------------------------
(* Staleness                                                               *)

(* Every change of o after its v-th was committed at t or later.           *)
Since(o, v, t) == \A n \in 1 .. Version(o) : n > v => stamps[o][n] >= t

(* A load has run for a bounded time, and knows all that was there when it *)
(* began.                                                                  *)
LoadsRecent ==
  \A r \in Requests : Loading(r) =>
    /\ request[r].at <= now /\ now - request[r].at <= MaxLoad
    /\ Since(OrgAsked(request[r]), request[r].from, request[r].at)

(* What an entry holds was read by a load that ended when it was stored.   *)
EntriesRecent ==
  \A i \in Instances, key \in Keys : store[i][key] # None =>
    /\ store[i][key].stored <= now
    /\ store[i][key].value.version \in Versions =>
         Since(key.org, store[i][key].value.version, store[i][key].stored - MaxLoad)

LEMMA KeyOrgTyped == \A key \in Keys : key.org \in Orgs
  BY KeyOrg, ReaderTyped DEF Keys

LEMMA AskedAt ==
  ASSUME NEW st, NEW i, NEW p \in Readers
  PROVE  Asked(st, i, p[1], p[2]).at = now
  BY DEF Asked

LEMMA ElementOf ==
  ASSUME NEW S, NEW q \in Seq(S), NEW n \in 1 .. Len(q)
  PROVE  q[n] \in S
  OBVIOUS

LEMMA SinceWeaker ==
  ASSUME VersionsTyped, NEW o \in Orgs, NEW v \in Int, NEW t \in Int, NEW w \in Int, NEW u \in Int,
         Since(o, v, t), v <= w, u <= t
  PROVE  Since(o, w, u)
<1> SUFFICES ASSUME NEW n \in 1 .. Version(o), n > w PROVE stamps[o][n] >= u
  BY DEF Since
<1>1. stamps[o] \in Seq(0 .. MaxTime) /\ n \in 1 .. Len(stamps[o]) /\ n \in Int
  BY DEF VersionsTyped, Version
<1>2. stamps[o][n] \in 0 .. MaxTime
  BY <1>1, ElementOf
<1>3. stamps[o][n] >= t
  BY <1>1 DEF Since
<1> QED BY <1>2, <1>3

LEMMA SinceKept ==
  ASSUME TypeOK, Next, NEW o \in Orgs, NEW v \in Int, NEW t \in Int, t <= now, Since(o, v, t)
  PROVE  Since(o, v, t)'
<1>1. VersionsTyped
  BY TypeParts
<1>2. CASE stamps' = stamps
  BY <1>2 DEF Since, Version
<1>3. ASSUME NEW a \in Orgs, Changed(a) PROVE Since(o, v, t)'
  <2>1. stamps[a] \in Seq(0 .. MaxTime) /\ now \in 0 .. MaxTime /\ Len(stamps[a]) \in Nat
    BY <1>1 DEF VersionsTyped
  <2>2. CASE o = a
    <3>1. stamps'[o] = Append(stamps[o], now)
      BY <1>1, <1>3, <2>2 DEF Changed, VersionsTyped
    <3> SUFFICES ASSUME NEW n \in 1 .. Len(stamps'[o]), n > v PROVE stamps'[o][n] >= t
      BY DEF Since, Version
    <3>2. n \in 1 .. Len(stamps[o]) + 1
      BY <2>1, <2>2, <3>1
    <3>3. CASE n = Len(stamps[o]) + 1
      <4>1. stamps'[o][n] = now
        BY <2>1, <2>2, <3>1, <3>3
      <4> QED BY <2>1, <4>1
    <3>4. CASE n \in 1 .. Len(stamps[o])
      <4>1. stamps'[o][n] = stamps[o][n]
        BY <2>1, <2>2, <3>1, <3>4
      <4> QED BY <3>4, <4>1 DEF Since, Version
    <3> QED BY <2>1, <2>2, <3>2, <3>3, <3>4
  <2>3. CASE o # a
    <3>1. stamps'[o] = stamps[o]
      BY <1>1, <1>3, <2>3 DEF Changed, VersionsTyped
    <3> QED BY <3>1 DEF Since, Version
  <2> QED BY <2>2, <2>3
<1> QED BY <1>2, <1>3, Steps DEF Hit, Share, Load, Miss, LoadEnds, LoadFails, Change, Author,
        InvalidateOrg, Restart, Tick

(* The time of a request.                                                  *)
LEMMA TimesTyped ==
  ASSUME TypeOK
  PROVE  /\ now \in Nat /\ MaxLoad \in Nat /\ Versions \subseteq Nat
         /\ \A r \in Requests : Loading(r) =>
              request[r].at \in Nat /\ request[r].from \in Nat /\ OrgAsked(request[r]) \in Orgs
         /\ \A i \in Instances, key \in Keys : store[i][key] # None =>
              store[i][key].stored \in Nat /\ store[i][key].value \in Values
<1>1. VersionsTyped /\ StoresTyped /\ RequestsTyped
  BY TypeParts
<1>2. now \in Nat /\ MaxLoad \in Nat /\ Versions \subseteq Nat
  BY <1>1, CacheAssumption DEF VersionsTyped, Versions
<1>3. ASSUME NEW r \in Requests, Loading(r)
      PROVE  request[r].at \in Nat /\ request[r].from \in Nat /\ OrgAsked(request[r]) \in Orgs
  <2>1. request[r] \in Asking /\ OrgAsked(request[r]) \in Orgs /\ request[r].from \in Versions
    BY <1>3, RequestTyped DEF Loading
  <2>2. request[r].at \in 0 .. MaxTime
    BY <2>1 DEF Asking
  <2>3. request[r].at \in Nat
    BY <2>2, CacheAssumption
  <2>4. request[r].from \in Nat
    BY <1>2, <2>1
  <2> QED BY <2>1, <2>3, <2>4
<1>4. ASSUME NEW i \in Instances, NEW key \in Keys, store[i][key] # None
      PROVE  store[i][key].stored \in Nat /\ store[i][key].value \in Values
  <2>1. store[i][key] \in [value : Values, stored : 0 .. MaxTime]
    BY <1>1, <1>4 DEF StoresTyped, Stores
  <2> QED BY <2>1, CacheAssumption
<1> QED BY <1>2, <1>3, <1>4

LEMMA LoadsRecentKept ==
  ASSUME TypeOK, TypeOK', LoadsRecent, Next
  PROVE  LoadsRecent'
<1> SUFFICES ASSUME NEW r \in Requests, Loading(r)'
             PROVE  /\ request'[r].at <= now' /\ now' - request'[r].at <= MaxLoad
                    /\ Since(OrgAsked(request[r]), request[r].from, request[r].at)'
  BY DEF LoadsRecent
<1>1. VersionsTyped /\ RequestsTyped /\ now \in Nat /\ MaxLoad \in Nat
  BY TypeParts, TimesTyped
(* A request that was loading goes on, and was at most marked.             *)
<1>2. ASSUME Loading(r), now' = now, request'[r].at = request[r].at,
             request'[r].from = request[r].from, request'[r].member = request[r].member
      PROVE  /\ request'[r].at <= now' /\ now' - request'[r].at <= MaxLoad
             /\ Since(OrgAsked(request[r]), request[r].from, request[r].at)'
  <2>1. PICK o \in Orgs, v \in Int, t \in Int :
          o = OrgAsked(request[r]) /\ v = request[r].from /\ t = request[r].at
    BY <1>2, TimesTyped
  <2>2. Since(o, v, t) /\ t <= now
    BY <1>2, <2>1 DEF LoadsRecent
  <2>3. Since(o, v, t)'
    BY <2>2, SinceKept
  <2>4. /\ OrgAsked(request'[r]) = o /\ request'[r].from = v /\ request'[r].at = t
    BY <1>2, <2>1 DEF OrgAsked
  <2> QED BY <1>2, <2>3, <2>4 DEF LoadsRecent, Since, Version
<1>3. CASE \E w \in Requests, i \in Instances, p \in Readers : Hit(w, i, p[1], p[2])
  <2>1. PICK w \in Requests, i \in Instances, p \in Readers : Hit(w, i, p[1], p[2])
    BY <1>3
  <2>2. Asked("loading", i, p[1], p[2]) \in Asking
    BY AskedTyped
  <2>3. request'[w] = Answered(Asked("loading", i, p[1], p[2]), store[i][KeyOf(p[1], p[2])].value)
        /\ \A x \in Requests : x # w => request'[x] = request[x]
    BY <1>1, <2>1 DEF Hit, RequestsTyped
  <2>4. request'[w].st = "answered"
    BY <2>2, <2>3 DEF Answered, Asking
  <2>5. w # r /\ request'[r] = request[r] /\ Loading(r) /\ now' = now
    BY <2>1, <2>3, <2>4 DEF Loading, Hit
  <2> QED BY <1>2, <2>5
<1>4. CASE \E w \in Requests, i \in Instances, p \in Readers :
             Share(w, i, p[1], p[2]) \/ Load(w, i, p[1], p[2])
  <2>1. PICK w \in Requests, i \in Instances, p \in Readers, st \in {"loading", "waiting"} :
          Miss(w, i, p[1], p[2], st)
    BY <1>4 DEF Share, Load
  <2>2. /\ request'[w] = Asked(st, i, p[1], p[2]) /\ now' = now /\ stamps' = stamps
        /\ \A x \in Requests : x # w => request'[x] = request[x]
    BY <1>1, <2>1 DEF Miss, RequestsTyped
  <2>3. CASE w = r
    <3>1. /\ request'[r].at = now /\ request'[r].from = Version(OrgOf[p[2]])
          /\ OrgAsked(request'[r]) = OrgOf[p[2]] /\ OrgOf[p[2]] \in Orgs
      <4>1. request'[r] = Asked(st, i, p[1], p[2]) /\ OrgOf[p[2]] \in Orgs
        BY <2>2, <2>3, ReaderTyped
      <4>2. request'[r].at = now
        BY <4>1, AskedAt
      <4>3. request'[r].from = Version(OrgOf[p[2]]) /\ request'[r].member = p[2]
        BY <4>1, AskedTyped
      <4> QED BY <4>1, <4>2, <4>3 DEF OrgAsked
    <3>2. Version(OrgOf[p[2]]) \in Nat
      BY <3>1, TimesTyped, <1>1 DEF VersionsTyped
    <3>3. Since(OrgAsked(request[r]), request[r].from, request[r].at)'
      BY <2>2, <3>1, <3>2 DEF Since, Version
    <3> QED BY <1>1, <2>2, <3>1, <3>3
  <2>4. CASE w # r
    BY <1>2, <2>2, <2>4 DEF Loading
  <2> QED BY <2>3, <2>4
<1>5. CASE \E w \in Requests : LoadEnds(w) \/ LoadFails(w)
  <2>1. PICK w \in Requests : LoadEnds(w) \/ LoadFails(w)
    BY <1>5
  <2>2. request'[r] = request[r] /\ Loading(r) /\ now' = now
    BY <2>1, LoadOver DEF Loading, UnderWay, LoadEnds, LoadFails
  <2> QED BY <1>2, <2>2
<1>6. CASE \/ \E o \in Orgs : Change(o)
           \/ \E i \in Instances, o \in Orgs : Author(i, o)
  BY <1>2, <1>6 DEF Change, Author, Loading
<1>7. CASE \E i \in Instances, o \in Orgs : InvalidateOrg(i, o)
  <2>1. request'[r] = request[r] \/ (Loading(r) /\ request'[r] = [request[r] EXCEPT !.raced = TRUE])
    BY <1>7 DEF InvalidateOrg
  <2>2. Loading(r)
    BY <2>1 DEF Loading
  <2>3. request[r] \in Asking
    BY <2>2, RequestTyped DEF Loading
  <2> QED BY <1>2, <1>7, <2>1, <2>2, <2>3 DEF InvalidateOrg, Asking
<1>8. CASE \E i \in Instances : Restart(i)
  <2>1. request'[r] = request[r] /\ now' = now
    BY <1>8 DEF Restart, Loading, Idle
  <2> QED BY <1>2, <2>1 DEF Loading
<1>9. CASE Tick
  <2>1. Loading(r) /\ request' = request /\ stamps' = stamps /\ now' = now + 1
        /\ now - request[r].at < MaxLoad
    BY <1>9 DEF Tick, Loading
  <2>2. request[r].at \in Nat /\ request[r].at <= now
    BY <2>1, TimesTyped DEF LoadsRecent
  <2>3. Since(OrgAsked(request[r]), request[r].from, request[r].at)'
    BY <2>1 DEF LoadsRecent, Since, Version
  <2> QED BY <1>1, <2>1, <2>2, <2>3
<1> QED BY <1>3, <1>4, <1>5, <1>6, <1>7, <1>8, <1>9, Steps

LEMMA EntriesRecentKept ==
  ASSUME TypeOK, TypeOK', LoadsRecent, EntriesRecent, Next
  PROVE  EntriesRecent'
<1> SUFFICES ASSUME NEW i \in Instances, NEW key \in Keys, store'[i][key] # None
             PROVE  /\ store'[i][key].stored <= now'
                    /\ store'[i][key].value.version \in Versions =>
                         Since(key.org, store[i][key].value.version, store[i][key].stored - MaxLoad)'
  BY DEF EntriesRecent
<1>1. /\ VersionsTyped /\ StoresTyped /\ RequestsTyped /\ now \in Nat /\ MaxLoad \in Nat
      /\ Versions \subseteq Nat /\ key.org \in Orgs
  BY TypeParts, TimesTyped, KeyOrgTyped
<1>2. now' = now \/ now' = now + 1
  BY Steps DEF Hit, Share, Load, Miss, LoadEnds, LoadFails, Change, Author, InvalidateOrg,
     Restart, Tick
<1>3. ASSUME store'[i][key] = store[i][key]
      PROVE  /\ store'[i][key].stored <= now'
             /\ store'[i][key].value.version \in Versions =>
                  Since(key.org, store[i][key].value.version, store[i][key].stored - MaxLoad)'
  <2>1. store[i][key] # None /\ store[i][key].stored \in Nat /\ store[i][key].stored <= now
    BY <1>3, TimesTyped DEF EntriesRecent
  <2>2. ASSUME store'[i][key].value.version \in Versions
        PROVE  Since(key.org, store[i][key].value.version, store[i][key].stored - MaxLoad)'
    <3>1. PICK v \in Int, t \in Int : v = store[i][key].value.version
                                      /\ t = store[i][key].stored - MaxLoad /\ t <= now
      <4>1. store[i][key].value.version \in Int
        <5>1. store[i][key].value.version \in Versions
          BY <1>3, <2>2
        <5>2. store[i][key].value.version \in Nat
          BY <1>1, <5>1
        <5> QED BY <5>2
      <4>2. store[i][key].stored - MaxLoad \in Int /\ store[i][key].stored - MaxLoad <= now
        BY <1>1, <2>1
      <4> QED BY <4>1, <4>2
    <3>2. Since(key.org, v, t)
      BY <1>3, <2>1, <2>2, <3>1 DEF EntriesRecent
    <3>3. Since(key.org, v, t)'
      BY <1>1, <3>1, <3>2, SinceKept
    <3> QED BY <1>3, <3>1, <3>3 DEF Since, Version
  <2> QED BY <1>1, <1>2, <1>3, <2>1, <2>2
<1>4. CASE \E r \in Requests : LoadEnds(r)
  <2>1. PICK r \in Requests : LoadEnds(r)
    BY <1>4
  <2> DEFINE own == request[r]
  <2>2. /\ own.inst \in Instances /\ KeyAsked(own) \in Keys /\ ReaderOf(own) \in Readers
        /\ own.from \in Nat /\ own.at \in Nat /\ OrgAsked(own) \in Orgs /\ Loading(r)
    BY <2>1, RequestTyped, TimesTyped DEF LoadEnds, Loading
  <2>3. PICK value \in Values, s \in Room(store[own.inst]) :
          /\ value.version = Missing \/ value.version >= own.from
          /\ store' = [store EXCEPT ![own.inst] = [s EXCEPT ![KeyAsked(own)] = Entry(value)]]
    BY <2>1, LoadedTyped
  <2>4. s \in Stores /\ \A k \in Keys : s[k] # None => s[k] = store[own.inst][k]
    BY <1>1, <2>2, RoomBounds DEF StoresTyped
  <2>5. CASE i = own.inst /\ key = KeyAsked(own)
    <3>1. store'[i][key] = Entry(value)
      BY <1>1, <2>2, <2>3, <2>4, <2>5 DEF StoresTyped, Stores
    <3>2. /\ store'[i][key].value = value /\ store'[i][key].stored = now
          /\ now' = now /\ stamps' = stamps
      BY <2>1, <3>1 DEF Entry, LoadEnds
    <3>3. OrgAsked(own) = key.org
      BY <2>2, <2>5, KeyOrg DEF ReaderOf, KeyAsked, OrgAsked
    <3>4. ASSUME value.version \in Versions
          PROVE  Since(key.org, value.version, now - MaxLoad)
      <4>1. value.version \in Int /\ value.version >= own.from
        <5>1. value.version \in Nat
          BY <1>1, <3>4
        <5>2. value.version # Missing
          BY <5>1 DEF Missing
        <5> QED BY <2>3, <5>1, <5>2
      <4>2. Since(key.org, own.from, own.at) /\ now - MaxLoad <= own.at
        BY <1>1, <2>2, <3>3 DEF LoadsRecent
      <4> QED BY <1>1, <2>2, <4>1, <4>2, SinceWeaker
    <3> QED BY <1>1, <3>2, <3>4 DEF Since, Version
  <2>6. CASE ~(i = own.inst /\ key = KeyAsked(own))
    <3>1. store'[i][key] = store[i][key]
      BY <1>1, <2>2, <2>3, <2>4, <2>6 DEF StoresTyped, Stores
    <3> QED BY <1>3, <3>1
  <2> QED BY <2>5, <2>6
<1>5. CASE \E r \in Requests, j \in Instances, p \in Readers :
             Share(r, j, p[1], p[2]) \/ Load(r, j, p[1], p[2])
  <2>1. store'[i][key] = store[i][key] \/ store'[i][key] = None
    BY <1>1, <1>5 DEF Share, Load, Miss, StoresTyped, Stores
  <2> QED BY <1>3, <2>1
<1>6. CASE \E j \in Instances, a \in Orgs : InvalidateOrg(j, a)
  <2>1. store'[i][key] = store[i][key] \/ store'[i][key] = None
    BY <1>1, <1>6 DEF InvalidateOrg, Invalidated, StoresTyped, Stores
  <2> QED BY <1>3, <2>1
<1>7. CASE \E j \in Instances : Restart(j)
  <2>1. store'[i][key] = store[i][key] \/ store'[i][key] = None
    BY <1>1, <1>7 DEF Restart, NoEntries, StoresTyped, Stores
  <2> QED BY <1>3, <2>1
<1> QED BY <1>3, <1>4, <1>5, <1>6, <1>7, Steps DEF Hit, LoadFails, Change, Author, Tick

(* In a step that shows a reader rows.                                     *)
LEMMA RowsRecent ==
  ASSUME TypeOK, LoadsRecent, EntriesRecent, Next, NEW r \in Requests, ShownRows(r)
  PROVE  LET s == OrgAsked(request'[r])
             v == request'[r].value.version
         IN  v < Version(s) => stamps[s][v + 1] >= now - TTL - MaxLoad
<1> DEFINE o == OrgAsked(request'[r])
           v == request'[r].value.version
<1>1. /\ VersionsTyped /\ StoresTyped /\ RequestsTyped /\ now \in Nat /\ MaxLoad \in Nat
      /\ TTL \in Nat /\ Versions \subseteq Nat
  BY TypeParts, TimesTyped, CacheAssumption
<1>2. v \in Nat /\ v \in Versions
  BY <1>1 DEF ShownRows
<1>3. ASSUME o \in Orgs, NEW t \in Int, t >= now - TTL - MaxLoad, Since(o, v, t)
      PROVE  v < Version(o) => stamps[o][v + 1] >= now - TTL - MaxLoad
  <2> HAVE v < Version(o)
  <2>1. stamps[o] \in Seq(0 .. MaxTime) /\ Version(o) \in Nat /\ Len(stamps[o]) = Version(o)
    BY <1>1, <1>3 DEF VersionsTyped, Version
  <2>2. v + 1 \in 1 .. Version(o)
    BY <1>2, <2>1
  <2>3. stamps[o][v + 1] \in Int
    <3> HIDE DEF o, v
    <3>1. stamps[o][v + 1] \in 0 .. MaxTime
      BY <2>1, <2>2, ElementOf
    <3> QED BY <3>1
  <2>4. stamps[o][v + 1] >= t
    BY <1>2, <1>3, <2>2 DEF Since
  <2> QED BY <1>1, <1>3, <2>3, <2>4
<1>4. CASE \E w \in Requests, i \in Instances, p \in Readers : Hit(w, i, p[1], p[2])
  <2>1. PICK w \in Requests, i \in Instances, p \in Readers : Hit(w, i, p[1], p[2])
    BY <1>4
  <2> DEFINE key == KeyOf(p[1], p[2])
             e == store[i][key]
  <2>2. Asked("loading", i, p[1], p[2]) \in Asking /\ key \in Keys /\ OrgOf[p[2]] \in Orgs
        /\ key.org = OrgOf[p[2]]
    BY AskedTyped, ReaderTyped, KeyOrg
  <2>3. w = r
    BY <1>1, <2>1 DEF Hit, RequestsTyped, ShownRows
  <2>4. request'[r] = Answered(Asked("loading", i, p[1], p[2]), e.value)
    BY <1>1, <2>1, <2>3 DEF Hit, RequestsTyped
  <2>5. e # None /\ now < e.stored + TTL
    BY <2>1 DEF Hit, Fresh
  <2>6. e.stored \in Nat /\ e.value \in Values
    BY <2>2, <2>5, TimesTyped
  <2>7. v = e.value.version /\ o = key.org
    BY <2>2, <2>4, <2>6, AnsweredTyped, AskedTyped DEF OrgAsked
  <2>8. Since(o, v, e.stored - MaxLoad)
    BY <1>2, <2>2, <2>5, <2>7 DEF EntriesRecent
  <2> HIDE DEF o, v
  <2>9. e.stored - MaxLoad \in Int /\ e.stored - MaxLoad >= now - TTL - MaxLoad /\ o \in Orgs
    BY <1>1, <2>2, <2>5, <2>6, <2>7
  <2>10. v < Version(o) => stamps[o][v + 1] >= now - TTL - MaxLoad
    BY <1>3, <2>8, <2>9
  <2> QED BY <2>10 DEF o, v
<1>5. CASE \E w \in Requests : LoadEnds(w)
  <2>1. PICK w \in Requests : LoadEnds(w)
    BY <1>5
  <2> DEFINE own == request[w]
  <2>2. PICK value \in Values :
          /\ value.version = Missing \/ value.version >= own.from
          /\ request' = [x \in Requests |->
               IF x \in Sharing(w) THEN Answered(request[x], value) ELSE request[x]]
    BY <2>1, LoadedTyped
  <2>3. Loading(w) /\ r \in Sharing(w)
    BY <2>1, <2>2 DEF LoadEnds, ShownRows
  <2>4. /\ request[r] \in Asking /\ ReaderOf(request[r]) \in Readers
        /\ KeyAsked(request[r]) = KeyAsked(own)
    BY <2>3, SharingTyped
  <2>5. request'[r] = Answered(request[r], value)
    BY <2>2, <2>3
  <2>6. v = value.version /\ o = OrgAsked(request[r])
    BY <2>4, <2>5, AnsweredTyped DEF OrgAsked
  <2>7. OrgAsked(request[r]) = OrgAsked(own)
    <3>1. ReaderOf(own) \in Readers
      BY <2>3, RequestTyped DEF Loading
    <3> QED BY <2>4, <3>1, KeyOrg DEF ReaderOf, KeyAsked, OrgAsked
  <2>8. /\ own.at \in Nat /\ own.from \in Nat /\ OrgAsked(own) \in Orgs
        /\ Since(OrgAsked(own), own.from, own.at) /\ now - own.at <= MaxLoad
    BY <2>3, TimesTyped DEF LoadsRecent
  <2> HIDE DEF o, v, own
  <2>9. v >= own.from /\ v \in Int
    BY <1>2, <2>2, <2>6 DEF Missing
  <2>10. Since(o, v, own.at) /\ o \in Orgs /\ own.at >= now - TTL - MaxLoad
    BY <1>1, <2>6, <2>7, <2>8, <2>9, SinceWeaker
  <2>11. v < Version(o) => stamps[o][v + 1] >= now - TTL - MaxLoad
    BY <1>3, <2>8, <2>10
  <2> QED BY <2>11 DEF o, v
<1>6. CASE \E w \in Requests, i \in Instances, p \in Readers :
             Share(w, i, p[1], p[2]) \/ Load(w, i, p[1], p[2])
  <2>1. PICK w \in Requests, i \in Instances, p \in Readers, st \in {"loading", "waiting"} :
          Miss(w, i, p[1], p[2], st)
    BY <1>6 DEF Share, Load
  <2>2. /\ request'[w] = Asked(st, i, p[1], p[2])
        /\ \A x \in Requests : x # w => request'[x] = request[x]
    BY <1>1, <2>1 DEF Miss, RequestsTyped
  <2> QED BY <2>2, AskedTyped DEF ShownRows
<1>7. CASE \E w \in Requests : LoadFails(w)
  BY <1>7 DEF LoadFails, ShownRows, Idle
<1>8. CASE \E i \in Instances, a \in Orgs : InvalidateOrg(i, a)
  <2>1. request'[r] = request[r] \/ (Loading(r) /\ request'[r] = [request[r] EXCEPT !.raced = TRUE])
    BY <1>8 DEF InvalidateOrg
  <2>2. Loading(r) => request[r] \in Asking
    BY RequestTyped DEF Loading
  <2> QED BY <2>1, <2>2 DEF ShownRows, Loading, Asking
<1>9. CASE \E i \in Instances : Restart(i)
  BY <1>9 DEF Restart, ShownRows, Idle
<1> QED BY <1>4, <1>5, <1>6, <1>7, <1>8, <1>9, Steps DEF Change, Author, Tick, ShownRows

(* What a reader is shown was true a lifetime and a load ago, or later,    *)
(* whoever loaded it, on whichever instance, and however entries expired,  *)
(* were evicted or invalidated meanwhile (lib/cache.ts:64-105).            *)
THEOREM StalenessAlwaysBounded == Spec => StalenessBounded
<1> DEFINE IInv == LoadsRecent /\ EntriesRecent
<1>1. Init => IInv
  BY DEF Init, LoadsRecent, EntriesRecent, Loading, Idle, NoEntries
<1>2. IInv /\ UNCHANGED vars => IInv'
  BY DEF LoadsRecent, EntriesRecent, Loading, Since, Version, vars
<1>3. TypeOK /\ TypeOK' /\ IInv /\ [Next]_vars => IInv'
  BY <1>2, LoadsRecentKept, EntriesRecentKept
<1>4. TypeOK /\ IInv /\ [Next]_vars =>
        [\A r \in Requests : ShownRows(r) =>
           LET s == OrgAsked(request'[r])
               v == request'[r].value.version
           IN  v < Version(s) => stamps[s][v + 1] >= now - TTL - MaxLoad]_vars
  BY RowsRecent
<1> HIDE DEF IInv
<1> QED BY <1>1, <1>3, <1>4, CacheTypeCorrect, PTL DEF Spec, StalenessBounded
=============================================================================
