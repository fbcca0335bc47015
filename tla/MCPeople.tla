-------------------------------- MODULE MCPeople --------------------------------
(***************************************************************************)
(* People, for TLC.  The partner: one user with two names there, a path    *)
(* for one audience, two requests of the same enrollment over two          *)
(* connections.  The members: two owners, one of the staff and a guest.    *)
(* The two share no state: a behaviour is about one of them, its scene,    *)
(* and the other stays as it begins.                                       *)
(***************************************************************************)
EXTENDS PartnerAccess, Memberships

CONSTANTS u1, p1, x1, x2, k1, k2, n1, n2, a1, a2, c1, c2, c3, coach, learner
CONSTANTS o1, o2, s, g, owner, staff
VARIABLE scene

ForCoaches == [t \in Targets |-> coach]

\* The second handoff moves the user to another name and audience.
Renamed == [n \in Nonces |->
  [ext |-> IF n = n1 THEN x1 ELSE x2, user |-> u1, audiences |-> IF n = n1 THEN {learner} ELSE {coach}]]

SameTarget == [k \in Keys |-> [ext |-> IF k = k1 THEN x1 ELSE x2, target |-> p1]]

TwoApiKeys == [c \in Conns |-> IF c = c3 THEN a2 ELSE a1]

TwoOwners == [p \in {o1, o2, s} |-> IF p = s THEN staff ELSE owner]
StaffAssigns == [r \in {owner, staff} |-> Permissions]

peopleVars == <<scene, vars, membersVars>>

PartnerScenes == {"staff", "losses", "api keys"}

PeopleInit == scene \in PartnerScenes \cup {"members"} /\ Init /\ MembersInit

\* Two connections over one API key, with the staff or with losses; or over
\* two, with one request.
Idles(c) == call[c].stage = "idle" /\ call'[c].stage = "idle"

Staged ==
  CASE scene = "staff" -> Idles(c3) /\ lost' = 0
    [] scene = "losses" -> Idles(c3) /\ staffed' = 0
    [] scene = "api keys" -> Idles(c2) /\ lost' = 0 /\ asked' \subseteq {k1}
    [] OTHER -> FALSE

InPartner == Staged /\ UNCHANGED <<scene, membersVars>>
InMembers == scene = "members" /\ UNCHANGED <<scene, vars>>

PeopleNext == \/ Next /\ InPartner
              \/ InMembers /\ MembersNext

\* The fairness of the partner, in its scene.
PeopleFairness ==
  /\ \A c \in Conns : WF_peopleVars(CallStep(c) /\ InPartner)
  /\ \A k \in Keys : WF_peopleVars(Retry(k) /\ InPartner)
  /\ WF_peopleVars(NextMinute /\ InPartner)

PeopleSpec == PeopleInit /\ [][PeopleNext]_peopleVars /\ PeopleFairness
=================================================================================
