SPECIFICATION PeopleSpec
CONSTANTS
  u1 = u1
  p1 = p1
  x1 = x1
  x2 = x2
  k1 = k1
  k2 = k2
  n1 = n1
  n2 = n2
  a1 = a1
  a2 = a2
  c1 = c1
  c2 = c2
  c3 = c3
  coach = coach
  learner = learner
  Staff = Staff
  None = None
  Users = {u1}
  Targets = {p1}
  Audiences = {coach, learner}
  ExternalIds = {x1, x2}
  AudienceOf <- ForCoaches
  Nonces = {n1, n2}
  Claims <- Renamed
  Keys = {k1, k2}
  RequestOf <- SameTarget
  ApiKeys = {a1, a2}
  Conns = {c1, c2, c3}
  KeyOf <- TwoApiKeys
  Limit = 1
  MaxStaff = 1
  MaxLosses = 1
  o1 = o1
  o2 = o2
  s = s
  g = g
  owner = owner
  staff = staff
  Owner = owner
  Roles = {owner, staff}
  Nobody = Nobody
  Persons = {o1, o2, s, g}
  Founders = {o1, o2, s}
  RoleOf <- TwoOwners
  Rows = {1, 2, 3, 4}
  Kinds = {"status", "invite", "assign", "revoke", "permit", "forbid"}
  PermsOf <- StaffAssigns
  MaxCalls = 2
  MaxSwitches = 1
PROPERTIES OneOutcomePerKey RevokedStaysOut ResultsArrive LastOwnerOnlyRaced GrantsByHolders
CHECK_DEADLOCK FALSE
