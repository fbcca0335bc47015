SPECIFICATION WorkspaceSpec
CONSTANTS
  c1 = c1  c2 = c2  c3 = c3  l = l  i1 = i1  i2 = i2  i3 = i3
  Granted <- SomeRoles
  Starts <- AnyRole
  Words <- SomeWords
  Titles <- SomeTitles
  MaxGrantChanges = 1
  Courses = {c1, c2, c3}
  Paths = {p1}
  Learners = {l}
  Worlds <- SmallWorlds
  Opened = {"report", "overview"}
  Directory = TRUE
  Overseer = TRUE
  Own = {}
  CourseLimit = 2
  JourneyLimit = 1
  ReviewLimit = 1
  MaxChanges = 1
  MaxGrants = 1
  MaxUnanswered = 1
  Ids = {n1, n2, n3}
  Kinds = {"course", "path"}
  Items = {i1, i2, i3}
  StartList <- TwoItems
  Editors = {e1, e2}
  MaxWidth = 6
  SwapWidth = 3
  MaxCalls = 3
  MaxFaults = 1
INVARIANTS WayAround OkExact UnreachableExact
PROPERTIES Settles PagesTrue EditsTrue
CHECK_DEADLOCK FALSE
