\* Two tabs edit, save and publish one draft; blocks are appended to a lesson.
SPECIFICATION Spec
CONSTANTS
  t1 = t1  t2 = t2  i1 = i1  i2 = i2  i3 = i3  a1 = a1  a2 = a2
  empty = empty  plain = plain  faint = faint
  Kinds = {"lesson", "assessment", "brand"}
  Tabs = {t1, t2}
  Ids = {i1, i2}
  First <- OneItem
  Bodies <- Kept
  Savable = {plain, faint}
  Publishable = {plain}
  Blankish = empty
  LastPosition = 1
  Appends = {a1}
  Size <- OneEach
  Content = plain
  MaxEdits = 2
  MaxVersions = 1
INVARIANTS VersionsValid PublishedAsSent
SYMMETRY Interchangeable
