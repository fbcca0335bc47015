SPECIFICATION Spec
CONSTANTS
  t1 = t1  t2 = t2  r1 = r1  r2 = r2  select = select  text = text
  o1 = o1  o2 = o2  words = words
  Tabs = {t1, t2}
  Reviewers = {r1}
  Items = {select, text}
  Objective = {select}
  Required = {}
  Partial = {select}
  Offered <- MCOffered
  Key <- MCKey
  Points <- MCPoints
  Marks <- MCMarks
  PassingPercent = 75
  MaxAttempts = 2
  Timed = TRUE
  MaxRequests = 2
  MaxToggles = 1
  Blank = Blank
  Nobody = Nobody
INVARIANT OwnAnswersKept
PROPERTY ImplementsAttemptLife
SYMMETRY Interchangeable
