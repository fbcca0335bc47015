\* A path over two courses whose nodes and prerequisites are edited under its learner.
SPECIFICATION PathSpec
CONSTANTS
  c1 = c1  c2 = c2  p1 = p1  l1 = l1  l2 = l2
  m1 = m1  e1 = e1  e2 = e2  a1 = a1  k1 = k1
  NoVersion = NoVersion  NoEnrollment = NoEnrollment
  Courses = {c1, c2}
  Paths = {p1}
  Lessons = {l1, l2}
  CourseOf <- LessonPerCourse
  Structures <- PathStructures
  MaxVersions = 1
  MaxAuthors = 2
  Members = {m1}
  Enrollments = {e1}
  MemberOf <- AllMemberOne
  TargetOf <- AllTargetPath
  SequencedCourses = {}
  PracticalLessons = {}
  Assignments = {}
  AssignedTo <- NoFunction
  Required = {}
  Completing = {}
  MaxAttempts <- NoFunction
  Windowed = {}
  Certificates = {k1}
  CertificateSource <- CertifyPath
INVARIANTS PathNeverLocked
PROPERTIES CyclesOnlyRaced
