\* A tab of a learner, over two versions of a course in which nothing but the order gates a lesson.
SPECIFICATION SessionSpec
CONSTANTS
  c1 = c1  l1 = l1  l2 = l2  m1 = m1  e1 = e1  t1 = t1
  NoVersion = NoVersion  NoEnrollment = NoEnrollment  NoLesson = NoLesson
  Courses = {c1}
  Paths = {}
  Lessons = {l1, l2}
  CourseOf <- OneCourse
  Structures <- EitherOrder
  MaxVersions = 2
  MaxAuthors = 1
  Members = {m1}
  Enrollments = {e1}
  MemberOf <- AllMemberOne
  TargetOf <- AllTargetCourse
  SequencedCourses = {}
  PracticalLessons = {}
  Assignments = {}
  AssignedTo <- NoFunction
  Required = {}
  Completing = {}
  MaxAttempts <- NoFunction
  Windowed = {}
  Certificates = {}
  CertificateSource <- NoFunction
  Tabs = {t1}
  MaxOpens = 1
INVARIANT CompleteIsTrue
PROPERTIES LearnersKeepOrder
