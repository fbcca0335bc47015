\* One enrollment over two versions of a sequenced course, with a practical and a certified assessment.
SPECIFICATION CourseSpec
CONSTANTS
  c1 = c1  c2 = c2  p1 = p1  l1 = l1  l2 = l2
  m1 = m1  e1 = e1  e2 = e2  a1 = a1  k1 = k1
  NoVersion = NoVersion  NoEnrollment = NoEnrollment
  Courses = {c1}
  Paths = {}
  Lessons = {l1, l2}
  CourseOf <- LessonsOfOne
  Structures <- AllStructures
  MaxVersions = 2
  MaxAuthors = 1
  Members = {m1}
  Enrollments = {e1}
  MemberOf <- AllMemberOne
  TargetOf <- AllTargetCourse
  SequencedCourses = {c1}
  PracticalLessons = {l1}
  Assignments = {a1}
  AssignedTo <- AssignedToLast
  Required = {a1}
  Completing = {a1}
  MaxAttempts <- TwoAttempts
  Windowed = {a1}
  Certificates = {k1}
  CertificateSource <- CertifyAssignment
INVARIANTS CompletionExact SequenceRespected PinsAgree WayForward DisplayMatchesGate CredentialsEarned EventsTruthful
PROPERTIES EvidenceKept
