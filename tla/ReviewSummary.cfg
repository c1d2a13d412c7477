SPECIFICATION MCSpec
CONSTANTS
  None = None
  Malformed = Malformed
  Deletion = Deletion
  AdminToken = AdminToken
  Bot = Bot
  ca = ca
  t1 = t1
  t2 = t2
  m1 = m1
  m2 = m2
  k1 = k1
  k2 = k2
  k3 = k3
  x = x
  y = y
  student = student
  q1 = q1
  q2 = q2
  Courses = {ca}
  Tokens = {t1, t2}
  Configs <- MCConfigs
  Requests = {q1, q2}
  Inquiries <- MCInquiries
  TTL = 2
  MRs = {m1, m2}
  Tasks = {k1, k2, k3}
  Users = {student, Bot}
  Checklist <- MCChecklist
  Labelled <- MCLabelled
  Failing <- MCFailing
  Workers = 2
  Attempts = 2
INVARIANTS TypeOK OneSummary LabelledHasSummary LabelsSaySummary TokensFade
PROPERTIES OthersNotesStay SummariesConverge
