SPECIFICATION Spec
CONSTANTS
    a = a
    b = b
    k1 = k1
    k2 = k2
    k3 = k3
    m1 = m1
    m2 = m2
    s1 = s1
    s2 = s2
    teacher = teacher
    Bot = Bot
    NoScore = NoScore
    Courses = {a, b}
    Tasks = {k1, k2, k3}
    MRs = {m1, m2}
    Students = {s1, s2}
    Users <- MCUsers
    CourseOf <- MCCourseOf
    Config <- MCTrailing
    Manual = {k1, k2, k3}
    Labelled <- MCLabelled
    Owner <- MCOwner
    Iid <- MCIid
    NumComments = 1
    CommentMR <- MCCommentMR
    CommentAuthor <- MCCommentAuthor
    CommentScore <- MCCommentScore
    Admins <- MCAdmins
    Broken = {m1, k2}
    Attempts = 2
    Delayed = TRUE
    MaxFaults = 2
PROPERTIES ScoresAreProcessed RepeatedOnlyAfterTrouble
