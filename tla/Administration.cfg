SPECIFICATION Spec
CONSTANTS
    None = None
    root = root
    a = a
    b = b
    n1 = n1
    n2 = n2
    r1 = r1
    r2 = r2
    r3 = r3
    s0 = s0
    s1 = s1
    c1 = c1
    c2 = c2
    Users = {root, a, b}
    Spaces = {n1, n2}
    Requests = {r1, r2, r3}
    Names = {c1, c2}
    Slugs = {s0, s1}
    SpaceOf <- MCSpaceOf
    Owners <- MCOwners
    Zero = root
    InitAdmins = {root, a}
    InitCreator <- MCInitCreator
    InitRole <- MCInitRole
    Workload <- MCWorkload
CHECK_DEADLOCK FALSE
INVARIANTS TypeOK RolesAreMembers AdminRemains CourseHasGroup FailedLeavesNothing WelcomedCanPush DismissedStay
