-------------------------------- MODULE Courses --------------------------------
(***************************************************************************)
(* The creation of courses, next to the requests of Namespaces: a sequence *)
(* of GitLab calls, the course's row and its owners, by the API (which     *)
(* rolls GitLab back) or by the page of the web site (which does not).     *)
(*                                                                         *)
(* Every action is one GitLab call or one transaction.  A call may raise,  *)
(* applied or not, a transaction may raise, and a handler may die between  *)
(* two actions.  A slug stands for the full path of the course's group; a  *)
(* form of the web site is one whose paths agree with each other; no two   *)
(* paths end alike.  All requests are of one semester, which the students  *)
(* groups are named for.                                                   *)
(***************************************************************************)
EXTENDS Namespaces

CONSTANTS
    Names,          \* of courses
    Slugs, SpaceOf, \* the courses' paths, with the namespace of each or None
    Owners          \* the sets of users a request may ask for as owners

VARIABLES
    course,         \* Course rows: the path recorded for a name, or None
    enrolled,       \* UserOnCourse rows: the users who have one, of each course
    cadmin,         \* UserOnCourse.is_course_admin
    cgroup,         \* GitLab's group of a path: its id, who made it
    repo,           \* the paths whose public repository exists
    students,       \* the paths inside which the students group exists
    forks, access,  \* the students' projects inside it, and whose members they are
    top,            \* whether the top-level group of that name exists
    first,          \* what GitLab has with the id 1, which is no course's
    hold,           \* course_group_id of a handler, None before
    slipped         \* the creations that met a fault of GitLab or died

courses    == <<course, enrolled, cadmin>>
projects   == <<forks, access>>
coursesRms == <<cgroup, repo, students, projects, top, first>>
courseVars == <<courses, coursesRms, hold, slipped>>

Creation == [kind : {"api", "web"}, name : Names, slug : Slugs, owners : Owners]

ASSUME CoursesAssumption ==
    /\ SpaceOf \in [Slugs -> Spaces \cup {None}] /\ None \notin Spaces
    /\ {} \in Owners /\ Owners \subseteq SUBSET Users
    /\ None \notin Slugs \cup Requests \cup Names /\ Requests \cap Names = {}
    /\ \A w \in Workload : w.courses \in [Names -> Slugs \cup {None}] /\ w.staff \subseteq Users

Undoing     == {"undostudents", "undoproject", "undogroup"}
CourseSteps == {"cgroup", "repo", "students", "course", "owners", "answer"}

(* The courses of a workload exist from the start, and the users of staff   *)
(* are on them as admins with a repository.                                *)
InitCourses(w) ==
    LET founded(s) == {c \in Names : w.courses[c] = s}
        used == {s \in Slugs : founded(s) # {}}
        staff(c) == IF w.courses[c] = None THEN {} ELSE w.staff
    IN
    /\ InitNamespaces(w)
    /\ course = w.courses
    /\ enrolled = [c \in Names |-> staff(c)] /\ cadmin = enrolled
    /\ cgroup = [s \in Slugs |-> IF s \in used THEN CHOOSE c \in founded(s) : TRUE ELSE None]
    /\ repo = used /\ top = FALSE
    /\ forks = used \X w.staff /\ access = forks
    /\ students = {f[1] : f \in forks}
    /\ first = {"group", "project"}
    /\ hold = [r \in Requests |-> None]
    /\ slipped = {}

ByApi(r) == req[r].kind = "api"
Slug(r)  == req[r].slug

(* The next step of r is the one of its kind. *)
GotoOf(r, api, web) == Goto(r, IF ByApi(r) THEN api ELSE web)

Slips(r) == slipped' = slipped \cup {r}

-----------------------------------------------------------------------------
(* create_course_api, and create_course of the web site.                   *)

(* Without a namespace only instance admins create courses, and no owners. *)
MayCreate(actor, slug, owners) ==
    IF SpaceOf[slug] = None THEN actor \in admins /\ owners = {}
    ELSE Authorised(actor, SpaceOf[slug])

CourseAccept(r) ==
    \E kind \in {"api", "web"}, a \in Users, c \in Names, s \in Slugs, o \in Owners :
        /\ MayCreate(a, s, o)
        /\ kind = "web" => o = {}
        /\ Arrive(r, [kind |-> kind, name |-> c, slug |-> s, owners |-> o], "cgroup")
        /\ UNCHANGED <<nsVars, courseVars>>

(* A group that exists is taken over, whoever made it. *)
GroupOf(r) == IF cgroup[Slug(r)] = None THEN r ELSE cgroup[Slug(r)]

CourseGroup(r) ==
    /\ pc[r] = "cgroup"
    /\ LET made == [cgroup EXCEPT ![Slug(r)] = GroupOf(r)] IN
          \/ /\ cgroup' = made
             /\ hold' = [hold EXCEPT ![r] = GroupOf(r)]
             /\ Goto(r, "repo")
             /\ UNCHANGED slipped
          \/ /\ cgroup' \in {cgroup, made}
             /\ Goto(r, "failed")
             /\ Slips(r)
             /\ UNCHANGED hold
    /\ UNCHANGED <<nsVars, req, courses, repo, students, projects, top, first>>

(* The public repository is made in the group of its path, found by name. *)
RepoMade(r) == repo \cup {s \in {Slug(r)} : cgroup[s] # None}

(* A mutant of PublicRepo: a failure is only logged. *)
PublicRepoLogged(r) ==
    /\ pc[r] = "repo"
    /\ repo' \in {repo, RepoMade(r)}
    /\ Goto(r, "students")
    /\ UNCHANGED <<nsVars, req, courses, cgroup, students, projects, top, first, hold, slipped>>

(* A mutant of PublicRepo: the API leaves the course's group as well. *)
PublicRepoLeft(r) ==
    /\ pc[r] = "repo"
    /\ \/ cgroup[Slug(r)] # None /\ repo' = RepoMade(r) /\ Goto(r, "students")
       \/ repo' \in {repo, RepoMade(r)} /\ Goto(r, "failed")
    /\ UNCHANGED <<nsVars, req, courses, cgroup, students, projects, top, first, hold, slipped>>

PublicRepo(r) ==
    /\ pc[r] = "repo"
    /\ \/ cgroup[Slug(r)] # None /\ repo' = RepoMade(r) /\ Goto(r, "students")
       \/ repo' \in {repo, RepoMade(r)} /\ GotoOf(r, "undogroup", "failed")
    /\ UNCHANGED <<nsVars, req, courses, cgroup, students, projects, top, first, hold, slipped>>

(* Nothing to do when the group of that path exists.  The web site makes   *)
(* it inside the course's group, and needs that group.  The API names no   *)
(* parent: it makes a top-level group, and raises when that exists.        *)
StudentsMade(r) ==
    IF ~ByApi(r) /\ cgroup[Slug(r)] = hold[r] THEN students \cup {Slug(r)} ELSE students

StudentsGroup(r) ==
    /\ pc[r] = "students"
    /\ \/ /\ \/ Slug(r) \in students
             \/ ByApi(r) /\ ~top
             \/ ~ByApi(r) /\ cgroup[Slug(r)] = hold[r]
          /\ students' = StudentsMade(r)
          /\ top' = (top \/ (ByApi(r) /\ Slug(r) \notin students))
          /\ Goto(r, "course")
       \/ /\ students' \in {students, StudentsMade(r)}
          /\ top' \in {top, top \/ (ByApi(r) /\ Slug(r) \notin students)}
          /\ GotoOf(r, "undoproject", "failed")
    /\ UNCHANGED <<nsVars, req, courses, cgroup, repo, projects, first, hold, slipped>>

CreateCourse(r) ==
    /\ pc[r] = "course"
    /\ course[req[r].name] = None
    /\ course' = [course EXCEPT ![req[r].name] = Slug(r)]
    /\ GotoOf(r, IF req[r].owners = {} THEN "answer" ELSE "owners", "done")
    /\ UNCHANGED <<nsVars, req, enrolled, cadmin, coursesRms, hold, slipped>>

(* A step of r that changes nothing but where r is. *)
Moves(r, from, to) ==
    pc[r] = from /\ Goto(r, to) /\ UNCHANGED <<nsVars, req, courseVars>>

NameTaken(r) ==
    /\ Moves(r, "course", IF ByApi(r) THEN "undostudents" ELSE "failed")
    /\ course[req[r].name] # None

(* One transaction: every owner must be an admin of the namespace by now.  *)
MayOwn(r) == \A u \in req[r].owners : role[SpaceOf[Slug(r)]][u] = "namespace_admin"

AddOwners(r) ==
    /\ pc[r] = "owners" /\ MayOwn(r)
    /\ enrolled' = [enrolled EXCEPT ![req[r].name] = @ \cup req[r].owners]
    /\ cadmin' = [cadmin EXCEPT ![req[r].name] = @ \cup req[r].owners]
    /\ Goto(r, "answer")
    /\ UNCHANGED <<nsVars, req, course, coursesRms, hold, slipped>>

(* The course stays, without owners. *)
OwnersRefused(r) == Moves(r, "owners", "failed") /\ ~MayOwn(r)

Answer(r) == Moves(r, "answer", "done")

(* A transaction raises: the API rolls GitLab back, except for the owners. *)
DatabaseFails(r) ==
    \/ Moves(r, "course", IF ByApi(r) THEN "undostudents" ELSE "failed")
    \/ Moves(r, "owners", "failed")
    \/ Moves(r, "answer", "undostudents")

-----------------------------------------------------------------------------
(* The roll-back.  delete_group and delete_project do not raise.  For the  *)
(* students group and the project they are given the placeholder id 1.     *)

UndoFirst(r, from, what, to) ==
    /\ pc[r] = from
    /\ first' \in {first, first \ {what}}
    /\ Goto(r, to)
    /\ UNCHANGED <<nsVars, req, courses, cgroup, repo, students, projects, top, hold, slipped>>

UndoStudents(r) == UndoFirst(r, "undostudents", "group", "undoproject")
UndoProject(r)  == UndoFirst(r, "undoproject", "project", "undogroup")

(* With the group goes everything inside it. *)
UndoGroup(r) ==
    /\ pc[r] = "undogroup"
    /\ Goto(r, "undone")
    /\ \/ LET gone == {s \in Slugs : cgroup[s] = hold[r]} IN
          /\ cgroup' = [s \in Slugs |-> IF s \in gone THEN None ELSE cgroup[s]]
          /\ repo' = repo \ gone
          /\ students' = students \ gone
          /\ forks' = {f \in forks : f[1] \notin gone}
          /\ access' = {f \in access : f[1] \notin gone}
          /\ UNCHANGED slipped
       \/ Slips(r) /\ UNCHANGED <<cgroup, repo, students, projects>>
    /\ UNCHANGED <<nsVars, req, courses, top, first, hold>>

DieCreating(r) ==
    /\ pc[r] \in CourseSteps \cup Undoing
    /\ Goto(r, IF pc[r] \in Undoing THEN "undone" ELSE "stopped")
    /\ Slips(r)
    /\ UNCHANGED <<nsVars, req, courses, coursesRms, hold>>

CourseStep(r) ==
    \/ CourseAccept(r) \/ CourseGroup(r) \/ PublicRepo(r) \/ StudentsGroup(r)
    \/ CreateCourse(r) \/ NameTaken(r) \/ AddOwners(r) \/ OwnersRefused(r)
    \/ Answer(r) \/ DatabaseFails(r)
    \/ UndoStudents(r) \/ UndoProject(r) \/ UndoGroup(r) \/ DieCreating(r)

NextCourses ==
    \/ NextNamespaces /\ UNCHANGED courseVars
    \/ \E r \in Requests : CourseStep(r)

-----------------------------------------------------------------------------
(* Properties.                                                             *)

(* Every variable of Courses and of Namespaces keeps its type; what GitLab *)
(* has inside a course's group is gone with the group.                     *)
CoursesTypeOK ==
    /\ NamespacesTypeOK
    /\ course \in [Names -> Slugs \cup {None}]
    /\ enrolled \in [Names -> SUBSET Users]
    /\ \A c \in Names : cadmin[c] \subseteq enrolled[c]
    /\ cgroup \in [Slugs -> Requests \cup Names \cup {None}]
    /\ repo \cup students \subseteq {s \in Slugs : cgroup[s] # None}
    /\ access \subseteq forks /\ forks \subseteq students \X Users
    /\ top \in BOOLEAN /\ first \subseteq {"group", "project"}
    /\ hold \in [Requests -> Requests \cup Names \cup {None}]
    /\ slipped \subseteq Requests
    /\ \A r \in Requests : pc[r] \in CourseSteps \cup Undoing => req[r] \in Creation

(* A course in the database has its group and its public repository, for   *)
(* only the roll-back of a creation of the same path removes them: the row *)
(* is written after both exist, by whichever of two creations, whether     *)
(* other creations of the path or of the name failed, raised or died.      *)
CourseHasGroup ==
    \A c \in Names :
        LET s == course[c] IN
        \/ s = None
        \/ s \in repo
        \/ \E r \in Requests : pc[r] \in Undoing \cup {"undone"} /\ Slug(r) = s

(* create_course_api leaves no group of its own behind when it fails,      *)
(* unless GitLab failed on that group, the handler died, or the course's   *)
(* row is there: every failure before the row has a roll-back that reaches *)
(* the group, also when another creation took the group over.              *)
FailedLeavesNothing ==
    \A r \in Requests \ slipped :
        /\ pc[r] \in {"failed", "undone"}
        /\ req[r].kind = "api"
        /\ course[req[r].name] # Slug(r)
        => \A s \in Slugs : cgroup[s] # r

(* "409: Conflict (course with this slug already exists)", docstring of    *)
(* create_course_api: two courses never share the group of one path.       *)
SlugsUnique ==
    \A c, d \in Names : course[c] = course[d] /\ course[c] # None => c = d

=============================================================================
