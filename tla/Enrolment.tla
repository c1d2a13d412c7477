------------------------------- MODULE Enrolment -------------------------------
(***************************************************************************)
(* Users on a course: the page that enrols a user and makes the user's     *)
(* repository, the check of membership in front of every page of a course, *)
(* and the course admins that either of them, or an admin by hand, makes.  *)
(*                                                                         *)
(* Every action is one transaction or one GitLab call, which may raise     *)
(* whether it was applied or not.  All courses are open; a request without *)
(* a valid session or secret, and a visit of a user who is not enrolled,   *)
(* end at their check and are left out.                                    *)
(***************************************************************************)
EXTENDS Courses

VARIABLES
    refused,        \* the projects to which GitLab did not add their user
    lapsed          \* history: <<c, u>> when u is no course admin of c any more, by
                    \* hand, and nothing has given u a claim to it since

vars == <<nsVars, handler, courseVars, refused, lapsed>>

Enrolling  == [kind : {"enrol"}, user : Users, name : Names, token : BOOLEAN]
Visiting   == [kind : {"visit"}, user : Users, name : Names]
ByHand     == [kind : {"appoint", "dismiss"}, user : Users, name : Names]

EnrolSteps == {"sync", "folder", "fork", "access"}
VisitSteps == {"project", "role", "syncadmin", "syncplain"}

Path(r)    == course[req[r].name]
Project(r) == <<Path(r), req[r].user>>
Flag(r)    == <<req[r].name, req[r].user>>

InitEnrolment(w) ==
    /\ InitCourses(w)
    /\ refused = {} /\ lapsed = {}

(* An action of this module on the database, and one on GitLab. *)
KeepsGitLab == UNCHANGED <<nsVars, course, coursesRms, hold, slipped, refused>>
KeepsCourses == UNCHANGED <<nsVars, req, courses, cgroup, repo, top, first, slipped, lapsed>>

(* A step of r that changes nothing but where r is. *)
Proceeds(r, from, to) == Moves(r, from, to) /\ UNCHANGED <<refused, lapsed>>

Promote(r) ==
    /\ cadmin' = [cadmin EXCEPT ![req[r].name] = @ \cup {req[r].user}]
    /\ lapsed' = lapsed \ {Flag(r)}

-----------------------------------------------------------------------------
(* POST /<course>/create_project.                                          *)

EnrolAccept(r) ==
    \E u \in Users, c \in Names, t \in BOOLEAN :
        /\ course[c] # None
        /\ Arrive(r, [kind |-> "enrol", user |-> u, name |-> c, token |-> t], "sync")
        /\ UNCHANGED <<nsVars, courseVars, refused, lapsed>>

(* Who gives the course's token for a secret becomes a course admin. *)
Sync(r) ==
    /\ pc[r] = "sync"
    /\ enrolled' = [enrolled EXCEPT ![req[r].name] = @ \cup {req[r].user}]
    /\ IF req[r].token THEN Promote(r) ELSE UNCHANGED <<cadmin, lapsed>>
    /\ Goto(r, "folder")
    /\ UNCHANGED req /\ KeepsGitLab

(* The students group is made when it is missing, inside the course's. *)
StudentsFolder(r) ==
    /\ pc[r] = "folder"
    /\ \/ /\ cgroup[Path(r)] # None
          /\ students' = students \cup {Path(r)}
          /\ hold' = [hold EXCEPT ![r] = cgroup[Path(r)]]
          /\ Goto(r, "fork")
       \/ /\ \/ UNCHANGED students
             \/ cgroup[Path(r)] # None /\ students' = students \cup {Path(r)}
          /\ Goto(r, "failed")
          /\ UNCHANGED hold
    /\ UNCHANGED <<projects, refused>> /\ KeepsCourses

(* A project that exists is not forked again. *)
ForkMade(r) ==
    IF cgroup[Path(r)] = hold[r] /\ Path(r) \in repo \cap students
    THEN forks \cup {Project(r)} ELSE forks

(* A mutant of Fork: a project that exists is left as it is. *)
ForkOrLeave(r) ==
    /\ pc[r] = "fork"
    /\ \/ Project(r) \in forks /\ UNCHANGED forks /\ Goto(r, "done")
       \/ /\ Project(r) \notin forks /\ Project(r) \in ForkMade(r)
          /\ forks' = ForkMade(r) /\ Goto(r, "access")
       \/ forks' \in {forks, ForkMade(r)} /\ Goto(r, "failed")
    /\ UNCHANGED <<students, access, hold, refused>> /\ KeepsCourses

Fork(r) ==
    /\ pc[r] = "fork"
    /\ \/ forks' = ForkMade(r) /\ Project(r) \in forks' /\ Goto(r, "access")
       \/ forks' \in {forks, ForkMade(r)} /\ Goto(r, "failed")
    /\ UNCHANGED <<students, access, hold, refused>> /\ KeepsCourses

(* Any error status of this last call is taken for a member who is there;  *)
(* the deletion of branch protections before it, or the connection, raise. *)
GrantAccess(r) ==
    /\ pc[r] = "access"
    /\ \/ Project(r) \in forks /\ access' = access \cup {Project(r)} /\ Goto(r, "done")
          /\ UNCHANGED refused
       \/ Goto(r, "done") /\ UNCHANGED access
          /\ refused' = refused \cup ({Project(r)} \ access)
       \/ access' \in {access, access \cup ({Project(r)} \cap forks)} /\ Goto(r, "failed")
          /\ UNCHANGED refused
    /\ UNCHANGED <<students, forks, hold>> /\ KeepsCourses

-----------------------------------------------------------------------------
(* requires_course_access, of a user who is enrolled.                      *)

VisitAccept(r) ==
    \E c \in Names : \E u \in enrolled[c] :
        /\ Arrive(r, [kind |-> "visit", user |-> u, name |-> c], "project")
        /\ UNCHANGED <<nsVars, courseVars, refused, lapsed>>

(* Without a project, or when GitLab cannot say, the enrolment is offered. *)
CheckProject(r) ==
    \/ Proceeds(r, "project", "role") /\ Project(r) \in forks
    \/ Proceeds(r, "project", "rejected")

(* A mutant of ReadRole: every kind of course admin counts. *)
ReadRoleOnCourse(r) ==
    LET n == SpaceOf[Path(r)]
        isAdmin == \/ req[r].user \in admins \/ req[r].user \in cadmin[req[r].name]
                   \/ n # None /\ role[n][req[r].user] = "namespace_admin"
    IN Proceeds(r, "role", IF isAdmin THEN "syncadmin" ELSE "syncplain")

ReadRole(r) ==
    Proceeds(r, "role", IF req[r].user \in admins THEN "syncadmin" ELSE "syncplain")

(* The row keeps an admin it has; the role was read before. *)
SyncVisitor(r) ==
    \/ Proceeds(r, "syncplain", "done")
    \/ /\ pc[r] = "syncadmin"
       /\ cadmin' = [cadmin EXCEPT ![req[r].name] = @ \cup {req[r].user}]
       /\ Goto(r, "done")
       /\ UNCHANGED <<req, enrolled, lapsed>> /\ KeepsGitLab

-----------------------------------------------------------------------------
(* The users on the page of a course's settings.                           *)

IsCourseAdmin(u, c) ==
    LET n == SpaceOf[course[c]] IN
    \/ u \in admins \cup cadmin[c]
    \/ n # None /\ (creator[n] = u \/ role[n][u] = "namespace_admin")

SetAccept(r) ==
    \E k \in {"appoint", "dismiss"}, a, u \in Users, c \in Names :
        /\ course[c] # None /\ IsCourseAdmin(a, c) /\ u \in enrolled[c]
        /\ Arrive(r, [kind |-> k, user |-> u, name |-> c], "setadmin")
        /\ UNCHANGED <<nsVars, courseVars, refused, lapsed>>

(* A visit that has read that its user is an instance admin, and an instance *)
(* admin, still have a claim.                                              *)
Claims(c, u) ==
    \/ u \in admins
    \/ \E r \in Requests : pc[r] = "syncadmin" /\ Flag(r) = <<c, u>>

SetAdmin(r) ==
    /\ pc[r] = "setadmin"
    /\ IF req[r].kind = "appoint" THEN Promote(r)
       ELSE /\ cadmin' = [cadmin EXCEPT ![req[r].name] = @ \ {req[r].user}]
            /\ lapsed' = lapsed \cup {f \in {Flag(r)} : ~Claims(f[1], f[2])}
    /\ Goto(r, "done")
    /\ UNCHANGED <<req, enrolled>> /\ KeepsGitLab

-----------------------------------------------------------------------------
DieOnCourse(r) ==
    \E step \in EnrolSteps \cup VisitSteps \cup {"setadmin"} : Proceeds(r, step, "stopped")

EnrolmentStep(r) ==
    \/ EnrolAccept(r) \/ Sync(r) \/ StudentsFolder(r) \/ Fork(r) \/ GrantAccess(r)
    \/ VisitAccept(r) \/ CheckProject(r) \/ ReadRole(r) \/ SyncVisitor(r)
    \/ SetAccept(r) \/ SetAdmin(r) \/ DieOnCourse(r)

(* Owners who are added, and new instance admins, have a claim. *)
Elsewhere ==
    /\ NextCourses
    /\ lapsed' = {f \in lapsed : f[2] \notin admins' \cup (cadmin'[f[1]] \ cadmin[f[1]])}
    /\ UNCHANGED refused

Next == Elsewhere \/ \E r \in Requests : EnrolmentStep(r)

Init == \E w \in Workload : InitEnrolment(w)

Spec == Init /\ [][Next]_vars

-----------------------------------------------------------------------------
(* Properties.                                                             *)

TypeOK ==
    /\ CoursesTypeOK
    /\ refused \subseteq Slugs \X Users
    /\ lapsed \subseteq Names \X Users
    /\ \A r \in Requests :
          /\ pc[r] \in EnrolSteps => req[r] \in Enrolling
          /\ pc[r] \in VisitSteps => req[r] \in Visiting
          /\ pc[r] = "setadmin" => req[r] \in ByHand

(* Who was sent on to the course by create_project, or was shown a page of *)
(* it, can push: the user is a member of the project, although it is forked *)
(* and opened in two calls, several tabs and retries of the user overlap,  *)
(* and each may fail or die in between.  Excepted are the holes nothing    *)
(* repairs: an error that create_project swallows, a page shown over the   *)
(* fork of an enrolment that has not come to its end, and a roll-back that *)
(* deletes the group.                                                      *)
WelcomedCanPush ==
    \A r \in Requests :
        req[r].kind \in {"enrol", "visit"} /\ pc[r] = "done" =>
            \/ Project(r) \in access \cup refused
            \/ \E o \in Requests : pc[o] \in Undoing \cup {"undone"} /\ Slug(o) = Path(r)
            \/ /\ req[r].kind = "visit"
               /\ \E o \in Requests :
                      /\ req[o].kind = "enrol" /\ pc[o] \in EnrolSteps \cup {"failed", "stopped"}
                      /\ Project(o) = Project(r)

(* A course admin who was dismissed stays dismissed, unless the user is or  *)
(* becomes an instance admin, gives the token, or is made an owner or an   *)
(* admin anew: the rights that sync_user_on_course gives on every page are *)
(* the instance's, not the ones the course or its namespace gave.          *)
DismissedStay == \A f \in lapsed : f[2] \notin cadmin[f[1]]

=============================================================================
