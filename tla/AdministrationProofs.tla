------------------------ MODULE AdministrationProofs ------------------------
(***************************************************************************)
(* Proofs about Namespaces, Courses and Enrolment together, for every set  *)
(* of users, namespaces, courses and requests: the types, what the roles   *)
(* and the GitLab groups promise each other, and the instance admins.      *)
(***************************************************************************)
EXTENDS Enrolment, FiniteSetTheorems, TLAPS

Asked == Change \cup Panel \cup Creation \cup Enrolling \cup Visiting \cup ByHand

Grouped == {"repo", "students", "course", "owners", "answer"} \cup Undoing

(* What the types rest on.  A request carries what it asks from its arrival *)
(* on, an addition never the role of a student; a creation knows its group once GitLab has answered; requests about *)
(* the users of a course are about a course with a row, and the row of a   *)
(* user is never deleted.                                                  *)
Known(r) ==
    /\ pc[r] # "idle" => req[r] \in Asked
    /\ pc[r] = "addrow" => req[r].role \in Roles
    /\ pc[r] \in Grouped => hold[r] # None
    /\ pc[r] \in {"owners", "answer"} => course[req[r].name] = Slug(r)
    /\ pc[r] # "idle" /\ req[r].kind \in {"enrol", "visit", "appoint", "dismiss"} =>
          course[req[r].name] # None
    /\ pc[r] # "idle" /\ req[r].kind \in {"visit", "appoint", "dismiss"} =>
          req[r].user \in enrolled[req[r].name]

NamespacesData ==
    /\ admins \subseteq Users
    /\ creator \in [Spaces -> Users \cup {None}]
    /\ role \in [Spaces -> [Users -> Roles \cup {None}]]
    /\ group \subseteq Spaces
    /\ member \in [Spaces -> SUBSET Users]
    /\ disturbed \subseteq (Spaces \X Users) \cup Requests

CoursesData ==
    /\ course \in [Names -> Slugs \cup {None}]
    /\ enrolled \in [Names -> SUBSET Users]
    /\ cadmin \in [Names -> SUBSET Users]
    /\ \A c \in Names : cadmin[c] \subseteq enrolled[c]
    /\ \A c \in Names : enrolled[c] # {} => course[c] # None
    /\ cgroup \in [Slugs -> Requests \cup Names \cup {None}]
    /\ repo \cup students \subseteq {s \in Slugs : cgroup[s] # None}
    /\ access \subseteq forks /\ forks \subseteq students \X Users
    /\ top \in BOOLEAN /\ first \subseteq {"group", "project"}
    /\ hold \in [Requests -> Requests \cup Names \cup {None}]
    /\ slipped \subseteq Requests

HistoryData ==
    /\ refused \subseteq Slugs \X Users
    /\ lapsed \subseteq Names \X Users

TypedRequest(r) ==
    /\ pc[r] \in ChangeSteps => req[r] \in Change
    /\ pc[r] \in PanelSteps => req[r] \in Panel
    /\ pc[r] \in CourseSteps \cup Undoing => req[r] \in Creation
    /\ pc[r] \in EnrolSteps => req[r] \in Enrolling
    /\ pc[r] \in VisitSteps => req[r] \in Visiting
    /\ pc[r] = "setadmin" => req[r] \in ByHand

Domains == DOMAIN pc = Requests /\ DOMAIN req = Requests

Shape ==
    /\ NamespacesData /\ CoursesData /\ HistoryData /\ Domains
    /\ \A r \in Requests : TypedRequest(r) /\ Known(r)

-----------------------------------------------------------------------------
(* Who moves.  A step is one request's: the others stay where they are.    *)

Others(r) ==
    /\ DOMAIN pc' = Requests /\ DOMAIN req' = Requests
    /\ \A o \in Requests \ {r} : pc'[o] = pc[o] /\ req'[o] = req[o]

MovesIn(r, steps, ends) == /\ pc[r] \in steps
                           /\ pc'[r] \in steps \cup ends
                           /\ req'[r] = req[r]

Arrives(r, steps, kinds) == /\ pc[r] = "idle"
                            /\ pc'[r] \in steps
                            /\ req'[r] \in kinds

(* What a request of Namespaces does to the handlers. *)
LEMMA NamespaceMoves ==
    ASSUME Domains, admins \subseteq Users, NEW r \in Requests, NamespaceStep(r)
    PROVE  /\ Others(r)
           /\ pc'[r] = "addrow" => req'[r].role \in Roles
           /\ \/ Arrives(r, {"group", "addrow", "removerow", "demote", "updaterow"}, Change)
              \/ Arrives(r, {"grant", "count"}, Panel)
              \/ MovesIn(r, ChangeSteps, Ended)
              \/ MovesIn(r, PanelSteps, Ended)
<1> USE DEF Domains, Others, Goto, Skips
<1>1. CASE CreateAccept(r)
  BY <1>1 DEF CreateAccept, AcceptChange, Arrive, Arrives, Change, Roles
<1>2. CASE AddAccept(r)
  BY <1>2 DEF AddAccept, AcceptChange, Arrive, Arrives, Change
<1>3. CASE RemoveAccept(r)
  BY <1>3 DEF RemoveAccept, AcceptChange, Arrive, Arrives, Change
<1>4. CASE UpdateAccept(r)
  BY <1>4 DEF UpdateAccept, AcceptChange, Arrive, Arrives, Change
<1>5. CASE GrantAccept(r) \/ RevokeAccept(r)
  BY <1>5 DEF GrantAccept, RevokeAccept, Arrive, Arrives, Panel
<1>6. CASE CreateGroup(r) \/ CreateRow(r) \/ RowExists(r) \/ CreateOwner(r) \/ OwnerExists(r)
  BY <1>6 DEF CreateGroup, CreateRow, RowExists, CreateOwner, OwnerExists, SetRole,
              MovesIn, ChangeSteps, Ended
<1>7. CASE JoinGroup(r) \/ AddMember(r) \/ RemoveMember(r) \/ DemoteMember(r)
  BY <1>7 DEF JoinGroup, AddMember, RemoveMember, DemoteMember, AddToGroup, RemoveFromGroup,
              SetMembers, MovesIn, ChangeSteps, Ended
<1>8. CASE AddRow(r) \/ AddConflict(r) \/ RemoveRow(r) \/ UpdateRow(r) \/ NotFound(r)
  BY <1>8 DEF AddRow, AddConflict, RemoveRow, UpdateRow, NotFound, SetRole,
              MovesIn, ChangeSteps, Ended
<1>9. CASE GrantAdmin(r) \/ CountAdmins(r) \/ RevokeAdmin(r)
  BY <1>9 DEF GrantAdmin, CountAdmins, RevokeAdmin, MovesIn, PanelSteps, Ended
<1>10. CASE Die(r)
  BY <1>10 DEF Die, MovesIn, ChangeSteps, PanelSteps, Ended
<1> QED
  BY <1>1, <1>2, <1>3, <1>4, <1>5, <1>6, <1>7, <1>8, <1>9, <1>10 DEF NamespaceStep

(* What a request of Courses does, besides the rows and groups of courses. *)
LEMMA CourseMoves ==
    ASSUME Domains, NEW r \in Requests, CourseStep(r)
    PROVE  /\ Others(r) /\ UNCHANGED nsVars
           /\ \/ Arrives(r, {"cgroup"}, Creation)
              \/ MovesIn(r, CourseSteps \cup Undoing, Ended \cup {"undone"})
<1> USE DEF Domains, Others, Goto, GotoOf, Slips
<1>1. CASE CourseAccept(r)
  BY <1>1 DEF CourseAccept, Arrive, Arrives, Creation
<1>2. CASE CourseGroup(r) \/ PublicRepo(r) \/ StudentsGroup(r) \/ CreateCourse(r)
  BY <1>2 DEF CourseGroup, PublicRepo, StudentsGroup, CreateCourse,
              MovesIn, CourseSteps, Undoing, Ended
<1>3. CASE NameTaken(r) \/ OwnersRefused(r) \/ Answer(r) \/ DatabaseFails(r)
  BY <1>3 DEF NameTaken, OwnersRefused, Answer, DatabaseFails, Moves,
              MovesIn, CourseSteps, Undoing, Ended
<1>4. CASE AddOwners(r) \/ UndoStudents(r) \/ UndoProject(r)
  BY <1>4 DEF AddOwners, UndoStudents, UndoProject, UndoFirst,
              MovesIn, CourseSteps, Undoing, Ended
<1>5. CASE UndoGroup(r) \/ DieCreating(r)
  BY <1>5 DEF UndoGroup, DieCreating, MovesIn, CourseSteps, Undoing, Ended
<1> QED
  BY <1>1, <1>2, <1>3, <1>4, <1>5 DEF CourseStep

(* What a request of Enrolment does. *)
LEMMA EnrolmentMoves ==
    ASSUME Domains, enrolled \in [Names -> SUBSET Users], NEW r \in Requests, EnrolmentStep(r)
    PROVE  /\ Others(r) /\ UNCHANGED <<nsVars, course, cgroup, repo, slipped>>
           /\ \/ Arrives(r, {"sync"}, Enrolling)
              \/ Arrives(r, {"project"}, Visiting)
              \/ Arrives(r, {"setadmin"}, ByHand)
              \/ MovesIn(r, EnrolSteps, Ended)
              \/ MovesIn(r, VisitSteps, Ended)
              \/ MovesIn(r, {"setadmin"}, Ended)
<1> USE DEF Domains, Others, Goto, KeepsGitLab, KeepsCourses, courses, coursesRms, courseVars,
            projects
<1>1. CASE EnrolAccept(r)
  BY <1>1 DEF EnrolAccept, Arrive, Arrives, Enrolling
<1>2. CASE VisitAccept(r)
  BY <1>2 DEF VisitAccept, Arrive, Arrives, Visiting
<1>3. CASE SetAccept(r)
  BY <1>3 DEF SetAccept, Arrive, Arrives, ByHand
<1>4. CASE Sync(r) \/ StudentsFolder(r) \/ Fork(r) \/ GrantAccess(r)
  BY <1>4 DEF Sync, StudentsFolder, Fork, GrantAccess, MovesIn, EnrolSteps, Ended
<1>5. CASE CheckProject(r) \/ ReadRole(r) \/ SyncVisitor(r)
  BY <1>5 DEF CheckProject, ReadRole, SyncVisitor, Proceeds, Moves, MovesIn, VisitSteps, Ended
<1>6. CASE SetAdmin(r)
  BY <1>6 DEF SetAdmin, MovesIn, Ended
<1>7. CASE DieOnCourse(r)
  BY <1>7 DEF DieOnCourse, Proceeds, Moves, MovesIn, EnrolSteps, VisitSteps, Ended
<1> QED
  BY <1>1, <1>2, <1>3, <1>4, <1>5, <1>6, <1>7 DEF EnrolmentStep

-----------------------------------------------------------------------------
(* Types.                                                                  *)

LEMMA ShapeTypes == Shape => TypeOK
  BY DEF Shape, TypeOK, CoursesTypeOK, NamespacesTypeOK, NamespacesData, CoursesData,
         HistoryData, Domains, TypedRequest

(* Rows stay, and no request forgets its group but the one that moves.     *)
Stays(r) ==
    /\ \A c \in Names : course[c] # None => course'[c] = course[c]
    /\ \A c \in Names : enrolled[c] \subseteq enrolled'[c]
    /\ \A o \in Requests \ {r} : hold'[o] = hold[o]

(* The requests that do not move keep what is known of them. *)
LEMMA OthersKept ==
    ASSUME Shape, NEW r \in Requests, Others(r), Stays(r),
           TypedRequest(r)', Known(r)'
    PROVE  Domains' /\ \A o \in Requests : TypedRequest(o)' /\ Known(o)'
<1>1. Domains'
  BY DEF Others, Domains
<1>2. ASSUME NEW o \in Requests \ {r} PROVE TypedRequest(o)' /\ Known(o)'
  <2>1. pc'[o] = pc[o] /\ req'[o] = req[o] /\ hold'[o] = hold[o]
    BY DEF Others, Stays
  <2>2. TypedRequest(o) /\ Known(o) /\ CoursesData
    BY DEF Shape
  <2>3. TypedRequest(o)'
    BY <2>1, <2>2 DEF TypedRequest
  <2>4. CASE pc[o] = "idle"
    BY <2>1, <2>3, <2>4 DEF Known, Grouped, Undoing, Slug
  <2>5. CASE pc[o] # "idle"
    <3>1. req[o] \in Asked
      BY <2>2, <2>5 DEF Known
    <3>2. ASSUME \/ req[o].kind \in {"enrol", "visit", "appoint", "dismiss"}
                 \/ req[o] \in Creation
          PROVE  req[o].name \in Names
      BY <3>1, <3>2 DEF Asked, Change, Panel, Creation, Enrolling, Visiting, ByHand
    <3>3. pc[o] \in {"owners", "answer"} => course'[req[o].name] = Slug(o)
      <4>1. SUFFICES ASSUME pc[o] \in {"owners", "answer"} PROVE course'[req[o].name] = Slug(o)
        OBVIOUS
      <4>2. req[o] \in Creation /\ course[req[o].name] = Slug(o)
        BY <2>2, <4>1 DEF Known, TypedRequest, CourseSteps
      <4>3. Slug(o) # None
        BY <4>2, CoursesAssumption DEF Creation, Slug
      <4> QED
        BY <3>2, <4>2, <4>3 DEF Stays
    <3>4. req[o].kind \in {"enrol", "visit", "appoint", "dismiss"} =>
             course'[req[o].name] # None
      BY <2>2, <2>5, <3>2 DEF Known, Stays
    <3>5. req[o].kind \in {"visit", "appoint", "dismiss"} =>
             req[o].user \in enrolled'[req[o].name]
      BY <2>2, <2>5, <3>2 DEF Known, Stays
    <3> QED
      BY <2>1, <2>2, <2>3, <3>1, <3>3, <3>4, <3>5 DEF Known, Slug
  <2> QED
    BY <2>3, <2>4, <2>5
<1> QED
  BY <1>1, <1>2

(* A request of Namespaces leaves the types of its own module. *)
LEMMA NamespaceStepData ==
    ASSUME Shape, NEW r \in Requests, NamespaceStep(r)
    PROVE  NamespacesData'
<1>1. NamespacesData /\ Domains /\ TypedRequest(r) /\ Known(r)
  BY DEF Shape
<1>2. pc[r] \in ChangeSteps =>
         req[r].space \in Spaces /\ req[r].user \in Users /\ req[r].role \in Roles \cup {"student"}
  BY <1>1 DEF TypedRequest, Change
<1>3. pc[r] \in PanelSteps => req[r].user \in Users
  BY <1>1 DEF TypedRequest, Panel
<1> USE <1>1 DEF NamespacesData, data, gitlab, nsVars
<1>4. ASSUME NEW q \in Change, NEW step, AcceptChange(r, q, step)
      PROVE  NamespacesData'
  <2>1. \A o \in Requests : Meets(q, o) => req[o] \in Change
    BY DEF Shape, Meets, TypedRequest
  <2>2. Cell(q) \in Spaces \X Users
        /\ \A o \in Requests : Meets(q, o) => Cell(req[o]) \in Spaces \X Users
    BY <2>1 DEF Cell, Change
  <2> DEFINE met == UNION {{Cell(q), Cell(req[o])} : o \in {p \in Requests : Meets(q, p)}}
  <2>3. met \subseteq Spaces \X Users
    <3>1. ASSUME NEW x \in met PROVE x \in Spaces \X Users
      <4>1. PICK o \in Requests : Meets(q, o) /\ x \in {Cell(q), Cell(req[o])}
        BY <3>1
      <4> QED
        BY <2>2, <4>1
    <3> QED
      BY <3>1
  <2>4. disturbed' = disturbed \cup met \cup IF Taken(q) THEN {Cell(q)} ELSE {}
    BY <1>4 DEF AcceptChange
  <2> HIDE DEF met
  <2> QED
    BY <1>4, <2>2, <2>3, <2>4 DEF AcceptChange
<1>5. CASE CreateAccept(r)
  <2>1. PICK a \in admins, n \in Spaces :
           AcceptChange(r, [kind |-> "create", space |-> n, user |-> a,
                            role |-> "namespace_admin"], "group")
    BY <1>5 DEF CreateAccept
  <2> QED
    BY <1>4, <2>1 DEF Change, Roles
<1>6. CASE AddAccept(r)
  BY <1>4, <1>6 DEF AddAccept, Change
<1>7. CASE RemoveAccept(r)
  BY <1>4, <1>7 DEF RemoveAccept, Change
<1>8. CASE UpdateAccept(r)
  BY <1>4, <1>8 DEF UpdateAccept, Change
<1>9. CASE GrantAccept(r)
  BY <1>9 DEF GrantAccept
<1>10. CASE RevokeAccept(r)
  BY <1>10 DEF RevokeAccept, Revoking
<1>11. CASE CreateGroup(r)
  BY <1>2, <1>11 DEF CreateGroup, ChangeSteps
<1>12. CASE JoinGroup(r) \/ AddMember(r) \/ RemoveMember(r) \/ DemoteMember(r)
  BY <1>2, <1>12 DEF JoinGroup, AddMember, RemoveMember, DemoteMember, AddToGroup,
                     RemoveFromGroup, SetMembers, ChangeSteps, Cell
<1>13. CASE CreateRow(r)
  BY <1>2, <1>13 DEF CreateRow, ChangeSteps
<1>14. CASE RowExists(r) \/ OwnerExists(r) \/ AddConflict(r) \/ NotFound(r) \/ CountAdmins(r)
  BY <1>14 DEF RowExists, OwnerExists, AddConflict, NotFound, CountAdmins, Skips
<1>15. CASE CreateOwner(r) \/ AddRow(r) \/ RemoveRow(r) \/ UpdateRow(r)
  <2>1. ASSUME NEW new \in Roles \cup {None}, SetRole(r, new), pc[r] \in ChangeSteps
        PROVE  NamespacesData'
    BY <1>2, <2>1 DEF SetRole
  <2>2. CASE CreateOwner(r)
    BY <2>1, <2>2 DEF CreateOwner, ChangeSteps, Roles
  <2>3. CASE AddRow(r)
    BY <1>2, <2>1, <2>3 DEF AddRow, ChangeSteps, Known
  <2>4. CASE RemoveRow(r)
    BY <2>1, <2>4 DEF RemoveRow, ChangeSteps
  <2>5. CASE UpdateRow(r)
    BY <1>2, <2>1, <2>5 DEF UpdateRow, ChangeSteps
  <2> QED
    BY <1>15, <2>2, <2>3, <2>4, <2>5
<1>16. CASE GrantAdmin(r) \/ RevokeAdmin(r)
  BY <1>3, <1>16 DEF GrantAdmin, RevokeAdmin, PanelSteps
<1>17. CASE Die(r)
  BY <1>2, <1>17 DEF Die, Begun, Cell, ChangeSteps
<1> QED
  BY <1>5, <1>6, <1>7, <1>8, <1>9, <1>10, <1>11, <1>12, <1>13, <1>14, <1>15, <1>16, <1>17
     DEF NamespaceStep

(* A request of Courses keeps the types of the rows and of GitLab. *)
LEMMA CourseStepData ==
    ASSUME Shape, NEW r \in Requests, CourseStep(r)
    PROVE  CoursesData' /\ Stays(r) /\ TypedRequest(r)' /\ Known(r)'
<1>1. CoursesData /\ Domains /\ TypedRequest(r) /\ Known(r)
  BY DEF Shape
<1>2. pc[r] \in CourseSteps \cup Undoing =>
         /\ req[r] \in Creation /\ req[r] \in Asked
         /\ req[r].name \in Names /\ Slug(r) \in Slugs /\ req[r].owners \subseteq Users
         /\ Slug(r) # None
         /\ req[r].kind \notin {"enrol", "visit", "appoint", "dismiss"}
  BY <1>1, CoursesAssumption DEF TypedRequest, Creation, Slug, Asked
<1> DEFINE Idle == /\ pc[r] \in CourseSteps \cup Undoing
                   /\ req' = req /\ DOMAIN pc' = Requests
                   /\ pc'[r] \in CourseSteps \cup Undoing \cup Ended \cup {"undone"}
           Keep == /\ pc'[r] \in Grouped => hold'[r] # None
                   /\ pc'[r] \in {"owners", "answer"} => course'[req[r].name] = Slug(r)
<1>3. ASSUME Idle, Keep
      PROVE  TypedRequest(r)' /\ Known(r)'
  BY <1>2, <1>3 DEF Known, TypedRequest, Slug, ChangeSteps, PanelSteps, CourseSteps, Undoing,
                    EnrolSteps, VisitSteps, Ended
<1> HIDE DEF Idle, Keep
<1> USE DEF Goto, GotoOf, Slips
<1>4. CASE CourseAccept(r)
  <2>1. CoursesData' /\ Stays(r)
    BY <1>1, <1>4 DEF CourseAccept, CoursesData, courseVars, courses, coursesRms, projects, Stays
  <2>2. pc'[r] = "cgroup" /\ req'[r] \in Creation
    BY <1>1, <1>4 DEF CourseAccept, Arrive, Domains, Creation
  <2>3. TypedRequest(r)' /\ Known(r)'
    BY <2>2 DEF TypedRequest, Known, Asked, Creation, ChangeSteps, PanelSteps, EnrolSteps,
                VisitSteps, Grouped, Undoing, Slug
  <2> QED
    BY <2>1, <2>3
<1>5. CASE CourseGroup(r)
  <2>1. GroupOf(r) \in Requests \cup Names /\ GroupOf(r) # None
    BY <1>1, <1>2, <1>5, CoursesAssumption DEF CourseGroup, CourseSteps, CoursesData, GroupOf
  <2>2. Idle /\ Keep
    BY <1>1, <1>5, <2>1 DEF CourseGroup, Idle, Keep, Domains, CourseSteps, Ended, Grouped, Undoing,
                            CoursesData
  <2>3. CoursesData' /\ Stays(r)
    BY <1>1, <1>2, <1>5, <2>1 DEF CourseGroup, CourseSteps, CoursesData, Stays, courses, projects
  <2> QED
    BY <1>3, <2>2, <2>3
<1>6. CASE PublicRepo(r)
  <2>1. Idle /\ Keep
    BY <1>1, <1>6 DEF PublicRepo, Idle, Keep, Domains, CourseSteps, Ended, Grouped, Undoing, Known
  <2>2. CoursesData' /\ Stays(r)
    BY <1>1, <1>2, <1>6 DEF PublicRepo, RepoMade, CourseSteps, CoursesData, Stays, courses, projects
  <2> QED
    BY <1>3, <2>1, <2>2
<1>7. CASE StudentsGroup(r)
  <2>1. Idle /\ Keep
    BY <1>1, <1>7 DEF StudentsGroup, Idle, Keep, Domains, CourseSteps, Ended, Grouped, Undoing, Known
  <2>2. StudentsMade(r) \subseteq students \cup {s \in {Slug(r)} : cgroup[s] # None}
    BY <1>1, <1>7 DEF StudentsGroup, StudentsMade, Known, Grouped
  <2>3. CoursesData' /\ Stays(r)
    <3>1. students \subseteq students' /\ students' \subseteq StudentsMade(r)
      BY <1>7 DEF StudentsGroup, StudentsMade
    <3>2. top' \in BOOLEAN
      BY <1>1, <1>7 DEF StudentsGroup, CoursesData
    <3> QED
      BY <1>1, <1>2, <1>7, <2>2, <3>1, <3>2
         DEF StudentsGroup, CourseSteps, CoursesData, Stays, courses, projects
  <2> QED
    BY <1>3, <2>1, <2>3
<1>8. CASE CreateCourse(r)
  <2>1. Idle /\ Keep
    BY <1>1, <1>2, <1>8 DEF CreateCourse, Idle, Keep, Domains, CourseSteps, Ended, Grouped, Undoing,
                            Known, CoursesData
  <2>2. CoursesData' /\ Stays(r)
    BY <1>1, <1>2, <1>8 DEF CreateCourse, CourseSteps, CoursesData, Stays, coursesRms, projects
  <2> QED
    BY <1>3, <2>1, <2>2
<1>9. CASE NameTaken(r) \/ OwnersRefused(r) \/ Answer(r) \/ DatabaseFails(r)
  <2>1. Idle /\ Keep
    BY <1>1, <1>9 DEF NameTaken, OwnersRefused, Answer, DatabaseFails, Moves, Idle, Keep, Domains,
                      CourseSteps, Ended, Grouped, Undoing, Known, courseVars
  <2>2. UNCHANGED courseVars
    BY <1>9 DEF NameTaken, OwnersRefused, Answer, DatabaseFails, Moves
  <2>3. CoursesData' /\ Stays(r)
    BY <1>1, <2>2 DEF CoursesData, courseVars, courses, coursesRms, projects, Stays
  <2> QED
    BY <1>3, <2>1, <2>3
<1>10. CASE AddOwners(r)
  <2>1. Idle /\ Keep
    BY <1>1, <1>10 DEF AddOwners, Idle, Keep, Domains, CourseSteps, Ended, Grouped, Undoing, Known
  <2>2. course[req[r].name] # None
    BY <1>1, <1>2, <1>10 DEF AddOwners, Known, CourseSteps
  <2>3. CoursesData' /\ Stays(r)
    BY <1>1, <1>2, <1>10, <2>2 DEF AddOwners, CourseSteps, CoursesData, Stays, coursesRms, projects
  <2> QED
    BY <1>3, <2>1, <2>3
<1>11. CASE UndoStudents(r) \/ UndoProject(r)
  <2>1. Idle /\ Keep
    BY <1>1, <1>11 DEF UndoStudents, UndoProject, UndoFirst, Idle, Keep, Domains, CourseSteps, Ended,
                       Grouped, Undoing, Known
  <2>2. CoursesData' /\ Stays(r)
    BY <1>1, <1>11 DEF UndoStudents, UndoProject, UndoFirst, CoursesData, Stays, courses, projects
  <2> QED
    BY <1>3, <2>1, <2>2
<1>12. CASE UndoGroup(r)
  <2>1. Idle /\ Keep
    BY <1>1, <1>12 DEF UndoGroup, Idle, Keep, Domains, CourseSteps, Ended, Grouped, Undoing
  <2>2. CoursesData' /\ Stays(r)
    BY <1>1, <1>12 DEF UndoGroup, CoursesData, Stays, courses, projects
  <2> QED
    BY <1>3, <2>1, <2>2
<1>13. CASE DieCreating(r)
  <2>1. Idle /\ Keep
    BY <1>1, <1>13 DEF DieCreating, Idle, Keep, Domains, CourseSteps, Ended, Grouped, Undoing
  <2>2. CoursesData' /\ Stays(r)
    BY <1>1, <1>13 DEF DieCreating, CoursesData, Stays, courses, coursesRms, projects
  <2> QED
    BY <1>3, <2>1, <2>2
<1> QED
  BY <1>4, <1>5, <1>6, <1>7, <1>8, <1>9, <1>10, <1>11, <1>12, <1>13 DEF CourseStep

(* A request of Enrolment keeps the types; so do its two histories. *)
LEMMA EnrolmentStepData ==
    ASSUME Shape, NEW r \in Requests, EnrolmentStep(r)
    PROVE  CoursesData' /\ HistoryData' /\ Stays(r) /\ TypedRequest(r)' /\ Known(r)'
<1>1. CoursesData /\ HistoryData /\ Domains /\ TypedRequest(r) /\ Known(r)
  BY DEF Shape
<1> DEFINE OnCourse == EnrolSteps \cup VisitSteps \cup {"setadmin"}
<1>2. pc[r] \in OnCourse =>
         /\ req[r].name \in Names /\ req[r].user \in Users
         /\ Path(r) \in Slugs /\ Path(r) # None
         /\ pc[r] \notin EnrolSteps => req[r].user \in enrolled[req[r].name]
  <2>1. SUFFICES ASSUME pc[r] \in OnCourse
                 PROVE  /\ req[r].name \in Names /\ req[r].user \in Users
                        /\ Path(r) \in Slugs /\ Path(r) # None
                        /\ pc[r] \notin EnrolSteps => req[r].user \in enrolled[req[r].name]
    OBVIOUS
  <2>2. pc[r] # "idle"
    BY <2>1 DEF EnrolSteps, VisitSteps
  <2>3. /\ req[r].name \in Names /\ req[r].user \in Users
        /\ req[r].kind \in {"enrol", "visit", "appoint", "dismiss"}
        /\ pc[r] \notin EnrolSteps => req[r].kind # "enrol"
    BY <1>1, <2>1 DEF TypedRequest, Enrolling, Visiting, ByHand
  <2> QED
    BY <1>1, <2>2, <2>3 DEF Known, Path, CoursesData
<1> DEFINE Stay == /\ pc[r] \in OnCourse
                   /\ req' = req
                   /\ pc'[r] \in Ended \cup (IF pc[r] \in EnrolSteps THEN EnrolSteps
                                             ELSE IF pc[r] \in VisitSteps THEN VisitSteps
                                             ELSE {"setadmin"})
<1>3. ASSUME Stay, Stays(r)
      PROVE  TypedRequest(r)' /\ Known(r)'
  <2>1. /\ TypedRequest(r)'
        /\ pc'[r] \notin Grouped \cup {"owners", "answer", "addrow"}
    BY <1>1, <1>3 DEF TypedRequest, ChangeSteps, PanelSteps, CourseSteps, Undoing, EnrolSteps,
                      VisitSteps, Ended, Grouped
  <2>2. pc[r] # "idle" /\ req'[r] = req[r]
    BY <1>3 DEF EnrolSteps, VisitSteps
  <2> QED
    BY <1>1, <1>2, <1>3, <2>1, <2>2 DEF Known, Stays
<1> HIDE DEF OnCourse, Stay
<1> USE DEF Goto, KeepsGitLab, KeepsCourses
<1>4. CASE EnrolAccept(r) \/ VisitAccept(r) \/ SetAccept(r)
  <2>1. UNCHANGED <<courseVars, refused, lapsed>>
    BY <1>4 DEF EnrolAccept, VisitAccept, SetAccept
  <2>2. CoursesData' /\ HistoryData' /\ Stays(r)
    BY <1>1, <2>1 DEF CoursesData, HistoryData, Stays, courseVars, courses, coursesRms, projects
  <2>3. \/ Arrives(r, {"sync"}, Enrolling)
        \/ Arrives(r, {"project"}, Visiting)
        \/ Arrives(r, {"setadmin"}, ByHand)
    BY <1>1, <1>4 DEF EnrolAccept, VisitAccept, SetAccept, Arrive, Arrives, Domains, CoursesData,
                      Enrolling, Visiting, ByHand
  <2>4. /\ course'[req'[r].name] # None
        /\ req'[r].kind # "enrol" => req'[r].user \in enrolled'[req'[r].name]
    <3>1. CASE EnrolAccept(r)
      BY <1>1, <2>1, <3>1 DEF EnrolAccept, Arrive, Domains, courseVars, courses
    <3>2. CASE VisitAccept(r)
      BY <1>1, <2>1, <3>2 DEF VisitAccept, Arrive, Domains, courseVars, courses, CoursesData
    <3>3. CASE SetAccept(r)
      BY <1>1, <2>1, <3>3 DEF SetAccept, Arrive, Domains, courseVars, courses
    <3> QED
      BY <1>4, <3>1, <3>2, <3>3
  <2>5. req'[r] \in Asked
    BY <2>3 DEF Arrives, Asked
  <2> QED
    BY <2>2, <2>3, <2>4, <2>5
       DEF Arrives, TypedRequest, Known, ChangeSteps, PanelSteps, CourseSteps, Undoing, EnrolSteps,
           VisitSteps, Grouped, Enrolling, Visiting, ByHand
<1>5. CASE Sync(r)
  <2>1. Stay
    BY <1>1, <1>5 DEF Sync, Stay, OnCourse, Domains, EnrolSteps
  <2>2. req[r].name \in Names /\ req[r].user \in Users /\ course[req[r].name] # None
    BY <1>2, <2>1 DEF Stay, Path
  <2>3. CoursesData' /\ HistoryData' /\ Stays(r)
    BY <1>1, <1>5, <2>2 DEF Sync, Promote, Flag, CoursesData, HistoryData, Stays, coursesRms, projects
  <2> QED
    BY <1>3, <2>1, <2>3
<1>6. CASE StudentsFolder(r) \/ Fork(r) \/ GrantAccess(r)
  <2>1. Stay
    BY <1>1, <1>6 DEF StudentsFolder, Fork, GrantAccess, Stay, OnCourse, Domains, EnrolSteps, Ended
  <2>2. Path(r) \in Slugs /\ Project(r) \in Slugs \X Users
    BY <1>2, <2>1 DEF Stay, Project
  <2>3. students' \subseteq students \cup {s \in {Path(r)} : cgroup[s] # None}
        /\ students \subseteq students'
    BY <1>6 DEF StudentsFolder, Fork, GrantAccess
  <2>4. forks \subseteq forks' /\ forks' \subseteq forks \cup {p \in {Project(r)} : p[1] \in students}
    BY <1>6, <2>2 DEF StudentsFolder, Fork, ForkMade, GrantAccess, projects, Project
  <2>5. access' \subseteq forks /\ access \subseteq access' /\ refused' \subseteq refused \cup {Project(r)}
    BY <1>1, <1>6 DEF StudentsFolder, Fork, GrantAccess, projects, CoursesData
  <2>6. /\ hold' \in [Requests -> Requests \cup Names \cup {None}]
        /\ \A o \in Requests \ {r} : hold'[o] = hold[o]
    BY <1>1, <1>6, <2>2 DEF StudentsFolder, Fork, GrantAccess, CoursesData
  <2>7. UNCHANGED <<courses, cgroup, repo, top, first, slipped, lapsed>>
    BY <1>6 DEF StudentsFolder, Fork, GrantAccess
  <2>8. CoursesData' /\ HistoryData' /\ Stays(r)
    <3>1. forks' \subseteq students' \X Users
      BY <1>1, <2>2, <2>3, <2>4 DEF CoursesData, Project
    <3>2. repo' \cup students' \subseteq {s \in Slugs : cgroup'[s] # None}
      BY <1>1, <2>2, <2>3, <2>7 DEF CoursesData
    <3>3. access' \subseteq forks' /\ refused' \subseteq Slugs \X Users
      BY <1>1, <2>2, <2>4, <2>5 DEF HistoryData
    <3> QED
      BY <1>1, <2>6, <2>7, <3>1, <3>2, <3>3 DEF CoursesData, HistoryData, Stays, courses
  <2> QED
    BY <1>3, <2>1, <2>8
<1>7. CASE CheckProject(r) \/ ReadRole(r) \/ DieOnCourse(r)
  <2>1. Stay
    BY <1>1, <1>7 DEF CheckProject, ReadRole, DieOnCourse, Proceeds, Moves, Stay, OnCourse, Domains,
                      VisitSteps, EnrolSteps, Ended
  <2>2. UNCHANGED <<courseVars, refused, lapsed>>
    BY <1>7 DEF CheckProject, ReadRole, DieOnCourse, Proceeds, Moves
  <2>3. CoursesData' /\ HistoryData' /\ Stays(r)
    BY <1>1, <2>2 DEF CoursesData, HistoryData, Stays, courseVars, courses, coursesRms, projects
  <2> QED
    BY <1>3, <2>1, <2>3
<1>8. CASE SyncVisitor(r) \/ SetAdmin(r)
  <2>1. Stay
    BY <1>1, <1>8 DEF SyncVisitor, SetAdmin, Proceeds, Moves, Stay, OnCourse, Domains, VisitSteps,
                      EnrolSteps, Ended
  <2>2. /\ req[r].name \in Names /\ req[r].user \in Users
        /\ req[r].user \in enrolled[req[r].name]
    BY <1>2, <1>8, <2>1 DEF Stay, SyncVisitor, SetAdmin, Proceeds, Moves, EnrolSteps
  <2>3. CASE UNCHANGED <<courseVars, refused, lapsed>>
    BY <1>1, <1>3, <2>1, <2>3 DEF CoursesData, HistoryData, Stays, courseVars, courses, coursesRms, projects
  <2>4. CASE ~UNCHANGED <<courseVars, refused, lapsed>>
    <3>1. /\ UNCHANGED <<course, coursesRms, hold, slipped, refused, enrolled>>
          /\ lapsed' \subseteq lapsed \cup {Flag(r)}
          /\ \/ cadmin' = [cadmin EXCEPT ![req[r].name] = @ \cup {req[r].user}]
             \/ cadmin' = [cadmin EXCEPT ![req[r].name] = @ \ {req[r].user}]
      BY <1>8, <2>4 DEF SyncVisitor, SetAdmin, Promote, Proceeds, Moves
    <3>2. CoursesData' /\ HistoryData' /\ Stays(r)
      BY <1>1, <2>2, <3>1 DEF CoursesData, HistoryData, Stays, coursesRms, projects, Flag
    <3> QED
      BY <1>3, <2>1, <3>2
  <2> QED
    BY <2>3, <2>4
<1> QED
  BY <1>4, <1>5, <1>6, <1>7, <1>8 DEF EnrolmentStep

LEMMA ShapeInit == Init => Shape
<1> SUFFICES ASSUME NEW w \in Workload, InitEnrolment(w) PROVE Shape
  BY DEF Init
<1> DEFINE founded(s) == {c \in Names : w.courses[c] = s}
           used == {s \in Slugs : founded(s) # {}}
<1>1. InitNamespaces(w) /\ InitCourses(w)
  BY DEF InitEnrolment, InitCourses
<1>2. w.courses \in [Names -> Slugs \cup {None}] /\ w.staff \subseteq Users
  BY CoursesAssumption
<1>3. NamespacesData
  BY <1>1, UsersAssumption DEF InitNamespaces, NamespacesData
<1>4. HistoryData /\ Domains
  BY <1>1 DEF InitEnrolment, InitNamespaces, HistoryData, Domains
<1>5. /\ course \in [Names -> Slugs \cup {None}]
      /\ enrolled \in [Names -> SUBSET Users] /\ cadmin = enrolled
      /\ \A c \in Names : enrolled[c] # {} => course[c] # None
  BY <1>1, <1>2 DEF InitCourses
<1>6. \A s \in used : (CHOOSE c \in founded(s) : TRUE) \in Names
  OBVIOUS
<1>7. cgroup = [s \in Slugs |-> IF s \in used THEN CHOOSE c \in founded(s) : TRUE ELSE None]
  BY <1>1 DEF InitCourses
<1>8. repo = used /\ forks = used \X w.staff /\ access = forks /\ students = {f[1] : f \in forks}
  BY <1>1 DEF InitCourses
<1> HIDE DEF founded
<1>9. /\ cgroup \in [Slugs -> Requests \cup Names \cup {None}]
      /\ \A s \in used : cgroup[s] # None
  BY <1>6, <1>7, CoursesAssumption
<1>10. students \subseteq used /\ forks \subseteq students \X Users
  BY <1>2, <1>8
<1>11. CoursesData
  BY <1>1, <1>5, <1>8, <1>9, <1>10 DEF InitCourses, CoursesData
<1>12. ASSUME NEW r \in Requests PROVE TypedRequest(r) /\ Known(r)
  <2>1. pc[r] = "idle"
    BY <1>1 DEF InitNamespaces
  <2> QED
    BY <2>1 DEF TypedRequest, Known, ChangeSteps, PanelSteps, CourseSteps, Undoing, EnrolSteps,
                VisitSteps, Grouped
<1> QED
  BY <1>3, <1>4, <1>11, <1>12 DEF Shape

(* Every step keeps the types. *)
LEMMA ShapeNext == Shape /\ [Next]_vars => Shape'
<1> SUFFICES ASSUME Shape, [Next]_vars PROVE Shape'
  OBVIOUS
<1>1. /\ NamespacesData /\ CoursesData /\ HistoryData /\ Domains
      /\ \A r \in Requests : TypedRequest(r) /\ Known(r)
  BY DEF Shape
<1>2. CASE UNCHANGED vars
  <2>1. NamespacesData' /\ CoursesData' /\ HistoryData'
    BY <1>1, <1>2 DEF vars, nsVars, data, gitlab, courseVars, courses, coursesRms, projects,
                      NamespacesData, CoursesData, HistoryData
  <2>2. pc' = pc /\ req' = req /\ course' = course /\ enrolled' = enrolled /\ hold' = hold
    BY <1>2 DEF vars, handler, courseVars, courses
  <2>3. Domains' /\ \A r \in Requests : TypedRequest(r)' /\ Known(r)'
    BY <1>1, <2>2 DEF Domains, TypedRequest, Known, Slug
  <2> QED
    BY <2>1, <2>3 DEF Shape
<1>3. CASE Elsewhere /\ NextNamespaces /\ UNCHANGED courseVars
  <2>1. CoursesData' /\ HistoryData'
    BY <1>1, <1>3 DEF Elsewhere, courseVars, courses, coursesRms, projects, CoursesData, HistoryData
  <2>2. CASE StartProcess
    <3>1. NamespacesData'
      BY <1>1, <2>2, UsersAssumption DEF StartProcess, NamespacesData, data, gitlab
    <3>2. pc' = pc /\ req' = req /\ course' = course /\ enrolled' = enrolled /\ hold' = hold
      BY <1>3, <2>2 DEF StartProcess, handler, courseVars, courses
    <3>3. Domains' /\ \A r \in Requests : TypedRequest(r)' /\ Known(r)'
      BY <1>1, <3>2 DEF Domains, TypedRequest, Known, Slug
    <3> QED
      BY <2>1, <3>1, <3>3 DEF Shape
  <2>3. ASSUME NEW r \in Requests, NamespaceStep(r) PROVE Shape'
    <3>1. NamespacesData'
      BY <2>3, NamespaceStepData
    <3>2. /\ Others(r)
          /\ pc'[r] = "addrow" => req'[r].role \in Roles
          /\ \/ Arrives(r, {"group", "addrow", "removerow", "demote", "updaterow"}, Change)
             \/ Arrives(r, {"grant", "count"}, Panel)
             \/ MovesIn(r, ChangeSteps, Ended)
             \/ MovesIn(r, PanelSteps, Ended)
      BY <1>1, <2>3, NamespaceMoves DEF NamespacesData
    <3>3. course' = course /\ enrolled' = enrolled /\ hold' = hold
      BY <1>3 DEF courseVars, courses
    <3>4. req'[r] \in Change \cup Panel
      BY <1>1, <3>2 DEF TypedRequest, Arrives, MovesIn
    <3>5. TypedRequest(r)' /\ Known(r)'
      BY <1>1, <3>2, <3>4 DEF Arrives, MovesIn, TypedRequest, Known, Asked, ChangeSteps, PanelSteps,
         CourseSteps, Undoing, EnrolSteps, VisitSteps, Ended, Grouped, Change, Panel
    <3>6. Stays(r)
      BY <3>3 DEF Stays
    <3> QED
      BY <2>1, <3>1, <3>2, <3>5, <3>6, OthersKept DEF Shape
  <2> QED
    BY <1>3, <2>2, <2>3 DEF NextNamespaces
<1>4. ASSUME Elsewhere, NEW r \in Requests, CourseStep(r) PROVE Shape'
  <2>1. Others(r) /\ UNCHANGED nsVars
    BY <1>1, <1>4, CourseMoves
  <2>2. NamespacesData' /\ HistoryData'
    BY <1>1, <1>4, <2>1 DEF nsVars, data, gitlab, NamespacesData, HistoryData, Elsewhere
  <2> QED
    BY <1>4, <2>1, <2>2, CourseStepData, OthersKept DEF Shape
<1>5. ASSUME NEW r \in Requests, EnrolmentStep(r) PROVE Shape'
  <2>1. Others(r) /\ UNCHANGED nsVars
    BY <1>1, <1>5, EnrolmentMoves DEF CoursesData
  <2>2. NamespacesData'
    BY <1>1, <2>1 DEF nsVars, data, gitlab, NamespacesData
  <2> QED
    BY <1>5, <2>1, <2>2, EnrolmentStepData, OthersKept DEF Shape
<1> QED
  BY <1>2, <1>3, <1>4, <1>5 DEF Next, Elsewhere, NextCourses

LEMMA ShapeAlways == Spec => []Shape
  BY ShapeInit, ShapeNext, PTL DEF Spec

(* Every variable of the administration keeps its type: what GitLab holds  *)
(* inside the group of a course goes with the group, an admin of a course  *)
(* is enrolled on it, and each handler carries what its steps read.        *)
THEOREM AdministrationType == Spec => []TypeOK
<1>1. Shape => TypeOK
  BY ShapeTypes
<1> QED
  BY <1>1, ShapeAlways, PTL

-----------------------------------------------------------------------------
(* The last instance admin.                                                *)

(* A step of Courses or of Enrolment touches neither the namespaces nor the *)
(* requests that do.                                                       *)
Untouched ==
    /\ UNCHANGED nsVars
    /\ \A o \in Requests :
          pc[o] \in ChangeSteps \cup PanelSteps \/ pc'[o] \in ChangeSteps \cup PanelSteps =>
              pc'[o] = pc[o] /\ req'[o] = req[o]

LEMMA NamespaceSteps ==
    ASSUME Shape, [Next]_vars
    PROVE  Untouched \/ StartProcess \/ \E r \in Requests : NamespaceStep(r)
<1>1. CASE UNCHANGED vars
  BY <1>1 DEF vars, handler, Untouched
<1>2. CASE Elsewhere
  <2>1. ASSUME NEW r \in Requests, CourseStep(r) PROVE Untouched
    <3>1. /\ Others(r) /\ UNCHANGED nsVars
          /\ \/ Arrives(r, {"cgroup"}, Creation)
             \/ MovesIn(r, CourseSteps \cup Undoing, Ended \cup {"undone"})
      BY <2>1, CourseMoves DEF Shape
    <3> QED
      BY <3>1 DEF Others, Arrives, MovesIn, Untouched, ChangeSteps, PanelSteps, CourseSteps,
                  Undoing, Ended
  <2> QED
    BY <1>2, <2>1 DEF Elsewhere, NextCourses, NextNamespaces
<1>3. ASSUME NEW r \in Requests, EnrolmentStep(r) PROVE Untouched
  <2>1. /\ Others(r) /\ UNCHANGED nsVars
        /\ \/ Arrives(r, {"sync"}, Enrolling)
           \/ Arrives(r, {"project"}, Visiting)
           \/ Arrives(r, {"setadmin"}, ByHand)
           \/ MovesIn(r, EnrolSteps, Ended)
           \/ MovesIn(r, VisitSteps, Ended)
           \/ MovesIn(r, {"setadmin"}, Ended)
    BY <1>3, EnrolmentMoves DEF Shape, CoursesData
  <2> QED
    BY <2>1 DEF Others, Arrives, MovesIn, Untouched, ChangeSteps, PanelSteps, EnrolSteps,
                VisitSteps, Ended
<1> QED
  BY <1>1, <1>2, <1>3 DEF Next

(* Only grants and revocations change who is an instance admin, and what   *)
(* faults and overlaps have hit stays hit.                                 *)
LEMMA AdminsMove ==
    ASSUME Domains, NEW r \in Requests, NamespaceStep(r)
    PROVE  /\ disturbed \subseteq disturbed'
           /\ \/ GrantAdmin(r) \/ RevokeAccept(r) \/ CountAdmins(r) \/ RevokeAdmin(r)
              \/ admins' = admins /\ pc'[r] \notin {"count", "revoke"}
<1> USE DEF Domains, Goto, Skips, nsVars
<1>1. CASE CreateAccept(r) \/ AddAccept(r) \/ RemoveAccept(r)
  BY <1>1 DEF CreateAccept, AddAccept, RemoveAccept, AcceptChange, Arrive
<1>2. CASE UpdateAccept(r) \/ GrantAccept(r)
  BY <1>2 DEF UpdateAccept, GrantAccept, AcceptChange, Arrive
<1>3. CASE RevokeAccept(r) \/ GrantAdmin(r) \/ CountAdmins(r) \/ RevokeAdmin(r)
  BY <1>3 DEF RevokeAccept, GrantAdmin, CountAdmins, RevokeAdmin
<1>4. CASE CreateGroup(r) \/ CreateRow(r) \/ RowExists(r) \/ CreateOwner(r) \/ OwnerExists(r)
  BY <1>4 DEF CreateGroup, CreateRow, RowExists, CreateOwner, OwnerExists, SetRole
<1>5. CASE JoinGroup(r) \/ AddMember(r) \/ RemoveMember(r) \/ DemoteMember(r)
  BY <1>5 DEF JoinGroup, AddMember, RemoveMember, DemoteMember, AddToGroup, RemoveFromGroup,
              SetMembers
<1>6. CASE AddRow(r) \/ AddConflict(r) \/ RemoveRow(r) \/ UpdateRow(r) \/ NotFound(r)
  BY <1>6 DEF AddRow, AddConflict, RemoveRow, UpdateRow, NotFound, SetRole
<1>7. CASE Die(r)
  BY <1>7 DEF Die
<1> QED
  BY <1>1, <1>2, <1>3, <1>4, <1>5, <1>6, <1>7 DEF NamespaceStep

(* Two revocations that are both under way know of each other. *)
OneRevocation == \A r, o \in Revoking : r # o => r \in disturbed

LastAdmin == IsFiniteSet(admins) /\ OneRevocation /\ AdminRemains

LEMMA LastAdminInit == Init => LastAdmin
<1> SUFFICES ASSUME NEW w \in Workload, InitNamespaces(w) PROVE LastAdmin
  BY DEF Init, InitEnrolment, InitCourses
<1>1. IsFiniteSet(admins)
  BY UsersAssumption, FS_Subset DEF InitNamespaces
<1>2. Revoking = {} /\ \A r \in Requests : pc[r] # "revoke"
  BY DEF InitNamespaces, Revoking
<1> QED
  BY <1>1, <1>2 DEF LastAdmin, OneRevocation, AdminRemains

(* Who is revoked while another admin was counted is not the last one. *)
LEMMA AnotherAdmin ==
    ASSUME NEW S, IsFiniteSet(S), NEW u, ~(Cardinality(S) <= 1)
    PROVE  S \ {u} # {}
<1> SUFFICES ASSUME S \ {u} = {} PROVE FALSE
  OBVIOUS
<1>1. S = {} \/ S = {u}
  OBVIOUS
<1>2. Cardinality({}) = 0 /\ Cardinality({u}) = 1
  BY FS_EmptySet, FS_Singleton
<1> QED
  BY <1>1, <1>2

LEMMA LastAdminNext == Shape /\ LastAdmin /\ [Next]_vars => LastAdmin'
<1> SUFFICES ASSUME Shape, LastAdmin, [Next]_vars PROVE LastAdmin'
  OBVIOUS
<1>1. Untouched \/ StartProcess \/ \E r \in Requests : NamespaceStep(r)
  BY NamespaceSteps
<1>2. CASE Untouched
  BY <1>2 DEF Untouched, nsVars, LastAdmin, OneRevocation, AdminRemains, Revoking, PanelSteps
<1>3. CASE StartProcess
  BY <1>3, FS_AddElement
     DEF StartProcess, handler, LastAdmin, OneRevocation, AdminRemains, Revoking
<1>4. ASSUME NEW r \in Requests, NamespaceStep(r) PROVE LastAdmin'
  <2>1. /\ Others(r)
        /\ \/ Arrives(r, {"group", "addrow", "removerow", "demote", "updaterow"}, Change)
           \/ Arrives(r, {"grant", "count"}, Panel)
           \/ MovesIn(r, ChangeSteps, Ended)
           \/ MovesIn(r, PanelSteps, Ended)
    BY <1>4, NamespaceMoves DEF Shape, NamespacesData
  <2>2. /\ disturbed \subseteq disturbed'
        /\ \/ GrantAdmin(r) \/ RevokeAccept(r) \/ CountAdmins(r) \/ RevokeAdmin(r)
           \/ admins' = admins /\ pc'[r] \notin {"count", "revoke"}
    BY <1>4, AdminsMove DEF Shape
  <2>3. CASE RevokeAccept(r)
    <3>1. /\ pc'[r] = "count" /\ admins' = admins /\ pc[r] = "idle"
          /\ Revoking # {} => Revoking \cup {r} \subseteq disturbed'
      BY <2>3 DEF RevokeAccept, Arrive, Goto, Shape, Domains
    <3>2. Revoking' = Revoking \cup {r}
      BY <2>1, <3>1 DEF Revoking, Others
    <3>3. OneRevocation'
      BY <3>1, <3>2 DEF OneRevocation, LastAdmin
    <3>4. AdminRemains'
      BY <2>1, <2>2, <3>1 DEF AdminRemains, LastAdmin, Others
    <3> QED
      BY <3>1, <3>3, <3>4 DEF LastAdmin
  <2>4. CASE CountAdmins(r) /\ pc'[r] = "revoke"
    <3>1. /\ pc[r] = "count" /\ admins' = admins /\ disturbed' = disturbed
          /\ ~(Cardinality(admins) <= 1)
      BY <2>4 DEF CountAdmins, Skips, Goto, nsVars, Shape, Domains
    <3>2. admins \ {req[r].user} # {}
      BY <3>1, AnotherAdmin DEF LastAdmin
    <3>3. Revoking' = Revoking
      BY <2>1, <2>4, <3>1 DEF Revoking, Others
    <3>4. req'[r] = req[r]
      BY <2>4 DEF CountAdmins, Skips
    <3> QED
      BY <2>1, <3>1, <3>2, <3>3, <3>4 DEF LastAdmin, OneRevocation, AdminRemains, Others
  <2>5. CASE RevokeAdmin(r)
    <3>1. /\ pc[r] = "revoke" /\ pc'[r] = "done"
          /\ admins' = admins \ {req[r].user} /\ disturbed' = disturbed
      BY <2>5 DEF RevokeAdmin, Goto, Shape, Domains
    <3>2. Revoking' = Revoking \ {r}
      BY <2>1, <3>1 DEF Revoking, Others
    <3>3. AdminRemains'
      <4>1. ASSUME NEW o \in Requests \ disturbed', pc'[o] = "revoke" PROVE FALSE
        <5>1. o # r /\ o \in Revoking /\ r \in Revoking
          BY <2>1, <3>1, <4>1 DEF Revoking, Others
        <5> QED
          BY <3>1, <4>1, <5>1 DEF LastAdmin, OneRevocation
      <4> QED
        BY <4>1 DEF AdminRemains
    <3>4. IsFiniteSet(admins')
      BY <3>1, FS_Subset DEF LastAdmin
    <3> QED
      BY <3>2, <3>3, <3>4, <3>1 DEF LastAdmin, OneRevocation
  <2>6. CASE \/ GrantAdmin(r)
             \/ CountAdmins(r) /\ pc'[r] # "revoke"
             \/ admins' = admins /\ pc'[r] \notin {"count", "revoke"}
    <3>1. /\ admins \subseteq admins' /\ IsFiniteSet(admins')
          /\ pc'[r] \notin {"count", "revoke"}
      BY <2>6, FS_AddElement DEF GrantAdmin, CountAdmins, Skips, nsVars, Goto, Shape, Domains, LastAdmin
    <3>2. Revoking' \subseteq Revoking
      BY <2>1, <3>1 DEF Revoking, Others
    <3>3. AdminRemains'
      <4>1. ASSUME NEW o \in Requests \ disturbed', pc'[o] = "revoke"
            PROVE  admins' \ {req'[o].user} # {}
        <5>1. o # r
          BY <3>1, <4>1
        <5>2. pc[o] = "revoke" /\ req'[o] = req[o] /\ o \notin disturbed
          BY <2>1, <2>2, <4>1, <5>1 DEF Others
        <5> QED
          BY <3>1, <5>2 DEF LastAdmin, AdminRemains
      <4> QED
        BY <4>1 DEF AdminRemains
    <3> QED
      BY <2>2, <3>1, <3>2, <3>3 DEF LastAdmin, OneRevocation
  <2> QED
    BY <2>2, <2>3, <2>4, <2>5, <2>6
<1> QED
  BY <1>1, <1>2, <1>3, <1>4

(* The check of set_instance_admin_status holds when it updates, for any   *)
(* number of revocations in a row, grants and starts of processes: only    *)
(* revocations that overlap take the last admin away.                      *)
THEOREM LastAdminRemains == Spec => []AdminRemains
<1>1. LastAdmin => AdminRemains
  BY DEF LastAdmin
<1> QED
  BY <1>1, ShapeAlways, LastAdminInit, LastAdminNext, PTL DEF Spec

-----------------------------------------------------------------------------
(* Roles and members.                                                      *)

InFlight(r) == pc[r] \in ChangeSteps

Agree(n, u) == role[n][u] # None <=> u \in member[n]

(* What the handler of r owes: how the role and the membership it is about *)
(* stand at its step, when no fault and no other request has hit them.     *)
Owes(r) ==
    LET n == req[r].space
        u == req[r].user
    IN  /\ pc[r] \in {"group", "join", "addrow", "removerow", "demote"} => Agree(n, u)
        /\ pc[r] \in {"row", "owner"} => u \in member[n]
        /\ pc[r] = "addmember" => role[n][u] # None
        /\ pc[r] = "removemember" => role[n][u] = None
        /\ pc[r] = "updaterow" => IF req[r].role = "student" THEN u \notin member[n]
                                  ELSE Agree(n, u)
        /\ pc[r] \in {"group", "join", "row"} => creator[n] = None

CreateSteps == {"group", "join", "row", "owner"}

(* Roles are given in namespaces with a row, and so are they changed. *)
RolesHaveRows ==
    /\ \A n \in Spaces, u \in Users : role[n][u] # None => creator[n] # None
    /\ \A r \in Requests :
          /\ InFlight(r) /\ req[r].kind # "create" => creator[req[r].space] # None
          /\ pc[r] = "owner" => creator[req[r].space] # None
          /\ InFlight(r) => (req[r].kind = "create" <=> pc[r] \in CreateSteps)
          /\ pc[r] = "demote" => req[r].role = "student"

(* Requests under way that are about the same cell, or create the same     *)
(* namespace, know of each other.                                          *)
MeetingsKnown ==
    \A r, o \in Requests :
        r # o /\ InFlight(r) /\ Meets(req[r], o) => Cell(req[r]) \in disturbed

Owed == \A r \in Requests : InFlight(r) => Cell(req[r]) \in disturbed \/ Owes(r)

RolesInv == RolesHaveRows /\ MeetingsKnown /\ Owed /\ RolesAreMembers

LEMMA RolesInit == Init => RolesInv
<1> SUFFICES ASSUME NEW w \in Workload, InitNamespaces(w) PROVE RolesInv
  BY DEF Init, InitEnrolment, InitCourses
<1>1. \A r \in Requests : pc[r] = "idle"
  BY DEF InitNamespaces
<1>2. \A n \in Spaces, u \in Users : Agree(n, u)
  BY UsersAssumption DEF InitNamespaces, Agree
<1>3. \A n \in Spaces, u \in Users : role[n][u] # None => creator[n] # None
  BY UsersAssumption DEF InitNamespaces
<1> QED
  BY <1>1, <1>2, <1>3 DEF RolesInv, RolesHaveRows, MeetingsKnown, Owed, RolesAreMembers, InFlight,
                          ChangeSteps, Agree

(* Nothing of the namespaces moves: neither do the obligations. *)
LEMMA RolesUntouched ==
    ASSUME RolesInv, UNCHANGED <<creator, role, member>>, disturbed \subseteq disturbed',
           \A o \in Requests :
              InFlight(o) \/ pc'[o] \in ChangeSteps => pc'[o] = pc[o] /\ req'[o] = req[o]
    PROVE  RolesInv'
<1>1. \A o \in Requests : InFlight(o)' <=> InFlight(o)
  BY DEF InFlight
<1>2. \A o \in Requests : InFlight(o) => pc'[o] = pc[o] /\ req'[o] = req[o]
  OBVIOUS
<1>3. RolesHaveRows'
  <2>1. \A o \in Requests : pc'[o] \in {"owner", "demote"} => InFlight(o)'
    BY DEF InFlight, ChangeSteps
  <2> QED
    BY <1>1, <1>2, <2>1 DEF RolesInv, RolesHaveRows
<1>4. MeetingsKnown'
  BY <1>1, <1>2 DEF RolesInv, MeetingsKnown, Meets, Cell, InFlight
<1>5. Owed'
  <2>1. ASSUME NEW o \in Requests, InFlight(o), Owes(o) PROVE Owes(o)'
    BY <1>2, <2>1 DEF Owes, Agree
  <2> QED
    BY <1>1, <1>2, <2>1 DEF RolesInv, Owed, Cell
<1>6. RolesAreMembers'
  BY <1>1, <1>2 DEF RolesInv, RolesAreMembers, InFlight, Cell
<1> QED
  BY <1>3, <1>4, <1>5, <1>6 DEF RolesInv

(* The arrival of a request owes what its first step finds, or has hit the *)
(* cell: no request that is not hit is about the same cell.                *)
LEMMA RolesAccept ==
    ASSUME Shape, RolesInv, NEW r \in Requests, NEW q \in Change,
           NEW step \in {"group", "addrow", "removerow", "demote", "updaterow"},
           AcceptChange(r, q, step),
           step = "group" <=> q.kind = "create",
           step = "demote" => q.role = "student",
           step = "updaterow" => q.role # "student",
           q.kind # "create" => creator[q.space] # None
    PROVE  RolesInv'
<1> DEFINE met == UNION {{Cell(q), Cell(req[o])} : o \in {p \in Requests : Meets(q, p)}}
<1>1. /\ pc[r] = "idle" /\ pc'[r] = step /\ req'[r] = q
      /\ \A o \in Requests \ {r} : pc'[o] = pc[o] /\ req'[o] = req[o]
  BY DEF AcceptChange, Arrive, Goto, Shape, Domains
<1>2. disturbed' = disturbed \cup met \cup IF Taken(q) THEN {Cell(q)} ELSE {}
  BY DEF AcceptChange
<1>3. UNCHANGED <<creator, role, member>>
  BY DEF AcceptChange, data, gitlab
<1>4. ASSUME NEW o \in Requests, Meets(q, o)
      PROVE  Cell(q) \in met /\ Cell(req[o]) \in met
  BY <1>4
<1> HIDE DEF met
<1>5. ASSUME NEW o \in Requests, Meets(q, o)
      PROVE  Cell(q) \in disturbed' /\ Cell(req[o]) \in disturbed'
  BY <1>2, <1>4, <1>5
<1>6. ~InFlight(r) /\ InFlight(r)'
  BY <1>1 DEF InFlight, ChangeSteps
<1>7. \A o \in Requests \ {r} : InFlight(o)' <=> InFlight(o)
  BY <1>1 DEF InFlight
<1>8. RolesHaveRows'
  BY <1>1, <1>3, <1>7 DEF RolesInv, RolesHaveRows, CreateSteps
<1>9. MeetingsKnown'
  <2>1. ASSUME NEW x \in Requests, NEW o \in Requests, x # o, InFlight(x)', Meets(req[x], o)'
        PROVE  Cell(req'[x]) \in disturbed'
    <3>1. CASE x = r
      BY <1>1, <1>5, <2>1, <3>1 DEF Meets, Cell
    <3>2. CASE o = r
      <4>1. Meets(q, x)
        BY <1>1, <1>7, <2>1, <3>2 DEF Meets, Cell, InFlight
      <4> QED
        BY <1>1, <1>5, <2>1, <3>2, <4>1
    <3>3. CASE x # r /\ o # r
      <4>1. InFlight(x) /\ Meets(req[x], o)
        BY <1>1, <1>7, <2>1, <3>3 DEF Meets, Cell
      <4> QED
        BY <1>1, <1>2, <2>1, <3>3, <4>1 DEF RolesInv, MeetingsKnown
    <3> QED
      BY <3>1, <3>2, <3>3
  <2> QED
    BY <2>1 DEF MeetingsKnown, Cell
<1>10. Owed'
  <2>1. ASSUME NEW o \in Requests \ {r}, InFlight(o), Owes(o) PROVE Owes(o)'
    BY <1>1, <1>3, <2>1 DEF Owes, Agree
  <2>2. ASSUME Cell(q) \notin disturbed' PROVE Owes(r)'
    <3>1. Agree(q.space, q.user)
      <4>1. q.space \in Spaces /\ q.user \in Users /\ Cell(q) = <<q.space, q.user>>
        BY DEF Change, Cell
      <4>2. ~\E o \in Requests : InFlight(o) /\ Cell(req[o]) = Cell(q)
        BY <1>5, <2>2 DEF Meets, InFlight
      <4> QED
        BY <1>2, <2>2, <4>1, <4>2 DEF RolesInv, RolesAreMembers, Agree, InFlight
    <3>2. q.kind = "create" => creator[q.space] = None
      BY <1>2, <2>2 DEF Taken
    <3> QED
      BY <1>1, <1>3, <3>1, <3>2 DEF Owes, Agree
  <2> QED
    BY <1>1, <1>2, <1>7, <2>1, <2>2 DEF RolesInv, Owed, Cell
<1>11. RolesAreMembers'
  BY <1>1, <1>2, <1>3, <1>6, <1>7 DEF RolesInv, RolesAreMembers, InFlight, Cell
<1> QED
  BY <1>8, <1>9, <1>10, <1>11 DEF RolesInv

(* A step of a request under way touches its own cell, and leaves it as it *)
(* owes, settled, or hit.                                                  *)
LEMMA RolesCell ==
    ASSUME Shape, RolesInv, NEW r \in Requests, InFlight(r), Others(r), req'[r] = req[r],
           NEW n, n = req[r].space, NEW u, u = req[r].user,
           \A m \in Spaces, v \in Users : <<m, v>> # <<n, u>> =>
              role'[m][v] = role[m][v] /\ (v \in member'[m] <=> v \in member[m]),
           \A m \in Spaces : \/ creator'[m] = creator[m]
                             \/ m = n /\ req[r].kind = "create" /\ creator'[m] # None,
           role'[n][u] # None => creator'[n] # None,
           disturbed \subseteq disturbed',
           InFlight(r)' => (req[r].kind = "create" <=> pc'[r] \in CreateSteps),
           pc'[r] = "owner" => creator'[n] # None,
           pc'[r] = "demote" => req[r].role = "student",
           \/ <<n, u>> \in disturbed'
           \/ InFlight(r)' /\ Owes(r)'
           \/ ~InFlight(r)' /\ Agree(n, u)'
    PROVE  RolesInv'
<1>1. n \in Spaces /\ u \in Users /\ req[r] \in Change
  BY DEF InFlight, Shape, TypedRequest, Change
<1>2. \A o \in Requests \ {r} : (InFlight(o)' <=> InFlight(o)) /\ pc'[o] = pc[o] /\ req'[o] = req[o]
  BY DEF InFlight, Others
<1>3. \A o \in Requests : InFlight(o) => req[o].space \in Spaces /\ req[o].user \in Users
  BY DEF InFlight, Shape, TypedRequest, Change
<1>4. RolesHaveRows'
  <2>1. \A m \in Spaces, v \in Users : role'[m][v] # None => creator'[m] # None
    BY <1>1 DEF RolesInv, RolesHaveRows
  <2>2. \A o \in Requests : InFlight(o)' => InFlight(o)
    BY <1>2
  <2>3. \A m \in Spaces : creator[m] # None => creator'[m] # None
    OBVIOUS
  <2>4. \A o \in Requests : pc[o] = "owner" => InFlight(o)
    BY DEF InFlight, ChangeSteps
  <2> QED
    BY <1>2, <1>3, <2>1, <2>2, <2>3, <2>4 DEF RolesInv, RolesHaveRows
<1>5. MeetingsKnown'
  <2>1. ASSUME NEW x \in Requests, NEW o \in Requests, x # o, InFlight(x)', Meets(req[x], o)'
        PROVE  Cell(req'[x]) \in disturbed'
    <3>1. req'[x] = req[x] /\ req'[o] = req[o] /\ InFlight(x) /\ InFlight(o)
      BY <1>2, <2>1 DEF Meets, InFlight
    <3>2. Meets(req[x], o)
      BY <2>1, <3>1 DEF Meets, Cell, InFlight
    <3> QED
      BY <2>1, <3>1, <3>2 DEF RolesInv, MeetingsKnown
  <2> QED
    BY <2>1 DEF MeetingsKnown, Cell
<1>6. Owed'
  <2>1. ASSUME NEW o \in Requests \ {r}, InFlight(o)', Cell(req[o]) \notin disturbed'
        PROVE  Owes(o)'
    <3>1. InFlight(o) /\ Owes(o)
      BY <1>2, <2>1 DEF RolesInv, Owed
    <3>2. ~Meets(req[o], r)
      BY <2>1, <3>1 DEF RolesInv, MeetingsKnown
    <3>3. Cell(req[o]) # <<n, u>>
      BY <3>2 DEF Meets, Cell, InFlight
    <3>4. req[o].kind = "create" => ~(req[r].kind = "create" /\ n = req[o].space)
      BY <3>2 DEF Meets, InFlight
    <3>5. pc[o] \in {"group", "join", "row"} => creator'[req[o].space] = creator[req[o].space]
      BY <1>3, <3>1, <3>4 DEF RolesInv, RolesHaveRows, CreateSteps
    <3>6. /\ role'[req[o].space][req[o].user] = role[req[o].space][req[o].user]
          /\ req[o].user \in member'[req[o].space] <=> req[o].user \in member[req[o].space]
      BY <1>3, <3>1, <3>3 DEF Cell
    <3> QED
      BY <1>2, <3>1, <3>5, <3>6 DEF Owes, Agree
  <2>2. ASSUME InFlight(r)', Cell(req[r]) \notin disturbed' PROVE Owes(r)'
    BY <2>2 DEF Cell
  <2> QED
    BY <1>2, <2>1, <2>2 DEF Owed, Cell
<1>7. RolesAreMembers'
  <2>1. ASSUME NEW m \in Spaces, NEW v \in Users, <<m, v>> \notin disturbed',
               ~\E o \in Requests : InFlight(o)' /\ Cell(req'[o]) = <<m, v>>
        PROVE  Agree(m, v)'
    <3>1. CASE <<m, v>> = <<n, u>>
      BY <2>1, <3>1 DEF Cell, Agree
    <3>2. CASE <<m, v>> # <<n, u>>
      <4>1. ~\E o \in Requests : InFlight(o) /\ Cell(req[o]) = <<m, v>>
        BY <1>2, <2>1, <3>2 DEF Cell
      <4>2. Agree(m, v)
        BY <2>1, <4>1 DEF RolesInv, RolesAreMembers, InFlight, Agree
      <4> QED
        BY <3>2, <4>2 DEF Agree
    <3> QED
      BY <3>1, <3>2
  <2> QED
    BY <2>1 DEF RolesAreMembers, InFlight, Agree, Cell
<1> QED
  BY <1>4, <1>5, <1>6, <1>7 DEF RolesInv

LEMMA RequestRows ==
    ASSUME RolesInv, NEW r \in Requests
    PROVE  /\ InFlight(r) => (req[r].kind = "create" <=> pc[r] \in CreateSteps)
           /\ pc[r] = "demote" => req[r].role = "student"
           /\ InFlight(r) /\ req[r].kind # "create" => creator[req[r].space] # None
           /\ pc[r] = "owner" => creator[req[r].space] # None
  BY DEF RolesInv, RolesHaveRows

LEMMA RolesNext == Shape /\ RolesInv /\ [Next]_vars => RolesInv'
<1> SUFFICES ASSUME Shape, RolesInv, [Next]_vars PROVE RolesInv'
  OBVIOUS
<1>1. Untouched \/ StartProcess \/ \E r \in Requests : NamespaceStep(r)
  BY NamespaceSteps
<1>2. CASE Untouched
  BY <1>2, RolesUntouched DEF Untouched, nsVars, data, gitlab, InFlight
<1>3. CASE StartProcess
  BY <1>3, RolesUntouched DEF StartProcess, data, gitlab, handler, InFlight
<1>4. ASSUME NEW r \in Requests, NamespaceStep(r) PROVE RolesInv'
  <2> DEFINE n == req[r].space
             u == req[r].user
  <2>1. /\ Others(r)
        /\ \/ Arrives(r, {"group", "addrow", "removerow", "demote", "updaterow"}, Change)
           \/ Arrives(r, {"grant", "count"}, Panel)
           \/ MovesIn(r, ChangeSteps, Ended)
           \/ MovesIn(r, PanelSteps, Ended)
    BY <1>4, NamespaceMoves DEF Shape, NamespacesData
  <2>2. disturbed \subseteq disturbed'
    BY <1>4, AdminsMove DEF Shape
  <2>3. InFlight(r) => n \in Spaces /\ u \in Users /\ Cell(req[r]) = <<n, u>>
    BY DEF InFlight, Shape, TypedRequest, Change, Cell
  <2>4. /\ creator \in [Spaces -> Users \cup {None}]
        /\ role \in [Spaces -> [Users -> Roles \cup {None}]]
        /\ member \in [Spaces -> SUBSET Users]
        /\ DOMAIN pc = Requests /\ DOMAIN req = Requests
    BY DEF Shape, NamespacesData, Domains
  <2>5. InFlight(r) => \/ <<n, u>> \in disturbed
                       \/ Owes(r)
    BY <2>3 DEF RolesInv, Owed
  <2>6. InFlight(r) => (role[n][u] # None => creator[n] # None)
    BY <2>3 DEF RolesInv, RolesHaveRows
  <2>7. /\ InFlight(r) => (req[r].kind = "create" <=> pc[r] \in CreateSteps)
        /\ pc[r] = "demote" => req[r].role = "student"
        /\ InFlight(r) /\ req[r].kind # "create" => creator[n] # None
        /\ pc[r] = "owner" => creator[n] # None
    BY RequestRows
  <2> USE DEF Goto, CreateSteps
  <2>8. CASE CreateAccept(r)
    <3>1. PICK a \in admins, m \in Spaces :
             AcceptChange(r, [kind |-> "create", space |-> m, user |-> a,
                              role |-> "namespace_admin"], "group")
      BY <2>8 DEF CreateAccept
    <3> QED
      BY <3>1, RolesAccept DEF Change, Roles, Shape, NamespacesData
  <2>9. CASE AddAccept(r)
    <3>1. PICK a \in Users, v \in Users, m \in Spaces, new \in Roles :
             Authorised(a, m) /\ AcceptChange(r, [kind |-> "add", space |-> m, user |-> v,
                                                  role |-> new], "addrow")
      BY <2>9 DEF AddAccept
    <3> QED
      BY <3>1, RolesAccept DEF Change, Authorised
  <2>10. CASE RemoveAccept(r)
    <3>1. PICK a \in Users, v \in Users, m \in Spaces :
             Authorised(a, m) /\ AcceptChange(r, [kind |-> "remove", space |-> m, user |-> v,
                                                  role |-> "student"], "removerow")
      BY <2>10 DEF RemoveAccept
    <3> QED
      BY <3>1, RolesAccept DEF Change, Authorised
  <2>11. CASE UpdateAccept(r)
    <3>1. PICK a \in Users, v \in Users, m \in Spaces, new \in Roles \cup {"student"} :
             Authorised(a, m) /\ AcceptChange(r, [kind |-> "update", space |-> m, user |-> v,
                                                  role |-> new],
                                              IF new = "student" THEN "demote" ELSE "updaterow")
      BY <2>11 DEF UpdateAccept
    <3> QED
      BY <3>1, RolesAccept DEF Change, Authorised
  <2>12. CASE GrantAccept(r) \/ RevokeAccept(r) \/ GrantAdmin(r) \/ CountAdmins(r) \/ RevokeAdmin(r)
    <3>1. /\ UNCHANGED <<creator, role, member>>
          /\ ~InFlight(r) /\ pc'[r] \notin ChangeSteps
      BY <2>4, <2>12 DEF GrantAccept, RevokeAccept, GrantAdmin, CountAdmins, RevokeAdmin, Skips,
                         nsVars, data, gitlab, Arrive, InFlight, ChangeSteps
    <3> QED
      BY <2>1, <2>2, <3>1, RolesUntouched DEF Others, InFlight
  <2> DEFINE Kept == /\ \A m \in Spaces, v \in Users : <<m, v>> # <<n, u>> =>
                           role'[m][v] = role[m][v] /\ (v \in member'[m] <=> v \in member[m])
                     /\ \A m \in Spaces : \/ creator'[m] = creator[m]
                                         \/ /\ m = n /\ req[r].kind = "create"
                                            /\ creator'[m] # None
                     /\ role'[n][u] # None => creator'[n] # None
                     /\ InFlight(r) /\ req'[r] = req[r]
                     /\ InFlight(r)' => (req[r].kind = "create" <=> pc'[r] \in CreateSteps)
                     /\ pc'[r] = "owner" => creator'[n] # None
                     /\ pc'[r] = "demote" => req[r].role = "student"
             Left == \/ <<n, u>> \in disturbed'
                     \/ InFlight(r)' /\ Owes(r)'
                     \/ ~InFlight(r)' /\ Agree(n, u)'
  <2>13. ASSUME Kept, Left PROVE RolesInv'
    BY <2>1, <2>2, <2>13, RolesCell
  <2> HIDE DEF Kept, Left
  <2>14. CASE CreateGroup(r)
    <3>1. Kept
      BY <2>4, <2>6, <2>7, <2>14 DEF CreateGroup, Kept, InFlight, ChangeSteps, data
    <3>2. Left
      BY <2>2, <2>4, <2>5, <2>14, <3>1 DEF CreateGroup, Left, Kept, Owes, Agree, InFlight, ChangeSteps, data
    <3> QED
      BY <2>13, <3>1, <3>2
  <2>15. CASE JoinGroup(r) \/ AddMember(r) \/ RemoveMember(r) \/ DemoteMember(r)
    <3>1. InFlight(r) /\ pc[r] \in {"join", "addmember", "removemember", "demote"}
      BY <2>15 DEF JoinGroup, AddMember, RemoveMember, DemoteMember, InFlight, ChangeSteps
    <3>2. Kept
      BY <2>3, <2>4, <2>6, <2>7, <2>15, <3>1
         DEF JoinGroup, AddMember, RemoveMember, DemoteMember, AddToGroup, RemoveFromGroup,
             SetMembers, Kept, InFlight, ChangeSteps, data
    <3>3. Left
      <4>1. CASE Cell(req[r]) \in disturbed'
        BY <2>3, <3>1, <4>1 DEF Left
      <4>2. CASE Cell(req[r]) \notin disturbed'
        <5>1. Owes(r)
          BY <2>2, <2>3, <2>5, <3>1, <4>2
        <5>2. role' = role /\ creator' = creator /\ req'[r] = req[r]
          BY <2>15 DEF JoinGroup, AddMember, RemoveMember, DemoteMember, AddToGroup, RemoveFromGroup,
                       SetMembers, data
        <5>3. \/ pc[r] = "join" /\ pc'[r] = "row" /\ u \in member'[n]
              \/ pc[r] = "addmember" /\ pc'[r] = "done" /\ u \in member'[n]
              \/ pc[r] = "removemember" /\ pc'[r] = "done" /\ u \notin member'[n]
              \/ pc[r] = "demote" /\ pc'[r] = "updaterow" /\ u \notin member'[n]
          BY <2>3, <2>4, <2>15, <3>1, <4>2
             DEF JoinGroup, AddMember, RemoveMember, DemoteMember, AddToGroup, RemoveFromGroup,
                 SetMembers
        <5> QED
          BY <2>7, <5>1, <5>2, <5>3 DEF Left, Owes, Agree, InFlight, ChangeSteps
      <4> QED
        BY <4>1, <4>2
    <3> QED
      BY <2>13, <3>2, <3>3
  <2>16. CASE CreateRow(r)
    <3>1. Kept
      <4>1. InFlight(r) /\ req[r].kind = "create"
        BY <2>7, <2>16 DEF CreateRow, InFlight, ChangeSteps
      <4>2. creator'[n] # None /\ \A m \in Spaces : m # n => creator'[m] = creator[m]
        BY <2>3, <2>4, <2>16, <4>1, UsersAssumption DEF CreateRow
      <4> QED
        BY <2>4, <2>16, <4>1, <4>2 DEF CreateRow, Kept, gitlab
    <3>2. Left
      BY <2>2, <2>4, <2>5, <2>16, <3>1 DEF CreateRow, Left, Kept, Owes, InFlight, ChangeSteps, gitlab
    <3> QED
      BY <2>13, <3>1, <3>2
  <2>17. CASE RowExists(r) \/ OwnerExists(r) \/ AddConflict(r) \/ NotFound(r)
    <3>1. /\ UNCHANGED <<creator, role, member>> /\ InFlight(r) /\ req'[r] = req[r]
          /\ \/ pc[r] = "row" /\ creator[n] # None /\ pc'[r] \in {"failed", "owner"}
             \/ pc[r] = "owner" /\ role[n][u] # None /\ pc'[r] \in {"failed", "done"}
             \/ pc[r] = "addrow" /\ role[n][u] # None /\ pc'[r] = "rejected"
             \/ pc[r] \in {"removerow", "updaterow"} /\ role[n][u] = None /\ pc'[r] = "rejected"
      BY <2>4, <2>17 DEF RowExists, OwnerExists, AddConflict, NotFound, Skips, HasRole, nsVars, data,
                         gitlab, InFlight, ChangeSteps
    <3>2. Kept
      BY <2>6, <2>7, <3>1 DEF Kept, InFlight, ChangeSteps
    <3>3. Left
      BY <2>2, <2>5, <3>1 DEF Left, Owes, Agree, InFlight, ChangeSteps
    <3> QED
      BY <2>13, <3>2, <3>3
  <2>18. CASE CreateOwner(r) \/ AddRow(r) \/ RemoveRow(r) \/ UpdateRow(r)
    <3>1. /\ UNCHANGED <<creator, member>> /\ InFlight(r) /\ req'[r] = req[r]
          /\ \E new : /\ role' = [role EXCEPT ![n][u] = new]
                      /\ \/ pc[r] = "owner" /\ pc'[r] = "done" /\ new = "namespace_admin"
                         \/ pc[r] = "addrow" /\ pc'[r] = "addmember" /\ new = req[r].role
                         \/ pc[r] = "removerow" /\ pc'[r] = "removemember" /\ new = None
                         \/ /\ pc[r] = "updaterow" /\ pc'[r] = "done" /\ role[n][u] # None
                            /\ new = IF req[r].role = "student" THEN None ELSE req[r].role
      BY <2>4, <2>18 DEF CreateOwner, AddRow, RemoveRow, UpdateRow, SetRole, HasRole, gitlab,
                         InFlight, ChangeSteps
    <3>2. pc[r] = "addrow" => req[r].role \in Roles
      BY DEF Shape, Known
    <3>3. PICK new : /\ role' = [role EXCEPT ![n][u] = new]
                     /\ \/ pc[r] = "owner" /\ pc'[r] = "done" /\ new = "namespace_admin"
                        \/ pc[r] = "addrow" /\ pc'[r] = "addmember" /\ new = req[r].role
                        \/ pc[r] = "removerow" /\ pc'[r] = "removemember" /\ new = None
                        \/ /\ pc[r] = "updaterow" /\ pc'[r] = "done" /\ role[n][u] # None
                           /\ new = IF req[r].role = "student" THEN None ELSE req[r].role
      BY <3>1
    <3>4. /\ n \in Spaces /\ u \in Users /\ role'[n][u] = new
          /\ \A m \in Spaces, v \in Users : <<m, v>> # <<n, u>> => role'[m][v] = role[m][v]
      BY <2>3, <2>4, <3>1, <3>3
    <3>5. Kept
      <4>1. new # None => creator[n] # None
        BY <2>6, <2>7, <3>1, <3>3
      <4> QED
        BY <2>7, <3>1, <3>3, <3>4, <4>1 DEF Kept, InFlight, ChangeSteps
    <3>6. Left
      <4>1. req[r].role \in Roles \cup {"student"} /\ "namespace_admin" \in Roles
        BY <3>1 DEF InFlight, Shape, TypedRequest, Change, Roles
      <4>2. CASE <<n, u>> \in disturbed'
        BY <4>2 DEF Left
      <4>3. CASE <<n, u>> \notin disturbed'
        <5>1. Owes(r)
          BY <2>2, <2>5, <3>1, <4>3
        <5> QED
          BY <3>1, <3>2, <3>3, <3>4, <4>1, <5>1, UsersAssumption
             DEF Left, Owes, Agree, InFlight, ChangeSteps
      <4> QED
        BY <4>2, <4>3
    <3> QED
      BY <2>13, <3>5, <3>6
  <2>19. CASE Die(r)
    <3>1. UNCHANGED <<creator, role, member>> /\ req'[r] = req[r] /\ pc'[r] = "stopped"
      BY <2>4, <2>19 DEF Die, data, gitlab
    <3>2. CASE ~InFlight(r)
      BY <2>1, <2>2, <3>1, <3>2, RolesUntouched DEF Others, InFlight, ChangeSteps
    <3>3. CASE InFlight(r)
      <4>1. Kept
        BY <2>6, <2>7, <3>1, <3>3 DEF Kept, InFlight, ChangeSteps
      <4>2. Left
        BY <2>2, <2>3, <2>5, <2>19, <3>1, <3>3 DEF Left, Die, Begun, Owes, Agree, InFlight, ChangeSteps
      <4> QED
        BY <2>13, <4>1, <4>2
    <3> QED
      BY <3>2, <3>3
  <2> QED
    BY <1>4, <2>8, <2>9, <2>10, <2>11, <2>12, <2>14, <2>15, <2>16, <2>17, <2>18, <2>19
       DEF NamespaceStep
<1> QED
  BY <1>1, <1>2, <1>3, <1>4

(* No sequence of creations, additions, removals and updates leaves a role *)
(* without the membership in the group, or the membership without a role,  *)
(* except where GitLab failed, a handler died or two requests about one    *)
(* cell overlapped: whatever the others were doing meanwhile.              *)
THEOREM RolesAreMembersAlways == Spec => []RolesAreMembers
<1>1. RolesInv => RolesAreMembers
  BY DEF RolesInv
<1> QED
  BY <1>1, ShapeAlways, RolesInit, RolesNext, PTL DEF Spec

=============================================================================
