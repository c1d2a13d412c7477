---------------------------- MODULE CourseProofs ----------------------------
(***************************************************************************)
(* Proofs about the creation of courses and about the users on them, for   *)
(* every set of courses, paths, users and requests: whose group a roll-back*)
(* deletes, what a course in the database has on GitLab, who can push, and *)
(* that a dismissed course admin stays dismissed.                          *)
(***************************************************************************)
EXTENDS AdministrationProofs

-----------------------------------------------------------------------------
(* Whose group it is.                                                      *)

Begotten(o, s) ==
    /\ req[o] \in Creation /\ Slug(o) = s
    /\ pc[o] \notin {"idle", "cgroup"}

(* The group of a path was made by a creation of that path, which holds it *)
(* unless it slipped, or was there with the course of that path; the group *)
(* a creation holds is one of its own path.                                *)
GroupsOwned ==
    /\ \A s \in Slugs :
          /\ \A c \in Names : cgroup[s] = c => course[c] = s
          /\ \A o \in Requests : cgroup[s] = o => Begotten(o, s) /\ (o \in slipped \/ hold[o] = o)
    /\ \A r \in Requests : pc[r] \in Grouped =>
          /\ \A c \in Names : hold[r] = c => course[c] = Slug(r)
          /\ \A o \in Requests : hold[r] = o => Begotten(o, Slug(r))
    /\ \A r \in Requests : pc[r] = "undone" => req[r] \in Creation

Undone(s) == \E r \in Requests : pc[r] \in Undoing \cup {"undone"} /\ Slug(r) = s

(* A creation that is about to write the row has made the repository. *)
RepoBeforeRow ==
    \A r \in Requests : pc[r] \in {"students", "course"} => Slug(r) \in repo \/ Undone(Slug(r))

(* A creation that fails without a roll-back has slipped or has its row;   *)
(* one whose roll-back came to its end has no group.                       *)
LeavesNothing ==
    \A r \in Requests \ slipped :
        /\ pc[r] = "failed" /\ req[r].kind = "api" => course[req[r].name] = Slug(r)
        /\ pc[r] = "undone" => \A s \in Slugs : cgroup[s] # r

GroupsInv == GroupsOwned /\ RepoBeforeRow /\ CourseHasGroup /\ LeavesNothing

(* A step that is about no creation of a course. *)
Bystander(o) ==
    \/ pc'[o] = pc[o] /\ req'[o] = req[o] /\ hold'[o] = hold[o]
    \/ /\ pc[o] = "idle" \/ req[o] \notin Creation
       /\ pc[o] \notin Undoing \cup {"undone"}
       /\ pc'[o] \notin Grouped \cup {"undone"}
       /\ pc'[o] = "failed" => req'[o].kind # "api"

(* A step of a creation r, seen from the rows and from GitLab: groups come  *)
(* under the creation's own path, groups and what is inside them go with   *)
(* the roll-back of that path, and rows come after the repository.         *)
Effect(r) ==
    /\ \A s \in Slugs :
          \/ cgroup'[s] \in {cgroup[s], None}
          \/ s = Slug(r) /\ cgroup'[s] = r /\ pc[r] = "cgroup" /\ (r \in slipped' \/ hold'[r] = r)
    /\ hold'[r] = hold[r] \/ pc[r] = "cgroup"
    /\ pc'[r] \in Grouped =>
          \/ pc[r] \in Grouped /\ hold'[r] = hold[r]
          \/ pc[r] = "cgroup" /\ hold'[r] = cgroup'[Slug(r)]
    /\ pc[r] \in Undoing \cup {"undone"} => pc'[r] \in Undoing \cup {"undone"}
    /\ slipped \subseteq slipped'
    /\ \A s \in repo \ repo' : pc'[r] = "undone" /\ s = Slug(r)
    /\ pc'[r] = "students" => Slug(r) \in repo'
    /\ pc'[r] = "course" => pc[r] = "students"
    /\ \A c \in Names : course'[c] = course[c] \/ (course'[c] = Slug(r) /\ pc[r] = "course")
    /\ r \notin slipped' =>
          /\ pc'[r] = "failed" /\ req[r].kind = "api" => course'[req[r].name] = Slug(r)
          /\ pc'[r] = "undone" => \A s \in Slugs : cgroup'[s] # r
    /\ forks' \subseteq forks /\ access' = access \cap forks'
    /\ \A f \in forks \ forks' : pc'[r] = "undone" /\ f[1] = Slug(r)

(* The group a creation holds is found at the creation's path only. *)
LEMMA HeldGroup ==
    ASSUME Shape, GroupsOwned, NEW r \in Requests, pc[r] \in Grouped,
           NEW s \in Slugs, cgroup[s] # None, cgroup[s] = hold[r]
    PROVE  s = Slug(r)
<1>1. cgroup[s] \in Requests \cup Names
  BY DEF Shape, CoursesData
<1> QED
  BY <1>1 DEF GroupsOwned, Begotten

(* Every step of a creation after its arrival has such an effect. *)
LEMMA CourseEffects ==
    ASSUME Shape, GroupsInv, NEW r \in Requests, CourseStep(r), pc[r] # "idle"
    PROVE  Effect(r)
<1>1. CoursesData /\ Domains /\ TypedRequest(r) /\ Known(r) /\ GroupsOwned
  BY DEF Shape, GroupsInv
<1>2. pc[r] \in CourseSteps \cup Undoing =>
         req[r].name \in Names /\ Slug(r) \in Slugs /\ Slug(r) # None
  BY <1>1, CoursesAssumption DEF TypedRequest, Creation, Slug
<1>3. access \subseteq forks /\ slipped \subseteq Requests
  BY <1>1 DEF CoursesData
<1> USE DEF Goto, GotoOf, Slips
<1>4. CASE CourseGroup(r)
  <2>1. /\ pc[r] = "cgroup" /\ Slug(r) \in Slugs /\ Slug(r) # None
        /\ UNCHANGED <<courses, repo, projects>>
        /\ pc'[r] \in {"repo", "failed"}
        /\ pc'[r] = "failed" => r \in slipped'
    BY <1>1, <1>2, <1>4 DEF CourseGroup, CourseSteps, Domains
  <2>2. /\ \A s \in Slugs : cgroup'[s] = cgroup[s] \/ (s = Slug(r) /\ cgroup'[s] = GroupOf(r))
        /\ pc'[r] = "repo" => cgroup'[Slug(r)] = GroupOf(r) /\ hold'[r] = GroupOf(r)
        /\ slipped \subseteq slipped'
    BY <1>1, <1>4, <2>1 DEF CourseGroup, CoursesData, Domains
  <2>3. GroupOf(r) = cgroup[Slug(r)] \/ GroupOf(r) = r
    BY DEF GroupOf
  <2>4. \A s \in Slugs :
           \/ cgroup'[s] \in {cgroup[s], None}
           \/ s = Slug(r) /\ cgroup'[s] = r /\ pc[r] = "cgroup" /\ (r \in slipped' \/ hold'[r] = r)
    BY <2>1, <2>2, <2>3
  <2>5. UNCHANGED <<course, repo, forks, access>> /\ access' = access \cap forks'
    BY <1>3, <2>1 DEF courses, projects
  <2> QED
    BY <2>1, <2>2, <2>4, <2>5 DEF Effect, Grouped, Undoing
<1>5. CASE PublicRepo(r)
  <2>1. /\ UNCHANGED <<courses, cgroup, projects, hold, slipped>> /\ pc[r] = "repo"
        /\ repo \subseteq repo'
        /\ pc'[r] \in {"students", "undogroup", "failed"}
        /\ pc'[r] = "students" => Slug(r) \in repo'
        /\ pc'[r] = "failed" => req[r].kind # "api"
    BY <1>1, <1>5 DEF PublicRepo, RepoMade, Domains, ByApi
  <2> QED
    BY <1>3, <2>1 DEF Effect, Grouped, Undoing, courses, projects
<1>6. CASE StudentsGroup(r)
  <2>1. /\ UNCHANGED <<courses, cgroup, repo, projects, hold, slipped>> /\ pc[r] = "students"
        /\ pc'[r] \in {"course", "undoproject", "failed"}
        /\ pc'[r] = "failed" => req[r].kind # "api"
    BY <1>1, <1>6 DEF StudentsGroup, Domains, ByApi
  <2> QED
    BY <1>3, <2>1 DEF Effect, Grouped, Undoing, courses, projects
<1>7. CASE CreateCourse(r)
  <2>1. /\ UNCHANGED <<cgroup, repo, projects, hold, slipped>> /\ pc[r] = "course"
        /\ pc'[r] \in {"answer", "owners", "done"}
        /\ \A c \in Names : course'[c] \in {course[c], Slug(r)}
    BY <1>1, <1>7 DEF CreateCourse, Domains, CoursesData, coursesRms
  <2> QED
    BY <1>3, <2>1 DEF Effect, Grouped, Undoing, projects
<1>8. CASE NameTaken(r) \/ OwnersRefused(r) \/ Answer(r) \/ DatabaseFails(r)
  <2>1. /\ UNCHANGED courseVars /\ pc[r] \in {"course", "owners", "answer"}
        /\ pc'[r] \in {"undostudents", "failed", "done"}
        /\ pc'[r] = "failed" => req[r].kind # "api" \/ pc[r] = "owners"
    BY <1>1, <1>8 DEF NameTaken, OwnersRefused, Answer, DatabaseFails, Moves, Domains, ByApi
  <2>2. pc[r] = "owners" => course[req[r].name] = Slug(r)
    BY <1>1 DEF Known
  <2> QED
    BY <1>3, <2>1, <2>2 DEF Effect, Grouped, Undoing, courseVars, courses, coursesRms, projects
<1>9. CASE AddOwners(r)
  <2>1. /\ UNCHANGED <<course, coursesRms, hold, slipped>> /\ pc[r] = "owners" /\ pc'[r] = "answer"
    BY <1>1, <1>9 DEF AddOwners, Domains
  <2> QED
    BY <1>3, <2>1 DEF Effect, Grouped, Undoing, coursesRms, projects
<1>10. CASE UndoStudents(r) \/ UndoProject(r)
  <2>1. /\ UNCHANGED <<courses, cgroup, repo, projects, hold, slipped>> /\ pc[r] \in Undoing
        /\ pc'[r] \in {"undoproject", "undogroup"}
    BY <1>1, <1>10 DEF UndoStudents, UndoProject, UndoFirst, Domains, Undoing
  <2> QED
    BY <1>3, <2>1 DEF Effect, Grouped, Undoing, courses, projects
<1>11. CASE UndoGroup(r)
  <2>1. UNCHANGED <<courses, hold>> /\ pc[r] = "undogroup" /\ pc'[r] = "undone" /\ pc[r] \in Grouped
    BY <1>1, <1>11 DEF UndoGroup, Domains, Grouped, Undoing
  <2>2. CASE Slips(r) /\ UNCHANGED <<cgroup, repo, students, projects>>
    BY <1>3, <2>1, <2>2 DEF Effect, Undoing, courses, projects
  <2> DEFINE gone == {s \in Slugs : cgroup[s] = hold[r]}
  <2>3. CASE /\ cgroup' = [s \in Slugs |-> IF s \in gone THEN None ELSE cgroup[s]]
             /\ repo' = repo \ gone
             /\ forks' = {f \in forks : f[1] \notin gone}
             /\ access' = {f \in access : f[1] \notin gone}
             /\ UNCHANGED slipped
    <3>1. \A s \in repo \cup students : s \in gone => s = Slug(r)
      BY <1>1, <2>1, HeldGroup DEF CoursesData
    <3>2. \A f \in forks : f[1] \in students
      BY <1>1 DEF CoursesData
    <3>3. \A s \in Slugs : cgroup'[s] # r \/ r \in slipped'
      <4>1. ASSUME NEW s \in Slugs, cgroup'[s] = r, r \notin slipped PROVE FALSE
        <5>1. cgroup[s] = r /\ s \notin gone
          BY <2>3, <4>1, CoursesAssumption
        <5>2. hold[r] = r
          BY <1>1, <4>1, <5>1 DEF GroupsOwned
        <5> QED
          BY <5>1, <5>2
      <4> QED
        BY <2>3, <4>1
    <3>4. access' = access \cap forks'
      BY <1>3, <2>3
    <3>5. \A s \in Slugs : cgroup'[s] \in {cgroup[s], None}
      BY <2>3
    <3>6. /\ \A s \in repo \ repo' : s = Slug(r)
          /\ \A f \in forks \ forks' : f[1] = Slug(r)
          /\ forks' \subseteq forks
      BY <2>3, <3>1, <3>2
    <3> QED
      BY <2>1, <2>3, <3>3, <3>4, <3>5, <3>6 DEF Effect, Grouped, Undoing, courses
  <2> QED
    BY <1>11, <2>2, <2>3 DEF UndoGroup
<1>12. CASE DieCreating(r)
  <2>1. /\ UNCHANGED <<courses, coursesRms, hold>> /\ slipped' = slipped \cup {r}
        /\ pc'[r] \in {"undone", "stopped"} /\ (pc[r] \in Undoing => pc'[r] = "undone")
        /\ pc[r] \in CourseSteps \cup Undoing
    BY <1>1, <1>12 DEF DieCreating, Domains
  <2> QED
    BY <1>3, <2>1 DEF Effect, Grouped, Undoing, CourseSteps, courses, coursesRms, projects
<1>13. ~CourseAccept(r)
  BY DEF CourseAccept, Arrive
<1> QED
  BY <1>4, <1>5, <1>6, <1>7, <1>8, <1>9, <1>10, <1>11, <1>12, <1>13 DEF CourseStep

(* A roll-back, once begun, is not forgotten. *)
LEMMA UndoneStays ==
    ASSUME NEW r \in Requests, Others(r),
           pc[r] \in Undoing \cup {"undone"} => pc'[r] \in Undoing \cup {"undone"} /\ req'[r] = req[r],
           NEW s, Undone(s)
    PROVE  Undone(s)'
  BY DEF Undone, Others, Slug

LEMMA GroupsStep ==
    ASSUME Shape, GroupsInv, NEW r \in Requests, Others(r), Stays(r), Effect(r),
           MovesIn(r, CourseSteps \cup Undoing, Ended \cup {"undone"}),
           pc'[r] # "cgroup"
    PROVE  GroupsInv'
<1>1. GroupsOwned /\ RepoBeforeRow /\ CourseHasGroup /\ LeavesNothing
  BY DEF GroupsInv
<1>2. /\ req[r] \in Creation /\ Slug(r) \in Slugs /\ Slug(r) # None
      /\ pc[r] # "idle" /\ req'[r] = req[r] /\ pc'[r] # "idle"
  BY CoursesAssumption
     DEF Shape, TypedRequest, MovesIn, Creation, Slug, CourseSteps, Undoing, Ended
<1>3. \A o \in Requests : pc[o] # "idle" => req'[o] = req[o] /\ Slug(o)' = Slug(o)
  BY <1>2 DEF Others, Slug
<1>4. \A o \in Requests, s \in Slugs : Begotten(o, s) => Begotten(o, s)'
  BY <1>2, <1>3 DEF Begotten, Others
<1>5. \A c \in Names : course[c] # None => course'[c] = course[c]
  BY DEF Stays
<1>6. \A s \in Slugs : cgroup[s] \in Requests \cup Names \cup {None}
  BY DEF Shape, CoursesData
<1>7. /\ hold \in [Requests -> Requests \cup Names \cup {None}]
      /\ None \notin Requests \cup Names \cup Slugs /\ Requests \cap Names = {}
  BY CoursesAssumption DEF Shape, CoursesData
<1>8. ASSUME NEW s \in Slugs, NEW c \in Names, cgroup'[s] = c PROVE course'[c] = s
  <2>1. cgroup[s] = c /\ s # None
    BY <1>7, <1>8 DEF Effect
  <2> QED
    BY <1>1, <1>5, <2>1 DEF GroupsOwned
<1>9. ASSUME NEW s \in Slugs, NEW o \in Requests, cgroup'[s] = o
      PROVE  Begotten(o, s)' /\ (o \in slipped' \/ hold'[o] = o)
  <2>1. CASE s = Slug(r) /\ o = r /\ pc[r] = "cgroup" /\ (r \in slipped' \/ hold'[r] = r)
    BY <1>2, <1>3, <2>1 DEF Begotten
  <2>2. CASE cgroup[s] = o
    <3>1. Begotten(o, s) /\ (o \in slipped \/ hold[o] = o)
      BY <1>1, <2>2 DEF GroupsOwned
    <3>2. hold'[o] = hold[o]
      BY <3>1 DEF Begotten, Stays, Effect
    <3> QED
      BY <1>4, <3>1, <3>2 DEF Effect
  <2> QED
    BY <1>7, <1>9, <2>1, <2>2 DEF Effect
<1>10. ASSUME NEW o \in Requests, pc'[o] \in Grouped
       PROVE  /\ \A c \in Names : hold'[o] = c => course'[c] = Slug(o)'
              /\ \A x \in Requests : hold'[o] = x => Begotten(x, Slug(o))'
  <2>1. pc[o] # "idle"
    BY <1>2, <1>10 DEF Others, Grouped, Undoing
  <2>2. CASE pc[o] \in Grouped /\ hold'[o] = hold[o]
    <3>1. Slug(o) \in Slugs /\ Slug(o) # None /\ Slug(o)' = Slug(o)
      BY <1>3, <1>7, <2>1, <2>2 DEF Shape, TypedRequest, Creation, Slug, Grouped, CourseSteps
    <3>2. ASSUME NEW c \in Names, hold[o] = c PROVE course'[c] = Slug(o)
      BY <1>1, <1>5, <2>2, <3>1, <3>2 DEF GroupsOwned
    <3>3. ASSUME NEW x \in Requests, hold[o] = x PROVE Begotten(x, Slug(o))'
      <4>1. Begotten(x, Slug(o)) /\ pc'[x] \notin {"idle", "cgroup"} /\ req'[x] = req[x]
        BY <1>1, <1>2, <1>3, <2>2, <3>3 DEF GroupsOwned, Begotten, Others
      <4> QED
        BY <3>1, <4>1 DEF Begotten, Slug
    <3> QED
      BY <2>2, <3>1, <3>2, <3>3
  <2>3. CASE o = r /\ pc[r] = "cgroup" /\ hold'[r] = cgroup'[Slug(r)]
    <3> DEFINE s == Slug(r)
    <3>1. Slug(r)' = s /\ s \in Slugs
      BY <1>2, <1>3
    <3> HIDE DEF s
    <3>2. ASSUME NEW x \in Requests, cgroup'[s] = x PROVE Begotten(x, Slug(r))'
      BY <1>9, <3>1, <3>2 DEF Begotten
    <3>3. hold'[r] = cgroup'[s]
      BY <2>3 DEF s
    <3> QED
      BY <1>8, <2>3, <3>1, <3>2, <3>3
  <2> QED
    BY <1>10, <2>1, <2>2, <2>3 DEF Others, Stays, Effect
<1>11. GroupsOwned'
  <2>1. \A o \in Requests : pc'[o] = "undone" => req'[o] \in Creation
    BY <1>1, <1>2 DEF GroupsOwned, Others
  <2> QED
    BY <1>8, <1>9, <1>10, <2>1 DEF GroupsOwned
<1>12. \A s : Undone(s) => Undone(s)'
  BY <1>2, UndoneStays DEF Effect
<1>13. \A s \in repo : s \in repo' \/ Undone(s)'
  <2>1. ASSUME NEW s, s = Slug(r), pc'[r] = "undone" PROVE Undone(s)'
    BY <1>2, <1>3, <2>1 DEF Undone
  <2> QED
    BY <2>1 DEF Effect
<1>14. RepoBeforeRow'
  <2>1. ASSUME NEW o \in Requests, pc'[o] \in {"students", "course"}
        PROVE  (Slug(o) \in repo \/ Undone(Slug(o)))'
    <3>1. Slug(o)' = Slug(o)
      BY <1>2, <1>3, <2>1 DEF Others
    <3>2. CASE o = r /\ pc'[r] = "students"
      BY <3>1, <3>2 DEF Effect
    <3>3. CASE ~(o = r /\ pc'[r] = "students")
      <4> DEFINE s == Slug(o)
      <4>1. pc[o] \in {"students", "course"}
        BY <2>1, <3>3 DEF Others, Effect
      <4>2. s \in repo \/ Undone(s)
        BY <1>1, <4>1 DEF RepoBeforeRow
      <4> HIDE DEF s
      <4>3. s \in repo' \/ \E x \in Requests : pc'[x] \in Undoing \cup {"undone"} /\ Slug(x)' = s
        BY <1>12, <1>13, <4>2 DEF Undone
      <4> QED
        BY <3>1, <4>3 DEF s, Undone
    <3> QED
      BY <3>2, <3>3
  <2> QED
    BY <2>1 DEF RepoBeforeRow
<1>15. CourseHasGroup'
  <2>1. ASSUME NEW c \in Names, NEW s, s = course'[c], s # None
        PROVE  s \in repo' \/ Undone(s)'
    <3>1. s = course[c] \/ (s = Slug(r) /\ pc[r] = "course")
      BY <2>1 DEF Effect
    <3>2. s \in repo \/ Undone(s)
      BY <1>1, <2>1, <3>1 DEF CourseHasGroup, RepoBeforeRow, Undone
    <3> QED
      BY <1>12, <1>13, <3>2
  <2> QED
    BY <2>1 DEF CourseHasGroup, Undone
<1>16. LeavesNothing'
  <2>1. ASSUME NEW o \in Requests \ slipped', pc'[o] = "failed", req'[o].kind = "api"
        PROVE  course'[req'[o].name] = Slug(o)'
    <3>1. CASE o = r
      BY <1>2, <1>3, <2>1, <3>1 DEF Effect
    <3>2. CASE o # r
      <4>1. pc[o] = "failed" /\ req'[o] = req[o] /\ Slug(o)' = Slug(o) /\ o \notin slipped
        BY <2>1, <3>2 DEF Others, Effect, Slug
      <4>2. course[req[o].name] = Slug(o)
        BY <1>1, <2>1, <4>1 DEF LeavesNothing
      <4>3. req[o] \in Creation
        <5>1. req[o] \in Asked
          BY <4>1 DEF Shape, Known
        <5> QED
          BY <2>1, <4>1, <5>1 DEF Asked, Change, Panel, Creation, Enrolling, Visiting, ByHand
      <4> QED
        BY <1>5, <1>7, <4>1, <4>2, <4>3 DEF Creation, Slug
    <3> QED
      BY <3>1, <3>2
  <2>2. ASSUME NEW o \in Requests \ slipped', pc'[o] = "undone", NEW s \in Slugs
        PROVE  cgroup'[s] # o
    <3>1. CASE o = r
      BY <2>2, <3>1 DEF Effect
    <3>2. CASE o # r
      <4>1. pc[o] = "undone" /\ o \notin slipped
        BY <2>2, <3>2 DEF Others, Effect
      <4>2. cgroup[s] # o
        BY <1>1, <4>1 DEF LeavesNothing
      <4> QED
        BY <1>7, <3>2, <4>2 DEF Effect
    <3> QED
      BY <3>1, <3>2
  <2> QED
    BY <2>1, <2>2 DEF LeavesNothing
<1> QED
  BY <1>11, <1>14, <1>15, <1>16 DEF GroupsInv

(* Steps that are about no creation keep what is said of creations. *)
LEMMA GroupsBystanders ==
    ASSUME Shape, GroupsInv, UNCHANGED <<course, cgroup, repo, slipped>>,
           \A o \in Requests : Bystander(o)
    PROVE  GroupsInv'
<1>1. GroupsOwned /\ RepoBeforeRow /\ CourseHasGroup /\ LeavesNothing
  BY DEF GroupsInv
<1>2. ASSUME NEW o \in Requests, req[o] \in Creation, pc[o] # "idle"
      PROVE  pc'[o] = pc[o] /\ req'[o] = req[o] /\ hold'[o] = hold[o] /\ Slug(o)' = Slug(o)
  BY <1>2 DEF Bystander, Slug
<1>3. ASSUME NEW o \in Requests, pc'[o] \in Grouped \cup {"undone"}
      PROVE  pc'[o] = pc[o] /\ req'[o] = req[o] /\ hold'[o] = hold[o] /\ Slug(o)' = Slug(o)
  BY <1>3 DEF Bystander, Slug
<1>4. ASSUME NEW s, NEW o \in Requests, Begotten(o, s) PROVE Begotten(o, s)' /\ hold'[o] = hold[o]
  BY <1>2, <1>4 DEF Begotten
<1>5. GroupsOwned'
  <2>1. ASSUME NEW s \in Slugs
        PROVE  /\ \A c \in Names : cgroup'[s] = c => course'[c] = s
               /\ \A o \in Requests :
                     cgroup'[s] = o => Begotten(o, s)' /\ (o \in slipped' \/ hold'[o] = o)
    BY <1>1, <1>4 DEF GroupsOwned
  <2>2. ASSUME NEW r \in Requests, pc'[r] \in Grouped
        PROVE  /\ \A c \in Names : hold'[r] = c => course'[c] = Slug(r)'
               /\ \A o \in Requests : hold'[r] = o => Begotten(o, Slug(r))'
    <3>1. pc[r] \in Grouped /\ hold'[r] = hold[r] /\ Slug(r)' = Slug(r)
      BY <1>3, <2>2
    <3>2. ASSUME NEW o \in Requests, hold[r] = o PROVE Begotten(o, Slug(r))'
      <4>1. Begotten(o, Slug(r)) /\ pc'[o] = pc[o] /\ req'[o] = req[o]
        BY <1>1, <1>2, <3>1, <3>2 DEF GroupsOwned, Begotten
      <4> QED
        BY <3>1, <4>1 DEF Begotten, Slug
    <3> QED
      BY <1>1, <3>1, <3>2 DEF GroupsOwned
  <2>3. \A r \in Requests : pc'[r] = "undone" => req'[r] \in Creation
    BY <1>1, <1>3 DEF GroupsOwned
  <2> QED
    BY <2>1, <2>2, <2>3 DEF GroupsOwned
<1>6. \A s : Undone(s) => Undone(s)'
  <2>1. \A o \in Requests : pc[o] \in Undoing \cup {"undone"} =>
           pc'[o] = pc[o] /\ Slug(o)' = Slug(o)
    BY DEF Bystander, Slug
  <2> QED
    BY <2>1 DEF Undone
<1>7. RepoBeforeRow'
  <2>1. ASSUME NEW o \in Requests, pc'[o] \in {"students", "course"}, NEW s, s = Slug(o)'
        PROVE  s \in repo' \/ Undone(s)'
    BY <1>1, <1>3, <1>6, <2>1 DEF RepoBeforeRow, Grouped
  <2> QED
    BY <2>1 DEF RepoBeforeRow, Undone
<1>8. CourseHasGroup'
  <2>1. ASSUME NEW c \in Names, NEW s, s = course[c], s # None PROVE s \in repo' \/ Undone(s)'
    BY <1>1, <1>6, <2>1 DEF CourseHasGroup, Undone
  <2> QED
    BY <2>1 DEF CourseHasGroup, Undone
<1>9. LeavesNothing'
  <2>1. ASSUME NEW o \in Requests \ slipped, pc'[o] = "failed", req'[o].kind = "api"
        PROVE  pc[o] = "failed" /\ req'[o] = req[o] /\ Slug(o)' = Slug(o)
    BY <2>1 DEF Bystander, Slug
  <2> QED
    BY <1>1, <1>3, <2>1 DEF LeavesNothing
<1> QED
  BY <1>5, <1>7, <1>8, <1>9 DEF GroupsInv

LEMMA GroupsInit == Init => GroupsInv
<1> SUFFICES ASSUME NEW w \in Workload, InitCourses(w) PROVE GroupsInv
  BY DEF Init, InitEnrolment
<1> DEFINE founded(s) == {c \in Names : w.courses[c] = s}
           used == {s \in Slugs : founded(s) # {}}
<1>1. \A r \in Requests : pc[r] = "idle"
  BY DEF InitCourses, InitNamespaces
<1>2. /\ cgroup = [s \in Slugs |-> IF s \in used THEN CHOOSE c \in founded(s) : TRUE ELSE None]
      /\ repo = used /\ course = w.courses /\ course \in [Names -> Slugs \cup {None}]
  BY CoursesAssumption DEF InitCourses
<1>3. ASSUME NEW s \in Slugs
      PROVE  \/ cgroup[s] = None
             \/ cgroup[s] \in Names /\ course[cgroup[s]] = s
  <2>1. founded(s) # {} => (CHOOSE c \in founded(s) : TRUE) \in founded(s)
    OBVIOUS
  <2> QED
    BY <1>2, <2>1
<1>4. \A c \in Names : course[c] # None => course[c] \in repo
  BY <1>2
<1> QED
  BY <1>1, <1>3, <1>4, CoursesAssumption
     DEF GroupsInv, GroupsOwned, RepoBeforeRow, CourseHasGroup, LeavesNothing, Grouped, Undoing

LEMMA GroupsNext == Shape /\ GroupsInv /\ [Next]_vars => GroupsInv'
<1> SUFFICES ASSUME Shape, GroupsInv, [Next]_vars PROVE GroupsInv'
  OBVIOUS
<1>1. Domains /\ CoursesData /\ NamespacesData
  BY DEF Shape
<1>2. CASE UNCHANGED vars
  BY <1>2, GroupsBystanders DEF vars, handler, courseVars, courses, coursesRms, Bystander
<1>3. CASE Elsewhere /\ NextNamespaces /\ UNCHANGED courseVars
  <2>1. UNCHANGED <<course, cgroup, repo, slipped, hold>>
    BY <1>3 DEF courseVars, courses, coursesRms
  <2>2. CASE StartProcess
    BY <2>1, <2>2, GroupsBystanders DEF StartProcess, handler, Bystander
  <2>3. ASSUME NEW r \in Requests, NamespaceStep(r) PROVE GroupsInv'
    <3>1. /\ Others(r)
          /\ \/ Arrives(r, {"group", "addrow", "removerow", "demote", "updaterow"}, Change)
             \/ Arrives(r, {"grant", "count"}, Panel)
             \/ MovesIn(r, ChangeSteps, Ended)
             \/ MovesIn(r, PanelSteps, Ended)
      BY <1>1, <2>3, NamespaceMoves DEF NamespacesData
    <3>2. pc[r] \in ChangeSteps \cup PanelSteps => req[r] \in Change \cup Panel
      BY DEF Shape, TypedRequest
    <3>3. \A q \in Change \cup Panel : q \notin Creation /\ q.kind # "api"
      BY DEF Change, Panel, Creation
    <3>4. Bystander(r)
      BY <3>1, <3>2, <3>3 DEF Bystander, Arrives, MovesIn, ChangeSteps, PanelSteps, Ended, Grouped,
                              Undoing
    <3>5. \A o \in Requests : Bystander(o)
      BY <2>1, <3>1, <3>4 DEF Others, Bystander
    <3> QED
      BY <2>1, <3>5, GroupsBystanders
  <2> QED
    BY <1>3, <2>2, <2>3 DEF NextNamespaces
<1>4. ASSUME Elsewhere, NEW r \in Requests, CourseStep(r) PROVE GroupsInv'
  <2>1. /\ Others(r) /\ Stays(r)
        /\ \/ Arrives(r, {"cgroup"}, Creation)
           \/ MovesIn(r, CourseSteps \cup Undoing, Ended \cup {"undone"})
    BY <1>1, <1>4, CourseMoves, CourseStepData
  <2>2. CASE CourseAccept(r)
    <3>1. UNCHANGED <<course, cgroup, repo, slipped, hold>> /\ pc[r] = "idle" /\ pc'[r] = "cgroup"
      BY <1>1, <2>2 DEF CourseAccept, Arrive, Goto, Domains, courseVars, courses, coursesRms
    <3>2. \A o \in Requests : Bystander(o)
      BY <2>1, <3>1 DEF Others, Bystander, Grouped, Undoing
    <3> QED
      BY <3>1, <3>2, GroupsBystanders
  <2>3. CASE ~CourseAccept(r)
    <3>1. pc[r] # "idle" /\ pc'[r] # "cgroup"
      BY <1>1, <1>4, <2>3
         DEF CourseStep, CourseGroup, PublicRepo, StudentsGroup, CreateCourse, NameTaken, AddOwners,
             OwnersRefused, Answer, DatabaseFails, UndoStudents, UndoProject, UndoGroup,
             DieCreating, UndoFirst, Moves, Goto, GotoOf, CourseSteps, Undoing, Domains
    <3> QED
      BY <1>4, <2>1, <3>1, CourseEffects, GroupsStep DEF Arrives
  <2> QED
    BY <2>2, <2>3
<1>5. ASSUME NEW r \in Requests, EnrolmentStep(r) PROVE GroupsInv'
  <2>1. /\ Others(r) /\ UNCHANGED <<course, cgroup, repo, slipped>>
        /\ \/ Arrives(r, {"sync"}, Enrolling)
           \/ Arrives(r, {"project"}, Visiting)
           \/ Arrives(r, {"setadmin"}, ByHand)
           \/ MovesIn(r, EnrolSteps, Ended)
           \/ MovesIn(r, VisitSteps, Ended)
           \/ MovesIn(r, {"setadmin"}, Ended)
    BY <1>1, <1>5, EnrolmentMoves DEF CoursesData
  <2>2. pc[r] \in EnrolSteps \cup VisitSteps \cup {"setadmin"} =>
           req[r] \in Enrolling \cup Visiting \cup ByHand
    BY DEF Shape, TypedRequest
  <2>3. \A q \in Enrolling \cup Visiting \cup ByHand : q \notin Creation /\ q.kind # "api"
    BY DEF Enrolling, Visiting, ByHand, Creation
  <2>4. Bystander(r)
    BY <2>1, <2>2, <2>3 DEF Bystander, Arrives, MovesIn, EnrolSteps, VisitSteps, Ended, Grouped,
                            Undoing
  <2>5. \A o \in Requests : Bystander(o)
    <3>1. \A o \in Requests \ {r} : hold'[o] = hold[o]
      BY <1>5, EnrolmentStepData DEF Stays
    <3> QED
      BY <2>1, <2>4, <3>1 DEF Others, Bystander
  <2> QED
    BY <2>1, <2>5, GroupsBystanders
<1> QED
  BY <1>2, <1>3, <1>4, <1>5 DEF Next, Elsewhere, NextCourses

LEMMA GroupsAlways == Spec => []GroupsInv
  BY ShapeAlways, GroupsInit, GroupsNext, PTL DEF Spec

(* A course in the database has its repository on GitLab, unless a creation *)
(* of the same path is rolling back or did: a roll-back deletes no group   *)
(* but the one of its own path, whoever made it, and the row comes after   *)
(* the repository, whatever failed or died in between.                     *)
THEOREM CoursesHaveGroups == Spec => []CourseHasGroup
<1>1. GroupsInv => CourseHasGroup
  BY DEF GroupsInv
<1> QED
  BY <1>1, GroupsAlways, PTL

(* A creation by the API that fails without a row leaves no group it made, *)
(* as long as GitLab kept its word and the handler lived.                  *)
THEOREM FailureLeavesNothing == Spec => []FailedLeavesNothing
<1>1. GroupsInv => FailedLeavesNothing
  BY DEF GroupsInv, LeavesNothing, FailedLeavesNothing
<1> QED
  BY <1>1, GroupsAlways, PTL

-----------------------------------------------------------------------------
(* Who can push.                                                           *)

Enrols(o, p) == /\ req[o].kind = "enrol" /\ pc[o] \in EnrolSteps \cup {"failed", "stopped"}
                /\ Project(o) = p

(* Every fork has its user, or a reason not to. *)
ForksHaveUsers ==
    \A p \in forks : p \in access \cup refused \/ \E o \in Requests : Enrols(o, p)

Shown == {"role", "syncadmin", "syncplain", "done"}

Welcome ==
    /\ ForksHaveUsers
    /\ \A r \in Requests : req[r].kind = "enrol" /\ pc[r] = "done" =>
          Project(r) \in access \cup refused \/ Undone(Path(r))
    /\ \A r \in Requests : req[r].kind = "visit" /\ pc[r] \in Shown =>
          Project(r) \in forks \/ Undone(Path(r))

-----------------------------------------------------------------------------
(* Who was dismissed.                                                      *)

(* Nobody who lapsed is an instance admin, or was just read as one. *)
LapsedHaveNoClaim ==
    \A f \in lapsed : /\ f[2] \notin cadmin[f[1]] \cup admins
                      /\ \A r \in Requests : pc[r] = "syncadmin" => Flag(r) # f

LEMMA LapsedInit == Init => LapsedHaveNoClaim
  BY DEF Init, InitEnrolment, LapsedHaveNoClaim

(* What the requests of Enrolment do to course admins and to the history.  *)
LEMMA LapsedOnCourse ==
    ASSUME Shape, LapsedHaveNoClaim, NEW r \in Requests, EnrolmentStep(r)
    PROVE  LapsedHaveNoClaim'
<1>1. Domains /\ CoursesData /\ HistoryData
  BY DEF Shape
<1>2. /\ Others(r) /\ admins' = admins
      /\ pc[r] # "idle" => req'[r] = req[r]
  BY <1>1, EnrolmentMoves DEF CoursesData, nsVars, Arrives, MovesIn
<1>3. \A o \in Requests \ {r} : pc'[o] = pc[o] /\ Flag(o)' = Flag(o)
  BY <1>2 DEF Others, Flag
<1> USE DEF Goto
<1>4. CASE \/ EnrolAccept(r) \/ VisitAccept(r) \/ SetAccept(r)
           \/ StudentsFolder(r) \/ Fork(r) \/ GrantAccess(r)
           \/ CheckProject(r) \/ DieOnCourse(r)
  <2>1. cadmin' = cadmin /\ lapsed' = lapsed
    BY <1>4 DEF EnrolAccept, VisitAccept, SetAccept, StudentsFolder, Fork, GrantAccess, CheckProject,
                DieOnCourse, Proceeds, Moves, KeepsCourses, courseVars, courses
  <2>2. pc'[r] # "syncadmin"
    BY <1>1, <1>4 DEF EnrolAccept, VisitAccept, SetAccept, StudentsFolder, Fork, GrantAccess,
       CheckProject, DieOnCourse, Proceeds, Moves, Arrive, EnrolSteps, VisitSteps, Domains
  <2> QED
    BY <1>2, <1>3, <2>1, <2>2 DEF LapsedHaveNoClaim
<1>5. CASE Sync(r) \/ SetAdmin(r)
  <2>1. pc'[r] = IF pc[r] = "sync" THEN "folder" ELSE "done"
    BY <1>1, <1>5 DEF Sync, SetAdmin, Domains
  <2>2. /\ req[r].name \in Names
        /\ Flag(r) = <<req[r].name, req[r].user>>
    BY <1>5 DEF Sync, SetAdmin, Shape, TypedRequest, EnrolSteps, Enrolling, ByHand, Flag
  <2>3. CASE Promote(r)
    BY <1>1, <1>2, <1>3, <2>1, <2>2, <2>3
       DEF Promote, LapsedHaveNoClaim, CoursesData, HistoryData
  <2>4. CASE UNCHANGED <<cadmin, lapsed>>
    BY <1>2, <1>3, <2>1, <2>4 DEF LapsedHaveNoClaim
  <2>5. CASE /\ cadmin' = [cadmin EXCEPT ![req[r].name] = @ \ {req[r].user}]
             /\ lapsed' = lapsed \cup {f \in {Flag(r)} : ~Claims(f[1], f[2])}
    <3>1. \A c \in Names : cadmin'[c] \subseteq cadmin[c]
      BY <1>1, <2>2, <2>5 DEF CoursesData
    <3>2. req[r].user \notin cadmin'[req[r].name]
      BY <1>1, <2>2, <2>5 DEF CoursesData
    <3>3. ASSUME NEW f \in lapsed', f \notin lapsed
          PROVE  /\ f = Flag(r) /\ f[2] \notin admins
                 /\ \A o \in Requests : pc[o] = "syncadmin" => Flag(o) # f
      <4>1. f = Flag(r) /\ ~Claims(f[1], f[2])
        BY <2>5, <3>3
      <4> QED
        BY <2>2, <4>1 DEF Claims
    <3>4. \A f \in lapsed : f[1] \in Names
      BY <1>1 DEF HistoryData
    <3> QED
      BY <1>2, <1>3, <2>1, <2>2, <3>1, <3>2, <3>3, <3>4 DEF LapsedHaveNoClaim
  <2> QED
    BY <1>5, <2>3, <2>4, <2>5 DEF Sync, SetAdmin
<1>6. CASE ReadRole(r)
  <2>1. /\ UNCHANGED <<cadmin, lapsed>> /\ pc[r] # "idle"
        /\ pc'[r] = "syncadmin" => req[r].user \in admins
    BY <1>1, <1>6 DEF ReadRole, Proceeds, Moves, courseVars, courses, Domains
  <2>2. Flag(r)' = <<req[r].name, req[r].user>>
    BY <1>2, <2>1 DEF Flag
  <2> QED
    BY <1>2, <1>3, <2>1, <2>2 DEF LapsedHaveNoClaim
<1>7. CASE SyncVisitor(r)
  <2>1. /\ lapsed' = lapsed /\ pc'[r] = "done"
        /\ \/ cadmin' = cadmin
           \/ /\ pc[r] = "syncadmin"
              /\ cadmin' = [cadmin EXCEPT ![req[r].name] = @ \cup {req[r].user}]
    BY <1>1, <1>7 DEF SyncVisitor, Proceeds, Moves, courseVars, courses, Domains
  <2>2. ASSUME NEW f \in lapsed PROVE f[2] \notin cadmin'[f[1]]
    <3>1. f[1] \in Names /\ f = <<f[1], f[2]>> /\ f[2] \notin cadmin[f[1]]
      BY <1>1, <2>2 DEF HistoryData, LapsedHaveNoClaim
    <3>2. pc[r] = "syncadmin" => f # <<req[r].name, req[r].user>>
      BY <2>2 DEF LapsedHaveNoClaim, Flag
    <3> QED
      BY <1>1, <2>1, <3>1, <3>2 DEF CoursesData
  <2> QED
    BY <1>2, <1>3, <2>1, <2>2 DEF LapsedHaveNoClaim
<1> QED
  BY <1>4, <1>5, <1>6, <1>7 DEF EnrolmentStep

LEMMA LapsedNext == Shape /\ LapsedHaveNoClaim /\ [Next]_vars => LapsedHaveNoClaim'
<1> SUFFICES ASSUME Shape, LapsedHaveNoClaim, [Next]_vars PROVE LapsedHaveNoClaim'
  OBVIOUS
<1>1. Domains /\ CoursesData /\ NamespacesData
  BY DEF Shape
<1>2. CASE UNCHANGED vars
  BY <1>2 DEF vars, nsVars, handler, courseVars, courses, LapsedHaveNoClaim, Flag
<1>3. CASE Elsewhere
  <2>1. ASSUME NEW o \in Requests, pc'[o] = "syncadmin"
        PROVE  pc[o] = "syncadmin" /\ Flag(o)' = Flag(o)
    <3>1. CASE NextNamespaces
      <4>1. CASE StartProcess
        BY <2>1, <4>1 DEF StartProcess, handler, Flag
      <4>2. ASSUME NEW r \in Requests, NamespaceStep(r)
            PROVE  pc[o] = "syncadmin" /\ Flag(o)' = Flag(o)
        <5>1. Others(r) /\ pc'[r] # "syncadmin"
          BY <1>1, <4>2, NamespaceMoves
             DEF NamespacesData, Arrives, MovesIn, ChangeSteps, PanelSteps, Ended
        <5> QED
          BY <2>1, <5>1 DEF Others, Flag
      <4> QED
        BY <3>1, <4>1, <4>2 DEF NextNamespaces
    <3>2. ASSUME NEW r \in Requests, CourseStep(r)
          PROVE  pc[o] = "syncadmin" /\ Flag(o)' = Flag(o)
      <4>1. Others(r) /\ pc'[r] # "syncadmin"
        BY <1>1, <3>2, CourseMoves DEF Arrives, MovesIn, CourseSteps, Undoing, Ended
      <4> QED
        BY <2>1, <4>1 DEF Others, Flag
    <3> QED
      BY <1>3, <3>1, <3>2 DEF Elsewhere, NextCourses
  <2>2. ASSUME NEW f \in lapsed'
        PROVE  f \in lapsed /\ f[2] \notin admins' /\ f[2] \notin cadmin'[f[1]]
    <3>1. f \in lapsed /\ f[2] \notin admins' \cup (cadmin'[f[1]] \ cadmin[f[1]])
      BY <1>3, <2>2 DEF Elsewhere
    <3> QED
      BY <3>1 DEF LapsedHaveNoClaim
  <2> QED
    BY <2>1, <2>2 DEF LapsedHaveNoClaim
<1> QED
  BY <1>2, <1>3, LapsedOnCourse DEF Next

(* A course admin who was dismissed by hand stays dismissed: neither a page *)
(* the user opens, nor a role that was read before the dismissal, nor an   *)
(* enrolment without the course's token brings the rights back.            *)
THEOREM DismissedStayAlways == Spec => []DismissedStay
<1>1. LapsedHaveNoClaim => DismissedStay
  BY DEF LapsedHaveNoClaim, DismissedStay
<1> QED
  BY <1>1, ShapeAlways, LapsedInit, LapsedNext, PTL DEF Spec

LEMMA WelcomeInit == Init => Welcome
<1> SUFFICES ASSUME NEW w \in Workload, InitCourses(w) PROVE Welcome
  BY DEF Init, InitEnrolment
<1>1. access = forks /\ \A r \in Requests : pc[r] = "idle"
  BY DEF InitCourses, InitNamespaces
<1> QED
  BY <1>1 DEF Welcome, ForksHaveUsers, Shown

(* The project of a request on a course stays the same. *)
LEMMA ProjectStays ==
    ASSUME Shape, NEW r \in Requests, Stays(r),
           NEW o \in Requests, pc[o] # "idle", req[o].kind \in {"enrol", "visit"}, req'[o] = req[o]
    PROVE  Path(o)' = Path(o) /\ Project(o)' = Project(o)
<1>1. req[o] \in Asked /\ course[req[o].name] # None
  BY DEF Shape, Known
<1>2. req[o].name \in Names
  BY <1>1 DEF Asked, Change, Panel, Creation, Enrolling, Visiting, ByHand
<1> QED
  BY <1>1, <1>2 DEF Stays, Path, Project

(* What all steps have in common: rows stay, a moving request is judged by *)
(* its own step, and what GitLab loses it loses to a roll-back.            *)
LEMMA WelcomeStep ==
    ASSUME Shape, Welcome, NEW r \in Requests, Others(r), Stays(r),
           pc[r] # "idle" => req'[r] = req[r],
           pc[r] \in Undoing \cup {"undone"} => pc'[r] \in Undoing \cup {"undone"},
           refused \subseteq refused',
           \A p \in access : p \in access' \/ (p \notin forks' /\ Undone(p[1])'),
           \A p \in forks : p \in forks' \/ Undone(p[1])',
           \A p \in forks' \ forks : \E o \in Requests : Enrols(o, p)',
           pc[r] # "idle" /\ req[r].kind = "enrol" =>
              \/ pc'[r] \in EnrolSteps \cup {"failed", "stopped"}
              \/ Project(r) \in access' \cup refused',
           req'[r].kind = "visit" /\ pc'[r] \in Shown =>
              /\ pc[r] # "idle"
              /\ pc[r] \in Shown \/ Project(r) \in forks',
           pc[r] = "idle" => pc'[r] # "done"
    PROVE  Welcome'
<1>1. \A s : Undone(s) => Undone(s)'
  <2>1. pc[r] \in Undoing \cup {"undone"} => pc[r] # "idle"
    BY DEF Undoing
  <2> QED
    BY <2>1, UndoneStays
<1>2. ASSUME NEW o \in Requests, pc[o] # "idle", req[o].kind \in {"enrol", "visit"}
      PROVE  /\ Path(o)' = Path(o) /\ Project(o)' = Project(o) /\ Project(o)[1] = Path(o)
             /\ req'[o] = req[o]
  <2>1. req'[o] = req[o]
    BY <1>2 DEF Others
  <2> QED
    BY <1>2, <2>1, ProjectStays DEF Project
<1>3. ASSUME NEW o \in Requests, pc'[o] # "idle", o # r \/ pc[r] # "idle"
      PROVE  pc[o] # "idle" /\ req'[o] = req[o]
  BY <1>3 DEF Others
<1>4. ForksHaveUsers'
  <2>1. ASSUME NEW p \in forks', p \in forks
        PROVE  p \in access' \cup refused' \/ \E o \in Requests : Enrols(o, p)'
    <3>1. CASE p \in access \cup refused
      BY <2>1, <3>1
    <3>2. ASSUME NEW o \in Requests, Enrols(o, p)
          PROVE  p \in access' \cup refused' \/ \E x \in Requests : Enrols(x, p)'
      <4>1. pc[o] # "idle" /\ req[o].kind = "enrol"
        BY <3>2 DEF Enrols, EnrolSteps
      <4>2. Project(o)' = p /\ req'[o] = req[o] /\ Project(o) = p
        BY <1>2, <3>2, <4>1 DEF Enrols
      <4>3. CASE pc'[o] \in EnrolSteps \cup {"failed", "stopped"}
        BY <4>1, <4>2, <4>3 DEF Enrols
      <4>4. CASE pc'[o] \notin EnrolSteps \cup {"failed", "stopped"}
        BY <3>2, <4>1, <4>2, <4>4 DEF Others, Enrols
      <4> QED
        BY <4>3, <4>4
    <3> QED
      BY <2>1, <3>1, <3>2 DEF Welcome, ForksHaveUsers
  <2> QED
    BY <2>1 DEF ForksHaveUsers, Enrols
<1>5. ASSUME NEW o \in Requests, req'[o].kind = "enrol", pc'[o] = "done"
      PROVE  (Project(o) \in access \cup refused \/ Undone(Path(o)))'
  <2>1. pc[o] # "idle" /\ req'[o] = req[o]
    BY <1>3, <1>5
  <2>2. Path(o)' = Path(o) /\ Project(o)' = Project(o) /\ Project(o)[1] = Path(o)
    BY <1>2, <1>5, <2>1
  <2>3. CASE o = r
    <3>1. Project(r) \in access' \cup refused'
      BY <1>5, <2>1, <2>3 DEF EnrolSteps
    <3> QED
      BY <2>2, <2>3, <3>1
  <2>4. CASE o # r
    <3>1. pc[o] = "done"
      BY <1>5, <2>4 DEF Others
    <3> DEFINE s == Path(o)
    <3>2. Project(o) \in access \cup refused \/ Undone(s)
      BY <1>5, <2>1, <3>1 DEF Welcome
    <3> HIDE DEF s
    <3>3. Project(o) \in access' \cup refused' \/ Undone(s)'
      BY <1>1, <2>2, <3>2 DEF s
    <3> QED
      BY <2>2, <3>3 DEF s, Undone
  <2> QED
    BY <2>3, <2>4
<1>6. ASSUME NEW o \in Requests, req'[o].kind = "visit", pc'[o] \in Shown
      PROVE  (Project(o) \in forks \/ Undone(Path(o)))'
  <2>1. pc[o] # "idle" /\ req'[o] = req[o]
    BY <1>3, <1>6 DEF Shown
  <2>2. Path(o)' = Path(o) /\ Project(o)' = Project(o) /\ Project(o)[1] = Path(o)
    BY <1>2, <1>6, <2>1
  <2>3. CASE o = r /\ Project(r) \in forks'
    BY <2>2, <2>3
  <2>4. CASE pc[o] \in Shown
    <3> DEFINE s == Path(o)
    <3>1. Project(o) \in forks \/ Undone(s)
      BY <1>6, <2>1, <2>4 DEF Welcome
    <3> HIDE DEF s
    <3>2. Project(o) \in forks' \/ Undone(s)'
      BY <1>1, <2>2, <3>1 DEF s
    <3> QED
      BY <2>2, <3>2 DEF s, Undone
  <2> QED
    BY <1>6, <2>3, <2>4 DEF Others
<1> QED
  BY <1>4, <1>5, <1>6 DEF Welcome

(* Every kind of step does what that lemma asks. *)
LEMMA WelcomeElsewhere ==
    ASSUME Shape, GroupsInv, Welcome, Elsewhere
    PROVE  Welcome'
<1>1. Domains /\ CoursesData /\ NamespacesData /\ refused' = refused
  BY DEF Shape, Elsewhere
<1>2. ASSUME StartProcess, UNCHANGED courseVars PROVE Welcome'
  BY <1>1, <1>2 DEF StartProcess, handler, courseVars, courses, coursesRms, projects, Welcome,
                    ForksHaveUsers, Enrols, Undone, Path, Project, Slug
<1>3. ASSUME NEW r \in Requests, NamespaceStep(r), UNCHANGED courseVars PROVE Welcome'
  <2>1. /\ Others(r)
        /\ \/ Arrives(r, {"group", "addrow", "removerow", "demote", "updaterow"}, Change)
           \/ Arrives(r, {"grant", "count"}, Panel)
           \/ MovesIn(r, ChangeSteps, Ended)
           \/ MovesIn(r, PanelSteps, Ended)
    BY <1>1, <1>3, NamespaceMoves DEF NamespacesData
  <2>2. UNCHANGED <<course, enrolled, forks, access, hold>>
    BY <1>3 DEF courseVars, courses, coursesRms, projects
  <2>3. Stays(r)
    BY <2>2 DEF Stays
  <2>4. pc[r] \in ChangeSteps \cup PanelSteps => req[r] \in Change \cup Panel
    BY DEF Shape, TypedRequest
  <2>5. \A q \in Change \cup Panel : q.kind \notin {"enrol", "visit"}
    BY DEF Change, Panel
  <2>6. /\ req'[r].kind \notin {"enrol", "visit"}
        /\ pc[r] # "idle" => req'[r] = req[r]
        /\ pc[r] \notin Undoing \cup {"undone"}
        /\ pc[r] = "idle" => pc'[r] # "done"
    BY <2>1, <2>4, <2>5 DEF Arrives, MovesIn, ChangeSteps, PanelSteps, Undoing
  <2> QED
    BY <1>1, <2>1, <2>2, <2>3, <2>6, WelcomeStep
<1>4. ASSUME NEW r \in Requests, CourseStep(r) PROVE Welcome'
  <2>1. /\ Others(r) /\ Stays(r)
        /\ \/ Arrives(r, {"cgroup"}, Creation)
           \/ MovesIn(r, CourseSteps \cup Undoing, Ended \cup {"undone"})
    BY <1>1, <1>4, CourseMoves, CourseStepData
  <2>2. pc[r] \in CourseSteps \cup Undoing => req[r] \in Creation
    BY DEF Shape, TypedRequest
  <2>3. \A q \in Creation : q.kind \notin {"enrol", "visit"}
    BY DEF Creation
  <2>4. /\ req'[r].kind \notin {"enrol", "visit"}
        /\ pc[r] # "idle" => req'[r] = req[r]
        /\ pc[r] = "idle" => pc'[r] # "done"
    BY <2>1, <2>2, <2>3 DEF Arrives, MovesIn, CourseSteps, Undoing
  <2>5. CASE pc[r] = "idle"
    <3>1. CourseAccept(r)
      BY <1>4, <2>5
         DEF CourseStep, CourseGroup, PublicRepo, StudentsGroup, CreateCourse, NameTaken, AddOwners,
             OwnersRefused, Answer, DatabaseFails, UndoStudents, UndoProject, UndoGroup,
             DieCreating, UndoFirst, Moves, CourseSteps, Undoing
    <3>2. UNCHANGED <<forks, access>>
      BY <3>1 DEF CourseAccept, courseVars, coursesRms, projects
    <3> QED
      BY <1>1, <2>1, <2>4, <2>5, <3>2, WelcomeStep DEF Undoing
  <2>6. CASE pc[r] # "idle"
    <3>1. Effect(r)
      BY <1>4, <2>6, CourseEffects
    <3>2. ASSUME NEW s, s = Slug(r), pc'[r] = "undone" PROVE Undone(s)'
      BY <2>4, <2>6, <3>2 DEF Undone, Slug
    <3>3. \A p \in forks : p \in forks' \/ Undone(p[1])'
      BY <3>1, <3>2 DEF Effect
    <3>4. /\ \A p \in access : p \in access' \/ (p \notin forks' /\ Undone(p[1])')
          /\ forks' \subseteq forks
          /\ pc[r] \in Undoing \cup {"undone"} => pc'[r] \in Undoing \cup {"undone"}
      BY <1>1, <3>1, <3>3 DEF Effect, CoursesData
    <3>5. req[r].kind # "enrol"
      BY <2>4, <2>6
    <3> QED
      BY <1>1, <2>1, <2>4, <2>6, <3>3, <3>4, <3>5, WelcomeStep
  <2> QED
    BY <2>5, <2>6
<1> QED
  BY <1>2, <1>3, <1>4 DEF Elsewhere, NextCourses, NextNamespaces

LEMMA WelcomeOnCourse ==
    ASSUME Shape, Welcome, NEW r \in Requests, EnrolmentStep(r)
    PROVE  Welcome'
<1>1. Domains /\ CoursesData /\ HistoryData /\ TypedRequest(r)
  BY DEF Shape
<1>2. /\ Others(r) /\ Stays(r)
      /\ pc[r] # "idle" => req'[r] = req[r]
      /\ pc[r] \notin Undoing \cup {"undone"}
  BY <1>1, EnrolmentMoves, EnrolmentStepData
     DEF CoursesData, Arrives, MovesIn, EnrolSteps, VisitSteps, Undoing
<1> DEFINE Pushes == pc[r] # "idle" /\ req[r].kind = "enrol" =>
                        \/ pc'[r] \in EnrolSteps \cup {"failed", "stopped"}
                        \/ Project(r) \in access' \cup refused'
           Shows == req'[r].kind = "visit" /\ pc'[r] \in Shown =>
                        /\ pc[r] # "idle"
                        /\ pc[r] \in Shown \/ Project(r) \in forks'
<1>3. ASSUME forks \subseteq forks', access \subseteq access', refused \subseteq refused',
             \A p \in forks' \ forks : \E o \in Requests : Enrols(o, p)',
             Pushes, Shows, pc[r] = "idle" => pc'[r] # "done"
      PROVE  Welcome'
  BY <1>2, <1>3, WelcomeStep
<1> HIDE DEF Pushes, Shows
<1>4. /\ pc[r] \in EnrolSteps => req[r] \in Enrolling /\ req[r].kind = "enrol"
      /\ pc[r] \in VisitSteps => req[r] \in Visiting /\ req[r].kind = "visit"
      /\ pc[r] = "setadmin" => req[r].kind \notin {"enrol", "visit"}
  BY <1>1 DEF TypedRequest, Enrolling, Visiting, ByHand
<1> USE DEF Goto
<1>5. CASE \/ EnrolAccept(r) \/ VisitAccept(r) \/ SetAccept(r) \/ DieOnCourse(r)
           \/ CheckProject(r) \/ ReadRole(r)
  <2>1. UNCHANGED <<forks, access, refused>>
    BY <1>5 DEF EnrolAccept, VisitAccept, SetAccept, DieOnCourse, CheckProject, ReadRole, Proceeds,
                Moves, courseVars, coursesRms, projects
  <2>2. \/ pc[r] = "idle" /\ pc'[r] \in {"sync", "project", "setadmin"}
        \/ pc[r] # "idle" /\ pc'[r] = "stopped"
        \/ pc[r] = "project" /\ pc'[r] = "role" /\ Project(r) \in forks
        \/ pc[r] = "project" /\ pc'[r] = "rejected"
        \/ pc[r] = "role" /\ pc'[r] \in {"syncadmin", "syncplain"}
    BY <1>1, <1>5 DEF EnrolAccept, VisitAccept, SetAccept, DieOnCourse, CheckProject, ReadRole,
       Proceeds, Moves, Arrive, Domains, EnrolSteps, VisitSteps
  <2>3. Pushes /\ Shows
    BY <1>4, <2>1, <2>2 DEF Pushes, Shows, Shown, VisitSteps
  <2> QED
    BY <1>3, <2>1, <2>2, <2>3
<1>6. CASE Sync(r) \/ StudentsFolder(r)
  <2>1. /\ UNCHANGED <<forks, access, refused>> /\ pc[r] \in EnrolSteps
        /\ pc'[r] \in {"folder", "fork", "failed"} /\ req'[r] = req[r]
    BY <1>1, <1>6 DEF Sync, StudentsFolder, KeepsGitLab, KeepsCourses, coursesRms, projects, Domains,
                      EnrolSteps
  <2>2. Pushes /\ Shows
    BY <1>4, <2>1 DEF Pushes, Shows, Shown, EnrolSteps
  <2> QED
    BY <1>3, <2>1, <2>2 DEF EnrolSteps
<1>7. CASE Fork(r)
  <2>1. /\ UNCHANGED <<access, refused>> /\ pc[r] = "fork" /\ req' = req /\ course' = course
        /\ pc'[r] \in {"access", "failed"}
        /\ forks' \in {forks, forks \cup {Project(r)}}
    BY <1>1, <1>7 DEF Fork, ForkMade, KeepsCourses, courses, Domains
  <2>2. Pushes /\ Shows
    BY <1>4, <2>1 DEF Pushes, Shows, Shown, EnrolSteps
  <2>3. Project(r)' = Project(r) /\ req'[r].kind = "enrol"
    BY <1>4, <2>1 DEF Project, Path, EnrolSteps
  <2>4. \A p \in forks' \ forks : \E o \in Requests : Enrols(o, p)'
    BY <2>1, <2>3 DEF Enrols, EnrolSteps
  <2> QED
    BY <1>3, <2>1, <2>2, <2>4
<1>8. CASE GrantAccess(r)
  <2>1. /\ UNCHANGED forks /\ pc[r] = "access" /\ req' = req
        /\ pc'[r] \in {"done", "failed"}
        /\ access \subseteq access' /\ refused \subseteq refused'
        /\ pc'[r] = "done" => Project(r) \in access' \cup refused'
    BY <1>1, <1>8 DEF GrantAccess, KeepsCourses, Domains
  <2>2. Pushes /\ Shows
    BY <1>4, <2>1 DEF Pushes, Shows, Shown, EnrolSteps
  <2> QED
    BY <1>3, <2>1, <2>2
<1>9. CASE SyncVisitor(r) \/ SetAdmin(r)
  <2>1. /\ UNCHANGED <<forks, access, refused>> /\ pc'[r] = "done" /\ req'[r] = req[r]
        /\ pc[r] \in {"syncadmin", "syncplain", "setadmin"}
    BY <1>1, <1>9 DEF SyncVisitor, SetAdmin, KeepsGitLab, Proceeds, Moves, courseVars, coursesRms,
                      projects, Domains
  <2>2. Pushes /\ Shows
    BY <1>4, <2>1 DEF Pushes, Shows, Shown, VisitSteps
  <2> QED
    BY <1>3, <2>1, <2>2
<1> QED
  BY <1>5, <1>6, <1>7, <1>8, <1>9 DEF EnrolmentStep

LEMMA WelcomeNext == Shape /\ GroupsInv /\ Welcome /\ [Next]_vars => Welcome'
<1> SUFFICES ASSUME Shape, GroupsInv, Welcome, [Next]_vars PROVE Welcome'
  OBVIOUS
<1>1. CASE UNCHANGED vars
  BY <1>1 DEF vars, handler, courseVars, courses, coursesRms, projects, Welcome, ForksHaveUsers,
              Enrols, Undone, Path, Project, Slug
<1> QED
  BY <1>1, WelcomeElsewhere, WelcomeOnCourse DEF Next

(* Who create_project sent on to the course, or who is shown a page of it, *)
(* is a member of the project, for any number of tabs, retries, failures   *)
(* and deaths: the holes that are left are an error that is swallowed, an  *)
(* enrolment that has not come to its end, and a roll-back of the course.  *)
THEOREM WelcomedCanPushAlways == Spec => []WelcomedCanPush
<1>1. Welcome => WelcomedCanPush
  <2> SUFFICES ASSUME Welcome, NEW r \in Requests, req[r].kind \in {"enrol", "visit"}, pc[r] = "done"
               PROVE  \/ Project(r) \in access \cup refused
                      \/ Undone(Path(r))
                      \/ req[r].kind = "visit" /\ \E o \in Requests : Enrols(o, Project(r))
    BY DEF WelcomedCanPush, Undone, Enrols
  <2> QED
    BY DEF Welcome, ForksHaveUsers, Shown
<1> QED
  BY <1>1, ShapeAlways, GroupsAlways, WelcomeInit, WelcomeNext, PTL DEF Spec

=============================================================================
