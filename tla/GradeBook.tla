------------------------------- MODULE GradeBook ------------------------------
(***************************************************************************)
(* The grade book of one course, and the HTTP requests that change it      *)
(* concurrently: score reports (/report), edits of the scores table        *)
(* (/database/update), configuration uploads (/update_config), changes of  *)
(* the course status (the course settings page) and manual grades          *)
(* (/grade/override, /grade/clear_override).                               *)
(*                                                                         *)
(* Every action is one database transaction of a handler; requests         *)
(* interleave between transactions.  A request that is in flight may die   *)
(* at any point (an exception, a killed process): what it committed stays. *)
(* Some of the exceptions are caught, and the request answers success.     *)
(*                                                                         *)
(* The students are enrolled, every group has started, a task keeps its    *)
(* row and attributes, uploads in flight together place a task alike, and  *)
(* points already include the deadline multiplier.                         *)
(***************************************************************************)
EXTENDS GradeRules, Sequences

CONSTANTS
    Students, Tasks, Groups,
    Requests,         \* every request is sent once: the bound on concurrency
    Workload,         \* the mixes of kinds of requests that may be sent
    Points,           \* points a report or an edit may carry
    Overrides,        \* manual grades
    MaxGrade,
    Configs,          \* configurations an upload may carry
    Statuses,         \* statuses an admin may choose
    ConfigStatuses,   \* statuses a configuration may carry
    MaxPoints, MinScore,          \* Task.score and Task.min_score
    Bonus, Large,                 \* Task.is_bonus and Task.is_large
    BonusColumn,      \* the task "bonus_score" of the disabled bonus group
    InitStatuses, InitFinals, InitScores, InitConfig,
    Skip              \* a student a recalculation leaves alone

VARIABLES
    status,           \* Course.status
    place, taskOn,    \* Task.group, and the tasks with Task.enabled
    group,            \* TaskGroup: [on, dated], enabled and with a Deadline
                      \* row; None where there is no row
    grades,           \* ComplexFormula and PrimaryFormula rows
    score,            \* Grade.score, NoRow where there is no row
    final,            \* UserOnCourse.final_grade
    override,         \* UserOnCourse.final_grade_override
    overlapped,       \* history: the uploads that were in flight together
    pc, req,          \* the step a request is at, and what it asks
    local             \* the local variables of its handler

tasks  == <<place, taskOn, group>>
course == <<status, tasks, grades, overlapped>>
rows   == <<score, final, override>>
vars   == <<course, rows, pc, req, local>>

Grade       == 0..MaxGrade
ScoreOfTask == [Tasks -> Int \cup {NoRow}]
NoScores    == [t \in Tasks |-> NoRow]
Kinds       == {"report", "edit", "upload", "status", "override"}
StoreKinds  == {"report", "edit"}

(* Grades with a formula each. *)
IsGradeConfig(g) == /\ g = [d \in DOMAIN g |-> g[d]] /\ DOMAIN g \subseteq Grade
                    /\ \A d \in DOMAIN g : g[d] # {}

(* A configuration lists groups, with their tasks and those of them it     *)
(* enables, and the grades; the names of groups and of tasks are unique.   *)
Section == [name : Groups, on : BOOLEAN, tasks : SUBSET Tasks, open : SUBSET Tasks]

IsConfig(c) == /\ c.groups \in Seq(Section) /\ c.groups # <<>>
               /\ \A i \in DOMAIN c.groups : c.groups[i].open \subseteq c.groups[i].tasks
               /\ \A i, j \in DOMAIN c.groups :
                    i # j => /\ c.groups[i].name # c.groups[j].name
                             /\ c.groups[i].tasks \cap c.groups[j].tasks = {}
               /\ c.grades = None \/ IsGradeConfig(c.grades)

GroupRows == [Groups -> [on : BOOLEAN, dated : BOOLEAN] \cup {None}]
Row(on, hasDeadline) == [on |-> on, dated |-> hasDeadline]

Named(c, g) == c.groups[CHOOSE i \in DOMAIN c.groups : c.groups[i].name = g]

(* Where c places t. *)
Places(c, t) == {c.groups[i].name : i \in {i \in DOMAIN c.groups : t \in c.groups[i].tasks}}

ASSUME TasksAssumption    == /\ Points \subseteq Int
                             /\ Bonus \subseteq Tasks /\ BonusColumn \subseteq Bonus
                             /\ Large \subseteq Tasks
ASSUME GradesAssumption   == MaxGrade \in Nat /\ None \notin Int /\ Skip \notin Int \cup {None}
ASSUME RowsAssumption     == None \notin [on : BOOLEAN, dated : BOOLEAN]
ASSUME NoRowAssumption    == NoRow \notin Int
ASSUME ConfigsAssumption  == /\ \A c \in Configs : IsConfig(c)
                             /\ IsConfig(InitConfig) /\ InitConfig.grades # None
ASSUME PlacesAssumption   == \A t \in Tasks : Places(InitConfig, t) # {}
ASSUME StatusesAssumption == /\ Statuses \cup InitStatuses \subseteq CourseStatus
                             /\ ConfigStatuses \subseteq CourseStatus \cup {None}
                             /\ None \notin CourseStatus
ASSUME InitAssumption     == /\ InitFinals \subseteq Grade \cup {None}
                             /\ InitScores \subseteq Int \cup {NoRow}

-----------------------------------------------------------------------------
(* Requests and the steps of their handlers.                               *)

Report == [kind : {"report"}, student : Students, task : Tasks,
           points : Points, reduce : BOOLEAN]
Edit   == [kind : {"edit"}, student : Students, task : Tasks,
           points : Points, reduce : {TRUE}]
Upload == [kind : {"upload"}, config : Configs, status : ConfigStatuses]
Other  == [kind : {"status", "override"}]

ReportSteps == {"find", "scores", "bonus", "groups"}
StoreSteps  == {"store", "insert", "max", "course", "save"}
RecalcSteps == {"recalc", "recalcgrades", "recalccourse", "recalcgroups", "write"}
UploadSteps == {"create", "move", "sync", "enable", "formulas"} \cup RecalcSteps
Steps       == {"page"} \cup ReportSteps \cup StoreSteps \cup UploadSteps
Ended == {"done", "rejected", "failed", "aborted", "stopped"}

(* The steps of a request that has committed nothing yet. *)
Uncommitted == {"find", "page", "store", "insert", "create"}

(* A report or an edit that has committed its score. *)
Stored(r) == /\ pc[r] \notin Uncommitted \cup {"idle", "rejected", "failed", "aborted"}
             /\ req[r].kind \in StoreKinds

NoLocal == [rows   |-> [s \in Students |-> NoScores],   \* scores read
            bonus  |-> NoScores,                        \* bonus scores read
            open   |-> {},         \* tasks counted by max_score
            large  |-> {},         \* large tasks found solved
            seen   |-> None,       \* course status read
            rules  |-> None,       \* grade formulas read, or found by a sync
            todo   |-> {},         \* formulas created next, as <<grade, formula>>
            done   |-> {},         \* old grades a sync has finished with
            synced |-> 0,          \* groups committed by _sync_columns
            saved  |-> [s \in Students |-> Skip],       \* saved grades read
            batch  |-> [s \in Students |-> Skip]]       \* grades to write

Init ==
    /\ status \in InitStatuses
    /\ place = [t \in Tasks |-> CHOOSE g \in Places(InitConfig, t) : TRUE]
    /\ taskOn = UNION {InitConfig.groups[i].open : i \in DOMAIN InitConfig.groups}
    /\ group = [g \in Groups |->
                   IF \E i \in DOMAIN InitConfig.groups : InitConfig.groups[i].name = g
                   THEN Row(Named(InitConfig, g).on, TRUE) ELSE None]
    /\ grades = InitConfig.grades
    /\ score \in [Students -> [Tasks -> InitScores]]
    /\ final \in [Students -> InitFinals]
    /\ override = [s \in Students |-> None]
    /\ overlapped = {}
    /\ pc = [r \in Requests |-> "idle"]
    /\ req = [r \in Requests |-> None]
    /\ local = [r \in Requests |-> NoLocal]

Goto(r, step) == pc' = [pc EXCEPT ![r] = step]
End(r, how)   == Goto(r, how) /\ local' = [local EXCEPT ![r] = NoLocal]

(* Request r arrives, asking q, and its handler's first step is next. *)
Arrive(r, q, step) ==
    /\ pc[r] = "idle"
    /\ \E mix \in Workload :
        /\ mix[r] = q.kind
        /\ \A o \in Requests \ {r} : pc[o] # "idle" => req[o].kind = mix[o]
    /\ req' = [req EXCEPT ![r] = q]
    /\ Goto(r, step)

-----------------------------------------------------------------------------
(* What the handlers compute from the rows they read.                      *)

enabled == {t \in taskOn : group[place[t]].on}

(* Every query of tasks and grades joins the deadlines of their groups. *)
Dated   == {t \in Tasks : group[place[t]].dated}
counted == enabled \cap Dated

DataPaths == {"always", "total_score", "percent", "large_count"}

SummaryData(total, open, large) ==
    LET max == TotalScore([t \in open \ Bonus |-> MaxPoints[t]])
    IN  [p \in DataPaths |-> CASE p = "always"      -> 1
                               [] p = "total_score" -> total
                               [] p = "percent"     -> CalculatePercent(total, max)
                               [] p = "large_count" -> Cardinality(large)]

(* The row of /report and of the scores table, which holds the scores too. *)
RowData(scores, total, open, large) ==
    LET summary == SummaryData(total, open, large)
    IN  [p \in DataPaths \cup {t \in Tasks : scores[t] # NoRow} |->
            IF p \in DataPaths THEN summary[p] ELSE scores[p]]

(* The scores a handler has read, and the bonus scores once more. *)
ReportedTotal(l, s) == TotalScore(l.rows[s]) + TotalScore(l.bonus)

(* The row recalculate_all_grades builds: without the scores. *)
RecalcData(scores, open, large) == SummaryData(TotalScore(scores), open, large)

SolvedLarge(scores, open) ==
    {t \in open \cap Large :
        (IF scores[t] = NoRow THEN 0 ELSE scores[t]) >= MinScore[t]}

(* get_scores: the rows of enabled tasks and of bonus_score. *)
GetScores(s, among) ==
    [t \in Tasks |-> IF t \in (enabled \cup BonusColumn) \cap Dated \cap among
                     THEN score[s][t] ELSE NoRow]

(* The grade the scores table shows for a student without override. *)
TableGrade(s) ==
    CalculateEffectiveGrade(status, grades,
        RowData(score[s], TotalScore(score[s]), counted, SolvedLarge(score[s], counted)),
        final[s])

-----------------------------------------------------------------------------
(* POST /report: api.report_score.                                         *)

ReportAccept(r) ==
    \E q \in Report :
        /\ status # "created"
        /\ Arrive(r, q, IF status = "finished" THEN "rejected" ELSE "find")
        /\ UNCHANGED <<course, rows, local>>

(* Of a group without a deadline the start is asked all the same. *)
FindTask(r) ==
    /\ pc[r] = "find"
    /\ Goto(r, CASE req[r].task \in counted -> "store"
                 [] req[r].task \in enabled \ counted -> "failed"
                 [] OTHER -> "rejected")
    /\ UNCHANGED <<course, rows, req, local>>

(* After the score is stored a report reads the rows back; an edit puts    *)
(* the stored score into the row its page sent.                            *)
AfterStore(r, new) ==
    LET s == req[r].student
        t == req[r].task
    IN  /\ score' = [score EXCEPT ![s][t] = new]
        /\ IF req[r].kind = "report"
           THEN Goto(r, "scores") /\ UNCHANGED local
           ELSE Goto(r, "max") /\ local' = [local EXCEPT ![r].rows[s][t] = new]
        /\ UNCHANGED <<course, final, override, req>>

(* store_score: the grade row is locked from its read to the commit. *)
StoreScore(r) ==
    LET old == score[req[r].student][req[r].task]
    IN  /\ pc[r] = "store"
        /\ old # NoRow
        /\ AfterStore(r, UpdateScore(old, req[r].points, req[r].reduce))

(* The locking read finds no row to lock: the row is to be inserted. *)
StoreNoRow(r) ==
    /\ pc[r] = "store"
    /\ score[req[r].student][req[r].task] = NoRow
    /\ Goto(r, "insert")
    /\ UNCHANGED <<course, rows, req, local>>

(* A mutant of InsertGrade: a row that is there by now is overwritten. *)
InsertGradeOver(r) ==
    /\ pc[r] = "insert"
    /\ AfterStore(r, UpdateScore(0, req[r].points, req[r].reduce))

(* The insertion of a row with score 0.  When another request inserted the *)
(* row first, the conflicting row is queried WITH score = 0 as a filter.   *)
InsertGrade(r) ==
    LET old == score[req[r].student][req[r].task]
    IN  /\ pc[r] = "insert"
        /\ old \in {NoRow, 0}
        /\ AfterStore(r, UpdateScore(0, req[r].points, req[r].reduce))

InsertConflict(r) ==
    /\ pc[r] = "insert"
    /\ score[req[r].student][req[r].task] \notin {NoRow, 0}
    /\ End(r, "failed")
    /\ UNCHANGED <<course, rows, req>>

ReadScores(r) ==
    /\ pc[r] = "scores"
    /\ local' = [local EXCEPT ![r].rows[req[r].student] =
                    GetScores(req[r].student, Tasks)]
    /\ Goto(r, "bonus")
    /\ UNCHANGED <<course, rows, req>>

ReadBonus(r) ==
    /\ pc[r] = "bonus"
    /\ local' = [local EXCEPT ![r].bonus = GetScores(req[r].student, Bonus)]
    /\ Goto(r, "max")
    /\ UNCHANGED <<course, rows, req>>

ReadMaxScore(r) ==
    /\ pc[r] = "max"
    /\ local' = [local EXCEPT ![r].open = counted]
    /\ Goto(r, IF req[r].kind = "report" THEN "groups" ELSE "course")
    /\ UNCHANGED <<course, rows, req>>

ReadGroups(r) ==
    /\ pc[r] = "groups"
    /\ local' = [local EXCEPT ![r].large =
                    SolvedLarge(local[r].rows[req[r].student], counted)]
    /\ Goto(r, "course")
    /\ UNCHANGED <<course, rows, req>>

(* calculate_and_save_grade reads the course, and only then locks the      *)
(* student's row, reads the saved grade and the formulas, and commits.     *)
LoadCourse(r) ==
    /\ pc[r] = "course"
    /\ local' = [local EXCEPT ![r].seen = status]
    /\ Goto(r, "save")
    /\ UNCHANGED <<course, rows, req>>

SaveGrade(r) ==
    LET s == req[r].student
        l == local[r]
    IN  /\ pc[r] = "save"
        /\ final' = [final EXCEPT ![s] =
                        CalculateEffectiveGrade(l.seen, grades,
                            RowData(l.rows[s], ReportedTotal(l, s), l.open, l.large), @)]
        /\ End(r, "done")
        /\ UNCHANGED <<course, score, override, req>>

-----------------------------------------------------------------------------
(* The scores table: a page, and POST /database/update for one of its      *)
(* cells.  The update trusts the row the page was built with.              *)

OpenTable(r) ==
    \E q \in Edit :
        /\ status # "created" /\ q.task \in counted \cup BonusColumn
        /\ Arrive(r, q, "page")
        /\ local' = [local EXCEPT
                ![r].rows[q.student] = score[q.student],
                ![r].large = SolvedLarge(score[q.student], counted)]
        /\ UNCHANGED <<course, rows>>

EditAccept(r) ==
    /\ pc[r] = "page" /\ status # "created"
    /\ Goto(r, "store")
    /\ UNCHANGED <<course, rows, req, local>>

-----------------------------------------------------------------------------
(* POST /update_config: update_course, then recalculate_all_grades.        *)

Uploading == {q \in Requests : pc[q] \in UploadSteps}

(* No task is in one group of c and in another of d. *)
PlaceAlike(c, d) == \A t \in Tasks : \A g \in Places(c, t), h \in Places(d, t) : g = h

(* An upload that would place a task otherwise than one in flight is left  *)
(* out: a sync that does not find a task where it looks inserts a second   *)
(* row of it.  One after the other, uploads move tasks as they like.       *)
UploadAccept(r) ==
    \E q \in Upload :
        /\ \A o \in Uploading : PlaceAlike(req[o].config, q.config)
        /\ Arrive(r, q, IF status = "finished" THEN "rejected" ELSE "create")
        /\ overlapped' = IF status = "finished" \/ Uploading = {} THEN overlapped
                         ELSE overlapped \cup Uploading \cup {r}
        /\ UNCHANGED <<status, tasks, grades, rows, local>>

(* _update_task_groups_from_config: tasks go where the configuration has   *)
(* them; a group made for that is enabled and has no deadline.  (Two       *)
(* uploads whose transactions overlap here may both insert the group, and  *)
(* every later upload then finds two: left out.)                           *)
Moved(c) == {t \in Tasks : Places(c, t) # {} /\ place[t] \notin Places(c, t)}
To(c, t) == CHOOSE g \in Places(c, t) : TRUE

CreateGroups(r) ==
    LET c == req[r].config
        new == {g \in {To(c, t) : t \in Moved(c)} : group[g] = None}
    IN  /\ pc[r] = "create"
        /\ group' = [g \in Groups |-> IF g \in new THEN Row(TRUE, FALSE) ELSE group[g]]
        /\ Goto(r, "move")
        /\ UNCHANGED <<status, place, taskOn, grades, overlapped, rows, req, local>>

MoveTasks(r) ==
    LET c == req[r].config
    IN  /\ pc[r] = "move"
        /\ place' = [t \in Tasks |-> IF t \in Moved(c) THEN To(c, t) ELSE place[t]]
        /\ Goto(r, "sync")
        /\ UNCHANGED <<status, taskOn, group, grades, overlapped, rows, req, local>>

(* _sync_columns disables all tasks and groups, then goes through those of *)
(* the configuration.  Setting the deadline of a group commits what was    *)
(* changed before: its own row, and the tasks of the group before.  (A     *)
(* first deadline takes two commits, with all tasks of the group off: one  *)
(* step here.)                                                             *)

(* A mutant of DateGroup: a deadline is made with its group only. *)
DateKnownGroup(g, section) ==
    [g EXCEPT ![section.name] = Row(section.on, @ = None \/ @.dated)]

DateGroup(g, section) == [g EXCEPT ![section.name] = Row(section.on, TRUE)]

SyncColumns(r) ==
    LET off == [g \in Groups |->
                   IF group[g] = None THEN None ELSE Row(FALSE, group[g].dated)]
    IN  /\ pc[r] = "sync"
        /\ status' = CASE req[r].status # None -> req[r].status
                       [] req[r].status = None /\ status = "created" -> "hidden"
                       [] OTHER -> status
        /\ taskOn' = {}
        /\ group' = DateGroup(off, req[r].config.groups[1])
        /\ Goto(r, "enable")
        /\ UNCHANGED <<place, grades, overlapped, rows, req, local>>

EnableGroup(r) ==
    LET groups == req[r].config.groups
        k      == local[r].synced + 1
    IN  /\ pc[r] = "enable" /\ k \in DOMAIN groups
        /\ taskOn' = taskOn \cup groups[k].open
        /\ group' = IF k = Len(groups) THEN group ELSE DateGroup(group, groups[k + 1])
        /\ local' = [local EXCEPT ![r].synced = k]
        /\ UNCHANGED <<status, place, grades, overlapped, rows, pc, req>>

(* _sync_grades_config skips a configuration without grades; else it reads *)
(* which grades exist, and first commits the formulas of the new ones, one *)
(* by one.                                                                 *)
StartGrades(r) ==
    LET wanted == req[r].config.grades
    IN  /\ pc[r] = "enable" /\ local[r].synced = Len(req[r].config.groups)
        /\ IF wanted = None
           THEN Goto(r, "recalc") /\ UNCHANGED local
           ELSE /\ Goto(r, "formulas")
                /\ local' = [local EXCEPT
                        ![r].rules = grades,
                        ![r].todo = UNION {{g} \X wanted[g] :
                                           g \in DOMAIN wanted \ DOMAIN grades}]
        /\ UNCHANGED <<course, rows, req>>

(* The sync has committed a formula of g: only its first creates g. *)
Begun(r, g) == \/ g \in local[r].done
               \/ \E f \in req[r].config.grades[g] : <<g, f>> \notin local[r].todo

AddFormula(r) ==
    /\ pc[r] = "formulas"
    /\ \E gf \in local[r].todo :
        LET g   == gf[1]
            old == IF g \in DOMAIN grades THEN grades[g] ELSE {}
        IN  /\ g \in DOMAIN grades \/ ~Begun(r, g)
            /\ grades' = [h \in DOMAIN grades \cup {g} |->
                             IF h = g THEN old \cup {gf[2]} ELSE grades[h]]
            /\ local' = [local EXCEPT ![r].todo = @ \ {gf}]
    /\ UNCHANGED <<status, tasks, overlapped, rows, pc, req>>

(* The old grades a sync has still to update or to remove. *)
Pending(r) == DOMAIN local[r].rules \ local[r].done
Kept(r)    == Pending(r) \cap DOMAIN req[r].config.grades
Dropped(r) == Pending(r) \ Kept(r)

(* A mutant of Unchanged: formulas are never removed. *)
UnchangedAll(r, g) == grades[g]

Unchanged(r, g)   == grades[g] \cap req[r].config.grades[g]
NewFormulas(r, g) == req[r].config.grades[g] \ grades[g]

(* Old grades are removed and the formulas of the kept ones updated in one *)
(* transaction, which commits with every formula created in it: with the   *)
(* first new formula of g go the removals, and the kept grades seen before *)
(* g, which have no new formula.                                           *)
UpdateGrade(r) ==
    /\ pc[r] = "formulas" /\ local[r].todo = {}
    /\ Dropped(r) \subseteq DOMAIN grades
    /\ \E seen \in SUBSET (Kept(r) \cap DOMAIN grades), g \in Kept(r) \cap DOMAIN grades :
       \E f \in NewFormulas(r, g) :
        /\ \A h \in seen : NewFormulas(r, h) = {}
        /\ grades' = [h \in DOMAIN grades \ Dropped(r) |->
                CASE h = g -> Unchanged(r, g) \cup {f}
                  [] h \in seen -> Unchanged(r, h)
                  [] OTHER -> grades[h]]
        /\ local' = [local EXCEPT
                ![r].todo = {g} \X (NewFormulas(r, g) \ {f}),
                ![r].done = @ \cup Dropped(r) \cup seen \cup {g}]
    /\ UNCHANGED <<status, tasks, overlapped, rows, pc, req>>

(* The last commit: what is left to remove. *)
FinishGrades(r) ==
    /\ pc[r] = "formulas" /\ local[r].todo = {}
    /\ Pending(r) \subseteq DOMAIN grades
    /\ \A g \in Kept(r) : NewFormulas(r, g) = {}
    /\ grades' = [g \in DOMAIN grades \ Dropped(r) |->
                     IF g \in Kept(r) THEN Unchanged(r, g) ELSE grades[g]]
    /\ local' = [local EXCEPT ![r].rules = None, ![r].done = {}]
    /\ Goto(r, "recalc")
    /\ UNCHANGED <<status, tasks, overlapped, rows, req>>

(* Another upload has removed a grade this one was to update or remove: no *)
(* row is found, and the request ends without recalculation.               *)
GradesGone(r) ==
    /\ pc[r] = "formulas"
    /\ \/ local[r].todo = {} /\ ~(Pending(r) \subseteq DOMAIN grades)
       \/ \E gf \in local[r].todo : Begun(r, gf[1]) /\ gf[1] \notin DOMAIN grades
    /\ End(r, "failed")
    /\ UNCHANGED <<course, rows, req>>

(* recalculate_all_grades: four reads, then one write for all students. *)
RecalcScores(r) ==
    /\ pc[r] = "recalc"
    /\ local' = [local EXCEPT
            ![r].rows = score,
            ![r].saved = [s \in Students |->
                             IF override[s] # None THEN Skip ELSE final[s]]]
    /\ Goto(r, "recalcgrades")
    /\ UNCHANGED <<course, rows, req>>

RecalcGrades(r) ==
    /\ pc[r] = "recalcgrades"
    /\ local' = [local EXCEPT ![r].rules = grades]
    /\ Goto(r, "recalccourse")
    /\ UNCHANGED <<course, rows, req>>

RecalcCourse(r) ==
    /\ pc[r] = "recalccourse"
    /\ local' = [local EXCEPT ![r].seen = status]
    /\ Goto(r, "recalcgroups")
    /\ UNCHANGED <<course, rows, req>>

(* A mutant of RecalcGrade: the total is that of the open tasks. *)
RecalcGradeOfOpen(l, s) ==
    IF l.saved[s] = Skip THEN Skip
    ELSE CalculateEffectiveGrade(l.seen, l.rules,
             RecalcData([t \in enabled |-> l.rows[s][t]], enabled,
                        SolvedLarge(l.rows[s], enabled)),
             l.saved[s])

RecalcGrade(l, s) ==
    IF l.saved[s] = Skip THEN Skip
    ELSE CalculateEffectiveGrade(l.seen, l.rules,
             RecalcData(l.rows[s], enabled, SolvedLarge(l.rows[s], enabled)),
             l.saved[s])

RecalcGroups(r) ==
    /\ pc[r] = "recalcgroups"
    /\ local' = [local EXCEPT
            ![r].batch = [s \in Students |-> RecalcGrade(local[r], s)]]
    /\ Goto(r, "write")
    /\ UNCHANGED <<course, rows, req>>

(* _batch_update_grades takes no lock and compares with nothing. *)
BatchWrite(r) ==
    LET batch == local[r].batch
    IN  /\ pc[r] = "write"
        /\ final' = [s \in Students |->
                        IF batch[s] = Skip THEN final[s] ELSE batch[s]]
        /\ End(r, "done")
        /\ UNCHANGED <<course, score, override, req>>

-----------------------------------------------------------------------------

(* The course settings page sets any status. *)
EditCourse(r) ==
    \E to \in Statuses :
        /\ Arrive(r, [kind |-> "status"], "done")
        /\ status' = to
        /\ UNCHANGED <<tasks, grades, overlapped, rows, local>>

OverrideGrade(r) ==
    \E s \in Students, g \in Overrides :
        /\ status # "created"
        /\ Arrive(r, [kind |-> "override"], "done")
        /\ override' = [override EXCEPT ![s] = g]
        /\ UNCHANGED <<course, score, final, local>>

ClearGradeOverride(r) ==
    \E s \in Students :
        /\ status # "created"
        /\ Arrive(r, [kind |-> "override"], "done")
        /\ override' = [override EXCEPT ![s] = None]
        /\ UNCHANGED <<course, score, final, local>>

(* Whatever a report does after its score is stored, and the recalculation *)
(* of an upload, catch every exception.                                    *)
Caught(r) == \/ Stored(r) /\ req[r].kind = "report"
             \/ pc[r] \in RecalcSteps

(* The handler dies between two transactions: "aborted" when none was      *)
(* committed, else "stopped" half-way.  Or an exception is caught, and the *)
(* request answers success with no grade saved.                            *)
Abort(r) ==
    /\ pc[r] \in Steps
    /\ \/ End(r, IF pc[r] \in Uncommitted THEN "aborted" ELSE "stopped")
       \/ Caught(r) /\ End(r, "done")
    /\ UNCHANGED <<course, rows, req>>

-----------------------------------------------------------------------------

(* What clients and admins do, if and when they like. *)
Send(r) == \/ ReportAccept(r) \/ OpenTable(r) \/ EditAccept(r) \/ UploadAccept(r)
           \/ EditCourse(r) \/ OverrideGrade(r) \/ ClearGradeOverride(r)

Handle(r) ==
    \/ FindTask(r) \/ StoreScore(r) \/ StoreNoRow(r) \/ InsertGrade(r)
    \/ InsertConflict(r) \/ ReadScores(r) \/ ReadBonus(r) \/ ReadMaxScore(r)
    \/ ReadGroups(r) \/ LoadCourse(r) \/ SaveGrade(r)
    \/ CreateGroups(r) \/ MoveTasks(r) \/ SyncColumns(r) \/ EnableGroup(r)
    \/ StartGrades(r) \/ AddFormula(r)
    \/ UpdateGrade(r) \/ FinishGrades(r) \/ GradesGone(r) \/ RecalcScores(r)
    \/ RecalcGrades(r) \/ RecalcCourse(r) \/ RecalcGroups(r) \/ BatchWrite(r)

Next == \E r \in Requests : Send(r) \/ Handle(r) \/ Abort(r)

Spec == Init /\ [][Next]_vars

-----------------------------------------------------------------------------
(* Properties.                                                             *)

(* A request q is what its handler's step is for, and the handler has read *)
(* what that step uses into its local variables l.                         *)
RequestOK(step, q, l) ==
    /\ IF step = "idle" THEN q = None
       ELSE q \in Report \cup Edit \cup Upload \cup Other
    /\ step \in ReportSteps => q \in Report
    /\ step = "page" => q \in Edit
    /\ step \in StoreSteps => q \in Report \cup Edit
    /\ step \in UploadSteps => q \in Upload
    /\ step = "formulas" => q.config.grades # None
    /\ step \in {"formulas", "recalccourse", "recalcgroups"} => IsGradeConfig(l.rules)

LocalOK(l) ==
    /\ DOMAIN l = DOMAIN NoLocal
    /\ \A gf \in l.todo : gf[1] \in Grade
    /\ l.saved \in [Students -> Grade \cup {None, Skip}]
    /\ l.batch \in [Students -> Grade \cup {Skip}]

(* Every variable keeps its type; in particular a grade that is saved is a *)
(* grade of the scale, never None and never the mark of a student whom the *)
(* recalculation leaves alone.                                             *)
TypeOK ==
    /\ status \in CourseStatus
    /\ place \in [Tasks -> Groups]
    /\ taskOn \subseteq Tasks
    /\ overlapped \subseteq Requests
    /\ group \in GroupRows
    /\ IsGradeConfig(grades)
    /\ score \in [Students -> ScoreOfTask]
    /\ final \in [Students -> Grade \cup {None}]
    /\ override \in [Students -> Overrides \cup {None}]
    /\ pc \in [Requests -> {"idle"} \cup Steps \cup Ended]
    /\ DOMAIN req = Requests /\ DOMAIN local = Requests
    /\ \A r \in Requests : RequestOK(pc[r], req[r], local[r]) /\ LocalOK(local[r])

SameCell(q, r) == req[q].student = req[r].student /\ req[q].task = req[r].task

(* No lost report (store_score's locking read): once a report that may not *)
(* reduce is stored, the score is at least its points, whatever requests   *)
(* interleave, unless a request that may reduce has stored to the same     *)
(* cell or the score was negative, which reports leave alone.              *)
NoLostReport ==
    \A r \in Requests :
        Stored(r) /\ ~req[r].reduce =>
            LET current == score[req[r].student][req[r].task]
            IN  /\ current # NoRow
                /\ \/ current >= req[r].points \/ current < 0
                   \/ \E q \in Requests :
                         Stored(q) /\ req[q].reduce /\ SameCell(q, r)

(* The status is in S, and so it was for every handler that has loaded it. *)
SettledIn(S) ==
    status \in S /\ \A r \in Requests : local[r].seen \in S \cup {None}

(* No grade was saved since a recalculation in progress read it. *)
NoOverlap ==
    \A r \in Requests, s \in Students : local[r].saved[s] \in {Skip, final[s]}

NotLower(new, old) == old # None => new # None /\ new >= old

WithinLimit(new, old) == new = old \/ new \in 0..DoreshkaLimit

(* A grade never saved may become 0. *)
Frozen(new, old) == new = old \/ (old = None /\ new = 0)

(* calculate_effective_grade's promise, for the system: in DORESHKA and    *)
(* ALL_TASKS_ISSUED no request lowers a saved grade, whatever happens to   *)
(* scores, tasks and formulas meanwhile (no recalculation overlapping).    *)
NoDowngradeWhenFrozen ==
    [][SettledIn(FreezeStatuses) /\ NoOverlap =>
          \A s \in Students : NotLower(final'[s], final[s])]_vars

(* In DORESHKA a saved grade only changes to one within the limit.         *)
DoreshkaCap ==
    [][SettledIn({"doreshka"}) /\ NoOverlap =>
          \A s \in Students : WithinLimit(final'[s], final[s])]_vars

(* In a FINISHED course saved grades stay, though scores may change.       *)
FinishedGradesStay ==
    [][SettledIn({"finished"}) /\ NoOverlap =>
          \A s \in Students : Frozen(final'[s], final[s])]_vars

IsUpload(r) == pc[r] # "idle" /\ req[r].kind = "upload"

OpenTasks(c) ==
    UNION {c.groups[i].open : i \in {i \in DOMAIN c.groups : c.groups[i].on}}

(* update_course: an upload that no other overlaps opens exactly the tasks *)
(* of its configuration, in their groups and with deadlines, and leaves    *)
(* exactly its grades and formulas, although it takes a dozen commits, and *)
(* uploads before it may have died between any two of theirs.              *)
UploadApplied ==
    \A r \in Requests \ overlapped :
        IsUpload(r) /\ pc[r] \in RecalcSteps =>
           /\ enabled = OpenTasks(req[r].config) /\ enabled \subseteq counted
           /\ Moved(req[r].config) = {}
           /\ req[r].config.grades # None => grades = req[r].config.grades

(* Every task that is open counts, in totals, maxima and large tasks: the  *)
(* group of an open task has a deadline, unless an upload is about to give *)
(* it one, or died.  (Every query joins the deadlines; a move precedes     *)
(* them, database.py:1249.)                                                *)
OpenTasksCount ==
    \/ enabled = counted
    \/ \E r \in Requests : IsUpload(r) /\ pc[r] \in {"sync", "stopped"}

(* What a recalculation has read is still what the database holds. *)
NotOvertaken(r) ==
    /\ local[r].rows = score /\ local[r].rules = grades /\ local[r].seen = status
    /\ \A s \in Students :
        local[r].saved[s] = IF override[s] # None THEN Skip ELSE final[s]
    /\ r \notin overlapped

(* recalculate_all_grades: "call after changing grade configuration to     *)
(* keep saved grades in sync".  A recalculation that nothing has overtaken *)
(* is about to save exactly the grades the scores table shows.             *)
RecalculationInSync ==
    \A r \in Requests :
        pc[r] = "write" /\ NotOvertaken(r) =>
            \A s \in Students :
                local[r].batch[s] = IF override[s] # None THEN Skip ELSE TableGrade(s)

(* calculate_effective_grade: "take max(saved, capped) to prevent          *)
(* downgrade", of every request, a recalculation that overlaps included.   *)
NoDowngrade ==
    [][SettledIn(FreezeStatuses) =>
          \A s \in Students : NotLower(final'[s], final[s])]_vars

(* Docs, "total_score: raw total score earned": a report from whose reads  *)
(* nothing has changed is about to save the grade the scores table shows   *)
(* (no student has scores for closed tasks).                               *)
ReportInSync ==
    \A r \in Requests :
        LET s == req[r].student
            l == local[r]
        IN  /\ pc[r] = "save" /\ req[r].kind = "report"
            /\ l.rows[s] = score[s] /\ l.seen = status /\ l.open = counted
            => CalculateEffectiveGrade(l.seen, grades,
                   RowData(l.rows[s], ReportedTotal(l, s), l.open, l.large), final[s])
               = TableGrade(s)

(* _get_or_create_sfu_grade returns "the existing or newly created Grade": *)
(* a store never fails because another request created the row.            *)
StoreNeverFails ==
    \A r \in Requests : ~(pc[r] = "failed" /\ req[r].kind \in StoreKinds)

-----------------------------------------------------------------------------
(* The grade book implements GradeLedger.                                  *)

StageOf(step) ==
    CASE step \in {"idle", "done"} -> step
      [] step \in Ended \ {"done"} -> "dropped"
      [] step \in {"page", "find", "store", "insert"} -> "asked"
      [] step \in UploadSteps -> "batch"
      [] OTHER -> "stored"

Staged == [r \in Requests |-> StageOf(pc[r])]

Asked == [r \in Requests |->
             IF pc[r] # "idle" /\ req[r].kind \in StoreKinds THEN req[r] ELSE None]

Ledger == INSTANCE GradeLedger WITH
              Asks <- Report \cup Edit, Strict <- Edit, Grades <- Grade,
              cell <- score, grade <- final, ask <- Asked, stage <- Staged

(* Every report and edit takes effect once, at one moment and on one cell, *)
(* although a row that is missing is read, inserted and locked in three    *)
(* steps that others come between; it succeeds only after that, an edit    *)
(* only after the grade was saved too, and no other request touches a      *)
(* score.  (store_score; report_score logs that a grade was not saved, and *)
(* answers success.)                                                       *)
ImplementsLedger == Ledger!LedgerSpec
=============================================================================
