# A verification project for Manytask

Manytask runs programming courses: students push solutions to a Git hosting,
CI checks them and reports scores, and Manytask keeps the scores, the grades
and the course configuration.  The repository holds three Python programs.
This directory holds TLA+ modules that model their logic, TLC configurations
that model-check small instances, and proofs checked by TLAPS.

To repeat the work, inside this directory:

    tlasany GradeBook.tla                                  # parse
    tlc -workers 2 -config GradeBook.cfg MCGradeBook       # model-check
    tlapm GradeBookProofs.tla                              # prove

`PROJECT.json` lists the runs, what every definition models (path and lines),
the hazards of the code, the findings and the theorems.

## 1. The system

| Component | State it keeps | Operations | Correct when |
|---|---|---|---|
| Grade book (`manytask/manytask`: `api.py`, `database.py`, `config.py`, `utils/database.py`) | courses, groups, tasks, deadlines, grades per task, final grade and override per student, grade formulas (PostgreSQL) | `/report`, `/score`, `/database/update`, `/update_config`, `/grade/override`, `/grade/clear_override`, course settings page | no report is lost; saved grades follow the formulas and the status of the course; a configuration is applied as written, tasks it moves included |
| Namespaces and roles (`api.py`, `database.py`, `glab.py`) | namespaces, roles, courses' owners; GitLab groups and members | create namespace, add, remove, change the role of a user | roles in the database and members of the GitLab group agree, or the difference can be repaired |
| Course creation (`api.py`, `web.py`, `glab.py`) | courses; GitLab groups and projects | create course (API with roll-backs, web pages without) | a failed creation leaves nothing behind that stops the next attempt |
| Administrators (`api.py`, `web.py`, `database.py`, `auth.py`) | `is_instance_admin`, `is_course_admin` | promote, demote, synchronise on every page | there is always an instance administrator; a dismissed course admin stays dismissed |
| Enrolment (`web.py`, `auth.py`, `glab.py`) | `UserOnCourse` rows; students groups, forks, members in GitLab | `create_project`, `requires_course_access` | who is sent on to a course can push |
| Authentication and sessions (`auth.py`, `web.py`) | session cookie, users | OAuth, signup | only users with a session reach a page |
| mr-reviewer worker (`mr-reviewer/app/worker`, `manytask/client.py`, `storage`) | processed comments (Redis), courses (Redis) | poll cycle: courses, tasks, merge requests, comments | scores of admins, and only theirs, reach Manytask, in order, at least once |
| mr-reviewer API (`mr-reviewer/app/api`, `manytask/auth_cache.py`) | courses (Redis), cache of confirmed tokens (Redis) | upload, read, delete a course | only who holds the course's token, or held it a moment ago, changes a course |
| mr-reviewer checklist and summary (`mr-reviewer/app/checklist`, `hosting`) | anchored note and labels in GitLab | run checks, create or update the note, set labels | one summary note, labels that agree with it, and both come to show the newest version |
| checker, teachers' side (`checker/checker`: `exporter.py`, `course.py`, `__main__.py`; `course-template`) | the testing image and the public repository | `validate`, `check`, `export`, `export-private`, run by the course's CI | private files and gold solutions stay private; what is published was checked and can be graded |
| checker, students' side (`tester.py`, `pipeline.py`, `plugins`, `course.py`) | pipeline results, outputs | `grade`: detect changes, export for testing, run pipelines, report | the tests are the teachers'; the score reported for a task is its own |

How they interact:

* CI of a student's repository runs the **checker** in the testing image, whose
  `report_score` plugin posts to Manytask's `/report` with the course token.
* CI of a course validates, builds the image, checks the gold solutions,
  publishes the public repository and posts the configuration to
  `/update_config`; the same file names the manually reviewed tasks for the
  mr-reviewer, whose courses API receives it.
* The **mr-reviewer** polls GitLab, asks Manytask `is_admin` and `ping`, and
  posts to the same `/report` with `allow_reduction` and without the deadline.
* Checker and Manytask both compute the share of a score that a **deadline**
  leaves, from the same file and with different code.
* The **scores table** in the browser shows `get_all_scores_with_names`, and
  sends edits to `/database/update`.
* **Namespaces**, **course creation** and **enrolment** write to GitLab and to the
  database, in steps that no transaction covers.

What is hard about it:

* *Concurrency.*  Manytask is served by several workers and every handler
  makes several short transactions.  Between two of them anything may change:
  the status of the course, the formulas, the enabled tasks and their groups,
  the scores.  Only `store_score` and `calculate_and_save_grade` lock a row.
* *Partial failure.*  A handler that raises after its first commit leaves what
  it committed: a stored score without a saved grade, a configuration of which
  a part is applied, a role without its GitLab member, a fork nobody may push to.
* *At-least-once delivery.*  The mr-reviewer retries calls whose answer it did
  not see, marks a comment only after the report, and gives up on a merge
  request while the thread of its call goes on.
* *Order.*  A comment that failed is handled again in the next cycle, after
  newer ones; jobs of one student overlap, and so do jobs of a course.
* *Two and three definitions of one thing.*  The data a grade formula is
  evaluated on is built in `/report`, in the scores table and in the
  recalculation; files are sorted into public and private by three exports; the
  deadline multiplier is computed by the checker and by Manytask.

## 2. Modules

| Module | Models |
|---|---|
| `GradeRules` | pure rules: merging a reported score, evaluating formulas, percentages, the effective grade per status |
| `GradeBook` | the grade book: state, requests, one action per transaction |
| `MCGradeBook` | instances of `GradeBook` for TLC |
| `GradeLedger` | abstract: what users rely on in the grade book; `GradeBook` implements it |
| `GradeBookProofs` | theorems of `GradeBook`, the refinement of `GradeLedger` included |
| `Namespaces` | namespaces, their roles and GitLab groups, instance admins |
| `Courses` | the creation of courses; extends `Namespaces` |
| `Enrolment` | users on a course and course admins; extends `Courses`: `Next` takes a step of any of the three |
| `AdministrationProofs` | theorems of the three: types, roles and members, instance admins |
| `CourseProofs` | theorems of the three: courses and their groups, enrolment, course admins |
| `MCAdministration` | instances of `Enrolment` for TLC |
| `Exporter` | the checker's walk over a repository, its three exports and its validation, as operators |
| `Deadlines` | the share of a score left at a moment, by the checker and by Manytask, as operators |
| `Repositories` | the private repository, the testing image, the public repository and one student's repository |
| `Grading` | the CI jobs: the course's and the student's, with the tester, the pipeline runner and the plugins; extends `Repositories` |
| `GradingJobs` | abstract: what a course relies on in its jobs; `Grading` implements it |
| `GradingProofs` | theorems of `Grading`, the refinement of `GradingJobs` included |
| `ExportProofs` | theorems of `Exporter` and `Grading`: what is published was released, holds nothing secret, is in the image and was checked, and whose tests a job runs |
| `MCChecker` | instances of `Grading` for TLC |
| `ReviewBot` | the mr-reviewer worker loop, its score processor, Manytask's answers, faults |
| `MCReviewBot` | instances of `ReviewBot` for TLC |
| `ReviewBotProofs` | theorems of `ReviewBot` |
| `ReviewCourses` | the courses API of the mr-reviewer and its cache of tokens |
| `ReviewSummary` | the summary note and the labels, call by call; extends `ReviewCourses` and composes with it |
| `MCReviewSummary` | instances of `ReviewSummary` for TLC |
| `ReviewSummaryProofs` | theorems of `ReviewCourses` and `ReviewSummary`: tokens, where the worker is, one summary, labels that agree with it, and threads |
| `LeastNumbers` | lemmas the proofs share: a non-empty set of naturals has a least member |

### GradeRules and GradeBook

State and code:

| Variable | Code |
|---|---|
| `status` | `Course.status` |
| `place[t]`, `taskOn` | `Task.group`, and the tasks with `Task.enabled` |
| `group[g]` | a row of `TaskGroup`: `on` is `enabled`, `dated` says whether it has a `Deadline` |
| `grades` | the rows of `ComplexFormula` and `PrimaryFormula` |
| `score[s][t]` | `Grade.score`; `NoRow` without a row |
| `final[s]`, `override[s]` | `UserOnCourse.final_grade`, `final_grade_override` |
| `overlapped` | history: the uploads that were in flight together |
| `pc[r]`, `req[r]`, `local[r]` | a request in flight: the step it is at, what it asks, what its handler has read |

Requests and actions:

| Handler | Actions |
|---|---|
| `report_score` | `ReportAccept` (readiness and `FINISHED`), `FindTask`, `StoreScore` or `StoreNoRow` then `InsertGrade` / `InsertConflict`, `ReadScores`, `ReadBonus`, `ReadMaxScore`, `ReadGroups`, `LoadCourse`, `SaveGrade` |
| `update_database` | `OpenTable` (the page the browser holds), `EditAccept`, then `StoreScore` ... and from `ReadMaxScore` on as above |
| `update_config` | `UploadAccept`; `_update_task_groups_from_config`: `CreateGroups`, `MoveTasks`; `_sync_columns`: `SyncColumns`, `EnableGroup`; `_sync_grades_config`: `StartGrades`, `AddFormula`, `UpdateGrade`, `FinishGrades`, `GradesGone`; `recalculate_all_grades`: `RecalcScores`, `RecalcGrades`, `RecalcCourse`, `RecalcGroups`, `BatchWrite` |
| course settings | `EditCourse` |
| manual grades | `OverrideGrade`, `ClearGradeOverride` |
| any | `Abort`: the handler raises or the process dies between two transactions; or, where the code catches what is raised (`Caught`: a report whose score is stored, the recalculation of an upload), the request answers success without a grade saved |

A handler's reads that happen in different transactions are different actions,
so a grade may be calculated from scores, formulas and a status that were never
in the database at once.  Where the code locks a row (`store_score` from the
read to the commit) the whole is one action.  The row `SaveGrade` writes is read
under its lock in the same transaction as the write, but the course status was
read before (`LoadCourse`), and a waiter on the lock keeps what it read.

`enabled`, `Dated` and `counted` are the joins of the queries: a task is open when
it and its group are enabled, but every query of scores, maxima and large tasks
also joins the deadline of the group, so that an open task in a group without a
deadline does not count, and a report for it fails when the start of its group
is asked.

What is abstracted: students are enrolled; groups have started; a task keeps its
row, score, minimum and flags, and belongs to one course; a configuration places
a task in at most one group (`config.py:319` checks it), any two of them as they
like, so that uploads move tasks away and back; but uploads that are in flight
together place their tasks alike (`PlaceAlike`, a guard of `UploadAccept`: a task
that a synchronisation does not find in its group, since another upload has moved
it, gets a second row, with the scores left at the first); points already include the
deadline multiplier; a grade has at least one formula, and formulas form a set; new
formulas of several new grades are committed in any order, where the code takes
the order of the file; the first deadline of a group takes one step where the code
takes two commits, with all tasks of the group off; percentages are in tenths, as
the code rounds them; a page sends one edit; every request is sent once.  The
"Bonus group" that `config.py` appends to every configuration is always disabled,
so every configuration of `MCGradeBook` ends with an empty group.

### Namespaces, Courses and Enrolment

| Variable | Code |
|---|---|
| `admins` | `User.is_instance_admin` |
| `creator[n]`, `role[n][u]` | rows of `Namespace` (with `created_by`) and `UserOnNamespace` |
| `group`, `member[n]` | GitLab: the groups of namespaces and their Maintainers |
| `disturbed` | history: the users of namespaces that a fault, a death or an overlap of two requests has hit, and revocations that overlapped |
| `course[c]`, `enrolled[c]`, `cadmin[c]` | rows of `Course` with the path they record, and of `UserOnCourse` with `is_course_admin` |
| `cgroup[s]` | GitLab: the group of a path; its id is the request that made it, so that deletion by a stale id deletes nothing |
| `repo`, `students`, `top`, `first` | GitLab: public repositories, students groups inside a course's group, the students group at top level, and what has the id 1 |
| `forks`, `access` | GitLab: the students' projects and those whose student is a member |
| `hold[r]` | the id of the course's group that a handler has read |
| `slipped` | history: creations that died, or where GitLab failed on the course's group |
| `refused`, `lapsed` | history: projects whose member GitLab refused, and course admins who were dismissed and have no claim since |

| Handler | Actions |
|---|---|
| `create_namespace` | `CreateAccept`, `CreateGroup`, `JoinGroup`, `CreateRow` / `RowExists`, `CreateOwner` / `OwnerExists` |
| `add_user_to_namespace` | `AddAccept`, `AddRow` / `AddConflict`, `AddMember` |
| `remove_user_from_namespace` | `RemoveAccept`, `RemoveRow` / `NotFound`, `RemoveMember` |
| `update_user_role_in_namespace` | `UpdateAccept`, `DemoteMember` (to student only), `UpdateRow` / `NotFound` |
| `instance_admin_panel` | `GrantAccept`, `GrantAdmin`; `RevokeAccept`, `CountAdmins`, `RevokeAdmin` |
| `create_course_api` and `create_course` | `CourseAccept`, `CourseGroup`, `PublicRepo`, `StudentsGroup`, `CreateCourse` / `NameTaken`; the API goes on with `AddOwners` / `OwnersRefused`, `Answer`, and rolls back with `UndoStudents`, `UndoProject`, `UndoGroup` |
| `create_project` | `EnrolAccept`, `Sync` (row, and the admin flag for the course's token), `StudentsFolder`, `Fork`, `GrantAccess` |
| `requires_course_access` | `VisitAccept`, `CheckProject`, `ReadRole`, `SyncVisitor` |
| users of the course settings | `SetAccept`, `SetAdmin` |
| any | `StartProcess` (the configured admin), `Die`, `DieCreating`, `DieOnCourse`, `DatabaseFails` |

Every call of GitLab may succeed, or raise having been applied or not; the error
statuses of `members.create`, which `create_project` swallows, are a third
outcome.  What is abstracted: all users are registered; all courses are open; a
request without rights, session or secret ends at its check and is left out; only
Manytask changes the groups; the forms of the web site hold paths that agree; no
two paths end alike (`create_course_group` searches all groups of GitLab for the
last part when there is no namespace); all creations fall in one semester; a user
has one project in a course.

### Exporter, Deadlines, Repositories, Grading

A repository is a function from paths (sequences of names) to contents, and a
content is what the checks tell apart: a gold solution, a solution between
comments, the teachers' tests, a secret, a student's work.  `Walk` follows one
path down and keeps the configuration in force, where the copy goes and whether
it is kept: the code's recursion over directories decides on each file by its
ancestors alone.  `CopyOf`, `ExportPublic`, `ExportPrivate`, `ExportForTesting` and
`ValidCourse` are the operations of `Exporter` and `Course.validate`;
`CheckerPercent` and `ServerPercent` are the two computations of a deadline's share,
the checker's over a dictionary keyed by the share (`Before`).

The constant `Courses` is the set of courses a behaviour may start from: files,
configuration with its pipelines, and a budget.  `IsConfig`, `IsPipeline`, `IsStage`
and `IsSchedule` say what the parsers of the configuration files accept.
`GradingJobs` is in two parts: `JobsSafety`, what a job may do, and `Ends`, that it
comes to an end; the properties `ImplementsJobs` and `JobsEnd` state them of
`Grading` under the mapping `View`.

| Variable | Code |
|---|---|
| `clock` | the time |
| `reference`, `conf` | the private repository and the `.checker.yml` and `.manytask.yml` in it |
| `image`, `public` | the newest testing image and the public repository, each with the configuration and the time it was exported with |
| `work` | the student's repository, with the public version it was last merged with |
| `runs[r]` | a CI job: its step, checkout, image, files under test, tasks to do, stages to do, outputs |
| `scores` | what Manytask has stored (the grade book, in one step) |
| `left` | how many more ticks, revisions, edits and faults there are: the bound |

| Code | Actions |
|---|---|
| pushes (git, and CI's rules) | `TeacherPush`, `Submit` (an `Edit` or a merge, `Pull`) |
| `.releaser-ci.yml`, `checker validate`, image build, `checker check`, `checker export` | `Validate`, `Build`, `Check`, ..., `Deploy` |
| `checker grade` | `Grade` (change detection, export for testing) |
| `Tester.run` | `EndGlobal`, `NextTask`, `EndTask`, `EndReport`, `Conclude` |
| `PipelineRunner.run` | `BreakStage` (arguments that do not resolve), `SkipStage`, `DryStage`, `RunStage`, `ReportStage` |

What is abstracted: a pattern is the set of names it matches, on the last
component of a path; `RunStage` chooses among the results a plugin may have for
what it finds in the files (tests that are there, a right solution, a student's
work); the plugins that build and run are their results; a Manytask answer is the
stored score, an error before or after storing, or none; the stored score is the
maximum of the old one and the percentage sent, by the defaults of the report
plugin (`allow_reduction` is off, and the percentage has counted the deadline: with
`check_deadline` Manytask would multiply by its share too); percentages are counted
in parts of a whole; jobs of one repository may overlap, and each starts with the
newest image.

### ReviewBot

| Variable | Code |
|---|---|
| `stored` | names in `CourseStore` |
| `open`, `posted` | the hosting: open merge requests, comments posted so far |
| `processed` | `ProcessedCommentStore`: pairs of a course and a comment |
| `score`, `applied`, `rejected`, `late` | Manytask: scores, reports it applied, comments it answered with a 4xx for a course, reports the bot has given up that are still to be applied |
| `pc`, `job` | the place in the cycle, and the local variables of the nested loops |
| `wire` | the request the bot waits for |
| `faults`, `troubled` | faults so far; pairs of a course and a comment whose handling a fault or an expiry disturbed (history) |

Every awaited call of the loop is an action (`StartCycle`, `LoadCourse`,
`SkipTask`, `ListMRs`, `Review`, `GetComments`, `SkipComment`, `ParseScore`, `IsAdmin`,
`SendReport`, `GetReply`, `Mark`, and the ends of the nested loops); between any
two of them comments are posted, merge requests close, courses are uploaded and
deleted, marks expire.  Faults: a listing raises (the course ends), a review
raises or runs into `mr_processing_timeout` (the merge request ends), `is_admin`
is unavailable, a report has no answer or a 5xx (`manytask_retry_attempts`),
a 403, the time limit in the middle of a comment, a restart.

A task belongs to one course (`CourseOf`), and each course has admins of its own
(`Admins`).  Courses that share a GitLab group may see the same merge requests: a
comment is then marked, reported and answered for each of them by itself.  The code
keeps the marks of a course under one key per merge request number, and these expire
together; projects of one course have merge requests of the same number, so `Expire`
takes all that is under a key (`Key`, `Iid`).  In a look-up the number says no more
than the comment does, for the identifiers of notes are unique.

What is abstracted: comments are not edited; the admins are fixed; one worker
runs; the checklist, the summary note and the labels are one step that is made
or raises (`ReviewSummary` has them); retries of the read-only `is_admin` are one
fault.

### ReviewCourses and ReviewSummary

| Variable | Code |
|---|---|
| `token` | Manytask: `Course.token` |
| `cached` | `TokenAuthCache`: the time to live of a course and token |
| `store` | `CourseStore` |
| `request` | the requests to the courses API: step, course, token, what they ask |
| `gone` | history: for how long Manytask has denied a token |
| `version`, `notes`, `labels` | the hosting: what was pushed last, the notes with an anchor, the bot's labels |
| `pc`, `job` | the worker's step and the locals of its loops, checklist and publisher |
| `awaited`, `orphans`, `hung` | the call the worker waits for; calls it gave up that still run in threads of the executor; threads that hang for good |
| `upset`, `doubted` | history: merge requests a publication of which was cut short, and summaries whose creation was repeated or given up |
| `chances` | how many more replaced tokens, units of time, faults, pushes and quotes there are: the bound |

| Code | Actions |
|---|---|
| `require_course_token`, `upsert_course`, `delete_course` | `Send`, `CheckCache`, `Ping`, `Remember`, `Upload`, `Unprocessable`, `Delete`, `Drop` |
| `WorkerLoop` | `StartCycle`, `LoadCourse`, `EndCycle`, `EndCourse`, `ListMRs`, `EndTask`, `StartMR`; `TimeLimit` |
| `ChecklistRunner`, `ChecklistPublisher` | `RunCheck`, `EndChecklist`, `ListNotes`, `PostOrUpdate`, `AddLabels`, `RemoveLabels` |
| `GitlabAdapter` and its executor | `Submit` (a free thread), `Answer`, `Retry`, `Raise`, `Hang`, `OrphanRetries`, `OrphanEnds` |
| the process | `Restart`: by itself, or by whoever follows `/healthz` where it is stale (`Stale`) |
| students | `Push`, `Quote` (a note that copies the anchor) |

What is abstracted: merge requests stay open and labelled; configurations hold
the manually reviewed tasks only; a check is one call whose result depends on the
version that was pushed, and a crash of it is a failed check; nobody deletes or
edits the bot's notes; the waits after rate limits are left out; a call in flight
when the process dies is applied before the next process starts, or lost; comments
with scores are in `ReviewBot`.  Manytask itself never changes a course's token:
`Replace` is an administrator at the database.

## 3. Runs

| Run | Checks | Shows |
|---|---|---|
| `gradebook` | `TypeOK`, `NoLostReport`, `UploadApplied`, `OpenTasksCount`, `RecalculationInSync`, `NoDowngradeWhenFrozen`, `DoreshkaCap`, `FinishedGradesStay`, `ImplementsLedger` (refinement) | what the grade book promises under concurrent requests |
| `review_bot` | `TypeOK`, `ProcessedIsAnswered`, `ScoresAreAdmins`, `NewestScoreStands`, `RepeatedOnlyAfterTrouble` | what the bot promises about scores under faults |
| `review_isolation` | `ScoresAreProcessed` (liveness), `RepeatedOnlyAfterTrouble` | failures are isolated: what fails in every cycle does not starve the rest; two courses that see one merge request each report its comments once |
| `review_summary` | `TypeOK`, `OneSummary`, `LabelledHasSummary`, `LabelsSaySummary`, `TokensFade`, `OthersNotesStay`, `SummariesConverge` (liveness) | notes and labels agree and converge; replaced tokens fade |
| `administration` | `TypeOK`, `RolesAreMembers`, `AdminRemains`, `CourseHasGroup`, `FailedLeavesNothing`, `WelcomedCanPush`, `DismissedStay` | what holds of two stores without a common transaction |
| `checker` | `OnlyHandouts`, `OnlyReleased`, `HandedOutIsGradable`, `TestsAreTheTeachers`, `EveryTaskIsSettled`, `ReportedIsOwn`, `SharesAgree`, `OnlyCheckedIsPublished`, `ImplementsJobs` (refinement), `JobsEnd` (liveness) | what a course relies on in its CI jobs |
| `recalc_downgrade`, `first_reports`, `bonus_twice`, `same_slug`, `stale_output`, `delayed_steps` | one property each | violations: where code and documentation disagree, see section 5 |

The properties of the grade book:

* `NoLostReport`: a stored report that may not reduce leaves its points or more,
  whatever interleaves, unless a request that may reduce went to the same cell.
* `UploadApplied`: an upload that no other overlaps ends with exactly its tasks
  open, moved to their groups and with deadlines, and exactly its formulas
  stored, although it commits in a dozen steps, reports and status changes run
  in between, and earlier uploads may have died half way.
* `OpenTasksCount`: an open task counts, in totals, maxima and large tasks,
  unless an upload has moved tasks and not given their group a deadline yet, or
  has died there.
* `RecalculationInSync`: a recalculation whose reads are still current saves the
  grade the scores table shows.
* `NoDowngradeWhenFrozen`, `DoreshkaCap`, `FinishedGradesStay`: in a status that
  every handler in flight has seen too, and while no recalculation overlaps a
  save, a saved grade does not fall, moves only within the limit, stays.
* `ImplementsLedger`: `GradeBook` implements `GradeLedger`, a table of cells: a
  report or an edit takes effect on its own cell at one moment or never, and
  succeeds only after that; no other request touches a cell.  An edit succeeds
  only after a save of the grade that follows, too (`Strict`).  A report does not
  promise that: an exception while the grade is computed or saved is logged, and
  the answer is 200 (`api.py:478`).

Those conditions are not decoration.  Without "every handler has seen it" a
report that loaded IN_PROGRESS just before the change may save a lower grade
afterwards, and without "no overlap" the run `recalc_downgrade` shows what
happens.

The properties of the bot's scores:

* `ProcessedIsAnswered`: where a comment of an admin is marked for a course, it
  reached Manytask for a task of that course.
* `ScoresAreAdmins`: every score stems from a comment of an admin of the task's
  course on a merge request of that student labelled with that task.
* `NewestScoreStands`: the newest applied comment decides, unless the handling of
  an older one was disturbed in that course.
* `RepeatedOnlyAfterTrouble`: at-least-once is exactly-once without disturbance,
  for each course by itself: a merge request that two courses see is reported
  once for each of them, which is no repetition.
* `ScoresAreProcessed`: with a merge request and a listing that raise in every
  cycle, every score comment elsewhere is processed for each course that sees it
  (unless its task is behind that listing), or the course deleted, or the merge
  request closed.

The properties of its summaries and of the courses API:

* `OneSummary`: a merge request has one summary of a task, unless a creation was
  repeated after a failure, or given up while its thread went on.
* `LabelledHasSummary`: who carries the label has a summary, whatever failed.
* `LabelsSaySummary`: between its turns, the labels of a merge request say what
  its summary says, unless a publication was cut short and none came after it.
* `OthersNotesStay`: a note that somebody else wrote stays as it is, anchor or not.
* `SummariesConverge`: once failures and pushes stop, the merge requests of the
  tasks of stored courses come to show the results of the newest version,
  whatever was lost, repeated, overtaken or hung before, if the loop does not
  stay stale.  A call that hangs for a merge request is overcome by its time
  limit; a listing has none (`loop.py:99`), and without the condition TLC finds
  the loop that hangs in one for good.
* `TokensFade`: a token that was replaced changes no course for longer than the
  time to live of the cache, whatever requests overlap the replacement.

The properties of the administration:

* `RolesAreMembers`: a user has a role in a namespace exactly if the user is a
  member of its group, unless a request about that user is in flight, or a
  fault, a death or an overlap has hit that user.  Each handler writes the two
  stores in its own order; the property says that all their sequences agree.
* `AdminRemains`: revocations that do not overlap keep an instance admin.
* `CourseHasGroup`: a recorded course has its group and its repository, unless
  a creation for its path was rolled back.
* `FailedLeavesNothing`: an API creation that failed leaves no group it made,
  unless GitLab failed on that group, the handler died, or the course's row
  was written.
* `WelcomedCanPush`: who was sent on to a course, or shown a page of it, is a
  member of the project, although fork and membership are two calls, several
  tabs and retries overlap, and each may fail or die in between.
* `DismissedStay`: a course admin who was dismissed stays dismissed, unless
  something gives the user a claim anew; every page writes the flag from a
  role it has read before.

The exceptions are the real holes: nothing repairs a role whose group member is
missing (a `TODO` in `add_user_to_namespace` says so), two overlapping revocations
lose the last admin until a process starts, a roll-back deletes a group it
took over, and an error status of `members.create` is taken for success.

The properties of the checker:

* `OnlyHandouts`: the public repository holds no gold solution, in whole or between
  template comments, and nothing private.
* `OnlyReleased`: no file under a task's folder is public while the task or its group
  was disabled or not open at the export.
* `HandedOutIsGradable`: a task that is handed out can be graded by the newest
  image, although image and repository are exported at different times.
* `TestsAreTheTeachers`: whatever a student writes, adds or removes, the files
  under test are the teachers' where the teachers have one, and the student's
  elsewhere.
* `EveryTaskIsSettled`: a job that is over has stored, failed or been refused each
  of its tasks, or says that it broke off.
* `ReportedIsOwn`: the score reported for a task was measured on it, unless a
  parameter turned its tests off.
* `SharesAgree`: between the dates of a group with hard deadlines, checker and
  Manytask leave the same share of a score, listed in two ways, unless a step is
  dated after the end or leaves the whole score (section 5).  In interpolating
  courses they disagree (section 5 too); there the property says that, of shares
  that fall from step to step and with a window above 0, the checker's is never
  the smaller one.
* `OnlyCheckedIsPublished`: the check of a course never reaches Manytask, and what
  it publishes has passed its own tests in that run's image.
* `ImplementsJobs`: `Grading` implements `GradingJobs`: jobs take a list of
  tasks, settle them in order, record a score only for the task at hand and
  only upwards, never in a rehearsal.
* `JobsEnd`: every job that was queued ends.

**Bounds.**

* `gradebook`: one student, two tasks (one large, one bonus), four groups, three
  requests of which each behaviour sends one mix of six (`MCWorkload`), points -1,
  5 and 10, three configurations (one that adds, removes and changes grades, closes
  a task and moves the other to a new group; two without grades, of which one moves
  tasks to a new and to an existing group, and the other moves one of them back),
  the statuses a race needs: 884,431 distinct states.
  Two writers and one change of status are what every race here needs: each
  handler locks or compares rows of one student and one task, so more students
  only repeat the pattern, and the six mixes pair every kind of writer with those
  it shares state with.
* `review_bot`: two courses, of which one cannot be listed, three tasks, two merge
  requests of which one raises, three comments (an admin's, a student's, an
  admin's), two attempts per report, two faults: 2,066,736 states.  Two faults let
  a retry fail after a retry.  `review_isolation` is broad where this is deep: both
  courses see the same merge request, another raises in every cycle, and so does the
  listing of a task behind them; one comment, two faults: 878,016 states.
* `review_summary`: one course, two merge requests of which one carries the labels
  of two tasks, two checks, two threads, two attempts per call, two tokens with a
  time to live of two: 952,429 states in four mixes: `Disturbed` (two faults, a
  push and a note that copies the anchor), `Wedged` (three faults, so that all
  threads may hang), `Shared` (two tasks on one merge request), `Uploaded` (two
  requests of five to the courses API, a replaced token and two units of time).
  They are the initial states of `MCInit`; `ReviewSummary` itself, and what is
  proved of it, starts from any store, versions and chances.
* `administration`: three users, one namespace that exists and one to be made, two
  names and two paths for courses (one without a namespace), three requests in
  one of ten mixes: 473,164 states.  Two creations and one change of a role are
  what its races need, and a third request shows the state a finished one leaves
  to the others; four of the mixes begin with a course.
* `checker`: two groups and three tasks (one with a template file, one with
  comments in its solution and a file that only its own configuration makes
  private, one with a template folder), two jobs at a time, percentages in
  quarters, in five mixes that spend a `Budget` of ticks, revisions, edits and
  faults: `Publishing`, `Tampering`, `Stages` (pipelines with every fail mode, own
  pipelines of a task and a group, all ways to detect tasks), `Twice`,
  `Scheduling`: 99,667 states.  `MCChecker` also states the hypotheses of the
  theorems of section 4 as assumptions, so TLC confirms that these courses meet them.

Bounds in guards are `posted < NumComments`, `faults < MaxFaults`, the fields of
`left` (`Repositories`) and of `chances` (`ReviewSummary`), and one request per member
of `Requests`; nothing else is cut.

**Fairness.**  `ReviewBot` assumes `WF(Step)`: the event loop runs the single
worker, whose awaits return or time out, and the loop sleeps a bounded time;
and `WF(Serve)`: Manytask answers a request (with success or a 4xx; a lost
answer is a fault).  `ReviewSummary` assumes `WF(Step)`, where a step may be
that a hung call runs into the time limit, and `WF(OrphanEnds)`: a
call that was given up and does not hang returns.  That a stale process is started
again is not assumed: the container's `HEALTHCHECK` (`mr-reviewer/Dockerfile:44`)
only marks it unhealthy, and `restart: always`
(`mr-reviewer/docker-compose.production.yml:39`) waits for an exit.  In both, teachers, students,
courses, faults and expiry need not happen, and faults are bounded, so the
properties say what happens when the transient ones stop; the members of `Broken`
in `ReviewBot` never stop.  `Grading` assumes that a CI runner works on a job
until it is over: `WF(Work(r))`, spelled out as "if job r is never over, it
moves again and again".  Jobs end although plugins fail and answers are lost, for
a runner limits the time of a job, and its plugins may set limits of their own.
`GradeBook` and the administration assume no fairness: a handler may die at any step.

**Deadlock.**  In `GradeBook`, in the administration and in `Grading` every
request is sent once, or the budget ends, so a behaviour really stops: their
configurations say `CHECK_DEADLOCK FALSE`.  `ReviewBot` and `ReviewSummary` are
checked for deadlock: the loop never stops.

**Mutants.**  For each property of a passing run `PROJECT.json` names a definition
and a mutated form of it, kept in the module before the definition (a dropped
`max`, a limit that is not applied, a mark after a failed report, a copy in the
wrong order, ...), with which TLC finds the property violated under the same
configuration.

## 4. Proofs

Seven modules of theorems, and one of shared lemmas, for every value of the
constants that meets the named assumptions of the models: any sets of students,
tasks, users, namespaces, courses, requests, jobs, comments and merge requests, any
configurations, and no bound but those the specifications themselves have.

| Module | Theorem | States |
|---|---|---|
| `GradeBookProofs` | `TypeCorrect` | `TypeOK` |
| | `ReportsAreKept` | `NoLostReport` |
| | `FrozenGradesKept`, `DoreshkaLimited`, `FinishedGradesKept` | `NoDowngradeWhenFrozen`, `DoreshkaCap`, `FinishedGradesStay` |
| | `UploadAppliedAlways` | `UploadApplied` |
| | `OpenTasksCountAlways` | `OpenTasksCount` |
| | `RecalculationInSyncAlways` | `RecalculationInSync`, if `ScoreFreeConfigs` |
| | `LedgerImplemented` | `ImplementsLedger` |
| `AdministrationProofs` | `AdministrationType` | `TypeOK` of `Enrolment` |
| | `LastAdminRemains` | `AdminRemains` |
| | `RolesAreMembersAlways` | `RolesAreMembers` |
| `CourseProofs` | `CoursesHaveGroups` | `CourseHasGroup` |
| | `FailureLeavesNothing` | `FailedLeavesNothing` |
| | `DismissedStayAlways` | `DismissedStay` |
| | `WelcomedCanPushAlways` | `WelcomedCanPush` |
| `ReviewBotProofs` | `ReviewBotType` | `TypeOK` |
| | `BotInvariant` | its inductive invariant |
| | `ProcessedIsAnsweredAlways`, `ScoresAreAdminsAlways`, `NewestScoreStandsAlways` | `ProcessedIsAnswered`, `ScoresAreAdmins`, `NewestScoreStands` |
| | `RepeatedOnlyAfterTroubleAlways` | `RepeatedOnlyAfterTrouble` |
| `ReviewSummaryProofs` | `TokensFadeAlways` | `TokensFade` |
| | `OthersNotesStayAlways` | `OthersNotesStay` |
| | `WorkerAlwaysInPlace` | the invariant on which the summaries' proofs stand |
| | `OneSummaryAlways`, `LabelledAlways`, `LabelsAlwaysSay` | `OneSummary`, `LabelledHasSummary`, `LabelsSaySummary` |
| | `SummaryTypeOK` | `TypeOK` of `ReviewSummary` |
| `GradingProofs` | `SharesAgreeAlways` | `SharesAgree` |
| | `JobsImplement` | `ImplementsJobs`, if `ReportsLast` |
| | `EveryTaskIsSettledAlways` | `EveryTaskIsSettled`, if `ReportsLast` and `ReportsAlways` |
| | `ReportedIsOwnAlways` | `ReportedIsOwn`, if `ReportsLast` and `OwnScores` |
| `ExportProofs` | `OnlyReleasedAlways` | `OnlyReleased`, if `AllPresent` and `PlainFolders` |
| | `HandedOutIsGradableAlways` | `HandedOutIsGradable`, if also `FoldersApart` |
| | `OnlyCheckedIsPublishedAlways` | `OnlyCheckedIsPublished`, if also `ReportsLast` |
| | `OnlyHandoutsAlways` | `OnlyHandouts`, if `KeptBack` |
| | `TestsAreTheTeachersAlways` | `TestsAreTheTeachers`, if `TestsAreListed`, `SolutionsAreOpen` and `ConfigsTravel` |

`LeastNumbers` holds what several of them use: a non-empty set of naturals has a
least member.

### What is assumed

The `ASSUME`s of the models, which TLC evaluates in the runs: the types of the
constants, what the code's own parsers and constraints make sure of (a
configuration's grades have formulas, a group's steps are a dictionary with
distinct shares and dates in order, a task is in one group of a configuration), and that the null value
is none of the others (`None`, `NoRow`, `Skip`, `NoScore` are no numbers, users,
rows or calls).  `UsersAssumption` has finitely many users, as `CountAdmins` counts
them, and roles only in namespaces with a row, as the foreign key has it.

Eleven hypotheses are on theorems, since the code checks none of them:

* `ScoreFreeConfigs`: no formula asks for the score of one task.  With one, a
  recalculation differs from the table (section 5).
* `ReportsLast`: no stage before a report pipeline reports; so
  `docs/checker_plugins.md:122` tells courses.  A report in a task pipeline would
  be sent by the check of a course, too.
* `ReportsAlways`: every report pipeline has a report that always runs and whose
  failure counts.  Without, a job passes with a task that was never sent.
* `OwnScores`: what is reported is registered for every task, or for none.  Without,
  the run `stale_output` shows what is reported.
* `AllPresent`: every task has its config file in the private repository, also while
  it is disabled.  The export takes the folders it leaves out from the tasks it found
  by their config files, so a disabled task that has none is published.
* `PlainFolders`: no folder on the way to a task, nor its config file, is a template
  or named like what a template is copied to.  A template writes over what has its
  name, wherever that came from.
* `FoldersApart`: no task's folder lies in one of another task or group, and groups
  and tasks do not share names.  Skipping a folder skips all that is below.
* `KeptBack`: what is secret is private (`Hidden`: by the nearest section above it, and
  in no public folder), and a solution is private, has a template (`Templated`), or is
  between template comments in a course that cuts them.  The export publishes whatever
  is not listed.
* `TestsAreListed`: a test is private, or public by every section that may come to be
  read (`Shown`), and in no template folder.  A section is read from the config file of
  a task or group in the tree at hand; a test that only the section of a task lists is
  taken from the student once that file has not come along.  A test in a template
  folder reaches the students, but never the image.
* `SolutionsAreOpen`: a solution is in no template folder and in no list of any section
  (`Unlisted`).  One that is listed as private would be the teachers' under test.
* `ConfigsTravel`: a config file with a structure section is not ignored, is no
  template, and is not cut as a whole, so that the image has the sections of the
  private repository.

The courses of `MCChecker` meet all but the first, which is about the grade book
(`LastHere`, `AlwaysHere`, `OwnHere`, `FoldersHere`, `ContentsHere`), so the theorems
speak of the instances that TLC checks as well.

### The grade book

*Type correctness.*  `TypeOK` alone would not be inductive if it only listed
the ranges of the variables: that a saved grade is a grade needs that the
formulas a recalculation has read are formulas.  So `TypeOK` has two parts
about requests: `RequestOK` (a handler at this step serves this kind of request,
and has read what the step uses) and `LocalOK`.  A grade of the scale comes out
of `CalculateEffectiveGrade` because `Evaluate` chooses the maximum of a finite
non-empty set of grades (`MaximumExists`).

*No lost report.*  With `TypeOK`, `NoLostReport` is inductive: scores change
only in `StoreScore` and `InsertGrade` (`OtherStepsKeepScores`), where
`UpdateScoreRaises` says that a merge without reduction does not lower a score
that is not negative.  A merge with reduction is by a request that is `Stored`
from that step on, and a request never leaves `Stored`, not even when it dies.

*Action properties.*  The three need to know what a handler holds when it
writes: `HandlersFollow` ties the status a recalculation has read, the grades it
has read and the batch it is about to write.  `EffectiveGradeFollows` is the lemma
about the pure rules.  Grades change only in `SaveGrade` and `BatchWrite`
(`OtherStepsKeepGrades`), and `SavedGradesFollow` joins the two.

*Uploads.*  `Uploads` says how far an upload has come that no other overlaps
(`Progress`): after the move no task is left to move, `Enabling` has opened exactly
the sections up to the one at hand, each of them with a deadline, and `Syncing` has
treated exactly the grades that are done.  It needs `NoOtherUpload` (who is alone
is the only one that writes rows of tasks, groups and grades), `Fresh` (nothing is
left in the locals of a handler that starts) and `Housed` (every task has a group,
and a move finds the group it moves to).  `OpenTasksCount` follows from `Dates`: an
open group without a deadline exists only between a move and a synchronisation.
`RecalculationInSync` follows from `Progress` and from `ScoreFreeCourse`, which
carries the hypothesis from the configurations to the formulas in the database.

*The ledger.*  `Staged` maps the step a handler is at to how far its request has
come: asked, stored, in a batch, done or dropped.  Each action is then one step of
`GradeLedger` or a stutter: a request arrives (`LedgerSends`), a cell takes its
points (`LedgerStores`), a grade is saved (`LedgerSaves`) or all are recalculated
(`LedgerRecalculates`), a handler stops (`LedgerDrops`) or answers success for a
failure it has caught (`LedgerAnswers`), and every other action only
goes on (`LedgerGoesOn`).  The ledger's merge never mentions a lock or a second
query, so the step from `InsertGrade` is where the refinement could fail: it must
not take effect on a row that somebody else has inserted since.

### The administration

`Shape` is the type invariant with what it rests on: a creation that is past its
first call holds a group, a request about users of a course is about a course
with a row.  `LastAdmin` adds that revocations which overlap know of each other
(`OneRevocation`), so that what `CountAdmins` has counted still holds at
`RevokeAdmin` for the others.  `RolesInv` is an accounting: `Owes` says, for every
step of every handler, which of the two stores it has written; `MeetingsKnown`
that requests about one user know of each other; so whoever is undisturbed finds
the two stores as its own steps left them.

`GroupsInv` says whose group is whose: a group on GitLab was made by a creation of
its own path, which holds its id unless it slipped, or came with a course
(`GroupsOwned`).  From that, a roll-back by id deletes no group of another path, and
`RepoBeforeRow` gives the repository of a recorded course.  `LapsedHaveNoClaim` says
that who lapsed is neither a course admin nor an instance admin, and that no page
is about to write a flag for them from a role it has read.  `Welcome` says that every
fork has its user, or a request that will add the user or failed to.

### The reviewer

`AtWork` of `ReviewBotProofs` places the worker: what is in hand belongs to the
course, task and merge request at hand, and so does the mark it will get.  The rest
is said of each course by itself, as the store keys its marks.  `Pending` says that every report that may
still be answered late was rightly sent; `History` joins the properties with what
makes them inductive: a comment at its mark was answered (`Answers`), every comment
before one that is left is done (`Scanned`), a late report's comment is troubled
(`Lates`), reports were applied in order (`Orderly`) and are marked unless in hand
(`Marked`).

The courses API needs `Fresh`: an entry of the cache is no older than the answer
it stands for, nor that answer than the request it was given to; so an entry's
time to live and the time its token has been gone add up to `TTL` at most.
`SummaryData` places the worker of the checklist and the calls it gave up.  On it
stand `Creations` (an undoubted pair has at most one summary, nobody given up can add
one, and the worker is about to add one only when there is none), `Labelling`, and
`Exact`: what was given up leaves alone the merge requests that are not upset, and a
turn that began clean is alone on its merge request, so that what it has published
so far (`Posting`, `Told`, `Tagged`) stands until its end.

*Threads.*  `TypeOK` bounds the calls at work by the threads of the executor.  A bag of
calls stands for the set `Threads` of pairs of a call and a number, whose cardinality
takes one element more or less with each call that is given up or ends (`CountMore`,
`CountLess`); `Executor` adds those that hang and the one the worker waits for.

### The jobs

`SharesAgree` is a fact about two algorithms on one schedule.  `Ordered` says that
the dates of a group increase; leaving out the steps that are delays keeps that
(`LocalisedIsOrdered`); and off the dates themselves the first share that is still
good is the last one that has begun (`ShareInForce`), which is all where deadlines are
hard (`HardShares`).  Where they slide, Manytask has taken a part of the way to the
next share, and the checker is on its way down to this one, so falling shares lie
between (`SlidingShares`).

`JobsInv` types the jobs (`JobOK`: the stages to do are stages of the course's own
pipelines, outputs have percentages, tasks to do are tasks); `ReportsInv` adds
that before its report pipeline a task has no report among the stages to do
(`InOrder`).  `WorkSteps` sorts the fourteen actions of a job into eight ways to
change it, seen once and used by all the proofs after it.  The refinement maps each
way to a step of `GradingJobs` or to a stutter (`JobSteps`, `JobsStep`).  `SettledInv`
accounts for tasks: what is recorded as sent is stored (`Honest`), and every task
of a job is bad, unsent, sent or still to do (`Accounted`).  `OwnInv` follows the
outputs: what a task pipeline always registers is the task's own once the pipeline
passed (`Backed`), and stays so through its report pipeline.

### The exports

An export is a walk: `Walks` follows a path through it one level after the other, by
induction on the sets of levels that the fold runs over, and `Enter` says what a level
does to what is kept.  What a skipped folder holds is kept by no walk (`NotSkipped`), and
a walk meets a template nowhere on the way to a task (`EnterPlain`); so whatever the
structure section says, no file under an unreleased task is public (`ReleasedOnly`).

The image is made by two walks, one for the files the structure section names public or
private, as they are, and one for the others, with templates filled.  What the public
export keeps on the way to a task's config file one of the two keeps: `TwinsOn` relates the three walks level by level, `Travels`
and `TaskTravels` follow them to the file.  This needs that the walks read the same
structure and that nothing on the way is skipped by the later one (`TaskFollows`).

`OriginInv` carries this through the jobs: the private repository, the checkouts of the
course's jobs and the sources of both exports hold the files of one course, except for
their contents (`Resembles`), under its structure section (`Setup`); and a job of the
course has the image it built, and checks the tasks of that image.  With
`HandedOutIsGradable` for the job's own image, what it deploys is among what it
checked, and a job deploys only with no bad task.

*What is handed out.*  A level of a walk goes by the nearest section above it (`RuleAt`;
`GoesBy`, by induction along the walk), so a file that is `Hidden` is kept by no public
walk, one that is `Templated` gives way to its template, and `Commented` ones are cut;
what remains of each kind of content is what students may see.  The sections are those of
the tree at hand, and every tree of the course has the same ones (`HomesRead`, `OriginInv`).

*Whose tests are run.*  A student may push whatever section they like into their own
repository, but a job reads those of its image.  Whichever of them it reads, a level goes
by one of `RulesFor` (`Ruled`).  Three walks are compared level by level: the one by
which a test came into the image, the one by which it comes out of it, under the same
sections (`SectionsTravel`), which keeps it again (`KeptAgain`), and the one over the
student's files, which leaves out what is `Shown` and keeps what is `Unlisted`
(`TestedWith`).  `StudentOf` carries the student's side through the jobs: among the
files of a student, one with a teacher's content came with the public repository and so
is `Shown` (`Fair`), and a job keeps the image, files and structure it began with
(`OfStudent`).  `StudentOf` is inductive only beside `OriginOf`, for the same course.

### What is only model-checked

* `ScoresAreProcessed`, `SummariesConverge` and `JobsEnd`: liveness under fairness,
  out of the prover's reach, as `ENABLED` is.
* The violations of section 5, which are instances.

`RECURSIVE` operators do not occur.  Where a result depends on a fold
(`FlattenSeq`, the sums and products of `Aggregate`, `Among`), `GradingProofs`, and
for the levels of `Walk` `ExportProofs`, unfold the recursive function behind it and go
by induction on a set of indices.
`SelectSeq`, `:>`, `@@` and `BagCardinality` have no theory in the prover: where a proof
looks inside, the model selects with `Among`, extends a function with `With` or `Both`,
and counts `Threads`.

## 5. Findings

Each of these runs ends in a violation, within seconds; the texts they
contradict are quoted in `PROJECT.json`.

* `recalc_downgrade`: `_batch_update_grades` (`database.py:2571`) takes no lock
  and compares with nothing.  A report that raises a grade between its read and
  its write is undone, in a course whose status promises no downgrade.
* `first_reports`: when the insertion of a `Grade` conflicts, the retry
  (`database.py:1651`) searches with `score=0` among its filters and misses the
  row of the winner, which holds the winner's score by then.
* `bonus_twice`: `report_score` (`api.py:456`) adds the bonus score to a total
  that already holds it.
* `same_slug`: `create_course_group` (`glab.py:348`) returns a group that exists, so
  a second course is made over the group of the first, where the docstring and
  a test say 409.
* `stale_output`: one dictionary of outputs serves all tasks of a run
  (`tester.py:218`), and a stage that is skipped registers nothing: a task whose
  tests are switched off is reported with the score of the task before it.
* `delayed_steps`: `replace_timezone` (`config.py:251`) rebuilds the steps of a group
  from those that are dates and drops those that are delays from the start.

Met while modelling, without a run of their own (where the models have them,
the properties above except them where they bite):

* the row `recalculate_all_grades` (`database.py:2523`) builds has no `scores`, so
  formulas with a documented `scores/<task>` path are false in it;
* `_sync_columns` (`database.py:1305`) disables every task and commits that before it
  enables the tasks again, one group per commit: a report in between gets a 404;
* `_update_task_groups_from_config` (`database.py:1249`) moves tasks into a group
  without a deadline: their points do not count, and reports for them fail,
  until the group is given one; two uploads may insert the same group twice;
* two failures are swallowed: a report whose grade could not be computed or saved
  answers 200 with the score stored (`api.py:478`), and so does an upload whose
  recalculation failed (`api.py:622`).  Nothing saves the grade until the next report,
  edit or upload;
* in interpolating courses the checker slides to a share over the window that begins
  with its date, and then keeps it (`tester.py:76-97`), where Manytask has been on the
  line to it since the date before (`manytask/config.py:227-246`);
* the mr-reviewer's README (lines 60, 68, 147) says that a container `/healthz` finds
  stale is recycled; its compose files restart on exit only, so a listing that hangs
  (`loop.py:99`) stops all courses until somebody starts the process;
* two courses that share a GitLab group and a task name see the same merge requests,
  and each reports a score comment to itself, once;
* a comment that failed transiently (`score.py:124`) is retried after newer ones
  were applied, and overwrites them; of two tasks on one merge request the last
  one published decides the labels;
* `create_course_api` (`api.py:1463`) passes no parent, so the students group lands at
  top level, where a second creation of the semester finds the name taken;
* `create_project` (`glab.py:548`) takes every error status of `members.create` for a
  member who is there;
* whether a template folder is empty (`exporter.py:475`) is looked up under its
  destination before anything is copied: with a relative path, the default of
  `checker export`, every template folder is left out;
* `get_tasks` (`checker/course.py:103`) knows a task by its config file, and
  `export_public` (`exporter.py:258`) skips the folders of the disabled tasks it knows:
  a disabled task without a config file is published;
* `check_dates` (`config.py:253`) accepts a step dated after the end: the checker
  leaves its share until that date, Manytask nothing from the end on; and of a step
  with the share 1.0 the checker's dictionary (`checker/configs/manytask.py:79`)
  keeps one date for both.  `Sensible` excepts the two from `SharesAgree`;
* a group that is named in a commit message hides the tasks named beside it
  (`checker/course.py:195`);
* `/database/update` has no check for FINISHED, unlike `/report` and
  `/update_config`, though `manytask/CHANGELOG.md:51` lists "prevent updating user
  score and config for finished courses"; `FinishedGradesStay` shows that
  grades stay even so.

## 6. What is not modelled

* The adapters of SourceCraft, Yandex ID, the mock, the HTTP sessions of GitLab:
  I/O without state of their own.
* Web pages, templates, migrations: rendering, and changes made before serving.
* Counters, metrics and settings of the mr-reviewer: nothing reads them back.
  Of its health, only when the process is stale is modelled.
* Build and test plugins of the checker: command lines, present as the results
  they may have.
* OAuth, sessions and signup: redirects and remote calls; their guards in front of
  the modelled handlers are conditions on who may send a request, and any
  request may arrive.

## 7. Plan

Done: every module of section 2, with its instance, run and mutants, and the proofs
of section 4: every safety invariant and action property of a passing run is a
theorem.  To follow:

1. An atomic creation that the API's implements where no path is shared.
2. OAuth and signup, once they keep state that another part reads.
