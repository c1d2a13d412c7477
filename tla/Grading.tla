------------------------------ MODULE Grading ------------------------------
(***************************************************************************)
(* The CI jobs that run the checker: a course run validates, builds the    *)
(* testing image, checks the teachers' own solutions and publishes; a      *)
(* grading run tests what a student pushed and reports scores to manytask. *)
(*                                                                         *)
(* A run walks through pipelines (Tester) of stages (PipelineRunner).  A   *)
(* stage is a record                                                       *)
(*   run      "tests", "share" (tests that report the share that passed),  *)
(*            "script", "aggregate" or "report"                            *)
(*   fail     "fast", "after_all" or "never";  partial  partially_scored   *)
(*   key      register_output, or None                                     *)
(*   needs    the outputs its arguments name, in order                     *)
(*   when     run_if: "always", "testing" (a parameter of the task), or an *)
(*            output that must be whole                                    *)
(* Percentages of stages are counted in parts, Full of them a whole.       *)
(***************************************************************************)
EXTENDS Repositories

CONSTANTS
    Runs,           \* how many jobs exist at a time (a bound)
    Courses,        \* the courses to start from: their files and configuration, and
                    \* how many edits, pushes, ... are made (the bound, left)
    Full,           \* the parts of a whole percentage
    None

VARIABLES
    runs,           \* runs[r]: the job
    scores          \* what manytask has stored for the student, see GradeBook

vars == <<repositories, runs, scores>>

\* The pipelines of c and of its folders, and what the plugins' arguments are.
PipelinesFor(c, which) ==
    {c.pipes[which]} \cup {c.own[x][which] : x \in {x \in DOMAIN c.own : which \in DOMAIN c.own[x]}}

\* A function with one value set.
With(f, k, v) == [x \in DOMAIN f \cup {k} |-> IF x = k THEN v ELSE f[x]]

IsStage(s) ==
    /\ s.run \in {"tests", "share", "script", "aggregate", "report"}
    /\ s.needs \in Seq(Range(s.needs)) /\ s.weights \in Seq(Int)
    /\ s.run = "report" => s.needs # <<>>
    /\ s.when \notin {"always", "testing"} => s.when # None

IsPipeline(p) == p \in Seq(Range(p)) /\ \A s \in Range(p) : IsStage(s)

IsConfig(c) ==
    /\ {"enabled", "plans", "structure", "mode", "sub"} \subseteq DOMAIN c
    /\ {"ignore", "public", "private"} \subseteq DOMAIN c.structure
    /\ {"pipes", "own", "testing", "kind", "window", "detect"} \subseteq DOMAIN c
    /\ c.kind \in {"hard", "interpolate"} /\ c.window \in Nat
    /\ \A which \in {"global", "task", "report"} : \A p \in PipelinesFor(c, which) : IsPipeline(p)

\* What the documentation has courses do, and no code checks: reports come last
\* (docs/checker_plugins.md:122).
ReportsLast ==
    \A c \in Courses : \A which \in {"global", "task"} : \A p \in PipelinesFor(c.conf, which) :
        \A s \in Range(p) : s.run # "report"

\* Every report pipeline has a stage that reports whatever the others said, and
\* whose failure fails the pipeline.
Sure(p) == \E s \in Range(p) : s.run = "report" /\ s.when = "always" /\ ~s.partial /\ s.fail # "never"
ReportsAlways ==
    \A c \in Courses : \A p \in PipelinesFor(c.conf, "report") : Sure(p)

\* Every reported output is registered by the global pipeline alone, or by every
\* task pipeline, or before it in its own pipeline, by a stage that always runs.
Feeds(s, k) == k # None /\ s.key = k /\ s.when \in {"always", "testing"}
Common(c, k) ==
    \A which \in {"task", "report"} : \A p \in PipelinesFor(c, which) : \A s \in Range(p) : s.key # k
Steady(c, k) == \A p \in PipelinesFor(c, "task") : \E s \in Range(p) : Feeds(s, k)
OwnScores ==
    \A c \in Courses : \A p \in PipelinesFor(c.conf, "report") : \A i \in DOMAIN p :
        LET k == p[i].needs[1] IN
        p[i].run = "report" => Common(c.conf, k) \/ Steady(c.conf, k) \/ \E j \in 1..(i - 1) : Feeds(p[j], k)

\* Every task has its config file, those that are disabled too.
AllPresent == \A c \in Courses : \A t \in Range(Tasks) : Present(c.files, t)

\* What students must not see is private, or is replaced by its template.
KeptBack ==
    \A c \in Courses : \A p \in DOMAIN c.files :
        /\ c.files[p] = "secret" => Hidden(c.files, c.conf, p)
        /\ c.files[p] \in SolutionSide =>
             \/ Hidden(c.files, c.conf, p) \/ Templated(c.files, c.conf, p)
             \/ c.files[p] \in Commented /\ c.conf.mode \in Creating

\* Tests are private, or public whatever sections are read, and in no template
\* folder; solutions are in none, nor listed as public, private or ignored.
TestsAreListed ==
    \A c \in Courses : \A p \in DOMAIN c.files :
        c.files[p] \in TeacherSide =>
            /\ Range(p) \cap DOMAIN Original = {}
            /\ Hidden(c.files, c.conf, p) \/ Shown(c.conf, p)
SolutionsAreOpen ==
    \A c \in Courses : \A p \in DOMAIN c.files :
        c.files[p] \in SolutionSide =>
            Range(p) \cap DOMAIN Original = {} /\ Unlisted(c.conf, p)

\* A config file with a structure section goes where its folder goes.
ConfigsTravel ==
    \A c \in Courses : \A x \in Range(Groups) \cup Range(Tasks) :
        LET p == Append(DirOf[x], Meta) IN
        DirOf[x] \in DOMAIN c.conf.sub =>
            /\ Range(p) \cap (DOMAIN Original \cup Range(Original)) = {}
            /\ p \in DOMAIN c.files =>
                 /\ c.files[p] # "wholly"
                 /\ \A rule \in RulesFor(c.conf, p, Len(p), "ignore") : Meta \notin rule

ASSUME CoursesAssumption == \A c \in Courses : IsConfig(c.conf) /\ IsTree(c.files)
ASSUME FullAssumption == Full \in Nat \ {0}
ASSUME NoneAssumption == None \notin {"passed", "failed"}

Over(run, exit) ==
    [run EXCEPT !.step = "over", !.exit = exit, !.rest = <<>>, !.outputs = <<>>,
                !.root = <<>>, !.ref = <<>>, !.files = <<>>, !.todo = <<>>]

Queued(kind, c, tree, last, named) ==
    [kind |-> kind, step |-> "queued", exit |-> None, conf |-> c, at |-> clock,
     root |-> tree, last |-> last, named |-> named, ref |-> <<>>, files |-> <<>>,
     todo |-> <<>>, rest |-> <<>>, skip |-> FALSE, passed |-> TRUE, outputs |-> <<>>,
     tasks |-> {}, bad |-> {}, unsent |-> {}, sent |-> <<>>]

InitGrading ==
    /\ runs = [r \in Runs |-> Over(Queued("grade", conf, <<>>, {}, {}), "nothing")]
    /\ scores = [t \in Range(Tasks) |-> 0]

Become(r, run) == runs' = [runs EXCEPT ![r] = run]

\* A push is followed by a job; a new job takes the place of one that is over.
Launch(kind, c, tree, last, named) ==
    /\ \E r \in Runs : runs[r].step = "over"
    /\ Become(CHOOSE r \in Runs : runs[r].step = "over", Queued(kind, c, tree, last, named))

------------------------------------------------------------------------------
(* Pushes.                                                                  *)

Submit ==
    /\ Edit \/ Pull
    /\ Launch("grade", conf, work'.tree, work'.last, work'.named)
    /\ UNCHANGED scores

\* conf.plans: what the teachers may enable next.
TeacherPush ==
    /\ Spend("revisions")
    /\ \E tree \in Revisions(reference), enabled \in conf.plans :
         LET c == [conf EXCEPT !.enabled = enabled]
         IN /\ <<tree, c>> # <<reference, conf>>
            /\ Revise(tree, c)
            /\ Launch("course", c, tree, {}, {})
    /\ UNCHANGED <<clock, image, public, work, scores>>

------------------------------------------------------------------------------
(* Pipelines of a task, and the tasks of a run.  c also holds the pipelines *)
(* (pipes), those of folders (own), the tasks whose parameter turns testing *)
(* on (testing), the type of deadlines (kind, window) and how changes are   *)
(* detected (detect).                                                       *)

\* A task's own pipeline, else its group's, else the course's.
PipelineOf(ref, c, t, which) ==
    LET own(x) == Present(ref, x) /\ x \in DOMAIN c.own /\ which \in DOMAIN c.own[x]
    IN CASE own(t)          -> c.own[t][which]
         [] own(GroupOf(t)) /\ ~own(t) -> c.own[GroupOf(t)][which]
         [] OTHER           -> c.pipes[which]

Known(ref, c) == Among(Tasks, {t \in EnabledTasks(c) : Present(ref, t)})

\* A group that is named hides the tasks that are named beside it.
DetectChanges(ref, c, last, named) ==
    LET groups == named \cap GroupsWhere(c, TRUE)
        changed(t) ==
            CASE c.detect = "last_commit_changes" -> \E p \in last : Under(p, t)
              [] OTHER -> IF groups # {} THEN GroupOf(t) \in groups ELSE t \in named
    IN Among(Known(ref, c), {t \in Range(Tasks) : changed(t)})

TaskPercent(c, t, now) ==
    CheckerPercent(Localised(Schedule[GroupOf(t)]), c.kind, c.window, now)

Refs(s) == Range(s.needs) \cup ({s.when} \ {"always", "testing"})

\* Tester.validate: every output a stage names is registered by a stage before
\* it, of the global pipeline or of any task before or at this one.
Resolvable(ref, c) ==
    LET tasks == Known(ref, c)
        all == c.pipes.global
                 \o FlattenSeq([i \in DOMAIN tasks |-> PipelineOf(ref, c, tasks[i], "task")
                                              \o PipelineOf(ref, c, tasks[i], "report")])
    IN \A i \in DOMAIN all : Refs(all[i]) \subseteq {all[j].key : j \in 1..(i - 1)}

------------------------------------------------------------------------------
(* The jobs of a course run before its check, and after it.                 *)

\* A division by zero in the deadlines fails the job like any invalid course.
Validate(r) ==
    LET run == runs[r]
        valid == /\ ValidCourse(run.root, run.conf)
                 /\ Resolvable(run.root, run.conf)
                 /\ \A t \in Range(Known(run.root, run.conf)) :
                      TaskPercent(run.conf, t, clock) # NoPercent
    IN /\ run.kind = "course" /\ run.step = "queued"
       /\ Become(r, IF valid THEN [run EXCEPT !.step = "build"] ELSE Over(run, "failed"))
       /\ UNCHANGED <<repositories, scores>>

Build(r) ==
    LET run == runs[r] IN
    /\ run.step = "build"
    /\ BuildImage(run.root, run.conf)
    /\ Become(r, [run EXCEPT !.step = "built", !.ref = image'])
    /\ UNCHANGED <<clock, reference, conf, public, work, left, scores>>

Deploy(r) ==
    LET run == runs[r] IN
    /\ run.step = "deploy"
    /\ Publish(run.root, run.conf)
    /\ Become(r, Over(run, "passed"))
    /\ UNCHANGED <<clock, reference, conf, image, work, left, scores>>

------------------------------------------------------------------------------
(* `checker check` and `checker grade` up to the tests.                     *)

Begin(run, ref, tasks) ==
    [run EXCEPT !.step = "global", !.ref = ref, !.conf = ref.conf, !.at = clock,
                !.files = ExportForTesting(run.root, ref.tree, ref.conf),
                !.todo = tasks, !.tasks = Range(tasks), !.rest = ref.conf.pipes.global]

Check(r) ==
    LET run == runs[r] IN
    /\ run.step = "built"
    /\ Become(r, Begin(run, run.ref, Known(run.ref.tree, run.conf)))
    /\ UNCHANGED <<repositories, scores>>

\* A student's job starts some time after the push, with the newest image.
Grade(r) ==
    LET run == runs[r]
        tasks == DetectChanges(image.tree, image.conf, run.last, run.named)
    IN /\ run.kind = "grade" /\ run.step = "queued"
       /\ Become(r, CASE image.conf.detect = "files_changed" -> Over(run, "failed")
                      [] image.conf.detect # "files_changed" /\ tasks = <<>> -> Over(run, "nothing")
                      [] OTHER -> Begin(run, image, tasks))
       /\ UNCHANGED <<repositories, scores>>

------------------------------------------------------------------------------
(* Tester.run: one global pipeline, then for each task its pipeline and,    *)
(* when that passed, its report pipeline.                                   *)

(* A mutant of Conclude: only failed reports fail a job. *)
ConcludeKindly(run) ==
    CASE run.unsent # {} -> Over(run, "failed")
      [] run.unsent = {} /\ run.kind = "course" -> [run EXCEPT !.step = "deploy"]
      [] OTHER -> Over(run, "passed")

Conclude(run) ==
    CASE run.bad \cup run.unsent # {} -> Over(run, "failed")
      [] run.bad \cup run.unsent = {} /\ run.kind = "course" -> [run EXCEPT !.step = "deploy"]
      [] OTHER -> Over(run, "passed")

Enters(run, step, pipeline) ==
    [run EXCEPT !.step = step, !.rest = pipeline, !.skip = FALSE, !.passed = TRUE]

EndGlobal(r) ==
    LET run == runs[r] IN
    /\ run.step = "global" /\ run.rest = <<>>
    /\ Become(r, IF run.passed THEN [run EXCEPT !.step = "next"] ELSE Over(run, "failed"))
    /\ UNCHANGED <<repositories, scores>>

NextTask(r) ==
    LET run == runs[r]
        t == Head(run.todo)
    IN /\ run.step = "next"
       /\ Become(r, CASE run.todo = <<>> -> Conclude(run)
                      [] run.todo # <<>> /\ TaskPercent(run.conf, t, run.at) = NoPercent
                           -> Over(run, "broken")
                      [] OTHER -> Enters(run, "task", PipelineOf(run.ref.tree, run.conf, t, "task")))
       /\ UNCHANGED <<repositories, scores>>

(* A mutant of EndTask: a task whose pipeline failed is tried again. *)
EndTaskAgain(r) ==
    LET run == runs[r]
        t == Head(run.todo)
    IN /\ run.step = "task" /\ run.rest = <<>>
       /\ Become(r, IF run.passed
                    THEN Enters(run, "report", PipelineOf(run.ref.tree, run.conf, t, "report"))
                    ELSE [run EXCEPT !.step = "next", !.bad = @ \cup {t}])
       /\ UNCHANGED <<repositories, scores>>

EndTask(r) ==
    LET run == runs[r]
        t == Head(run.todo)
    IN /\ run.step = "task" /\ run.rest = <<>>
       /\ Become(r, IF run.passed
                    THEN Enters(run, "report", PipelineOf(run.ref.tree, run.conf, t, "report"))
                    ELSE [run EXCEPT !.step = "next", !.todo = Tail(@), !.bad = @ \cup {t}])
       /\ UNCHANGED <<repositories, scores>>

EndReport(r) ==
    LET run == runs[r] IN
    /\ run.step = "report" /\ run.rest = <<>>
    /\ Become(r, [run EXCEPT !.step = "next", !.todo = Tail(@),
                             !.unsent = @ \cup (IF run.passed THEN {} ELSE {Head(run.todo)})])
    /\ UNCHANGED <<repositories, scores>>

------------------------------------------------------------------------------
(* PipelineRunner.run, one stage at a time.                                 *)

AtStage(r) == runs[r].step \in {"global", "task", "report"} /\ runs[r].rest # <<>>

Subject(run) == IF run.step = "global" THEN "global" ELSE Head(run.todo)

Resolved(run) == Refs(Head(run.rest)) \subseteq DOMAIN run.outputs

Skipped(run) ==
    LET when == Head(run.rest).when IN
    \/ run.skip
    \/ when = "testing" /\ Subject(run) \notin run.conf.testing
    \/ when \notin {"always", "testing"} /\ run.outputs[when].percent < Full

\* The check of the teachers' solutions only pretends to report.
Dry(run) == run.kind = "course" /\ run.step = "report"

Register(run, percent) ==
    LET s == Head(run.rest) IN
    IF s.key = None THEN run.outputs
    ELSE With(run.outputs, s.key, [percent |-> percent, of |-> Subject(run)])

\* A plugin returned, or raised PluginExecutionFailed.
(* A mutant of Settle: only a success registers an output. *)
SettleUnregistered(run, ok, percent) ==
    LET s == Head(run.rest)
        hurts == ~ok /\ ~s.partial
    IN [run EXCEPT !.rest = Tail(@),
                   !.skip = @ \/ (hurts /\ s.fail = "fast"),
                   !.passed = @ /\ ~(hurts /\ s.fail # "never"),
                   !.outputs = IF ok THEN Register(run, percent) ELSE @]

Settle(run, ok, percent) ==
    LET s == Head(run.rest)
        hurts == ~ok /\ ~s.partial
    IN [run EXCEPT !.rest = Tail(@),
                   !.skip = @ \/ (hurts /\ s.fail = "fast"),
                   !.passed = @ /\ ~(hurts /\ s.fail # "never"),
                   !.outputs = Register(run, percent)]

\* The arguments of a stage cannot be resolved: nobody catches BadConfig.
BreakStage(r) ==
    /\ AtStage(r) /\ ~Resolved(runs[r])
    /\ Become(r, Over(runs[r], "broken"))
    /\ UNCHANGED <<repositories, scores>>

SkipStage(r) ==
    /\ AtStage(r) /\ Resolved(runs[r]) /\ Skipped(runs[r])
    /\ Become(r, [runs[r] EXCEPT !.rest = Tail(@)])
    /\ UNCHANGED <<repositories, scores>>

Runnable(r) == AtStage(r) /\ Resolved(runs[r]) /\ ~Skipped(runs[r])

DryStage(r) ==
    /\ Runnable(r) /\ Dry(runs[r])
    /\ Become(r, Settle(runs[r], TRUE, Full))
    /\ UNCHANGED <<repositories, scores>>

------------------------------------------------------------------------------
(* The plugins.                                                             *)

Succeeds(p) == [ok |-> TRUE, percent |-> p]
Fails == [ok |-> FALSE, percent |-> 0]

\* The tests of a task, its solution as they find it, and what they may say.
\* A student's work may pass any share of them, or not come to an end.
Own(run) == {run.files[p] : p \in Below(run.files, DirOf[Subject(run)])}
Tested(run) == Own(run) \cap {"v1", "v2"} # {}
Right(run) == Own(run) \cap SolutionSide # {}

Shares(run) ==
    CASE ~Tested(run) -> {0}
      [] Tested(run) /\ Right(run) -> {Full}
      [] Tested(run) /\ ~Right(run) /\ "work" \in Own(run) -> {0, Full \div 2, Full}
      [] OTHER -> {0}

SumSeq(s) == FoldLeft(LAMBDA p, w : p + w, 0, s)

Aggregate(scored, weights, strategy) ==
    LET ws == [i \in DOMAIN scored |-> scored[i] * (IF weights = <<>> THEN 1 ELSE weights[i])]
    IN CASE scored = <<>> \/ (weights # <<>> /\ Len(weights) # Len(scored)) -> Fails
         [] OTHER -> Succeeds(
              CASE strategy = "mean" -> SumSeq(ws) \div Len(ws)
                [] strategy = "sum"  -> SumSeq(ws)
                [] strategy = "min"  -> Min(Range(ws))
                [] strategy = "max"  -> Max(Range(ws))
                [] OTHER -> FoldLeft(LAMBDA p, w : (p * w) \div Full, Full, ws))

Scored(run) == [i \in DOMAIN Head(run.rest).needs |-> run.outputs[Head(run.rest).needs[i]].percent]

\* A command has no percentage of its own: 1 when it succeeds, 0 when it fails.
Results(run) ==
    LET s == Head(run.rest)
        ill == IF run.kind = "grade" THEN {Fails} ELSE {}
    IN CASE s.run = "share" -> {Succeeds(p) : p \in Shares(run)} \cup ill
         [] s.run = "tests" -> {IF p = Full THEN Succeeds(Full) ELSE Fails : p \in Shares(run)}
         [] s.run = "script" -> {Succeeds(Full)} \cup ill
         [] s.run = "aggregate" -> {Aggregate(Scored(run), s.weights, s.strategy)}

RunStage(r) ==
    /\ Runnable(r) /\ ~Dry(runs[r])
    /\ Head(runs[r].rest).run # "report"
    /\ \E result \in Results(runs[r]) :
         Become(r, Settle(runs[r], result.ok, result.percent))
    /\ UNCHANGED <<repositories, scores>>

(* A mutant of Store: manytask keeps the last score. *)
StoreLast(t, percent) == [scores EXCEPT ![t] = percent]

\* manytask keeps the best score, as the report plugin asks by default: its
\* allow_reduction is off, and the percentage it sends has counted the deadline.
\* (A course may set allow_reduction, or check_deadline to have manytask multiply
\* by its share too; both are left out.)
Store(t, percent) == [scores EXCEPT ![t] = Max({@, percent})]

\* The answer is the stored score; or an error, which may come after the score
\* was stored; or there is no answer at all, an exception that is no
\* PluginExecutionFailed.  Nothing is sent twice.
ReportStage(r) ==
    LET run == runs[r]
        t == Subject(run)
        output == run.outputs[Head(run.rest).needs[1]]
        stored == Store(t, output.percent)
    IN /\ Runnable(r) /\ ~Dry(run)
       /\ Head(run.rest).run = "report"
       /\ \/ /\ scores' = stored
             /\ Become(r, [Settle(run, TRUE, Full) EXCEPT !.sent = With(@, t, output)])
             /\ UNCHANGED left
          \/ /\ Spend("faults")
             /\ scores' \in {scores, stored}
             /\ \/ Become(r, Settle(run, FALSE, 0))
                \/ Become(r, Over(run, "broken"))
       /\ UNCHANGED <<clock, reference, conf, image, public, work>>

------------------------------------------------------------------------------
Work(r) ==
    \/ Validate(r) \/ Build(r) \/ Check(r) \/ Grade(r) \/ Deploy(r)
    \/ EndGlobal(r) \/ NextTask(r) \/ EndTask(r) \/ EndReport(r)
    \/ BreakStage(r) \/ SkipStage(r) \/ DryStage(r) \/ RunStage(r) \/ ReportStage(r)

Pass == Tick /\ UNCHANGED <<runs, scores>>

Next == Submit \/ TeacherPush \/ Pass \/ \E r \in Runs : Work(r)

\* A runner works on a job until it is over: WF_vars(Work(r)), spelled out with
\* two facts of Next, that Work(r) is enabled exactly while job r is not over, and
\* that nothing else changes such a job.
Moves(r) == runs'[r] # runs[r]
Fairness == \A r \in Runs : <>[](runs[r].step # "over") => []<><<Moves(r)>>_vars

Init ==
    /\ \E c \in Courses : InitRepositories(c.files, c.conf) /\ left = c.budget
    /\ InitGrading
Spec == Init /\ [][Next]_vars /\ Fairness

------------------------------------------------------------------------------
(* Properties.                                                              *)

Grades(r) == runs[r].kind = "grade" /\ runs[r].step \in {"global", "next", "task", "report"}

\* Whatever a student writes, adds or removes, the tests are the teachers': each
\* public or private file is the one of the testing image, no file of theirs has
\* such a name, and all other files are the student's own.  (Exporter.
\* export_for_testing, the order of its two copies, sub-configs included.)
TestsAreTheTeachers ==
    \A r \in Runs : Grades(r) =>
      LET run == runs[r]
          ref == run.ref.tree
          mine == {p \in DOMAIN ref : ref[p] \in TeacherSide}
      IN /\ \A p \in mine : p \in DOMAIN run.files /\ run.files[p] = ref[p]
         /\ \A p \in DOMAIN run.files : run.files[p] \in TeacherSide => p \in mine
         /\ \A p \in Solutions(reference) :
              /\ p \in DOMAIN run.files <=> p \in DOMAIN run.root
              /\ p \in DOMAIN run.root => run.files[p] = run.root[p]

\* A job that is over has settled every task it was for, or says why not: it
\* passed or failed only with every task failed, refused or stored by manytask,
\* at no less than what was reported; and it passed only with all of them stored.
\* (Tester.run goes on after a failed task and raises at the end.)
EveryTaskIsSettled ==
    \A r \in Runs :
      LET run == runs[r] IN
      /\ \A t \in DOMAIN run.sent : scores[t] >= run.sent[t].percent
      /\ run.kind = "grade" /\ run.exit = "passed" => run.tasks = DOMAIN run.sent
      /\ run.kind = "grade" /\ run.exit = "failed" /\ run.bad \cup run.unsent # {}
           => run.tasks = run.bad \cup run.unsent \cup DOMAIN run.sent

\* What is reported for a task was measured on that task, or once for all of
\* them, unless a parameter turned its tests off.  (One dictionary of outputs
\* serves all tasks of a run: tester.py:218.)
ReportedIsOwn ==
    \A r \in Runs : \A t \in DOMAIN runs[r].sent :
      runs[r].sent[t].of \in {t, "global"} \/ t \notin runs[r].conf.testing

\* The same with nothing excepted.  (docs/checker_yml_reference.md:222: the key
\* holds the stage's result for later stages.)
OutputsAreOwn ==
    \A r \in Runs : \A t \in DOMAIN runs[r].sent : runs[r].sent[t].of \in {t, "global"}

\* The check of a course never reaches manytask, and every task it publishes has
\* passed its own tests in that run's image, unless its group opened after the
\* image was built.  (`checker check` reports dry and skips what the image leaves
\* out; `checker export` follows only when it passed, at a time of its own.)
PublishesChecked ==
    \A r \in Runs : runs[r].kind = "course" /\ runs'[r] # runs[r] =>
      /\ UNCHANGED scores
      /\ public' # public /\ runs[r].step = "deploy" =>
           \A t \in Range(Tasks) :
             Present(public'.tree, t) /\ Schedule[GroupOf(t)].start <= runs[r].ref.at
               => t \in runs[r].tasks \ runs[r].bad

OnlyCheckedIsPublished == [][PublishesChecked]_vars

\* Between the dates of a group, with deadlines that are hard, the share of a
\* score that the pipelines of a task are given is the one manytask takes when the
\* score arrives.  (Tester._get_task_score_percent and
\* get_current_percent_multiplier list the same steps in two ways, with the date
\* each begins at and the date each is good until.)  In an interpolating course
\* the two disagree for most of the time: manytask is on the line to the next
\* share already, while the checker still slides to the present one, over a window
\* of its own.  Of shares that fall, the checker's is never the smaller one then.
\* Excepted are what check_dates accepts and the two understand differently: a
\* step after the end, and one that leaves the whole score, a key taken already;
\* and an interpolating course without a window, which its jobs do not survive.
Instants(g) == {g.start, DateOf(g, g.end)} \cup {DateOf(g, g.steps[i].when) : i \in DOMAIN g.steps}

Sensible(g) ==
    \A i \in DOMAIN g.steps :
        DateOf(g, g.steps[i].when) <= DateOf(g, g.end) /\ g.steps[i].mult # Whole

Falling(g) == \A i \in DOMAIN g.steps : g.steps[i].mult <= Share(g, i)

SharesAgree ==
    \A name \in Range(Groups) :
      LET g == Localised(Schedule[name])
          checker == CheckerPercent(g, conf.kind, conf.window, clock)
          server == ServerPercent(g, conf.kind, clock)
      IN Sensible(g) /\ clock > g.start /\ clock \notin Instants(g) =>
           /\ conf.kind = "hard" => checker = server
           /\ conf.kind # "hard" /\ conf.window > 0 /\ Falling(g) => checker >= server

\* Every step of a group counts, those given as a delay from the start too.
\* (docs/manytask_yml_reference.md:146: "13 days and 5 hours after start, max
\* score drops to 30%")
DelayedStepsCount ==
    \A name \in Range(Groups) :
      LET g == Schedule[name] IN
      clock \notin Instants(g)
        => ServerPercent(Localised(g), conf.kind, clock) = ServerPercent(g, conf.kind, clock)

\* What GradingJobs sees of a job: a pipeline stage is a stutter, a task that
\* failed, was refused or was reported is settled, and a job waits until its tasks
\* are known.
Seen(run) ==
    [state     |-> CASE run.step \in {"queued", "build", "built"} -> "waiting"
                     [] run.step = "over" -> "over"
                     [] OTHER -> "working",
     rehearsal |-> run.kind = "course",
     pending   |-> run.todo]

View == [r \in Runs |-> Seen(runs[r])]

Promised == INSTANCE GradingJobs WITH
    Jobs <- Runs, Subjects <- Range(Tasks), best <- scores, job <- View

\* The jobs keep the promises of GradingJobs: whatever the pipelines, faults and
\* other jobs, a job takes its tasks one after the other and changes no score but
\* that of the task at hand, which it never lowers; a course's check changes none.
\* (Tester.run and the order of its report pipelines.)
ImplementsJobs == Promised!JobsSafety

\* A queued job comes to an end, on runners that keep working.  (Tester.run goes
\* through its tasks once, also after failures.)
JobsEnd == Promised!Ends
=============================================================================
