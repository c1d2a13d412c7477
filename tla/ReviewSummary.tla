--------------------------- MODULE ReviewSummary ---------------------------
(***************************************************************************)
(* What the mr-reviewer leaves on a merge request: one anchored note with  *)
(* the results of a task's checklist, and two labels.                      *)
(*                                                                         *)
(* The worker waits for one call of the hosting at a time.  The call runs  *)
(* in a thread of an executor, which repeats it after a failure that may   *)
(* have been applied.  When the worker gives up on a merge request the     *)
(* thread goes on: an orphan may still write while the next merge request, *)
(* or the next cycle, is processed.  A thread whose connection hangs never *)
(* comes back.                                                             *)
(*                                                                         *)
(* The loop's cycles and the comments with scores are those of ReviewBot;  *)
(* the courses come from ReviewCourses.                                    *)
(***************************************************************************)
EXTENDS ReviewCourses, BagsExt, SequencesExt

CONSTANTS
    MRs, Tasks, Users, Bot,
    Checklist,      \* the checks of a task, in order
    Labelled,       \* the merge requests labelled with a task
    Failing,        \* the checks that fail at each version of a merge request
    Workers,        \* hosting_executor_workers
    Attempts        \* gitlab_retry_attempts

ASSUME SummaryAssumption ==
    /\ Configs \subseteq Seq(Tasks)
    /\ DOMAIN Checklist = Tasks
    /\ \A k \in Tasks : Checklist[k] \in Seq(ToSet(Checklist[k]))
    /\ Labelled \in [Tasks -> Seq(MRs)]
    /\ \A m \in MRs : Failing[m] \in Seq(ToSet(Failing[m]))
    /\ Bot \in Users
    /\ Workers \in Nat \ {0} /\ Attempts \in Nat \ {0}

VARIABLES
    version,        \* the hosting: what students have pushed last,
    notes,          \* the notes of a merge request that carry an anchor,
    labels,         \* and the labels of the bot on it
    pc, job,        \* the worker's step and its local variables
    awaited,        \* the call the worker waits for, or None
    orphans,        \* the calls it has given up that still run, a bag
    hung,           \* the threads that never come back
    upset,          \* history: merge requests that a failure left in doubt,
    doubted         \*          and summaries whose creation is in doubt

hosting == <<version, notes, labels>>
worker == <<pc, job, awaited>>
vars == <<api, hosting, worker, orphans, hung, upset, doubted>>

Processed == "checklist"
FixIt == "fix it"

NoJob == [names |-> {}, tasks |-> <<>>, mrs |-> <<>>, next |-> 1, failed |-> {},
          found |-> 0, clean |-> TRUE]

InitSummary ==
    /\ chances \in [{"tokens", "time", "faults", "pushes", "quotes"} -> Nat]
    /\ DOMAIN version = MRs
    /\ \A m \in MRs : version[m] \in DOMAIN Failing[m]
    /\ notes = [m \in MRs |-> <<>>]
    /\ labels = [m \in MRs |-> {}]
    /\ pc = "sleep" /\ job = NoJob /\ awaited = None
    /\ orphans = EmptyBag /\ hung = 0
    /\ upset = {} /\ doubted = {}

Task == Head(job.tasks)
MR == Head(job.mrs)
Checks == Checklist[Task]
WriteSteps == {"post", "label", "unlabel"}
MRSteps == {"checks", "notes"} \cup WriteSteps

------------------------------------------------------------------------------
(* The hosting adapter: what a call does to a merge request.                *)

Note(task, author, failed) == [task |-> task, author |-> author, failed |-> failed]

(* A mutant of IsSummary: whoever wrote it. *)
IsAnchored(note, task) == note.task = task

IsSummary(note, task) == note.task = task /\ note.author = Bot

(* A mutant of Existing: only the first of the notes is looked at. *)
ExistingFirst(m, task) ==
    IF notes[m] # <<>> /\ IsSummary(notes[m][1], task) THEN 1 ELSE 0

\* The first note the bot anchored for the task, or 0.
Existing(m, task) ==
    LET is == {i \in DOMAIN notes[m] : IsSummary(notes[m][i], task)}
    IN IF is = {} THEN 0 ELSE CHOOSE i \in is : \A j \in is : i <= j

\* The effect of a call: creating and updating notes, adding and removing labels.
Apply(c) ==
    /\ notes' = CASE c.do = "create" ->
                       [notes EXCEPT ![c.mr] = Append(@, Note(c.task, Bot, c.failed))]
                  [] c.do = "update" -> [notes EXCEPT ![c.mr][c.id].failed = c.failed]
                  [] OTHER -> notes
    /\ labels' = CASE c.do = "add" -> [labels EXCEPT ![c.mr] = @ \cup c.labels]
                   [] c.do = "remove" -> [labels EXCEPT ![c.mr] = @ \ c.labels]
                   [] OTHER -> labels
    /\ UNCHANGED version

------------------------------------------------------------------------------
(* The executor.                                                            *)

\* The threads that calls are in: one for each copy of a call in a bag.
Threads(calls) == UNION {{c} \X (1..calls[c]) : c \in BagToSet(calls)}

Free == Cardinality(Threads(orphans)) + hung < Workers

Call(do, names, id) ==
    [do |-> do, mr |-> IF job.mrs = <<>> THEN None ELSE MR, task |-> Task,
     failed |-> job.failed, labels |-> names, id |-> id, tries |-> 1, hangs |-> FALSE]

AllChecks == UNION {ToSet(Checklist[k]) : k \in Tasks}
Names == {Processed, FixIt}

Calls == [do : {"list", "check", "notes", "create", "update", "add", "remove"},
          mr : MRs \cup {None}, task : Tasks, failed : SUBSET AllChecks,
          labels : SUBSET Names, id : Nat, tries : 1..Attempts, hangs : BOOLEAN]

ASSUME NoneIsNoCall == None \notin Calls

\* The worker submits a call; with no thread free it stays in the queue.
Submit(step, do, names, id) ==
    /\ pc = step /\ awaited = None /\ Free
    /\ awaited' = Call(do, names, id)
    /\ UNCHANGED <<api, hosting, pc, job, orphans, hung, upset, doubted>>

Running == awaited # None /\ ~awaited.hangs

------------------------------------------------------------------------------
(* WorkerLoop: a cycle over the courses, their tasks and merge requests.    *)

Loop(from, to) ==
    /\ pc = from /\ pc' = to
    /\ UNCHANGED <<api, hosting, awaited, orphans, hung, upset, doubted>>

StartCycle ==
    /\ Loop("sleep", "courses")
    /\ job' = [NoJob EXCEPT !.names = {c \in Courses : store[c] # None}]

LoadCourse ==
    \E c \in job.names :
        /\ Loop("courses", "tasks")
        /\ job' = [NoJob EXCEPT !.names = job.names \ {c},
                                !.tasks = IF store[c] = None THEN <<>> ELSE store[c].config]

EndCycle ==
    /\ job.names = {}
    /\ Loop("courses", "sleep")
    /\ UNCHANGED job

EndCourse ==
    /\ job.tasks = <<>>
    /\ Loop("tasks", "courses")
    /\ UNCHANGED job

ListMRs == job.tasks # <<>> /\ Submit("tasks", "list", {}, 0)

EndTask ==
    /\ job.mrs = <<>>
    /\ Loop("mrs", "tasks")
    /\ job' = [job EXCEPT !.tasks = Tail(@)]

(* A mutant of StartMR: not what is labelled as processed already. *)
StartMROnce ==
    /\ job.mrs # <<>>
    /\ Loop("mrs", IF Processed \in labels[MR] THEN "mrs" ELSE "checks")
    /\ job' = [job EXCEPT !.mrs = IF Processed \in labels[MR] THEN Tail(@) ELSE @,
                          !.next = 1, !.failed = {}]

\* Nothing that was given up can still write to the merge request (history).
Alone == \A c \in BagToSet(orphans) : c.mr # MR

StartMR ==
    /\ job.mrs # <<>>
    /\ Loop("mrs", "checks")
    /\ job' = [job EXCEPT !.next = 1, !.failed = {}, !.clean = Alone]

\* The merge requests behind the current one.
NextMR == pc' = "mrs" /\ job' = [job EXCEPT !.mrs = Tail(@)]

------------------------------------------------------------------------------
(* ChecklistRunner and ChecklistPublisher.                                  *)

RunCheck ==
    /\ Submit("checks", "check", {}, job.next)
    /\ job.next <= Len(Checks)

EndChecklist ==
    /\ Loop("checks", "notes")
    /\ job.next > Len(Checks)
    /\ UNCHANGED job

ListNotes == Submit("notes", "notes", {}, 0)

PostOrUpdate ==
    Submit("post", IF job.found = 0 THEN "create" ELSE "update", {}, job.found)

Passed == job.failed = {}

(* A mutant of AddLabels: FixIt goes with the first failure only. *)
AddLabelsOnce ==
    Submit("label", "add",
           IF Passed \/ Processed \in labels[MR] THEN {Processed} ELSE {Processed, FixIt}, 0)

AddLabels ==
    Submit("label", "add", IF Passed THEN {Processed} ELSE {Processed, FixIt}, 0)

RemoveLabels == Submit("unlabel", "remove", {FixIt}, 0)

Checked(fails) ==
    job' = [job EXCEPT !.next = @ + 1,
                       !.failed = IF fails THEN @ \cup {Checks[job.next]} ELSE @]

(* A mutant of Return: the labels before the summary. *)
ReturnLabelled(c) ==
    \/ c.do = "list" /\ pc' = "mrs" /\ job' = [job EXCEPT !.mrs = Labelled[Task]]
    \/ c.do = "check" /\ UNCHANGED pc /\ Checked(Checks[c.id] \in Failing[MR][version[MR]])
    \/ c.do = "notes" /\ pc' = "label" /\ job' = [job EXCEPT !.found = Existing(MR, Task)]
    \/ c.do \in {"create", "update"} /\ NextMR
    \/ c.do = "add" /\ Passed /\ pc' = "unlabel" /\ UNCHANGED job
    \/ c.do = "add" /\ ~Passed /\ pc' = "post" /\ UNCHANGED job
    \/ c.do = "remove" /\ pc' = "post" /\ UNCHANGED job

\* What the worker does with the answer of a call.
Return(c) ==
    \/ c.do = "list" /\ pc' = "mrs" /\ job' = [job EXCEPT !.mrs = Labelled[Task]]
    \/ c.do = "check" /\ UNCHANGED pc /\ Checked(Checks[c.id] \in Failing[MR][version[MR]])
    \/ c.do = "notes" /\ pc' = "post" /\ job' = [job EXCEPT !.found = Existing(MR, Task)]
    \/ c.do \in {"create", "update"} /\ pc' = "label" /\ UNCHANGED job
    \/ c.do = "add" /\ Passed /\ pc' = "unlabel" /\ UNCHANGED job
    \/ c.do = "add" /\ ~Passed /\ NextMR
    \/ c.do = "remove" /\ NextMR

\* A merge request whose publication ended, begun with nothing else at work on
\* it, is not in doubt any more.
Answer ==
    /\ Running
    /\ Apply(awaited)
    /\ Return(awaited)
    /\ awaited' = None
    /\ upset' = IF pc \in MRSteps /\ pc' = "mrs" /\ job.clean THEN upset \ {MR} ELSE upset
    /\ UNCHANGED <<api, orphans, hung, doubted>>

------------------------------------------------------------------------------
(* Failures.                                                                *)

Fault == Spare("faults")
Creating(c) == IF c.do = "create" THEN {<<c.mr, c.task>>} ELSE {}

(* A mutant of Retry: one attempt too many. *)
RetryOnceMore ==
    /\ Running /\ awaited.tries <= Attempts
    /\ Fault
    /\ Apply(awaited) \/ UNCHANGED hosting
    /\ awaited' = [awaited EXCEPT !.tries = @ + 1]
    /\ doubted' = doubted \cup Creating(awaited)
    /\ UNCHANGED <<token, cached, store, request, gone, pc, job, orphans, hung, upset>>

\* A connection error or a 5xx: the call is sent again, applied or not.
Retry ==
    /\ Running /\ awaited.tries < Attempts
    /\ Fault
    /\ Apply(awaited) \/ UNCHANGED hosting
    /\ awaited' = [awaited EXCEPT !.tries = @ + 1]
    /\ doubted' = doubted \cup Creating(awaited)
    /\ UNCHANGED <<token, cached, store, request, gone, pc, job, orphans, hung, upset>>

\* A listing that raises ends the course, a check that raises has failed, and
\* anything else ends the merge request.
Raised ==
    \/ pc = "tasks" /\ pc' = "courses" /\ UNCHANGED job
    \/ pc = "checks" /\ UNCHANGED pc /\ Checked(TRUE)
    \/ pc \in MRSteps \ {"checks"} /\ NextMR

\* The last attempt fails, or a call is refused.
Raise ==
    /\ Running
    /\ Fault
    /\ Apply(awaited) \/ UNCHANGED hosting
    /\ Raised
    /\ awaited' = None
    /\ upset' = IF pc \in WriteSteps THEN upset \cup {MR} ELSE upset
    /\ doubted' = doubted \cup Creating(awaited)
    /\ UNCHANGED <<token, cached, store, request, gone, orphans, hung>>

Hang ==
    /\ Running
    /\ Fault
    /\ Apply(awaited) \/ UNCHANGED hosting
    /\ awaited' = [awaited EXCEPT !.hangs = TRUE]
    /\ UNCHANGED <<token, cached, store, request, gone, pc, job, orphans, hung, upset, doubted>>

\* The time limit of a merge request: the call in its thread is not stopped.
GiveUp ==
    /\ pc \in MRSteps
    /\ NextMR
    /\ awaited' = None
    /\ orphans' = IF Running THEN BagAdd(orphans, awaited) ELSE orphans
    /\ hung' = IF awaited # None /\ awaited.hangs THEN hung + 1 ELSE hung
    /\ upset' = IF pc \in WriteSteps THEN upset \cup {MR} ELSE upset
    /\ doubted' = IF awaited # None THEN doubted \cup Creating(awaited) ELSE doubted
    /\ UNCHANGED hosting

Stuck == (awaited = None /\ ~Free) \/ (awaited # None /\ awaited.hangs)

TimeLimit ==
    /\ GiveUp
    /\ \/ Stuck /\ UNCHANGED api
       \/ ~Stuck /\ Fault /\ UNCHANGED <<token, cached, store, request, gone>>

\* A call that was given up is repeated, or ends, applied or not.
OrphanRetries ==
    /\ Fault
    /\ \E c \in BagToSet(orphans) :
         /\ c.tries < Attempts
         /\ Apply(c)
         /\ orphans' = BagAdd(BagRemove(orphans, c), [c EXCEPT !.tries = @ + 1])
    /\ UNCHANGED <<token, cached, store, request, gone, worker, hung, upset, doubted>>

OrphanEnds ==
    \E c \in BagToSet(orphans) :
        /\ orphans' = BagRemove(orphans, c)
        /\ Apply(c) \/ UNCHANGED hosting
        /\ UNCHANGED <<api, worker, hung, upset, doubted>>

\* A listing has no time limit: one that hangs, or finds every thread hanging,
\* holds the loop up for good.
Stale == pc = "tasks" /\ Stuck

\* The process starts again: by itself, or where it is stale by whoever follows
\* /healthz, which finds that no cycle has ended for too long.  Nothing in the
\* repository does the latter: the container's health check only says so, and its
\* restart policy waits for an exit.
Restart ==
    /\ pc' = "sleep" /\ job' = NoJob /\ awaited' = None
    /\ orphans' = EmptyBag /\ hung' = 0
    /\ upset' = IF pc \in WriteSteps THEN upset \cup {MR} ELSE upset
    /\ \/ Stale /\ UNCHANGED api
       \/ ~Stale /\ Fault /\ UNCHANGED <<token, cached, store, request, gone>>
    /\ UNCHANGED hosting \/ (Running /\ Apply(awaited))
    /\ UNCHANGED doubted

------------------------------------------------------------------------------
(* Students and teachers.                                                   *)

Push ==
    /\ Spare("pushes")
    /\ \E m \in MRs :
         /\ version[m] < Len(Failing[m])
         /\ version' = [version EXCEPT ![m] = @ + 1]
    /\ UNCHANGED <<token, cached, store, request, gone, notes, labels, worker,
                   orphans, hung, upset, doubted>>

\* Somebody quotes a summary, with its anchor.
Quote ==
    /\ Spare("quotes")
    /\ \E k \in Tasks : \E m \in ToSet(Labelled[k]), u \in Users \ {Bot} :
         notes' = [notes EXCEPT ![m] = Append(@, Note(k, u, {}))]
    /\ UNCHANGED <<token, cached, store, request, gone, version, labels, worker,
                   orphans, hung, upset, doubted>>

------------------------------------------------------------------------------
Step ==
    \/ StartCycle \/ LoadCourse \/ EndCycle \/ EndCourse \/ ListMRs \/ EndTask \/ StartMR
    \/ RunCheck \/ EndChecklist \/ ListNotes \/ PostOrUpdate \/ AddLabels \/ RemoveLabels
    \/ Answer
    \/ Stuck /\ TimeLimit

SummaryNext ==
    \/ Step
    \/ Retry \/ Raise \/ Hang \/ TimeLimit \/ OrphanRetries \/ OrphanEnds \/ Restart
    \/ Push \/ Quote

Next ==
    \/ SummaryNext
    \/ CoursesNext /\ UNCHANGED <<hosting, worker, orphans, hung, upset, doubted>>

\* The event loop runs the worker, a call that does not hang returns, and a merge
\* request has a time limit.  That a stale process is started again is not assumed.
Fairness == WF_vars(Step) /\ WF_vars(OrphanEnds)

Init == InitCourses /\ InitSummary

Spec == Init /\ [][Next]_vars /\ Fairness

------------------------------------------------------------------------------
(* Properties.                                                              *)

TypeOK ==
    /\ \A c \in Courses : store[c] = None \/ store[c].config \in Configs
    /\ \A m \in MRs : version[m] \in DOMAIN Failing[m] /\ labels[m] \subseteq {Processed, FixIt}
    /\ pc \in {"sleep", "courses", "tasks", "mrs"} \cup MRSteps
    /\ pc \in MRSteps => job.mrs # <<>>
    /\ awaited # None => pc \in {"tasks"} \cup MRSteps /\ awaited.tries \in 1..Attempts
    /\ Cardinality(Threads(orphans)) + hung + (IF awaited = None THEN 0 ELSE 1) \in 0..Workers

Summaries(m, task) == {i \in DOMAIN notes[m] : IsSummary(notes[m][i], task)}

\* A merge request has one summary of a task, unless a creation was repeated
\* after a failure, or given up while its thread went on.
OneSummary ==
    \A m \in MRs, k \in Tasks :
        Cardinality(Summaries(m, k)) > 1 => <<m, k>> \in doubted

\* "A student cannot make the bot edit a forged comment by faking the anchor":
\* what somebody else wrote stays as it is.
OthersNotesStay ==
    [][\A m \in MRs : \A i \in DOMAIN notes[m] :
          notes[m][i].author # Bot => notes'[m][i] = notes[m][i]]_notes

\* "checklist: always applied after a run": a merge request that carries the
\* label has a summary, whatever failed.
LabelledHasSummary ==
    \A m \in MRs :
        Processed \in labels[m] => \E k \in Tasks : Summaries(m, k) # {}

\* Only one task reviews the merge request.
Sole(m, k) == \A j \in Tasks : m \in ToSet(Labelled[j]) <=> j = k

LabelsAgree(m, k) ==
    LET i == Existing(m, k)
    IN labels[m] = IF i = 0 THEN {}
                   ELSE IF notes[m][i].failed = {} THEN {Processed} ELSE {Processed, FixIt}

\* "fix it: applied additionally when at least one step failed; removed when all
\* checks pass": between its turns, the labels of a merge request say what its
\* summary says, unless a publication was cut short and none has been made
\* since with nothing of it left at work.
LabelsSaySummary ==
    \A m \in MRs \ upset, k \in Tasks :
        Sole(m, k) /\ ~(pc \in WriteSteps /\ MR = m) => LabelsAgree(m, k)

\* The summary says what fails at the newest version.
SummaryIsRight(m, k) ==
    LET i == Existing(m, k)
    IN /\ i # 0
       /\ notes[m][i].failed = Failing[m][version[m]] \cap ToSet(Checklist[k])
       /\ LabelsAgree(m, k)

Reviewed(k) == \E c \in Courses : store[c] # None /\ k \in ToSet(store[c].config)

\* Whatever was lost, repeated, overtaken or hung before: once failures and
\* pushes stop, the merge requests of the tasks of stored courses come to show
\* the results of the newest version, and go on to.  A call that hangs on a merge
\* request is overcome by its time limit; one that hangs in a listing is not, and
\* the promise is for processes that do not stay stale.
SummariesConverge ==
    \A m \in MRs, k \in Tasks :
        Sole(m, k) => (<>[]Reviewed(k) /\ []<>~Stale => <>[]SummaryIsRight(m, k))
=============================================================================
