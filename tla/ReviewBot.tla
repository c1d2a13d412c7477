------------------------------- MODULE ReviewBot ------------------------------
(***************************************************************************)
(* The mr-reviewer bot: a loop that polls the stored courses, reviews the  *)
(* open merge requests of their manually reviewed tasks, and reports the   *)
(* scores that course admins wrote in comments to manytask.                *)
(*                                                                         *)
(* Every action is one call the loop awaits; teachers, course uploads, the *)
(* hosting, manytask and Redis move between any two of them.  A call may   *)
(* fail or its answer may be lost, a merge request may run into its time   *)
(* limit, and the process may be restarted: MaxFaults times in a behaviour.*)
(*                                                                         *)
(* Comments are numbered in the order they are posted, so that the least   *)
(* number of a set of comments is the next one in the list.  The hosting   *)
(* lists merge requests in an order of its own.  The checklist and the     *)
(* summary are one step here, which is made or raises.                     *)
(*                                                                         *)
(* A task belongs to one course: tasks of the same name in two courses are *)
(* two members of Tasks, which may be labelled on the same merge requests  *)
(* when the courses share a GitLab group.                                  *)
(***************************************************************************)
EXTENDS Integers, Sequences, FiniteSetsExt

CONSTANTS
    Courses, Tasks, MRs, Students, Users,
    CourseOf,                    \* the course of a task
    Config,                      \* the tasks a course is uploaded with
    Manual,                      \* tasks with manual_review
    Labelled,                    \* the merge requests labelled with a task
    Owner,                       \* the author of a merge request
    Iid,                         \* its number in its project
    NumComments, CommentMR, CommentAuthor,
    CommentScore, NoScore,       \* the score in a comment, if there is one
    Admins,                      \* the admins of a course, in manytask
    Bot,                         \* bot_username
    Broken,                      \* tasks whose listing, and merge requests
                                 \* whose review, raises every time
    Attempts,                    \* manytask_retry_attempts
    Delayed,                     \* a report given up may be applied later
    MaxFaults

VARIABLES
    stored,        \* courses in the CourseStore
    open, posted,  \* open merge requests, and the number of comments, in GitLab
    processed,     \* <<course, comment>> pairs in the ProcessedCommentStore
    score,         \* scores in manytask
    applied,       \* <<comment, task>> pairs manytask has applied
    rejected,      \* <<course, comment>> pairs it has answered with a 4xx
    late,          \* reports the bot gave up that manytask may still apply
    pc, job, wire, \* the loop's step, its local variables, its request
    faults,
    troubled       \* history: <<course, comment>> pairs whose handling
                   \* was disturbed

env  == <<stored, open, posted>>
many == <<score, applied, rejected>>
bot  == <<pc, job, wire>>
vars == <<env, processed, many, late, bot, faults, troubled>>

Comments == 1..NumComments
CommentsOn(m) == {c \in Comments : CommentMR[c] = m}

ASSUME CommentsAssumption ==
    /\ NumComments \in Nat /\ Attempts \in Nat \ {0} /\ MaxFaults \in Nat
    /\ Delayed \in BOOLEAN
    /\ CommentMR \in [Comments -> MRs]
    /\ CommentAuthor \in [Comments -> Users]
    /\ CommentScore \in [Comments -> Nat \cup {NoScore}] /\ NoScore \notin Nat
ASSUME CoursesAssumption ==
    /\ CourseOf \in [Tasks -> Courses]
    /\ Config \in [Courses -> Seq(Tasks)]
    /\ \A n \in Courses : \A i \in DOMAIN Config[n] : CourseOf[Config[n][i]] = n
    /\ Labelled \in [Tasks -> SUBSET MRs] /\ Owner \in [MRs -> Students]
    /\ Admins \in [Courses -> SUBSET Users]

ListSteps    == {"sleep", "cycle", "course", "task"}
CommentSteps == {"admin", "report", "reply", "mark"}
MRSteps      == {"comments", "scan"} \cup CommentSteps

NoJob == [names   |-> {},      \* courses left in this cycle
          tasks   |-> <<>>,    \* tasks left in this course
          mrs     |-> {},      \* merge requests left in this task
          todo    |-> {},      \* comments left in this merge request
          task    |-> {},      \* the current task and merge request, as
          mr      |-> {},      \*   a set of at most one
          attempt |-> 1]

Init ==
    /\ stored = {}
    /\ open = MRs
    /\ posted = 0
    /\ processed = {}
    /\ score = [s \in Students |-> [k \in Tasks |-> 0]]
    /\ applied = {}
    /\ rejected = {}
    /\ late = [c \in Comments |-> [k \in Tasks |-> 0]]
    /\ pc = "sleep"
    /\ job = NoJob
    /\ wire = "none"
    /\ faults = 0
    /\ troubled = {}

-----------------------------------------------------------------------------
(* WorkerLoop: cycles, courses, tasks, merge requests.                     *)

Loop(from, to) == /\ pc = from /\ pc' = to
                  /\ UNCHANGED <<env, processed, many, late, wire>>

(* run_cycle lists the courses, _process_course loads each of them again:  *)
(* one that is gone is skipped.                                            *)
StartCycle ==
    /\ Loop("sleep", "cycle")
    /\ job' = [NoJob EXCEPT !.names = stored]

LoadCourse ==
    \E n \in job.names :
        /\ Loop("cycle", IF n \in stored THEN "course" ELSE "cycle")
        /\ job' = [NoJob EXCEPT
                !.names = job.names \ {n},
                !.tasks = IF n \in stored THEN Config[n] ELSE <<>>]

EndCycle ==
    /\ job.names = {}
    /\ Loop("cycle", "sleep")
    /\ UNCHANGED job

(* A task without manual_review is not scanned. *)
SkipTask ==
    /\ job.tasks # <<>> /\ Head(job.tasks) \notin Manual
    /\ Loop("course", "course")
    /\ job' = [job EXCEPT !.tasks = Tail(@)]

ListMRs ==
    LET k == Head(job.tasks)
    IN  /\ job.tasks # <<>> /\ k \in Manual \ Broken
        /\ Loop("course", "task")
        /\ job' = [job EXCEPT !.tasks = Tail(@), !.task = {k},
                              !.mrs = Labelled[k] \cap open]

(* A listing that raises ends the course; the other courses go on. *)
ListRaises ==
    /\ job.tasks # <<>> /\ Head(job.tasks) \in Manual
    /\ Loop("course", "cycle")
    /\ job' = [NoJob EXCEPT !.names = job.names]

EndCourse ==
    /\ job.tasks = <<>>
    /\ Loop("course", "cycle")
    /\ UNCHANGED job

Review ==
    \E m \in job.mrs \ Broken :
        /\ Loop("task", "comments")
        /\ job' = [job EXCEPT !.mrs = @ \ {m}, !.mr = {m}]

(* A mutant of ReviewRaises: the other merge requests are dropped. *)
ReviewRaisesCourse(m) ==
    /\ Loop("task", "cycle")
    /\ job' = [NoJob EXCEPT !.names = job.names]

(* A merge request whose review raises, or runs into the time limit, is    *)
(* left; the others go on.                                                 *)
ReviewRaises(m) ==
    /\ Loop("task", "task")
    /\ job' = [job EXCEPT !.mrs = @ \ {m}]

EndTask ==
    /\ job.mrs = {}
    /\ Loop("task", "course")
    /\ job' = [job EXCEPT !.task = {}]

-----------------------------------------------------------------------------
(* ScoreProcessor.process: the comments of one merge request, in order.    *)

Current == Min(job.todo)

GetComments ==
    /\ Loop("comments", "scan")
    /\ job' = [job EXCEPT !.todo = {c \in 1..posted : CommentMR[c] \in job.mr}]

IsScore(c) == CommentAuthor[c] # Bot /\ CommentScore[c] # NoScore

(* The mark of a comment, for the course in hand. *)
Marks(c) == {<<CourseOf[k], c>> : k \in job.task}

(* A mutant of Skipped: comments are not looked up in the store. *)
SkippedUnread(c) == ~IsScore(c)

Skipped(c) == ~IsScore(c) \/ Marks(c) \subseteq processed

SkipComment ==
    /\ job.todo # {} /\ Skipped(Current)
    /\ Loop("scan", "scan")
    /\ job' = [job EXCEPT !.todo = @ \ {Current}]

ParseScore ==
    /\ job.todo # {} /\ ~Skipped(Current)
    /\ Loop("scan", "admin")
    /\ UNCHANGED job

EndMR ==
    /\ job.todo = {}
    /\ Loop("scan", "task")
    /\ job' = [job EXCEPT !.mr = {}]

(* A comment of somebody else than an admin is marked without a report. *)
IsAdmin ==
    /\ Loop("admin", IF \E k \in job.task : CommentAuthor[Current] \in Admins[CourseOf[k]]
                      THEN "report" ELSE "mark")
    /\ job' = [job EXCEPT !.attempt = 1]

SendReport ==
    /\ pc = "report" /\ pc' = "reply"
    /\ wire' = "sent"
    /\ UNCHANGED <<env, processed, many, late, job>>

GetReply ==
    /\ pc = "reply" /\ wire \in {"applied", "rejected"}
    /\ pc' = "mark" /\ wire' = "none"
    /\ UNCHANGED <<env, processed, many, late, job>>

Mark ==
    /\ pc = "mark" /\ pc' = "scan"
    /\ processed' = processed \cup Marks(Current)
    /\ job' = [job EXCEPT !.todo = @ \ {Current}]
    /\ UNCHANGED <<env, many, late, wire>>

-----------------------------------------------------------------------------
(* manytask: POST /report with allow_reduction and without deadline check. *)

Apply(c, k) ==
    /\ score' = [score EXCEPT ![Owner[CommentMR[c]]][k] = CommentScore[c]]
    /\ applied' = applied \cup {<<c, k>>}
    /\ UNCHANGED rejected

Serve ==
    /\ wire = "sent"
    /\ \/ /\ \A k \in job.task : Apply(Current, k)
          /\ wire' = "applied"
       \/ /\ rejected' = rejected \cup Marks(Current)
          /\ wire' = "rejected"
          /\ UNCHANGED <<score, applied>>
    /\ UNCHANGED <<env, processed, late, pc, job, faults, troubled>>

(* A report the bot gave up is applied after all. *)
ServeLate ==
    \E c \in Comments, k \in Tasks :
        /\ late[c][k] > 0
        /\ late' = [late EXCEPT ![c][k] = @ - 1]
        /\ Apply(c, k)
        /\ UNCHANGED <<env, processed, bot, faults, troubled>>

-----------------------------------------------------------------------------
(* Faults.                                                                 *)

(* The request on the wire is given up: lost, or still to be applied. *)
GiveUp ==
    /\ wire' = "none"
    /\ \/ UNCHANGED late
       \/ /\ wire = "sent" /\ Delayed
          /\ \E k \in job.task : late' = [late EXCEPT ![Current][k] = @ + 1]

NextComment == pc' = "scan" /\ job' = [job EXCEPT !.todo = @ \ {Current}]

(* A mutant of AdminUnknown: an admin whenever manytask cannot tell. *)
AdminAssumed ==
    /\ pc = "admin" /\ pc' = "report"
    /\ job' = [job EXCEPT !.attempt = 1]
    /\ UNCHANGED <<late, wire>>

(* is_admin unavailable in every attempt, or 403: left for the next cycle. *)
AdminUnknown ==
    /\ pc = "admin"
    /\ NextComment
    /\ UNCHANGED <<late, wire>>

(* A mutant of ReportFails: marked processed after the last attempt. *)
ReportFailsMarking ==
    /\ pc = "reply"
    /\ GiveUp
    /\ IF job.attempt < Attempts
       THEN pc' = "report" /\ job' = [job EXCEPT !.attempt = @ + 1]
       ELSE pc' = "mark" /\ UNCHANGED job

(* Another: one attempt too many. *)
ReportFailsOnceMore ==
    /\ pc = "reply"
    /\ GiveUp
    /\ IF job.attempt <= Attempts
       THEN pc' = "report" /\ job' = [job EXCEPT !.attempt = @ + 1]
       ELSE NextComment

(* A report without an answer, or with a 5xx: sent again, and after the    *)
(* last attempt left for the next cycle.                                   *)
ReportFails ==
    /\ pc = "reply"
    /\ GiveUp
    /\ IF job.attempt < Attempts
       THEN pc' = "report" /\ job' = [job EXCEPT !.attempt = @ + 1]
       ELSE NextComment

(* The course token answered with a 403: never sent again in this cycle. *)
ReportForbidden ==
    /\ pc = "reply" /\ wire = "sent"
    /\ wire' = "none"
    /\ NextComment
    /\ UNCHANGED late

(* The time limit of a merge request, or an exception of its hosting or of *)
(* Redis.                                                                  *)
MRFails ==
    /\ pc \in MRSteps
    /\ GiveUp
    /\ pc' = "task"
    /\ job' = [job EXCEPT !.todo = {}, !.mr = {}]

(* The process restarts, or the cycle crashes. *)
Restart ==
    /\ GiveUp
    /\ pc' = "sleep"
    /\ job' = NoJob

Fault ==
    /\ faults < MaxFaults
    /\ faults' = faults + 1
    /\ \/ ListRaises /\ UNCHANGED troubled
       \/ (\E m \in job.mrs : ReviewRaises(m)) /\ UNCHANGED troubled
       \/ /\ AdminUnknown \/ ReportFails \/ ReportForbidden \/ MRFails \/ Restart
          /\ troubled' = IF pc \in CommentSteps THEN troubled \cup Marks(Current)
                         ELSE troubled
          /\ UNCHANGED <<env, processed, many>>

-----------------------------------------------------------------------------
(* Teachers and students, and the courses API.                             *)

PostComment ==
    /\ posted < NumComments
    /\ posted' = posted + 1
    /\ UNCHANGED <<stored, open, processed, many, late, bot, faults, troubled>>

CloseMR ==
    \E m \in open :
        /\ open' = open \ {m}
        /\ UNCHANGED <<stored, posted, processed, many, late, bot, faults, troubled>>

UpsertCourse ==
    \E n \in Courses :
        /\ stored' = stored \cup {n}
        /\ UNCHANGED <<open, posted, processed, many, late, bot, faults, troubled>>

DeleteCourse ==
    \E n \in stored :
        /\ stored' = stored \ {n}
        /\ UNCHANGED <<open, posted, processed, many, late, bot, faults, troubled>>

(* What is kept under one key: a course's marks of comments on merge       *)
(* requests with one number, in whatever project.                          *)
Key(n, i) == {n} \X {c \in Comments : Iid[CommentMR[c]] = i}

(* 60 days after the last mark under a key all of its marks expire. *)
Expire ==
    \E n \in Courses, m \in MRs :
        /\ processed \cap Key(n, Iid[m]) # {}
        /\ processed' = processed \ Key(n, Iid[m])
        /\ troubled' = troubled \cup Key(n, Iid[m])
        /\ UNCHANGED <<env, many, late, bot, faults>>

Step ==
    /\ \/ StartCycle \/ LoadCourse \/ EndCycle
       \/ SkipTask \/ ListMRs \/ EndCourse \/ Review \/ EndTask
       \/ (job.tasks # <<>> /\ Head(job.tasks) \in Broken /\ ListRaises)
       \/ \E m \in job.mrs \cap Broken : ReviewRaises(m)
       \/ GetComments \/ SkipComment \/ ParseScore \/ EndMR
       \/ IsAdmin \/ SendReport \/ GetReply \/ Mark
    /\ UNCHANGED <<faults, troubled>>

Next == Step \/ Serve \/ ServeLate \/ Fault \/ PostComment \/ CloseMR
        \/ UpsertCourse \/ DeleteCourse \/ Expire

(* The event loop runs the worker and manytask answers; nothing else is    *)
(* sure to happen.                                                         *)
Spec == Init /\ [][Next]_vars /\ WF_vars(Step) /\ WF_vars(Serve)

-----------------------------------------------------------------------------
(* Properties.                                                             *)

TypeOK ==
    /\ stored \subseteq Courses /\ open \subseteq MRs /\ posted \in 0..NumComments
    /\ processed \subseteq Courses \X Comments
    /\ score \in [Students -> [Tasks -> Nat]]
    /\ applied \subseteq Comments \X Tasks /\ rejected \subseteq Courses \X Comments
    /\ late \in [Comments -> [Tasks -> 0..MaxFaults]]
    /\ pc \in ListSteps \cup MRSteps
    /\ pc \in CommentSteps => job.todo # {} /\ job.task # {}
    /\ wire \in {"none", "sent", "applied", "rejected"}
    /\ wire # "none" => pc = "reply"
    /\ job.attempt \in 1..Attempts
    /\ faults \in 0..MaxFaults

(* manytask has applied c to a task of course n, or rejected it there. *)
Reported(n, c) == \E k \in Tasks : CourseOf[k] = n /\ <<c, k>> \in applied
Answered(n, c) == <<n, c>> \in rejected \/ Reported(n, c)

(* "A comment is marked processed only on a terminal outcome": where a     *)
(* comment of an admin is marked for a course, it has reached manytask,    *)
(* which applied it to a task of that course or rejected it there.         *)
ProcessedIsAnswered ==
    \A n \in Courses, c \in Comments :
        <<n, c>> \in processed /\ CommentAuthor[c] \in Admins[n] => Answered(n, c)

(* Every score the bot has set is one an admin of the course (and not the  *)
(* bot itself) wrote on a merge request of that student labelled with that *)
(* task.                                                                   *)
ScoresAreAdmins ==
    \A s \in Students, k \in Tasks :
        score[s][k] # 0 =>
            \E c \in 1..posted :
                /\ CommentScore[c] = score[s][k]
                /\ CommentAuthor[c] \in Admins[CourseOf[k]] \ {Bot}
                /\ Owner[CommentMR[c]] = s
                /\ CommentMR[c] \in Labelled[k]

(* The newest comment on m that manytask has applied to task k. *)
IsNewest(c, m, k) ==
    /\ <<c, k>> \in applied /\ CommentMR[c] = m
    /\ \A d \in CommentsOn(m) : <<d, k>> \in applied => d <= c

(* Only one merge request counts for the task and its author. *)
Sole(m, k) ==
    \A n \in MRs : Owner[n] = Owner[m] /\ n \in Labelled[k] => n = m

(* Comments are processed in the order they were posted: the newest score  *)
(* stands, unless the handling of an older comment of the same merge       *)
(* request was disturbed in that course.                                   *)
NewestScoreStands ==
    \A m \in MRs, k \in Tasks, c \in Comments :
        Sole(m, k) /\ IsNewest(c, m, k) =>
            \/ score[Owner[m]][k] = CommentScore[c]
            \/ \E d \in CommentsOn(m) : d < c /\ <<CourseOf[k], d>> \in troubled

(* At-least-once is exactly-once without failures: a comment is reported   *)
(* for a course again, under whatever task, only when its handling for     *)
(* that course was disturbed.  (Another course that sees the same merge    *)
(* request reports it for itself, once too.)                               *)
RepeatedOnlyAfterTrouble ==
    [][\A c \in Comments, k \in Tasks :
          (pc = "report" /\ pc' = "reply" /\ Current = c /\ k \in job.task
              /\ Reported(CourseOf[k], c))
          => <<CourseOf[k], c>> \in troubled]_vars

(* The tasks and merge requests of which every call succeeds, a course     *)
(* being listed task by task.                                              *)
Reached(n, k, m) ==
    \E i \in DOMAIN Config[n] :
        /\ Config[n][i] = k /\ k \in Manual
        /\ \A j \in 1..i : Config[n][j] \notin Broken \cap Manual
        /\ m \in Labelled[k] \ Broken

(* "Course- and MR-level failures are isolated": every score comment is    *)
(* processed in the end for every course that sees it (a stored course, an *)
(* open merge request), however many other merge requests and courses fail *)
(* in every cycle.                                                         *)
ScoresAreProcessed ==
    \A c \in Comments, n \in Courses, k \in Tasks :
        Reached(n, k, CommentMR[c]) /\ IsScore(c) =>
            (c <= posted ~> \/ <<n, c>> \in processed
                            \/ n \notin stored
                            \/ CommentMR[c] \notin open)

=============================================================================
