--------------------------- MODULE ReviewBotProofs ---------------------------
(***************************************************************************)
(* Proofs about the loop of the mr-reviewer and the scores it reports, for *)
(* every set of courses, tasks, merge requests and comments, and any       *)
(* number of attempts and faults.                                          *)
(***************************************************************************)
EXTENDS ReviewBot, LeastNumbers, TLAPS

(* What the worker has in hand: a task and a merge request labelled with   *)
(* it, and comments that are posted on that.                               *)
Jobs == [names : SUBSET Courses, tasks : Seq(Tasks), mrs : SUBSET MRs, todo : SUBSET Comments,
         task : SUBSET Tasks, mr : SUBSET MRs, attempt : 1..Attempts]

BotData ==
    /\ stored \subseteq Courses /\ open \subseteq MRs /\ posted \in 0..NumComments
    /\ processed \subseteq Courses \X Comments
    /\ score \in [Students -> [Tasks -> Nat]]
    /\ applied \subseteq Comments \X Tasks /\ rejected \subseteq Courses \X Comments
    /\ faults \in 0..MaxFaults
    /\ late \in [Comments -> [Tasks -> 0..MaxFaults]]
    /\ \A c \in Comments, k \in Tasks : late[c][k] <= faults
    /\ pc \in ListSteps \cup MRSteps
    /\ job \in Jobs
    /\ wire \in {"none", "sent", "applied", "rejected"}
    /\ wire # "none" <=> pc = "reply"

InHand ==
    /\ pc \in {"task"} \cup MRSteps => \E k \in Tasks : job.task = {k} /\ job.mrs \subseteq Labelled[k]
    /\ pc \in MRSteps => \E m \in MRs : job.mr = {m} /\ \A k \in job.task : m \in Labelled[k]
    /\ \A c \in job.todo : c \in 1..posted /\ CommentMR[c] \in job.mr
    /\ job.todo # {} => pc \in {"scan"} \cup CommentSteps

(* The comment being handled is a score of somebody else than the bot,     *)
(* which is not marked for the course in hand yet, and is reported only    *)
(* for an admin of that.                                                   *)
Handled ==
    /\ pc \in CommentSteps => job.todo # {} /\ IsScore(Current)
    /\ pc \in CommentSteps \ {"mark"} => \A k \in job.task : <<CourseOf[k], Current>> \notin processed
    /\ pc \in {"report", "reply"} => \A k \in job.task : CommentAuthor[Current] \in Admins[CourseOf[k]]

AtWork == BotData /\ InHand /\ Handled

LEMMA MinIs ==
  ASSUME NEW S, S \subseteq Nat, S # {}
  PROVE  Min(S) \in S /\ \A x \in S : Min(S) <= x
BY LeastNatural DEF Min

LEMMA CurrentIs ==
  ASSUME BotData, job.todo # {}
  PROVE  /\ Current \in job.todo /\ Current \in Comments
         /\ \A c \in job.todo : Current <= c
<1>1. job.todo \subseteq Comments /\ job.todo \subseteq Nat
  BY CommentsAssumption DEF BotData, Jobs, Comments
<1> QED  BY <1>1, MinIs DEF Current

LEMMA MarksAre ==
  ASSUME AtWork, pc \in MRSteps
  PROVE  \E k \in Tasks : /\ job.task = {k} /\ CourseOf[k] \in Courses
                         /\ \A c : Marks(c) = {<<CourseOf[k], c>>}
<1>1. PICK k \in Tasks : job.task = {k}
  BY DEF AtWork, InHand
<1> QED  BY <1>1, CoursesAssumption DEF Marks

LEMMA JobWith ==
  ASSUME NEW j \in Jobs
  PROVE  /\ \A x \in SUBSET Courses : [j EXCEPT !.names = x] \in Jobs
         /\ \A x \in Seq(Tasks) : [j EXCEPT !.tasks = x] \in Jobs
         /\ \A x \in SUBSET MRs : [j EXCEPT !.mrs = x] \in Jobs
         /\ \A x \in SUBSET Comments : [j EXCEPT !.todo = x] \in Jobs
         /\ \A x \in SUBSET Tasks : [j EXCEPT !.task = x] \in Jobs
         /\ \A x \in SUBSET MRs : [j EXCEPT !.mr = x] \in Jobs
         /\ \A x \in 1..Attempts : [j EXCEPT !.attempt = x] \in Jobs
<1>1. \A x \in SUBSET Courses : [j EXCEPT !.names = x] \in Jobs
  BY DEF Jobs
<1>2. \A x \in Seq(Tasks) : [j EXCEPT !.tasks = x] \in Jobs
  BY DEF Jobs
<1>3. \A x \in SUBSET MRs : [j EXCEPT !.mrs = x] \in Jobs
  BY DEF Jobs
<1>4. \A x \in SUBSET Comments : [j EXCEPT !.todo = x] \in Jobs
  BY DEF Jobs
<1>5. \A x \in SUBSET Tasks : [j EXCEPT !.task = x] \in Jobs
  BY DEF Jobs
<1>6. \A x \in SUBSET MRs : [j EXCEPT !.mr = x] \in Jobs
  BY DEF Jobs
<1>7. \A x \in 1..Attempts : [j EXCEPT !.attempt = x] \in Jobs
  BY DEF Jobs
<1> QED  BY <1>1, <1>2, <1>3, <1>4, <1>5, <1>6, <1>7

LEMMA NoJobIs ==
  /\ NoJob \in Jobs /\ NoJob.todo = {}
  /\ \A x \in SUBSET Courses : [NoJob EXCEPT !.names = x] \in Jobs /\ [NoJob EXCEPT !.names = x].todo = {}
<1>1. 1 \in 1..Attempts
  BY CommentsAssumption
<1>2. NoJob \in Jobs /\ NoJob.todo = {}
  BY <1>1 DEF NoJob, Jobs
<1>3. \A x \in SUBSET Courses : [NoJob EXCEPT !.names = x] \in Jobs
  BY <1>2, JobWith
<1>4. \A x : [NoJob EXCEPT !.names = x].todo = {}
  BY <1>2 DEF NoJob
<1> QED  BY <1>2, <1>3, <1>4

(* What the worker's variables say is all that its steps change.           *)
LEMMA WorkerSteps ==
  ASSUME AtWork, UNCHANGED <<env, processed, many, late>>,
         faults' \in 0..MaxFaults, faults' >= faults,
         pc' \in ListSteps \cup MRSteps, job' \in Jobs,
         wire' \in {"none", "sent", "applied", "rejected"}, wire' # "none" <=> pc' = "reply"
  PROVE  BotData'
<1>1. \A c \in Comments, k \in Tasks : late[c][k] \in Int /\ late[c][k] <= faults
  BY DEF AtWork, BotData
<1>2. \A c \in Comments, k \in Tasks : late[c][k] <= faults'
  BY <1>1, CommentsAssumption DEF AtWork, BotData
<1> QED  BY <1>2 DEF AtWork, BotData, env, many

------------------------------------------------------------------------------
(* The loop over courses, tasks and merge requests.                        *)

LEMMA CycleWork ==
  ASSUME AtWork, UNCHANGED faults,
         StartCycle \/ LoadCourse \/ EndCycle \/ SkipTask \/ EndCourse
  PROVE  AtWork'
<1>1. /\ UNCHANGED <<env, processed, many, late, wire>>
      /\ pc \notin MRSteps /\ pc' \in {"sleep", "cycle", "course"}
  BY DEF StartCycle, LoadCourse, EndCycle, SkipTask, EndCourse, Loop, MRSteps, CommentSteps
<1>2. job \in Jobs /\ wire = "none" /\ job.todo = {} /\ job.names \in SUBSET Courses
  BY <1>1 DEF AtWork, BotData, InHand, Jobs, MRSteps, CommentSteps
<1>3. job' \in Jobs /\ job'.todo = {}
  <2>1. CASE StartCycle
    BY <2>1, NoJobIs DEF StartCycle, AtWork, BotData
  <2>2. CASE LoadCourse
    <3>1. PICK n \in job.names :
            job' = [NoJob EXCEPT !.names = job.names \ {n},
                                 !.tasks = IF n \in stored THEN Config[n] ELSE <<>>]
      BY <2>2 DEF LoadCourse
    <3>2. [NoJob EXCEPT !.names = job.names \ {n}] \in Jobs
      BY <1>2, NoJobIs
    <3>3. (IF n \in stored THEN Config[n] ELSE <<>>) \in Seq(Tasks)
      BY CoursesAssumption DEF AtWork, BotData
    <3>4. job' \in Jobs
      BY <3>1, <3>2, <3>3, JobWith
    <3>5. job'.todo = {}
      BY <3>1, NoJobIs DEF Jobs, NoJob
    <3> QED  BY <3>4, <3>5
  <2>3. CASE EndCycle \/ EndCourse
    BY <1>2, <2>3 DEF EndCycle, EndCourse
  <2>4. CASE SkipTask
    <3>1. job' = [job EXCEPT !.tasks = Tail(job.tasks)] /\ Tail(job.tasks) \in Seq(Tasks)
      BY <1>2, <2>4 DEF SkipTask, Jobs
    <3>2. job' \in Jobs
      BY <1>2, <3>1, JobWith
    <3> QED  BY <1>2, <3>1, <3>2 DEF Jobs
  <2> QED  BY <2>1, <2>2, <2>3, <2>4
<1>4. BotData'
  <2>1. faults' \in 0..MaxFaults /\ faults' >= faults
    BY CommentsAssumption DEF AtWork, BotData
  <2> QED  BY <1>1, <1>2, <1>3, <2>1, WorkerSteps DEF ListSteps
<1>5. InHand' /\ Handled'
  BY <1>1, <1>3 DEF InHand, Handled, MRSteps, CommentSteps
<1> QED  BY <1>4, <1>5 DEF AtWork

LEMMA TaskWork ==
  ASSUME AtWork, UNCHANGED faults,
         ListMRs \/ Review \/ EndTask \/ EndMR
  PROVE  AtWork'
<1>1. /\ UNCHANGED <<env, processed, many, late, wire>>
      /\ pc \in {"course", "task", "scan"} /\ pc' \in {"task", "comments", "course"}
  BY DEF ListMRs, Review, EndTask, EndMR, Loop
<1>2. job \in Jobs /\ wire = "none"
  BY <1>1 DEF AtWork, BotData
<1>3. job.todo = {}
  BY <1>1 DEF ListMRs, Review, EndTask, EndMR, Loop, AtWork, InHand, CommentSteps
<1>4. faults' \in 0..MaxFaults /\ faults' >= faults
  BY CommentsAssumption DEF AtWork, BotData
<1>5. ASSUME job' \in Jobs, job'.todo = {}, InHand' PROVE AtWork'
  <2>1. BotData'
    BY <1>1, <1>2, <1>4, <1>5, WorkerSteps DEF ListSteps, MRSteps
  <2>2. Handled'
    BY <1>1 DEF Handled, CommentSteps
  <2> QED  BY <1>5, <2>1, <2>2 DEF AtWork
<1>6. CASE ListMRs
  <2> DEFINE k == Head(job.tasks)
  <2>1. /\ k \in Tasks /\ Tail(job.tasks) \in Seq(Tasks) /\ {k} \in SUBSET Tasks
        /\ Labelled[k] \cap open \in SUBSET MRs /\ pc' = "task"
    BY <1>2, <1>6, CoursesAssumption DEF ListMRs, Jobs, Loop
  <2>2. job' = [job EXCEPT !.tasks = Tail(job.tasks), !.task = {k}, !.mrs = Labelled[k] \cap open]
    BY <1>6 DEF ListMRs
  <2> HIDE DEF k
  <2>3. [job EXCEPT !.tasks = Tail(job.tasks)] \in Jobs
    BY <1>2, <2>1, JobWith
  <2>4. [job EXCEPT !.tasks = Tail(job.tasks), !.task = {k}] \in Jobs
    BY <2>1, <2>3, JobWith
  <2>5. job' \in Jobs
    BY <2>1, <2>2, <2>4, JobWith
  <2>6. job'.todo = {} /\ job'.task = {k} /\ job'.mrs \subseteq Labelled[k]
    BY <1>2, <1>3, <2>2 DEF Jobs
  <2>7. InHand'
    BY <2>1, <2>6 DEF InHand, MRSteps, CommentSteps
  <2> QED  BY <1>5, <2>5, <2>6, <2>7
<1>7. CASE Review
  <2>1. PICK m \in job.mrs \ Broken : job' = [job EXCEPT !.mrs = job.mrs \ {m}, !.mr = {m}]
    BY <1>7 DEF Review
  <2>2. pc = "task" /\ pc' = "comments"
    BY <1>7 DEF Review, Loop
  <2>3. PICK k \in Tasks : job.task = {k} /\ job.mrs \subseteq Labelled[k]
    BY <2>2 DEF AtWork, InHand
  <2>4. m \in MRs /\ job.mrs \ {m} \in SUBSET MRs /\ m \in Labelled[k]
    BY <1>2, <2>1, <2>3 DEF Jobs
  <2>5. [job EXCEPT !.mrs = job.mrs \ {m}] \in Jobs
    BY <1>2, <2>4, JobWith
  <2>6. job' \in Jobs
    BY <2>1, <2>4, <2>5, JobWith
  <2>7. job'.todo = {} /\ job'.task = {k} /\ job'.mr = {m} /\ job'.mrs \subseteq Labelled[k]
    BY <1>2, <1>3, <2>1, <2>3 DEF Jobs
  <2>8. InHand'
    BY <2>2, <2>4, <2>7 DEF InHand
  <2> QED  BY <1>5, <2>6, <2>7, <2>8
<1>8. CASE EndTask
  <2>1. pc' = "course" /\ job' = [job EXCEPT !.task = {}]
    BY <1>8 DEF EndTask, Loop
  <2>2. job' \in Jobs /\ job'.todo = {}
    <3>1. {} \in SUBSET Tasks
      OBVIOUS
    <3> QED  BY <1>2, <1>3, <2>1, <3>1, JobWith DEF Jobs
  <2>3. InHand'
    BY <2>1, <2>2 DEF InHand, MRSteps, CommentSteps
  <2> QED  BY <1>5, <2>2, <2>3
<1>9. CASE EndMR
  <2>1. pc = "scan" /\ pc' = "task" /\ job' = [job EXCEPT !.mr = {}]
    BY <1>9 DEF EndMR, Loop
  <2>2. PICK k \in Tasks : job.task = {k} /\ job.mrs \subseteq Labelled[k]
    BY <2>1 DEF AtWork, InHand, MRSteps
  <2>3. job' \in Jobs
    <3>1. {} \in SUBSET MRs
      OBVIOUS
    <3> QED  BY <1>2, <2>1, <3>1, JobWith
  <2>4. job'.todo = {} /\ job'.task = {k} /\ job'.mrs \subseteq Labelled[k]
    BY <1>2, <1>3, <2>1, <2>2 DEF Jobs
  <2>5. InHand'
    BY <2>1, <2>4 DEF InHand, MRSteps, CommentSteps
  <2> QED  BY <1>5, <2>3, <2>4, <2>5
<1> QED  BY <1>6, <1>7, <1>8, <1>9

(* A listing or a review that raises, every time or by a fault. *)
LEMMA RaiseWork ==
  ASSUME AtWork, faults' \in 0..MaxFaults, faults' >= faults,
         ListRaises \/ \E m \in job.mrs : ReviewRaises(m)
  PROVE  AtWork'
<1>1. /\ UNCHANGED <<env, processed, many, late, wire>>
      /\ pc \in {"course", "task"} /\ pc' \in {"cycle", "task"}
  BY DEF ListRaises, ReviewRaises, Loop
<1>2. job \in Jobs /\ wire = "none" /\ job.todo = {}
  BY <1>1 DEF AtWork, BotData, InHand, CommentSteps
<1>3. job' \in Jobs /\ job'.todo = {} /\ InHand'
  <2>1. CASE ListRaises
    <3>1. pc' = "cycle" /\ job' = [NoJob EXCEPT !.names = job.names] /\ job.names \in SUBSET Courses
      BY <1>2, <2>1 DEF ListRaises, Loop, Jobs
    <3>2. job' \in Jobs /\ job'.todo = {}
      BY <3>1, NoJobIs
    <3> QED  BY <3>1, <3>2 DEF InHand, MRSteps, CommentSteps
  <2>2. CASE \E m \in job.mrs : ReviewRaises(m)
    <3>1. PICK m \in job.mrs : ReviewRaises(m)
      BY <2>2
    <3>2. pc = "task" /\ pc' = "task" /\ job' = [job EXCEPT !.mrs = job.mrs \ {m}]
      BY <3>1 DEF ReviewRaises, Loop
    <3>3. PICK k \in Tasks : job.task = {k} /\ job.mrs \subseteq Labelled[k]
      BY <3>2 DEF AtWork, InHand
    <3>4. job.mrs \ {m} \in SUBSET MRs
      BY <1>2 DEF Jobs
    <3>5. job' \in Jobs
      BY <1>2, <3>2, <3>4, JobWith
    <3>6. job'.todo = {} /\ job'.task = {k} /\ job'.mrs \subseteq Labelled[k]
      BY <1>2, <3>2, <3>3 DEF Jobs
    <3> QED  BY <3>2, <3>5, <3>6 DEF InHand, MRSteps, CommentSteps
  <2> QED  BY <2>1, <2>2
<1>4. BotData'
  BY <1>1, <1>2, <1>3, WorkerSteps DEF ListSteps, MRSteps
<1>5. Handled'
  BY <1>1 DEF Handled, CommentSteps
<1> QED  BY <1>3, <1>4, <1>5 DEF AtWork

------------------------------------------------------------------------------
(* The comments of a merge request.                                        *)

(* A merge request in hand is handled on while the task and it stay.       *)
LEMMA StillInHand ==
  ASSUME AtWork, pc \in MRSteps, posted' = posted,
         job'.task = job.task, job'.mr = job.mr, job'.mrs = job.mrs,
         job'.todo \subseteq job.todo, job'.todo # {} => pc' \in {"scan"} \cup CommentSteps
  PROVE  InHand'
BY DEF AtWork, InHand

LEMMA ScanWork ==
  ASSUME AtWork, UNCHANGED faults,
         GetComments \/ SkipComment \/ ParseScore
  PROVE  AtWork'
<1>1. /\ UNCHANGED <<env, processed, many, late, wire>>
      /\ pc \in {"comments", "scan"} /\ pc' \in {"scan", "admin"} /\ pc \in MRSteps
  BY DEF GetComments, SkipComment, ParseScore, Loop, MRSteps
<1>2. job \in Jobs /\ wire = "none" /\ stored' = stored /\ open' = open /\ posted' = posted
  BY <1>1 DEF AtWork, BotData, env
<1>3. faults' \in 0..MaxFaults /\ faults' >= faults
  BY CommentsAssumption DEF AtWork, BotData
<1>4. ASSUME job' \in Jobs, InHand', Handled' PROVE AtWork'
  <2>1. BotData'
    BY <1>1, <1>2, <1>3, <1>4, WorkerSteps DEF MRSteps, CommentSteps
  <2> QED  BY <1>4, <2>1 DEF AtWork
<1>5. CASE GetComments
  <2> DEFINE got == {c \in 1..posted : CommentMR[c] \in job.mr}
  <2>1. pc' = "scan" /\ job' = [job EXCEPT !.todo = got]
    BY <1>5 DEF GetComments, Loop
  <2>2. got \in SUBSET Comments
    BY CommentsAssumption DEF AtWork, BotData, Comments
  <2>3. \A c \in got : c \in 1..posted /\ CommentMR[c] \in job.mr
    OBVIOUS
  <2> HIDE DEF got
  <2>4. job' \in Jobs
    BY <1>2, <2>1, <2>2, JobWith
  <2>5. job'.task = job.task /\ job'.mr = job.mr /\ job'.mrs = job.mrs /\ job'.todo = got
    BY <1>2, <2>1 DEF Jobs
  <2>6. InHand'
    BY <1>1, <1>2, <2>1, <2>3, <2>5 DEF AtWork, InHand
  <2>7. Handled'
    BY <2>1 DEF Handled, CommentSteps
  <2> QED  BY <1>4, <2>4, <2>6, <2>7
<1>6. CASE SkipComment
  <2>1. pc' = "scan" /\ job' = [job EXCEPT !.todo = job.todo \ {Current}]
    BY <1>6 DEF SkipComment, Loop
  <2>2. job.todo \ {Current} \in SUBSET Comments
    BY <1>2 DEF Jobs
  <2>3. job' \in Jobs
    BY <1>2, <2>1, <2>2, JobWith
  <2>4. job'.task = job.task /\ job'.mr = job.mr /\ job'.mrs = job.mrs /\ job'.todo \subseteq job.todo
    BY <1>2, <2>1 DEF Jobs
  <2>5. InHand'
    BY <1>1, <1>2, <2>1, <2>4, StillInHand
  <2>6. Handled'
    BY <2>1 DEF Handled, CommentSteps
  <2> QED  BY <1>4, <2>3, <2>5, <2>6
<1>7. CASE ParseScore
  <2>1. pc' = "admin" /\ job' = job /\ job.todo # {} /\ ~Skipped(Current)
    BY <1>7 DEF ParseScore, Loop
  <2>2. Current' = Current /\ processed' = processed
    BY <1>1, <2>1 DEF Current
  <2>3. InHand'
    BY <1>1, <1>2, <2>1, StillInHand DEF CommentSteps
  <2>4. IsScore(Current) /\ ~(Marks(Current) \subseteq processed)
    BY <2>1 DEF Skipped
  <2>5. \A k \in job.task : <<CourseOf[k], Current>> \notin processed
    BY <1>1, <2>4, MarksAre
  <2>6. Handled'
    BY <2>1, <2>2, <2>4, <2>5 DEF Handled, IsScore
  <2> QED  BY <1>2, <1>4, <2>1, <2>3, <2>6
<1> QED  BY <1>5, <1>6, <1>7

(* The comment in hand is kept while it is asked about and reported.       *)
LEMMA SameComment ==
  ASSUME AtWork, pc \in CommentSteps, posted' = posted, pc' \in CommentSteps,
         job'.task = job.task, job'.mr = job.mr, job'.mrs = job.mrs, job'.todo = job.todo
  PROVE  InHand' /\ Current' = Current
BY StillInHand DEF MRSteps, Current

LEMMA CommentWork ==
  ASSUME AtWork, UNCHANGED faults,
         IsAdmin \/ SendReport \/ GetReply
  PROVE  AtWork'
<1>1. /\ UNCHANGED <<env, processed, many, late>>
      /\ pc \in {"admin", "report", "reply"} /\ pc' \in {"report", "reply", "mark"}
      /\ wire' \in {"none", "sent"} /\ (wire' # "none" <=> pc' = "reply")
  BY DEF IsAdmin, SendReport, GetReply, Loop, AtWork, BotData
<1>2. job \in Jobs /\ posted' = posted /\ pc \in CommentSteps /\ pc' \in CommentSteps
  BY <1>1 DEF AtWork, BotData, env, CommentSteps
<1>3. job' \in Jobs /\ job'.task = job.task /\ job'.mr = job.mr /\ job'.mrs = job.mrs /\ job'.todo = job.todo
  <2>1. CASE IsAdmin
    <3>1. job' = [job EXCEPT !.attempt = 1] /\ 1 \in 1..Attempts
      BY <2>1, CommentsAssumption DEF IsAdmin
    <3>2. job' \in Jobs
      BY <1>2, <3>1, JobWith
    <3> QED  BY <1>2, <3>1, <3>2 DEF Jobs
  <2>2. CASE SendReport \/ GetReply
    BY <1>2, <2>2 DEF SendReport, GetReply
  <2> QED  BY <2>1, <2>2
<1>4. InHand' /\ Current' = Current
  BY <1>2, <1>3, SameComment
<1>5. BotData'
  <2>1. faults' \in 0..MaxFaults /\ faults' >= faults
    BY CommentsAssumption DEF AtWork, BotData
  <2> QED  BY <1>1, <1>2, <1>3, <2>1, WorkerSteps DEF MRSteps
<1>6. IsScore(Current)' /\ (pc # "mark" => \A k \in job'.task : <<CourseOf[k], Current'>> \notin processed')
  BY <1>1, <1>2, <1>3, <1>4 DEF AtWork, Handled, IsScore, CommentSteps
<1>7. pc' \in {"report", "reply"} => \A k \in job'.task : CommentAuthor[Current'] \in Admins[CourseOf[k]]
  <2>1. CASE IsAdmin
    <3>1. pc \in MRSteps
      BY <1>2 DEF MRSteps
    <3> QED  BY <1>3, <1>4, <2>1, <3>1, MarksAre DEF IsAdmin, Loop
  <2>2. CASE SendReport \/ GetReply
    BY <1>3, <1>4, <2>2 DEF SendReport, GetReply, AtWork, Handled
  <2> QED  BY <2>1, <2>2
<1>8. Handled'
  BY <1>1, <1>2, <1>3, <1>6, <1>7 DEF Handled, AtWork
<1> QED  BY <1>4, <1>5, <1>8 DEF AtWork

LEMMA MarkWork ==
  ASSUME AtWork, Mark, UNCHANGED faults
  PROVE  AtWork'
<1>1. /\ pc = "mark" /\ pc' = "scan" /\ UNCHANGED <<env, many, late, wire>>
      /\ job' = [job EXCEPT !.todo = job.todo \ {Current}]
      /\ processed' = processed \cup Marks(Current)
  BY DEF Mark
<1>2. job.todo # {} /\ job \in Jobs /\ wire = "none" /\ pc \in MRSteps
  BY <1>1 DEF AtWork, BotData, Handled, CommentSteps, MRSteps
<1>3. Current \in Comments /\ job.todo \ {Current} \in SUBSET Comments
  BY <1>2, CurrentIs DEF AtWork, Jobs
<1>4. job' \in Jobs
  BY <1>1, <1>2, <1>3, JobWith
<1>5. job'.task = job.task /\ job'.mr = job.mr /\ job'.mrs = job.mrs /\ job'.todo \subseteq job.todo
  BY <1>1, <1>2 DEF Jobs
<1>6. BotData'
  <2>1. Marks(Current) \subseteq Courses \X Comments
    BY <1>2, <1>3, MarksAre
  <2> QED  BY <1>1, <1>2, <1>4, <2>1 DEF AtWork, BotData, env, many, MRSteps
<1>7. InHand'
  BY <1>1, <1>2, <1>5, StillInHand DEF env
<1>8. Handled'
  BY <1>1 DEF Handled, CommentSteps
<1> QED  BY <1>6, <1>7, <1>8 DEF AtWork

------------------------------------------------------------------------------
(* manytask's side.                                                        *)

(* A comment that is rightly reported for a task. *)
Reportable(c, k) ==
    /\ c \in 1..posted /\ CommentScore[c] # NoScore
    /\ CommentAuthor[c] \in Admins[CourseOf[k]] \ {Bot} /\ CommentMR[c] \in Labelled[k]

(* Reports the bot gave up are still right. *)
Pending == \A c \in Comments, k \in Tasks : late[c][k] > 0 => Reportable(c, k)

LEMMA ReportedIs ==
  ASSUME AtWork, pc \in {"report", "reply"}
  PROVE  /\ Current \in Comments /\ job.todo # {}
         /\ \E k \in Tasks : job.task = {k} /\ Reportable(Current, k)
<1>1. pc \in CommentSteps /\ pc \in MRSteps
  BY DEF CommentSteps, MRSteps
<1>2. Current \in job.todo /\ Current \in Comments
  BY <1>1, CurrentIs DEF AtWork, Handled
<1>3. PICK k \in Tasks : job.task = {k}
  BY <1>1 DEF AtWork, InHand
<1>4. Current \in 1..posted /\ CommentMR[Current] \in Labelled[k]
  BY <1>1, <1>2, <1>3 DEF AtWork, InHand
<1> QED  BY <1>1, <1>2, <1>3, <1>4 DEF AtWork, Handled, IsScore, Reportable

LEMMA ScoreWith ==
  ASSUME NEW f \in [Students -> [Tasks -> Nat]], NEW s \in Students, NEW k \in Tasks, NEW x \in Nat,
         NEW t \in Students, NEW l \in Tasks
  PROVE  /\ [f EXCEPT ![s][k] = x] \in [Students -> [Tasks -> Nat]]
         /\ [f EXCEPT ![s][k] = x][t][l] = IF t = s /\ l = k THEN x ELSE f[t][l]
OBVIOUS

LEMMA Applied ==
  ASSUME AtWork, NEW c \in Comments, NEW k \in Tasks, Apply(c, k), Reportable(c, k)
  PROVE  /\ score' \in [Students -> [Tasks -> Nat]]
         /\ applied' = applied \cup {<<c, k>>} /\ applied' \subseteq Comments \X Tasks
         /\ rejected' = rejected
         /\ \A s \in Students, l \in Tasks :
              score'[s][l] = IF s = Owner[CommentMR[c]] /\ l = k THEN CommentScore[c] ELSE score[s][l]
<1>1. Owner[CommentMR[c]] \in Students /\ CommentScore[c] \in Nat
  BY CommentsAssumption, CoursesAssumption DEF Reportable
<1>2. score \in [Students -> [Tasks -> Nat]] /\ applied \subseteq Comments \X Tasks
  BY DEF AtWork, BotData
<1>3. score' = [score EXCEPT ![Owner[CommentMR[c]]][k] = CommentScore[c]]
      /\ applied' = applied \cup {<<c, k>>} /\ rejected' = rejected
  BY DEF Apply
<1>4. \A s \in Students, l \in Tasks :
         /\ score' \in [Students -> [Tasks -> Nat]]
         /\ score'[s][l] = IF s = Owner[CommentMR[c]] /\ l = k THEN CommentScore[c] ELSE score[s][l]
  BY <1>1, <1>2, <1>3, ScoreWith
<1> QED  BY <1>1, <1>2, <1>3, <1>4

LEMMA ServeWork ==
  ASSUME AtWork, Serve
  PROVE  AtWork'
<1>1. /\ UNCHANGED <<env, processed, late, pc, job, faults, troubled>>
      /\ wire = "sent" /\ wire' \in {"applied", "rejected"}
  BY DEF Serve
<1>2. pc = "reply" /\ Current \in Comments
  BY <1>1, ReportedIs DEF AtWork, BotData
<1>3. PICK k \in Tasks : job.task = {k} /\ Reportable(Current, k)
  BY <1>2, ReportedIs
<1>4. /\ score' \in [Students -> [Tasks -> Nat]]
      /\ applied' \subseteq Comments \X Tasks /\ rejected' \subseteq Courses \X Comments
  <2>1. CASE Apply(Current, k)
    BY <1>2, <1>3, <2>1, Applied DEF AtWork, BotData
  <2>2. CASE rejected' = rejected \cup Marks(Current) /\ UNCHANGED <<score, applied>>
    <3>1. Marks(Current) \subseteq Courses \X Comments
      BY <1>2, MarksAre DEF MRSteps, CommentSteps
    <3> QED  BY <2>2, <3>1 DEF AtWork, BotData
  <2> QED  BY <1>3, <2>1, <2>2 DEF Serve
<1>5. BotData'
  BY <1>1, <1>2, <1>4 DEF AtWork, BotData, env
<1>6. InHand' /\ Handled'
  <2>1. Current' = Current
    BY <1>1 DEF Current
  <2> QED  BY <1>1, <2>1 DEF AtWork, InHand, Handled, env
<1> QED  BY <1>5, <1>6 DEF AtWork

LEMMA ServeLateWork ==
  ASSUME AtWork, Pending, ServeLate
  PROVE  AtWork'
<1>1. PICK c \in Comments, k \in Tasks :
        /\ late[c][k] > 0 /\ late' = [late EXCEPT ![c][k] = late[c][k] - 1]
        /\ Apply(c, k) /\ UNCHANGED <<env, processed, bot, faults, troubled>>
  BY DEF ServeLate
<1>2. Reportable(c, k)
  BY <1>1 DEF Pending
<1>3. /\ score' \in [Students -> [Tasks -> Nat]]
      /\ applied' \subseteq Comments \X Tasks /\ rejected' = rejected
  BY <1>1, <1>2, Applied
<1>4. late' \in [Comments -> [Tasks -> 0..MaxFaults]]
      /\ \A d \in Comments, l \in Tasks : late'[d][l] <= faults
  <2>1. late[c][k] - 1 \in 0..MaxFaults /\ late[c][k] - 1 <= faults
    BY <1>1, CommentsAssumption DEF AtWork, BotData
  <2>2. late \in [Comments -> [Tasks -> 0..MaxFaults]] /\ \A d \in Comments, l \in Tasks : late[d][l] <= faults
    BY DEF AtWork, BotData
  <2> QED  BY <1>1, <2>1, <2>2
<1>5. BotData'
  BY <1>1, <1>3, <1>4 DEF AtWork, BotData, env, bot
<1>6. InHand' /\ Handled'
  <2>1. Current' = Current
    BY <1>1 DEF Current, bot
  <2> QED  BY <1>1, <2>1 DEF AtWork, InHand, Handled, env, bot
<1> QED  BY <1>5, <1>6 DEF AtWork

------------------------------------------------------------------------------
(* Faults, and everybody else.                                             *)

(* A call that is given up leaves at most a right report behind.           *)
LEMMA GivenUp ==
  ASSUME AtWork, Pending, posted' = posted, faults < MaxFaults, faults' = faults + 1,
         UNCHANGED late \/ GiveUp
  PROVE  /\ late' \in [Comments -> [Tasks -> 0..MaxFaults]]
         /\ \A c \in Comments, k \in Tasks : late'[c][k] <= faults'
         /\ Pending'
<1>1. late \in [Comments -> [Tasks -> 0..MaxFaults]] /\ \A c \in Comments, k \in Tasks : late[c][k] <= faults
      /\ faults \in 0..MaxFaults /\ faults \in Int
  BY CommentsAssumption DEF AtWork, BotData
<1>2. \A c \in Comments, k \in Tasks : late[c][k] \in Int /\ late[c][k] + 1 <= faults'
  BY <1>1, CommentsAssumption
<1>3. CASE UNCHANGED late
  BY <1>1, <1>2, <1>3 DEF Pending, Reportable
<1>4. CASE wire = "sent" /\ \E k \in job.task : late' = [late EXCEPT ![Current][k] = late[Current][k] + 1]
  <2>1. pc = "reply"
    BY <1>4 DEF AtWork, BotData
  <2>2. PICK k \in Tasks : job.task = {k} /\ Reportable(Current, k)
    BY <2>1, ReportedIs
  <2>3. Current \in Comments
    BY <2>1, ReportedIs
  <2>4. late' = [late EXCEPT ![Current][k] = late[Current][k] + 1]
    BY <1>4, <2>2
  <2>5. late[Current][k] + 1 \in 0..MaxFaults /\ late[Current][k] + 1 <= faults'
    BY <1>1, <1>2, <2>2, <2>3, CommentsAssumption
  <2>6. \A c \in Comments, l \in Tasks : late'[c][l] = late[c][l] \/ (c = Current /\ l = k)
    BY <1>1, <2>4
  <2>7. Pending'
    BY <2>2, <2>6 DEF Pending, Reportable
  <2> QED  BY <1>1, <1>2, <2>3, <2>4, <2>5, <2>7
<1> QED  BY <1>3, <1>4 DEF GiveUp

LEMMA FaultWork ==
  ASSUME AtWork, Pending, UNCHANGED <<env, processed, many>>, faults < MaxFaults, faults' = faults + 1,
         AdminUnknown \/ ReportFails \/ ReportForbidden \/ MRFails \/ Restart
  PROVE  AtWork' /\ Pending'
<1>1. UNCHANGED late \/ GiveUp
  BY DEF AdminUnknown, ReportFails, ReportForbidden, MRFails, Restart
<1>2. /\ late' \in [Comments -> [Tasks -> 0..MaxFaults]]
      /\ \A c \in Comments, k \in Tasks : late'[c][k] <= faults'
      /\ Pending'
  BY <1>1, GivenUp DEF env
<1>3. job \in Jobs /\ posted' = posted /\ processed' = processed /\ faults' \in 0..MaxFaults
  BY CommentsAssumption DEF AtWork, BotData, env
<1>4. wire' = "none" /\ pc' \in {"scan", "report", "task", "sleep"}
  BY DEF AdminUnknown, ReportFails, ReportForbidden, MRFails, Restart, NextComment, GiveUp,
         AtWork, BotData
<1>5. ASSUME job' \in Jobs PROVE BotData'
  BY <1>2, <1>3, <1>4, <1>5 DEF AtWork, BotData, env, many, ListSteps, MRSteps, CommentSteps
<1>6. CASE pc \in MRSteps /\ NextComment
  <2>1. pc' = "scan" /\ job' = [job EXCEPT !.todo = job.todo \ {Current}]
    BY <1>6 DEF NextComment
  <2>2. job.todo \ {Current} \in SUBSET Comments
    BY <1>3 DEF Jobs
  <2>3. job' \in Jobs
    BY <1>3, <2>1, <2>2, JobWith
  <2>4. job'.task = job.task /\ job'.mr = job.mr /\ job'.mrs = job.mrs /\ job'.todo \subseteq job.todo
    BY <1>3, <2>1 DEF Jobs
  <2>5. InHand'
    BY <1>3, <1>6, <2>1, <2>4, StillInHand
  <2>6. Handled'
    BY <2>1 DEF Handled, CommentSteps
  <2> QED  BY <1>2, <1>5, <2>3, <2>5, <2>6 DEF AtWork
<1>7. CASE pc = "reply" /\ job.attempt < Attempts /\ pc' = "report" /\ job' = [job EXCEPT !.attempt = job.attempt + 1]
  <2>1. job.attempt + 1 \in 1..Attempts
    BY <1>3, <1>7, CommentsAssumption DEF Jobs
  <2>2. job' \in Jobs
    BY <1>3, <1>7, <2>1, JobWith
  <2>3. job'.task = job.task /\ job'.mr = job.mr /\ job'.mrs = job.mrs /\ job'.todo = job.todo
    BY <1>3, <1>7 DEF Jobs
  <2>4. InHand' /\ Current' = Current
    BY <1>3, <1>7, <2>3, SameComment DEF CommentSteps
  <2>5. Handled'
    BY <1>3, <1>7, <2>3, <2>4 DEF AtWork, Handled, CommentSteps
  <2> QED  BY <1>2, <1>5, <2>2, <2>4, <2>5 DEF AtWork
<1>8. CASE MRFails
  <2>1. pc \in MRSteps /\ pc' = "task" /\ job' = [job EXCEPT !.todo = {}, !.mr = {}]
    BY <1>8 DEF MRFails
  <2>2. PICK k \in Tasks : job.task = {k} /\ job.mrs \subseteq Labelled[k]
    BY <2>1 DEF AtWork, InHand
  <2>3. [job EXCEPT !.todo = {}] \in Jobs
    <3>1. {} \in SUBSET Comments
      OBVIOUS
    <3> QED  BY <1>3, <3>1, JobWith
  <2>4. job' \in Jobs
    <3>1. {} \in SUBSET MRs
      OBVIOUS
    <3> QED  BY <2>1, <2>3, <3>1, JobWith
  <2>5. job'.todo = {} /\ job'.task = {k} /\ job'.mrs \subseteq Labelled[k]
    BY <1>3, <2>1, <2>2 DEF Jobs
  <2>6. InHand' /\ Handled'
    BY <2>1, <2>5 DEF InHand, Handled, MRSteps, CommentSteps
  <2> QED  BY <1>2, <1>5, <2>4, <2>6 DEF AtWork
<1>9. CASE Restart
  <2>1. pc' = "sleep" /\ job' = NoJob
    BY <1>9 DEF Restart
  <2>2. InHand' /\ Handled'
    BY <2>1, NoJobIs DEF InHand, Handled, MRSteps, CommentSteps
  <2> QED  BY <1>2, <1>5, <2>1, <2>2, NoJobIs DEF AtWork
<1>10. CASE AdminUnknown \/ ReportForbidden
  BY <1>6, <1>10 DEF AdminUnknown, ReportForbidden, MRSteps, CommentSteps
<1>11. CASE ReportFails
  BY <1>6, <1>7, <1>11 DEF ReportFails, MRSteps, CommentSteps
<1> QED  BY <1>8, <1>9, <1>10, <1>11

LEMMA OthersWork ==
  ASSUME AtWork, Pending,
         PostComment \/ CloseMR \/ UpsertCourse \/ DeleteCourse \/ Expire
  PROVE  AtWork' /\ Pending'
<1>1. UNCHANGED <<many, late, bot, faults>>
  BY DEF PostComment, CloseMR, UpsertCourse, DeleteCourse, Expire
<1>2. /\ posted' \in 0..NumComments /\ posted' \in Int /\ posted \in Int /\ posted <= posted'
      /\ processed' \subseteq processed /\ stored' \subseteq Courses /\ open' \subseteq MRs
  BY CommentsAssumption DEF PostComment, CloseMR, UpsertCourse, DeleteCourse, Expire, AtWork, BotData, env
<1>3. \A c \in 1..posted : c \in 1..posted'
  BY <1>2
<1>4. BotData'
  BY <1>1, <1>2 DEF AtWork, BotData, many, bot
<1>5. InHand'
  BY <1>1, <1>3 DEF AtWork, InHand, bot
<1>6. Handled'
  <2>1. Current' = Current
    BY <1>1 DEF Current, bot
  <2> QED  BY <1>1, <1>2, <2>1 DEF AtWork, Handled, bot
<1>7. Pending'
  BY <1>1, <1>3 DEF Pending, Reportable
<1> QED  BY <1>4, <1>5, <1>6, <1>7 DEF AtWork

LEMMA StepWork ==
  ASSUME AtWork, Pending, Step
  PROVE  AtWork' /\ Pending'
<1>2. UNCHANGED faults /\ faults' \in 0..MaxFaults /\ faults' >= faults
  BY CommentsAssumption DEF Step, AtWork, BotData
<1>3. AtWork'
  <2>1. CASE StartCycle \/ LoadCourse \/ EndCycle \/ SkipTask \/ EndCourse
    BY <1>2, <2>1, CycleWork
  <2>2. CASE ListMRs \/ Review \/ EndTask \/ EndMR
    BY <1>2, <2>2, TaskWork
  <2>3. CASE (job.tasks # <<>> /\ Head(job.tasks) \in Broken /\ ListRaises)
               \/ \E m \in job.mrs \cap Broken : ReviewRaises(m)
    BY <1>2, <2>3, RaiseWork
  <2>4. CASE GetComments \/ SkipComment \/ ParseScore
    BY <1>2, <2>4, ScanWork
  <2>5. CASE IsAdmin \/ SendReport \/ GetReply
    BY <1>2, <2>5, CommentWork
  <2>6. CASE Mark
    BY <1>2, <2>6, MarkWork
  <2> QED  BY <2>1, <2>2, <2>3, <2>4, <2>5, <2>6 DEF Step
<1>4. late' = late /\ posted' = posted
  BY DEF Step, StartCycle, LoadCourse, EndCycle, SkipTask, ListMRs, ListRaises, EndCourse, Review, EndTask,
         ReviewRaises, GetComments, SkipComment, ParseScore, EndMR, IsAdmin, SendReport, GetReply,
         Mark, Loop, env
<1> QED  BY <1>3, <1>4 DEF Pending, Reportable

LEMMA FaultsWork ==
  ASSUME AtWork, Pending, Fault
  PROVE  AtWork' /\ Pending'
<1>1. faults < MaxFaults /\ faults' = faults + 1 /\ faults' \in 0..MaxFaults /\ faults' >= faults
  BY CommentsAssumption DEF Fault, AtWork, BotData
<1>2. CASE ListRaises \/ \E m \in job.mrs : ReviewRaises(m)
  <2>1. AtWork'
    BY <1>1, <1>2, RaiseWork
  <2>2. late' = late /\ posted' = posted
    BY <1>2 DEF ListRaises, ReviewRaises, Loop, env
  <2> QED  BY <2>1, <2>2 DEF Pending, Reportable
<1>3. CASE /\ AdminUnknown \/ ReportFails \/ ReportForbidden \/ MRFails \/ Restart
           /\ UNCHANGED <<env, processed, many>>
  BY <1>1, <1>3, FaultWork
<1> QED  BY <1>2, <1>3 DEF Fault

LEMMA WorkSteps ==
  ASSUME AtWork, Pending, [Next]_vars
  PROVE  AtWork' /\ Pending'
<1>1. CASE UNCHANGED vars
  <2>1. Current' = Current
    BY <1>1 DEF vars, bot, Current
  <2> QED  BY <1>1, <2>1 DEF vars, env, many, bot, AtWork, BotData, InHand, Handled, Pending, Reportable
<1>2. CASE Serve
  BY <1>2, ServeWork DEF Serve, Pending, Reportable, env
<1>3. CASE ServeLate
  <2>1. AtWork'
    BY <1>3, ServeLateWork
  <2>2. posted' = posted /\ \A c \in Comments, k \in Tasks : late'[c][k] > 0 => late[c][k] > 0
    BY <1>3 DEF ServeLate, env, AtWork, BotData
  <2> QED  BY <2>1, <2>2 DEF Pending, Reportable
<1> QED  BY <1>1, <1>2, <1>3, StepWork, FaultsWork, OthersWork DEF Next

LEMMA WorkInit ==
  ASSUME Init
  PROVE  AtWork /\ Pending
<1>1. 0 \in 0..NumComments /\ 0 \in 0..MaxFaults
  BY CommentsAssumption
<1>2. BotData
  BY <1>1, NoJobIs DEF Init, BotData, ListSteps
<1>3. InHand /\ Handled
  BY NoJobIs DEF Init, InHand, Handled, MRSteps, CommentSteps
<1>4. Pending
  BY DEF Init, Pending
<1> QED  BY <1>2, <1>3, <1>4 DEF AtWork

(* Whatever fails and whoever moves in between, the worker has a task, a   *)
(* merge request labelled with it and a posted comment of that in hand     *)
(* when it reports, and never more attempts or given up reports than       *)
(* retries and faults allow.                                               *)
THEOREM ReviewBotType == Spec => []TypeOK
<1>1. AtWork => TypeOK
  BY DEF AtWork, BotData, InHand, Handled, TypeOK, Jobs, CommentSteps, MRSteps
<1> QED  BY <1>1, WorkInit, WorkSteps, PTL DEF Spec

------------------------------------------------------------------------------
(* What the worker knows of the comments it has been through.              *)

Answers ==
    /\ ProcessedIsAnswered
    /\ pc = "mark" => \A k \in job.task :
         CommentAuthor[Current] \in Admins[CourseOf[k]] => Answered(CourseOf[k], Current)
    /\ wire \in {"applied", "rejected"} => \A k \in job.task : Answered(CourseOf[k], Current)

(* A comment needs no report, or for course n it has had one, or its       *)
(* handling was disturbed.                                                 *)
Done(n, d)   == ~IsScore(d) \/ <<n, d>> \in processed \cup troubled

Before(n, c) == \A d \in CommentsOn(CommentMR[c]) : d < c => Done(n, d)

(* What is left of a merge request are the comments after those done. *)
Scanned ==
    pc \in {"scan"} \cup CommentSteps =>
        \A k \in job.task, c \in job.todo : \A d \in CommentsOn(CommentMR[c]) :
            d < c /\ d \notin job.todo => Done(CourseOf[k], d)

Lates    == \A c \in Comments, k \in Tasks :
                late[c][k] > 0 => <<CourseOf[k], c>> \in troubled /\ Before(CourseOf[k], c)
Orderly  == \A c \in Comments, k \in Tasks : <<c, k>> \in applied => Before(CourseOf[k], c)

(* The comment in hand has been applied, and is to be marked for n. *)
ToMark(n, c) ==
    /\ job.todo # {} /\ c = Current
    /\ pc = "mark" \/ wire = "applied"
    /\ \E k \in job.task : CourseOf[k] = n

(* An applied report is marked, unless its comment is still in hand or its *)
(* handling was disturbed.                                                 *)
Marked ==
    \A c \in Comments, k \in Tasks :
        <<c, k>> \in applied =>
            <<CourseOf[k], c>> \in processed \cup troubled \/ ToMark(CourseOf[k], c)

(* Whatever happens, nothing that is known of a comment is forgotten. *)
LEMMA Grows ==
  ASSUME AtWork, [Next]_vars
  PROVE  /\ applied \subseteq applied' /\ rejected \subseteq rejected' /\ 1..posted \subseteq 1..posted'
         /\ troubled \subseteq troubled' /\ processed \cup troubled \subseteq processed' \cup troubled'
<1>1. CASE UNCHANGED vars
  BY <1>1 DEF vars, env, many
<1>2. CASE Step
  BY <1>2 DEF Step, StartCycle, LoadCourse, EndCycle, SkipTask, ListMRs, ListRaises, EndCourse, Review,
              EndTask, ReviewRaises, GetComments, SkipComment, ParseScore, EndMR, IsAdmin, SendReport,
              GetReply, Mark, Loop, env, many
<1>3. CASE Serve
  <2>1. \E k : k \in job.task
    BY <1>3, ReportedIs DEF Serve, AtWork, BotData
  <2> QED  BY <1>3, <2>1 DEF Serve, Apply, env
<1>4. CASE ServeLate
  BY <1>4 DEF ServeLate, Apply, env
<1>5. CASE Fault
  BY <1>5 DEF Fault, ListRaises, ReviewRaises, Loop, env, many
<1>6. CASE PostComment
  <2>1. posted \in Int /\ posted' = posted + 1
    BY <1>6, CommentsAssumption DEF PostComment, AtWork, BotData
  <2> QED  BY <1>6, <2>1 DEF PostComment, many
<1>7. CASE CloseMR \/ UpsertCourse \/ DeleteCourse
  BY <1>7 DEF CloseMR, UpsertCourse, DeleteCourse, many
<1>8. CASE Expire
  BY <1>8 DEF Expire, env, many
<1> QED  BY <1>1, <1>2, <1>3, <1>4, <1>5, <1>6, <1>7, <1>8 DEF Next

LEMMA StaysDone ==
  ASSUME AtWork, [Next]_vars, NEW n, NEW c \in Comments
  PROVE  /\ Answered(n, c) => Answered(n, c)'
         /\ Done(n, c) => Done(n, c)'
         /\ Before(n, c) => Before(n, c)'
<1>1. \A d \in Comments : Done(n, d) => Done(n, d)'
  BY Grows DEF Done, IsScore
<1>2. Answered(n, c) => Answered(n, c)'
  BY Grows DEF Answered, Reported
<1> QED  BY <1>1, <1>2 DEF Before, CommentsOn

(* manytask applies the report on the wire, or one that was given up. *)
LEMMA OnlyReported ==
  ASSUME AtWork, Pending, [Next]_vars
  PROVE  \/ UNCHANGED <<score, applied>>
         \/ \E c \in Comments, k \in Tasks :
               /\ Apply(c, k) /\ Reportable(c, k) /\ UNCHANGED <<job, pc, processed, troubled>>
               /\ \/ /\ c = Current /\ k \in job.task
                     /\ pc = "reply" /\ wire' = "applied" /\ late' = late
                  \/ late[c][k] > 0 /\ wire' = wire
<1>1. CASE UNCHANGED vars
  BY <1>1 DEF vars, many
<1>2. CASE Step
  BY <1>2 DEF Step, StartCycle, LoadCourse, EndCycle, SkipTask, ListMRs, ListRaises, EndCourse, Review,
              EndTask, ReviewRaises, GetComments, SkipComment, ParseScore, EndMR, IsAdmin, SendReport,
              GetReply, Mark, Loop, many
<1>3. CASE Serve
  <2>1. pc = "reply"
    BY <1>3 DEF Serve, AtWork, BotData
  <2>2. PICK k \in Tasks : job.task = {k} /\ Reportable(Current, k)
    BY <2>1, ReportedIs
  <2>3. Current \in Comments
    BY <2>1, ReportedIs
  <2>4. (Apply(Current, k) /\ wire' = "applied") \/ UNCHANGED <<score, applied>>
    BY <1>3, <2>2 DEF Serve
  <2> QED  BY <1>3, <2>1, <2>2, <2>3, <2>4 DEF Serve
<1>4. CASE ServeLate
  BY <1>4 DEF ServeLate, Pending, bot
<1>5. CASE Fault
  BY <1>5 DEF Fault, ListRaises, ReviewRaises, Loop, many
<1>6. CASE PostComment \/ CloseMR \/ UpsertCourse \/ DeleteCourse \/ Expire
  BY <1>6 DEF PostComment, CloseMR, UpsertCourse, DeleteCourse, Expire, many
<1> QED  BY <1>1, <1>2, <1>3, <1>4, <1>5, <1>6 DEF Next

(* A report that is given up is the one in hand, which is disturbed. *)
LEMMA OnlyGivenUp ==
  ASSUME AtWork, [Next]_vars, NEW c \in Comments, NEW k \in Tasks, late'[c][k] > 0
  PROVE  \/ late[c][k] > 0
         \/ c = Current /\ k \in job.task /\ pc = "reply" /\ <<CourseOf[k], c>> \in troubled'
<1>1. late \in [Comments -> [Tasks -> 0..MaxFaults]]
  BY DEF AtWork, BotData
<1>2. CASE late' = late
  BY <1>2
<1>3. CASE ServeLate
  BY <1>1, <1>3 DEF ServeLate
<1>4. CASE Fault /\ GiveUp /\ ~(UNCHANGED late)
  <2>1. pc = "reply" /\ \E l \in job.task : late' = [late EXCEPT ![Current][l] = late[Current][l] + 1]
    BY <1>4 DEF GiveUp, AtWork, BotData
  <2>2. late[c][k] > 0 \/ (c = Current /\ k \in job.task)
    BY <1>1, <2>1
  <2>3. Marks(Current) \subseteq troubled'
    BY <1>4, <2>1 DEF Fault, ListRaises, ReviewRaises, Loop, CommentSteps
  <2> QED  BY <2>1, <2>2, <2>3 DEF Marks
<1>5. Fault => GiveUp \/ UNCHANGED late
  BY DEF Fault, ListRaises, ReviewRaises, Loop, AdminUnknown, ReportFails, ReportForbidden, MRFails, Restart
<1>6. Step \/ Serve \/ PostComment \/ CloseMR \/ UpsertCourse \/ DeleteCourse \/ Expire \/ UNCHANGED vars
        => UNCHANGED late
  BY DEF Step, StartCycle, LoadCourse, EndCycle, SkipTask, ListMRs, ListRaises, EndCourse, Review,
         EndTask, ReviewRaises, GetComments, SkipComment, ParseScore, EndMR, IsAdmin, SendReport,
         GetReply, Mark, Loop, Serve, PostComment, CloseMR, UpsertCourse, DeleteCourse, Expire, vars
<1> QED  BY <1>2, <1>3, <1>4, <1>5, <1>6 DEF Next

(* How the comments in hand change. *)
LEMMA HandMoves ==
  ASSUME AtWork, [Next]_vars, pc' \in {"scan"} \cup CommentSteps
  PROVE  \/ job'.todo = {c \in 1..posted : CommentMR[c] \in job.mr} /\ UNCHANGED posted
         \/ pc \in {"scan"} \cup CommentSteps /\ job'.todo = job.todo /\ job'.task = job.task
         \/ /\ pc \in {"scan"} \cup CommentSteps /\ job'.task = job.task
            /\ \E c \in Comments : /\ c = Current /\ job'.todo = job.todo \ {c}
                                  /\ \A k \in job.task : Done(CourseOf[k], c)'
<1>1. job \in Jobs /\ (pc \in CommentSteps => job.todo # {})
  BY DEF AtWork, BotData, Handled
<1>2. CASE UNCHANGED job /\ pc \in {"scan"} \cup CommentSteps
  BY <1>2
<1>3. CASE GetComments /\ UNCHANGED posted
  BY <1>1, <1>3 DEF GetComments, Jobs
<1>4. CASE SkipComment /\ UNCHANGED troubled
  <2>1. /\ job.todo # {} /\ pc = "scan" /\ processed' = processed
        /\ job'.todo = job.todo \ {Current} /\ job'.task = job.task
    BY <1>1, <1>4 DEF SkipComment, Loop, Jobs
  <2>2. PICK c \in Comments : c = Current
    BY <2>1, CurrentIs DEF AtWork
  <2>3. \A k \in job.task : Done(CourseOf[k], c)
    BY <1>4, <2>2 DEF SkipComment, Skipped, Marks, Done
  <2>4. \A k \in job.task : Done(CourseOf[k], c)'
    BY <2>3, StaysDone
  <2> QED  BY <2>1, <2>2, <2>4
<1>5. CASE IsAdmin
  BY <1>1, <1>5 DEF IsAdmin, Loop, Jobs, CommentSteps
<1>6. CASE Mark
  <2>1. /\ pc = "mark" /\ processed' = processed \cup Marks(Current)
        /\ job'.todo = job.todo \ {Current} /\ job'.task = job.task
    BY <1>1, <1>6 DEF Mark, Jobs
  <2>2. PICK c \in Comments : c = Current
    BY <1>1, <2>1, CurrentIs DEF AtWork, CommentSteps
  <2>3. \A k \in job.task : Done(CourseOf[k], c)'
    BY <2>1, <2>2 DEF Done, Marks
  <2> QED  BY <2>1, <2>2, <2>3 DEF CommentSteps
<1>7. CASE Fault /\ pc \in CommentSteps
  <2>1. troubled' = troubled \cup Marks(Current)
    BY <1>7 DEF Fault, ListRaises, ReviewRaises, Loop, CommentSteps
  <2>2. PICK c \in Comments : c = Current
    BY <1>1, <1>7, CurrentIs DEF AtWork
  <2>3. \A k \in job.task : Done(CourseOf[k], c)'
    BY <2>1, <2>2 DEF Done, Marks
  <2>4. job'.task = job.task /\ (job'.todo = job.todo \/ job'.todo = job.todo \ {Current})
    BY <1>1, <1>7 DEF Fault, ListRaises, ReviewRaises, Loop, AdminUnknown, ReportFails, ReportForbidden,
                      MRFails, Restart, NextComment, CommentSteps, Jobs
  <2> QED  BY <1>7, <2>2, <2>3, <2>4
<1>8. Fault => pc \in CommentSteps
  BY DEF Fault, ListRaises, ReviewRaises, Loop, AdminUnknown, ReportFails, ReportForbidden,
         MRFails, Restart, NextComment, CommentSteps
<1>9. Step => GetComments \/ SkipComment \/ IsAdmin \/ Mark
                \/ (UNCHANGED job /\ pc \in {"scan"} \cup CommentSteps)
  BY DEF Step, StartCycle, LoadCourse, EndCycle, SkipTask, ListMRs, ListRaises, EndCourse, Review,
         EndTask, ReviewRaises, ParseScore, EndMR, SendReport, GetReply, Loop, CommentSteps
<1>10. Step => UNCHANGED troubled /\ (GetComments => UNCHANGED posted)
  BY DEF Step, GetComments, Loop, env
<1>11. UNCHANGED vars \/ Serve \/ ServeLate \/ PostComment \/ CloseMR \/ UpsertCourse \/ DeleteCourse \/ Expire
         => UNCHANGED job /\ pc \in {"scan"} \cup CommentSteps
  BY DEF vars, bot, Serve, ServeLate, PostComment, CloseMR, UpsertCourse, DeleteCourse, Expire
<1> QED  BY <1>2, <1>3, <1>4, <1>5, <1>6, <1>7, <1>8, <1>9, <1>10, <1>11 DEF Next

LEMMA ScannedStep ==
  ASSUME AtWork, Scanned, [Next]_vars
  PROVE  Scanned'
<1> SUFFICES ASSUME pc' \in {"scan"} \cup CommentSteps, NEW k \in job'.task, NEW c \in job'.todo,
                    NEW d \in CommentsOn(CommentMR[c]), d < c, d \notin job'.todo
             PROVE  Done(CourseOf[k], d)'
  BY DEF Scanned, CommentsOn
<1>1. d \in Comments /\ CommentMR[d] = CommentMR[c]
  BY DEF CommentsOn
<1>2. CASE job'.todo = {x \in 1..posted : CommentMR[x] \in job.mr}
  BY <1>1, <1>2, CommentsAssumption DEF Comments, AtWork, BotData
<1>3. CASE /\ pc \in {"scan"} \cup CommentSteps /\ job'.task = job.task
           /\ job'.todo \subseteq job.todo /\ d \notin job.todo
  BY <1>1, <1>3, StaysDone DEF Scanned
<1>4. CASE Done(CourseOf[k], d)'
  BY <1>4
<1> QED  BY <1>2, <1>3, <1>4, HandMoves

(* Comments are handled in the order they were posted. *)
LEMMA CurrentBefore ==
  ASSUME AtWork, Scanned, pc \in CommentSteps
  PROVE  \A k \in job.task : Before(CourseOf[k], Current)
<1>1. Current \in job.todo /\ \A c \in job.todo : Current <= c
  BY CurrentIs DEF AtWork, Handled
<1>2. \A d \in CommentsOn(CommentMR[Current]) : d < Current => d \notin job.todo
  <2>1. job.todo \subseteq Int
    BY CommentsAssumption DEF AtWork, BotData, Jobs, Comments
  <2> QED  BY <1>1, <2>1
<1> QED  BY <1>1, <1>2 DEF Scanned, Before

LEMMA LatesStep ==
  ASSUME AtWork, Scanned, Lates, [Next]_vars
  PROVE  Lates'
<1> SUFFICES ASSUME NEW c \in Comments, NEW k \in Tasks, late'[c][k] > 0
             PROVE  <<CourseOf[k], c>> \in troubled' /\ Before(CourseOf[k], c)'
  BY DEF Lates
<1>1. CASE late[c][k] > 0
  BY <1>1, Grows, StaysDone DEF Lates
<1>2. CASE c = Current /\ k \in job.task /\ pc = "reply" /\ <<CourseOf[k], c>> \in troubled'
  <2>1. Before(CourseOf[k], c)
    BY <1>2, CurrentBefore DEF CommentSteps
  <2> QED  BY <1>2, <2>1, StaysDone
<1> QED  BY <1>1, <1>2, OnlyGivenUp

LEMMA OrderlyStep ==
  ASSUME AtWork, Pending, Scanned, Lates, Orderly, [Next]_vars
  PROVE  Orderly'
<1> SUFFICES ASSUME NEW c \in Comments, NEW k \in Tasks, <<c, k>> \in applied'
             PROVE  Before(CourseOf[k], c)'
  BY DEF Orderly
<1>1. CASE <<c, k>> \in applied
  BY <1>1, StaysDone DEF Orderly
<1>2. CASE <<c, k>> \notin applied
  <2>1. PICK d \in Comments, l \in Tasks :
          /\ Apply(d, l)
          /\ (d = Current /\ l \in job.task /\ pc = "reply") \/ late[d][l] > 0
    BY <1>2, OnlyReported
  <2>2. c = d /\ k = l
    BY <1>2, <2>1 DEF Apply
  <2>3. Before(CourseOf[k], c)
    BY <2>1, <2>2, CurrentBefore DEF Lates, CommentSteps
  <2> QED  BY <2>3, StaysDone
<1> QED  BY <1>1, <1>2

(* How the comment in hand is left, and with what it is marked. *)
LEMMA HandLeft ==
  ASSUME AtWork, [Next]_vars, pc = "mark" \/ wire = "applied"
  PROVE  \/ Marks(Current) \subseteq processed' \cup troubled'
         \/ job' = job /\ (pc' = "mark" \/ wire' = "applied")
<1>1. pc \in CommentSteps /\ (wire = "applied" <=> pc = "reply") /\ pc # "sleep"
  BY DEF AtWork, BotData, CommentSteps
<1>2. CASE Step
  BY <1>1, <1>2 DEF Step, StartCycle, LoadCourse, EndCycle, SkipTask, ListMRs, ListRaises, EndCourse, Review,
         EndTask, ReviewRaises, GetComments, SkipComment, ParseScore, EndMR, IsAdmin, SendReport,
         GetReply, Mark, Loop, CommentSteps
<1>3. CASE Fault
  BY <1>1, <1>3 DEF Fault, ListRaises, ReviewRaises, Loop, CommentSteps
<1>4. CASE Serve
  BY <1>1, <1>4 DEF Serve
<1>5. CASE ServeLate \/ PostComment \/ CloseMR \/ UpsertCourse \/ DeleteCourse \/ Expire \/ UNCHANGED vars
  BY <1>5 DEF ServeLate, PostComment, CloseMR, UpsertCourse, DeleteCourse, Expire, vars, bot
<1> QED  BY <1>2, <1>3, <1>4, <1>5 DEF Next

LEMMA MarkedStep ==
  ASSUME AtWork, Pending, Lates, Marked, [Next]_vars
  PROVE  Marked'
<1> SUFFICES ASSUME NEW c \in Comments, NEW k \in Tasks, <<c, k>> \in applied',
                    <<CourseOf[k], c>> \notin processed' \cup troubled'
             PROVE  ToMark(CourseOf[k], c)'
  BY DEF Marked
<1>1. <<CourseOf[k], c>> \notin processed \cup troubled
  BY Grows
<1>2. CASE <<c, k>> \in applied
  <2>1. ToMark(CourseOf[k], c)
    BY <1>1, <1>2 DEF Marked
  <2>2. <<CourseOf[k], c>> \in Marks(Current)
    BY <2>1 DEF ToMark, Marks
  <2>3. job' = job /\ (pc' = "mark" \/ wire' = "applied")
    BY <2>1, <2>2, HandLeft DEF ToMark
  <2> QED  BY <2>1, <2>3 DEF ToMark, Current
<1>3. CASE <<c, k>> \notin applied
  <2>1. PICK d \in Comments, l \in Tasks :
          /\ Apply(d, l) /\ UNCHANGED job
          /\ \/ d = Current /\ l \in job.task /\ pc = "reply" /\ wire' = "applied"
             \/ late[d][l] > 0
    BY <1>3, OnlyReported
  <2>2. c = d /\ k = l
    BY <1>3, <2>1 DEF Apply
  <2>3. c = Current /\ k \in job.task /\ pc = "reply" /\ wire' = "applied"
    BY <1>1, <2>1, <2>2 DEF Lates
  <2> QED  BY <2>1, <2>3, ReportedIs DEF Current, ToMark
<1> QED  BY <1>2, <1>3

LEMMA AnswersStep ==
  ASSUME AtWork, Pending, Answers, [Next]_vars
  PROVE  Answers'
<1>1. /\ processed' \subseteq processed \/ (pc = "mark" /\ processed' = processed \cup Marks(Current))
      /\ pc' = "mark" => \/ pc = "mark" /\ job' = job
                         \/ /\ pc = "admin" /\ job'.todo = job.todo /\ job'.task = job.task
                            /\ ~ \E k \in job.task : CommentAuthor[Current] \in Admins[CourseOf[k]]
                         \/ job' = job /\ wire \in {"applied", "rejected"}
      /\ wire' \in {"applied", "rejected"} => job' = job /\ (wire' = wire \/ Serve)
  <2>1. job \in Jobs
    BY DEF AtWork, BotData
  <2>2. CASE Step
    <3>1. CASE Mark \/ GetReply \/ SendReport
      BY <3>1 DEF Mark, GetReply, SendReport, AtWork, BotData
    <3>2. CASE IsAdmin
      BY <2>1, <3>2 DEF IsAdmin, Loop, Jobs, AtWork, BotData
    <3>3. CASE ~(Mark \/ GetReply \/ SendReport \/ IsAdmin)
      <4>1. processed' = processed /\ wire' = wire /\ pc # "reply" /\ pc' # "mark"
        BY <2>2, <3>3 DEF Step, StartCycle, LoadCourse, EndCycle, SkipTask, ListMRs, ListRaises, EndCourse,
               Review, EndTask, ReviewRaises, GetComments, SkipComment, ParseScore, EndMR, Loop
      <4> QED  BY <4>1 DEF AtWork, BotData
    <3> QED  BY <3>1, <3>2, <3>3
  <2>3. CASE Fault
    BY <2>3 DEF Fault, ListRaises, ReviewRaises, Loop, AdminUnknown, ReportFails, ReportForbidden, MRFails,
           Restart, NextComment, GiveUp, AtWork, BotData
  <2>4. CASE Serve
    BY <2>4 DEF Serve, AtWork, BotData
  <2>5. CASE ServeLate \/ PostComment \/ CloseMR \/ UpsertCourse \/ DeleteCourse \/ Expire \/ UNCHANGED vars
    BY <2>5 DEF ServeLate, PostComment, CloseMR, UpsertCourse, DeleteCourse, Expire, vars, bot
  <2> QED  BY <2>2, <2>3, <2>4, <2>5 DEF Next
<1>2. ProcessedIsAnswered'
  <2> SUFFICES ASSUME NEW n \in Courses, NEW c \in Comments, <<n, c>> \in processed', CommentAuthor[c] \in Admins[n]
               PROVE  Answered(n, c)'
    BY DEF ProcessedIsAnswered, Answered, Reported
  <2>1. Answered(n, c)
    <3>1. CASE <<n, c>> \in processed
      BY <3>1 DEF Answers, ProcessedIsAnswered
    <3>2. CASE pc = "mark" /\ <<n, c>> \in Marks(Current)
      BY <3>2 DEF Answers, Marks
    <3> QED  BY <1>1, <3>1, <3>2
  <2> QED  BY <2>1, StaysDone
<1>3. ASSUME pc' = "mark", NEW k \in job'.task, (CommentAuthor[Current] \in Admins[CourseOf[k]])'
      PROVE  Answered(CourseOf[k], Current)'
  <2>1. job'.todo = job.todo /\ job'.task = job.task /\ pc \in CommentSteps
    BY <1>1, <1>3 DEF AtWork, BotData, CommentSteps
  <2>2. Current' = Current
    BY <2>1 DEF Current
  <2>3. PICK c \in Comments : c = Current
    BY <2>1, CurrentIs DEF AtWork, Handled
  <2>4. Answered(CourseOf[k], c)
    BY <1>1, <1>3, <2>1, <2>2, <2>3 DEF Answers
  <2>5. Answered(CourseOf[k], c)'
    BY <2>4, StaysDone
  <2> QED  BY <2>2, <2>3, <2>5 DEF Answered, Reported
<1>4. ASSUME wire' \in {"applied", "rejected"}, NEW k \in job'.task
      PROVE  Answered(CourseOf[k], Current)'
  <2>1. job' = job /\ pc = "reply"
    BY <1>1, <1>4 DEF Serve, AtWork, BotData
  <2>2. Current' = Current
    BY <2>1 DEF Current
  <2>3. PICK c \in Comments : c = Current
    BY <2>1, ReportedIs
  <2>4. Answered(CourseOf[k], c)'
    <3>1. CASE wire' = wire
      BY <1>4, <2>1, <2>3, <3>1, StaysDone DEF Answers
    <3>2. CASE Serve
      <4>1. k \in Tasks /\ k \in job.task
        BY <2>1, ReportedIs
      <4> QED  BY <2>3, <3>2, <4>1 DEF Serve, Apply, Answered, Reported, Marks
    <3> QED  BY <1>1, <1>4, <3>1, <3>2
  <2> QED  BY <2>2, <2>3, <2>4 DEF Answered, Reported
<1> QED  BY <1>2, <1>3, <1>4 DEF Answers

LEMMA ScoresStep ==
  ASSUME AtWork, Pending, ScoresAreAdmins, [Next]_vars
  PROVE  ScoresAreAdmins'
<1> SUFFICES ASSUME NEW s \in Students, NEW k \in Tasks, score'[s][k] # 0
             PROVE  \E c \in 1..posted' :
                      /\ CommentScore[c] = score'[s][k]
                      /\ CommentAuthor[c] \in Admins[CourseOf[k]] \ {Bot}
                      /\ Owner[CommentMR[c]] = s
                      /\ CommentMR[c] \in Labelled[k]
  BY DEF ScoresAreAdmins
<1>1. 1..posted \subseteq 1..posted'
  BY Grows
<1>2. CASE score'[s][k] = score[s][k]
  <2>1. PICK c \in 1..posted :
          /\ CommentScore[c] = score[s][k]
          /\ CommentAuthor[c] \in Admins[CourseOf[k]] \ {Bot}
          /\ Owner[CommentMR[c]] = s
          /\ CommentMR[c] \in Labelled[k]
    BY <1>2 DEF ScoresAreAdmins
  <2> QED  BY <1>1, <1>2, <2>1
<1>3. CASE score'[s][k] # score[s][k]
  <2>1. PICK c \in Comments, l \in Tasks : Apply(c, l) /\ Reportable(c, l)
    BY <1>3, OnlyReported
  <2>2. s = Owner[CommentMR[c]] /\ l = k /\ score'[s][k] = CommentScore[c]
    BY <1>3, <2>1, Applied
  <2>3. c \in 1..posted'
    BY <1>1, <2>1 DEF Reportable
  <2>4. CommentAuthor[c] \in Admins[CourseOf[k]] \ {Bot} /\ CommentMR[c] \in Labelled[k]
    BY <2>1, <2>2 DEF Reportable
  <2> QED  BY <2>2, <2>3, <2>4
<1> QED  BY <1>2, <1>3

LEMMA NewestStep ==
  ASSUME AtWork, Pending, Lates, Orderly, NewestScoreStands, [Next]_vars
  PROVE  NewestScoreStands'
<1> SUFFICES ASSUME NEW m \in MRs, NEW k \in Tasks, NEW c \in Comments,
                    Sole(m, k), IsNewest(c, m, k)'
             PROVE  \/ score'[Owner[m]][k] = CommentScore[c]
                    \/ \E d \in CommentsOn(m) : d < c /\ <<CourseOf[k], d>> \in troubled'
  BY DEF NewestScoreStands, Sole, CommentsOn
<1>1. CommentMR[c] = m /\ Owner[m] \in Students /\ c \in Int
  BY CommentsAssumption, CoursesAssumption DEF IsNewest, Comments
<1>2. CASE IsNewest(c, m, k) /\ score'[Owner[m]][k] = score[Owner[m]][k]
  BY <1>2, Grows DEF NewestScoreStands
<1>3. ASSUME UNCHANGED <<score, applied>> PROVE IsNewest(c, m, k) /\ score'[Owner[m]][k] = score[Owner[m]][k]
  BY <1>3 DEF IsNewest
<1>4. CASE ~ UNCHANGED <<score, applied>>
  <2>1. PICK b \in Comments, l \in Tasks :
          /\ Apply(b, l) /\ Reportable(b, l) /\ UNCHANGED <<job, pc, processed, troubled>>
          /\ (b = Current /\ l \in job.task /\ pc = "reply") \/ late[b][l] > 0
    BY <1>4, OnlyReported
  <2>2. /\ applied' = applied \cup {<<b, l>>}
        /\ \A s \in Students, j \in Tasks :
             score'[s][j] = IF s = Owner[CommentMR[b]] /\ j = l THEN CommentScore[b] ELSE score[s][j]
    BY <2>1, Applied
  <2>3. CASE Owner[CommentMR[b]] # Owner[m] \/ l # k
    <3>1. score'[Owner[m]][k] = score[Owner[m]][k]
      BY <1>1, <2>2, <2>3
    <3>2. \A d \in CommentsOn(m) : <<d, k>> \in applied' <=> <<d, k>> \in applied
      BY <2>2, <2>3 DEF CommentsOn
    <3>3. IsNewest(c, m, k)
      BY <1>1, <3>2 DEF IsNewest, CommentsOn
    <3> QED  BY <1>2, <3>1, <3>3
  <2>4. CASE Owner[CommentMR[b]] = Owner[m] /\ l = k
    <3>1. CommentMR[b] = m
      BY <2>1, <2>4, CommentsAssumption DEF Sole, Reportable
    <3>2. b \in CommentsOn(m) /\ <<b, k>> \in applied'
      BY <2>2, <2>4, <3>1 DEF CommentsOn
    <3>3. b <= c
      BY <3>2 DEF IsNewest
    <3>4. b = c \/ b < c
      BY <1>1, <3>3, CommentsAssumption DEF Comments
    <3>5. CASE b = c
      BY <1>1, <2>2, <2>4, <3>5
    <3>6. CASE b < c
      <4>1. <<c, k>> \in applied
        BY <1>1, <2>2, <3>2, <3>6 DEF IsNewest
      <4>2. Done(CourseOf[k], b)
        BY <1>1, <3>1, <3>2, <3>6, <4>1 DEF Orderly, Before, CommentsOn
      <4>3. <<CourseOf[k], b>> \in processed \cup troubled
        BY <2>1, <4>2 DEF Done, IsScore, Reportable
      <4>4. <<CourseOf[k], b>> \in troubled
        BY <2>1, <2>4, <4>3 DEF AtWork, Handled, Lates, CommentSteps
      <4> QED  BY <2>1, <3>2, <3>6, <4>4
    <3> QED  BY <3>5, <3>6, <3>4
  <2> QED  BY <2>3, <2>4
<1> QED  BY <1>2, <1>3, <1>4

------------------------------------------------------------------------------
(* The theorems.                                                           *)

History == Answers /\ Scanned /\ Lates /\ Orderly /\ Marked /\ ScoresAreAdmins /\ NewestScoreStands

LEMMA HistoryInit == Init => History
<1> SUFFICES ASSUME Init PROVE History
  OBVIOUS
<1>1. Answers
  BY DEF Init, Answers, ProcessedIsAnswered
<1>2. Scanned /\ Lates /\ Orderly /\ Marked
  BY NoJobIs DEF Init, Scanned, Lates, Orderly, Marked, CommentSteps
<1>3. ScoresAreAdmins /\ NewestScoreStands
  BY DEF Init, ScoresAreAdmins, NewestScoreStands, IsNewest
<1> QED  BY <1>1, <1>2, <1>3 DEF History

(* The inductive invariant: what is in hand, what may still be applied and *)
(* what is known of every comment.                                         *)
THEOREM BotInvariant == Spec => [](AtWork /\ Pending /\ History)
<1>1. AtWork /\ Pending /\ History /\ [Next]_vars => (AtWork /\ Pending /\ History)'
  BY WorkSteps, AnswersStep, ScannedStep, LatesStep, OrderlyStep, MarkedStep, ScoresStep, NewestStep
     DEF History
<1> QED  BY <1>1, WorkInit, HistoryInit, PTL DEF Spec

(* A comment is marked processed for a course only when manytask has       *)
(* answered that course, though answers are lost, the worker restarts and  *)
(* marks expire.                                                           *)
THEOREM ProcessedIsAnsweredAlways == Spec => []ProcessedIsAnswered
BY BotInvariant, PTL DEF History, Answers

(* A score of a student is one that an admin of the course wrote under a   *)
(* merge request of theirs for the task, even where a report is applied    *)
(* late.                                                                   *)
THEOREM ScoresAreAdminsAlways == Spec => []ScoresAreAdmins
BY BotInvariant, PTL DEF History

(* The newest comment of a merge request decides the score, unless an      *)
(* older one was disturbed: comments are reported in order, and a report   *)
(* that comes late belongs to a disturbed comment.                         *)
THEOREM NewestScoreStandsAlways == Spec => []NewestScoreStands
BY BotInvariant, PTL DEF History

(* Nothing is reported twice for one course without a fault or an expired  *)
(* mark between, however many courses see a merge request.                 *)
THEOREM RepeatedOnlyAfterTroubleAlways == Spec => RepeatedOnlyAfterTrouble
<1>1. ASSUME AtWork, Marked, pc = "report", NEW k \in job.task, Reported(CourseOf[k], Current)
      PROVE  <<CourseOf[k], Current>> \in troubled
  <2>1. PICK l \in Tasks : CourseOf[l] = CourseOf[k] /\ <<Current, l>> \in applied
    BY <1>1 DEF Reported
  <2>2. Current \in Comments /\ wire = "none"
    BY <1>1, ReportedIs DEF AtWork, BotData
  <2>3. <<CourseOf[k], Current>> \in processed \cup troubled
    BY <1>1, <2>1, <2>2 DEF Marked, ToMark
  <2> QED  BY <1>1, <2>3 DEF AtWork, Handled, CommentSteps
<1>2. AtWork /\ Marked =>
        [\A c \in Comments, k \in Tasks :
            (pc = "report" /\ pc' = "reply" /\ Current = c /\ k \in job.task /\ Reported(CourseOf[k], c))
              => <<CourseOf[k], c>> \in troubled]_vars
  BY <1>1
<1> QED  BY <1>2, BotInvariant, PTL DEF RepeatedOnlyAfterTrouble, History

=============================================================================
