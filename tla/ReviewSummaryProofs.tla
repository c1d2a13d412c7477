------------------------- MODULE ReviewSummaryProofs -------------------------
(***************************************************************************)
(* Proofs about the courses API of the mr-reviewer and about what it       *)
(* leaves on merge requests, for every set of courses, tokens, tasks and   *)
(* merge requests, every checklist, and any number of threads, attempts,   *)
(* failures, pushes and quotes.                                            *)
(***************************************************************************)
EXTENDS ReviewSummary, LeastNumbers, FiniteSetTheorems, TLAPS

------------------------------------------------------------------------------
(* The courses API.                                                        *)

Stored == [config : Configs, token : Tokens \cup {AdminToken}]

Asks == [step : {"new", "check", "ping", "confirmed", "authorised", "done", "refused"},
         course : Courses \cup {None},
         token : Tokens \cup {AdminToken, None},
         asks : Configs \cup {Malformed, Deletion, None},
         age : Nat]

(* What the courses API keeps, and what a request carries: its course from *)
(* its arrival on, and a token of manytask's once that is confirmed.       *)
Carries(q) ==
    /\ request[q].step \in {"check", "ping", "confirmed", "authorised"} =>
         request[q].course \in Courses /\ request[q].token \in Tokens \cup {AdminToken}
    /\ request[q].step = "confirmed" => request[q].token \in Tokens

CoursesData ==
    /\ token \in [Courses -> Tokens]
    /\ cached \in [Pairs -> 0..TTL]
    /\ gone \in [Pairs -> 0..TTL]
    /\ store \in [Courses -> {None} \cup Stored]
    /\ request \in [Requests -> Asks]
    /\ \A q \in Requests : Carries(q)

(* A pair that is alive has not begun to fade, one that is remembered will *)
(* be forgotten before it has faded for TTL, and a request that was not    *)
(* let through has no age.                                                 *)
Fresh ==
    /\ \A p \in Pairs : Alive(p) => gone[p] = 0
    /\ \A p \in Pairs : cached[p] > 0 => cached[p] + gone[p] <= TTL
    /\ \A q \in Requests :
         request[q].step \in {"new", "check", "ping", "confirmed"} => request[q].age = 0

CoursesInv == CoursesData /\ Fresh /\ TokensFade

KeepsCourses == UNCHANGED <<token, cached, store, request, gone>>

LEMMA CoursesInit == InitCourses => CoursesInv
<1> SUFFICES ASSUME InitCourses PROVE CoursesInv
  OBVIOUS
<1>t. TTL \in Nat /\ TTL > 0
  BY InquiriesAssumption
<1>1. \A q \in Requests :
        /\ request[q] \in Asks
        /\ request[q].age = 0
        /\ request[q].step \in {"new", "done"}
  BY DEF InitCourses, Unused, Unsent, Asks
<1>2. request \in [Requests -> Asks]
  BY <1>1 DEF InitCourses
<1>3. /\ cached \in [Pairs -> 0..TTL] /\ gone \in [Pairs -> 0..TTL]
      /\ \A p \in Pairs : cached[p] > 0 => gone[p] = 0
      /\ \A p \in Pairs : token[p[1]] = p[2] => gone[p] = 0
  BY <1>t DEF InitCourses
<1>4. store \in [Courses -> {None} \cup Stored] /\ token \in [Courses -> Tokens]
  BY DEF InitCourses, Stored
<1>5. CoursesData
  BY <1>1, <1>2, <1>3, <1>4 DEF CoursesData, Carries
<1>6. Fresh
  BY <1>t, <1>1, <1>3 DEF Fresh, Alive
<1>7. TokensFade
  BY <1>t, <1>1 DEF TokensFade
<1> QED  BY <1>5, <1>6, <1>7 DEF CoursesInv

LEMMA CoursesKept == CoursesInv /\ KeepsCourses => CoursesInv'
BY DEF CoursesInv, KeepsCourses, CoursesData, Carries, Fresh, TokensFade, Alive, Pair

(* A step of a request that changes nothing but its step, and is not the   *)
(* one that lets it through or confirms its token.                         *)
LEMMA Advance ==
  ASSUME CoursesInv, UNCHANGED <<token, cached, gone>>,
         store' \in [Courses -> {None} \cup Stored],
         NEW q \in Requests,
         NEW from \in {"check", "ping", "confirmed", "authorised"},
         NEW to \in {"ping", "done", "refused"},
         to = "ping" => from = "check",
         to = "done" => from = "authorised",
         Goes(q, from, to)
  PROVE  CoursesInv'
<1> USE DEF CoursesInv, CoursesData
<1>1. request' \in [Requests -> Asks]
  BY DEF Goes, Asks
<1>2. /\ request[q].step = from /\ request'[q] = [request[q] EXCEPT !.step = to]
      /\ \A o \in Requests \ {q} : request'[o] = request[o]
  BY DEF Goes
<1>3. /\ request'[q].step = to /\ request'[q].age = request[q].age
      /\ request'[q].course = request[q].course /\ request'[q].token = request[q].token
      /\ request'[q].asks = request[q].asks
  BY <1>2 DEF Asks
<1>4. \A o \in Requests : Carries(o)'
  BY <1>2, <1>3 DEF Carries
<1>5. \A p \in Pairs : Alive(p)' => Alive(p)
  BY <1>2, <1>3 DEF Alive, Pair
<1>6. Fresh'
  BY <1>2, <1>3, <1>5 DEF Fresh
<1>7. TokensFade'
  BY <1>2, <1>3 DEF TokensFade
<1> QED  BY <1>1, <1>4, <1>6, <1>7

LEMMA SendCourses ==
  ASSUME CoursesInv, NEW q \in Requests, Send(q)
  PROVE  CoursesInv'
<1> USE DEF CoursesInv, CoursesData
<1>1. PICK i \in Inquiries :
        request' = [request EXCEPT ![q] =
          [step |-> "check", course |-> i[1], token |-> i[2], asks |-> i[3], age |-> 0]]
  BY DEF Send
<1>2. /\ i[1] \in Courses /\ i[2] \in Tokens \cup {AdminToken}
      /\ i[3] \in Configs \cup {Malformed, Deletion}
  BY InquiriesAssumption
<1>3. request' \in [Requests -> Asks]
  BY <1>1, <1>2 DEF Asks
<1>4. /\ request'[q].step = "check" /\ request'[q].age = 0
      /\ request'[q].course \in Courses /\ request'[q].token \in Tokens \cup {AdminToken}
      /\ \A o \in Requests \ {q} : request'[o] = request[o]
  BY <1>1, <1>2
<1>5. UNCHANGED <<token, cached, store, gone>>
  BY DEF Send
<1>6. \A o \in Requests : Carries(o)'
  BY <1>4 DEF Carries
<1>7. \A p \in Pairs : Alive(p)' => Alive(p)
  BY <1>4, <1>5 DEF Alive, Pair
<1>8. Fresh'
  BY <1>4, <1>5, <1>7 DEF Fresh
<1>9. TokensFade'
  BY <1>4 DEF TokensFade
<1> QED  BY <1>3, <1>5, <1>6, <1>8, <1>9

LEMMA LetThroughCourses ==
  ASSUME CoursesInv, NEW q \in Requests, LetThrough(q), IsAdmins(q) \/ Remembered(q),
         UNCHANGED <<token, cached, store, gone>>
  PROVE  CoursesInv'
<1> USE DEF CoursesInv, CoursesData
<1> DEFINE age == IF IsAdmins(q) THEN 0 ELSE gone[Pair(q)]
<1>t. TTL \in Nat /\ TTL > 0
  BY InquiriesAssumption
<1>1. age \in Nat /\ age < TTL
  <2>1. CASE IsAdmins(q)
    BY <2>1, <1>t
  <2>2. CASE ~IsAdmins(q)
    <3>1. Pair(q) \in Pairs /\ cached[Pair(q)] > 0
      BY <2>2 DEF Remembered
    <3>2. cached[Pair(q)] + gone[Pair(q)] <= TTL
      BY <3>1 DEF Fresh
    <3> HIDE DEF CoursesInv
    <3>3. cached[Pair(q)] \in 0..TTL /\ gone[Pair(q)] \in 0..TTL
      BY <3>1 DEF CoursesInv
    <3> QED  BY <1>t, <2>2, <3>1, <3>2, <3>3
  <2> QED  BY <2>1, <2>2
<1> HIDE DEF age
<1>2. request' = [request EXCEPT ![q].step = "authorised", ![q].age = age]
  BY DEF LetThrough, age
<1>3. /\ request'[q].step = "authorised" /\ request'[q].age = age
      /\ request'[q].course = request[q].course /\ request'[q].token = request[q].token
      /\ \A o \in Requests \ {q} : request'[o] = request[o]
      /\ request' \in [Requests -> Asks]
  BY <1>1, <1>2 DEF Asks
<1>4. request[q].step = "check"
  BY DEF LetThrough
<1>5. \A o \in Requests : Carries(o)'
  BY <1>3, <1>4 DEF Carries
<1>6. \A p \in Pairs : Alive(p)' => Alive(p)
  BY <1>3 DEF Alive, Pair
<1>7. Fresh'
  BY <1>3, <1>6 DEF Fresh
<1>8. TokensFade'
  BY <1>1, <1>3 DEF TokensFade
<1> QED  BY <1>3, <1>5, <1>7, <1>8

LEMMA ConfirmCourses ==
  ASSUME CoursesInv, NEW q \in Requests, Goes(q, "ping", "confirmed"),
         token[request[q].course] = request[q].token,
         UNCHANGED <<token, cached, store, gone>>
  PROVE  CoursesInv'
<1> USE DEF CoursesInv, CoursesData
<1>1. request' \in [Requests -> Asks]
  BY DEF Goes, Asks
<1>2. /\ request[q].step = "ping"
      /\ request'[q].step = "confirmed" /\ request'[q].age = request[q].age
      /\ request'[q].course = request[q].course /\ request'[q].token = request[q].token
      /\ \A o \in Requests \ {q} : request'[o] = request[o]
  BY DEF Goes, Asks
<1>3. request[q].course \in Courses /\ request[q].token \in Tokens
  BY <1>2 DEF Carries
<1>4. \A o \in Requests : Carries(o)'
  BY <1>2, <1>3 DEF Carries
<1>5. \A p \in Pairs : Alive(p)' => Alive(p)
  BY <1>2 DEF Alive, Pair
<1>6. Fresh'
  BY <1>2, <1>5 DEF Fresh
<1>7. TokensFade'
  BY <1>2 DEF TokensFade
<1> QED  BY <1>1, <1>4, <1>6, <1>7

LEMMA RememberCourses ==
  ASSUME CoursesInv, NEW q \in Requests, Remember(q)
  PROVE  CoursesInv'
<1> USE DEF CoursesInv, CoursesData
<1>t. TTL \in Nat /\ TTL > 0
  BY InquiriesAssumption
<1>1. request' \in [Requests -> Asks]
  BY DEF Remember, Goes, Asks
<1>2. /\ request[q].step = "confirmed"
      /\ request'[q].step = "authorised" /\ request'[q].age = request[q].age
      /\ request'[q].course = request[q].course /\ request'[q].token = request[q].token
      /\ \A o \in Requests \ {q} : request'[o] = request[o]
  BY DEF Remember, Goes, Asks
<1>3. Pair(q) \in Pairs
  BY <1>2 DEF Carries, Pair, Pairs
<1>4. gone[Pair(q)] = 0
  BY <1>2, <1>3 DEF Fresh, Alive
<1>5. /\ cached' = [cached EXCEPT ![Pair(q)] = TTL] /\ UNCHANGED <<token, store, gone>>
      /\ cached' \in [Pairs -> 0..TTL]
  BY <1>t, <1>3 DEF Remember
<1>6. \A o \in Requests : Carries(o)'
  BY <1>2 DEF Carries
<1>7. \A p \in Pairs : Alive(p)' => Alive(p)
  BY <1>2, <1>5 DEF Alive, Pair
<1>8. \A p \in Pairs : cached'[p] > 0 => cached'[p] + gone'[p] <= TTL
  BY <1>t, <1>3, <1>4, <1>5 DEF Fresh
<1>9. Fresh'
  BY <1>2, <1>5, <1>7, <1>8 DEF Fresh
<1>10. TokensFade'
  BY <1>t, <1>2 DEF TokensFade, Fresh
<1> QED  BY <1>1, <1>5, <1>6, <1>9, <1>10

LEMMA ReplaceCourses ==
  ASSUME CoursesInv, Replace
  PROVE  CoursesInv'
<1> USE DEF CoursesInv, CoursesData
<1>t. TTL \in Nat /\ TTL > 0
  BY InquiriesAssumption
<1>1. PICK c \in Courses, t \in Tokens :
        token' = [token EXCEPT ![c] = t] /\ gone' = [gone EXCEPT ![<<c, t>>] = 0]
  BY DEF Replace
<1>2. UNCHANGED <<cached, store, request>>
  BY DEF Replace
<1>3. token' \in [Courses -> Tokens] /\ gone' \in [Pairs -> 0..TTL]
  BY <1>t, <1>1 DEF Pairs
<1>4. \A p \in Pairs : gone'[p] = gone[p] \/ gone'[p] = 0
  BY <1>1 DEF Pairs
<1>5. \A p \in Pairs : Alive(p)' => gone'[p] = 0
  <2> SUFFICES ASSUME NEW p \in Pairs, Alive(p)' PROVE gone'[p] = 0
    OBVIOUS
  <2>1. CASE p = <<c, t>>
    BY <2>1, <1>1
  <2>2. CASE p # <<c, t>>
    <3>1. p[1] \in Courses /\ p[2] \in Tokens /\ p = <<p[1], p[2]>>
      BY DEF Pairs
    <3>2. Alive(p)
      BY <2>2, <3>1, <1>1, <1>2 DEF Alive, Pair
    <3> QED  BY <3>2, <1>4 DEF Fresh
  <2> QED  BY <2>1, <2>2
<1>6. \A p \in Pairs : cached'[p] > 0 => cached'[p] + gone'[p] <= TTL
  BY <1>t, <1>2, <1>4 DEF Fresh
<1>7. Fresh'
  BY <1>2, <1>5, <1>6 DEF Fresh
<1>8. (\A q \in Requests : Carries(q))' /\ TokensFade'
  BY <1>2 DEF Carries, TokensFade
<1> QED  BY <1>2, <1>3, <1>7, <1>8

LEMMA AgeCourses ==
  ASSUME CoursesInv, Age
  PROVE  CoursesInv'
<1> USE DEF CoursesInv, CoursesData
<1>t. TTL \in Nat /\ TTL > 0
  BY InquiriesAssumption
<1>1. /\ cached' = [p \in Pairs |-> IF cached[p] > 0 THEN cached[p] - 1 ELSE 0]
      /\ gone' = [p \in Pairs |-> IF Alive(p) \/ gone[p] = TTL THEN gone[p] ELSE gone[p] + 1]
      /\ UNCHANGED <<token, store, request>>
  BY DEF Age
<1>2. /\ \A p \in Pairs : cached'[p] = IF cached[p] > 0 THEN cached[p] - 1 ELSE 0
      /\ \A p \in Pairs : gone'[p] = IF Alive(p) \/ gone[p] = TTL THEN gone[p] ELSE gone[p] + 1
      /\ \A p \in Pairs : cached[p] \in 0..TTL /\ gone[p] \in 0..TTL
  BY <1>1
<1>3. cached' \in [Pairs -> 0..TTL] /\ gone' \in [Pairs -> 0..TTL]
  BY <1>t, <1>1, <1>2
<1>4. \A p \in Pairs : Alive(p)' => gone'[p] = 0
  BY <1>1, <1>2 DEF Fresh, Alive, Pair
<1>5. \A p \in Pairs : cached'[p] > 0 => cached'[p] + gone'[p] <= TTL
  BY <1>t, <1>2 DEF Fresh
<1>6. Fresh'
  BY <1>1, <1>4, <1>5 DEF Fresh
<1>7. (\A q \in Requests : Carries(q))' /\ TokensFade'
  BY <1>1 DEF Carries, TokensFade
<1> QED  BY <1>1, <1>3, <1>6, <1>7

LEMMA CoursesSteps == CoursesInv /\ CoursesNext => CoursesInv'
<1> SUFFICES ASSUME CoursesInv, CoursesNext PROVE CoursesInv'
  OBVIOUS
<1>s. store \in [Courses -> {None} \cup Stored] /\ request \in [Requests -> Asks]
  BY DEF CoursesInv, CoursesData
<1>1. ASSUME NEW q \in Requests, CheckCache(q) PROVE CoursesInv'
  <2>1. UNCHANGED <<token, cached, store, gone>>
    BY <1>1 DEF CheckCache
  <2>2. CASE IsAdmins(q) \/ Remembered(q)
    BY <1>1, <2>1, <2>2, LetThroughCourses DEF CheckCache
  <2>3. CASE ~(IsAdmins(q) \/ Remembered(q))
    BY <1>1, <1>s, <2>1, <2>3, Advance DEF CheckCache
  <2> QED  BY <2>2, <2>3
<1>2. ASSUME NEW q \in Requests, Ping(q) PROVE CoursesInv'
  <2>1. UNCHANGED <<token, cached, store, gone>>
    BY <1>2 DEF Ping
  <2>2. CASE Goes(q, "ping", "confirmed") /\ token[request[q].course] = request[q].token
    BY <2>1, <2>2, ConfirmCourses
  <2>3. CASE Goes(q, "ping", "refused")
    BY <1>s, <2>1, <2>3, Advance
  <2> QED  BY <1>2, <2>2, <2>3 DEF Ping
<1>3. ASSUME NEW q \in Requests, Upload(q) PROVE CoursesInv'
  <2>1. /\ UNCHANGED <<token, cached, gone>> /\ Goes(q, "authorised", "done")
        /\ request[q].asks \in Configs
        /\ store' = [store EXCEPT ![request[q].course] =
                       [config |-> request[q].asks, token |-> request[q].token]]
    BY <1>3 DEF Upload
  <2>2. request[q].token \in Tokens \cup {AdminToken}
    BY <2>1 DEF CoursesInv, CoursesData, Carries, Goes
  <2>3. store' \in [Courses -> {None} \cup Stored]
    BY <1>s, <2>1, <2>2 DEF Stored
  <2> QED  BY <2>1, <2>3, Advance
<1>4. ASSUME NEW q \in Requests, Delete(q) PROVE CoursesInv'
  <2>1. /\ UNCHANGED <<token, cached, gone>> /\ Goes(q, "authorised", "done")
        /\ store' = [store EXCEPT ![request[q].course] = None]
    BY <1>4 DEF Delete
  <2>2. store' \in [Courses -> {None} \cup Stored]
    BY <1>s, <2>1
  <2> QED  BY <2>1, <2>2, Advance
<1>5. ASSUME NEW q \in Requests, Unprocessable(q) PROVE CoursesInv'
  BY <1>5, <1>s, Advance DEF Unprocessable
<1>6. ASSUME NEW q \in Requests, Drop(q) PROVE CoursesInv'
  <2>1. UNCHANGED <<token, cached, store, gone>>
    BY <1>6 DEF Drop
  <2>2. PICK step \in {"check", "ping", "confirmed", "authorised"} : Goes(q, step, "refused")
    BY <1>6 DEF Drop
  <2> QED  BY <1>s, <2>1, <2>2, Advance
<1> QED
  BY <1>1, <1>2, <1>3, <1>4, <1>5, <1>6, SendCourses, RememberCourses, ReplaceCourses,
     AgeCourses DEF CoursesNext, Handle

(* No step of the worker, of the hosting, of students or of teachers       *)
(* touches the courses API.                                                *)
LEMMA SummaryKeepsCourses == SummaryNext => KeepsCourses
BY DEF SummaryNext, KeepsCourses, api, Step, StartCycle, LoadCourse, EndCycle, EndCourse, ListMRs,
       EndTask, StartMR, RunCheck, EndChecklist, ListNotes, PostOrUpdate, AddLabels, RemoveLabels,
       Loop, Submit, Answer, Retry, Raise, Hang, TimeLimit, OrphanRetries, OrphanEnds, Restart,
       Push, Quote

------------------------------------------------------------------------------
(* The worker, its calls, and the merge requests.                          *)

Notes == [task : Tasks, author : Users, failed : SUBSET AllChecks]

Jobs == [names : SUBSET Courses, tasks : Seq(Tasks), mrs : Seq(MRs), next : Nat \ {0},
         failed : SUBSET AllChecks, found : Nat, clean : BOOLEAN]

Writes == {"create", "update", "add", "remove"}

(* What a call that writes finds: its merge request carries its task, and  *)
(* a note it updates is there and the bot's own.                           *)
Addressed(c) ==
    /\ c.do \in Writes => c.mr \in MRs /\ c.mr \in ToSet(Labelled[c.task])
    /\ c.do = "update" =>
         c.id \in DOMAIN notes[c.mr] /\ IsSummary(notes[c.mr][c.id], c.task)

(* The call the worker waits for is the one of its step, for its task and  *)
(* merge request.                                                          *)
DoneAt(do) ==
    CASE do = "list" -> "tasks"   [] do = "check" -> "checks"  [] do = "notes" -> "notes"
      [] do = "add" -> "label"    [] do = "remove" -> "unlabel" [] OTHER -> "post"

Awaits ==
    /\ pc = DoneAt(awaited.do)
    /\ awaited.task = Task /\ awaited.failed = job.failed
    /\ pc \in MRSteps => awaited.mr = MR
    /\ awaited.do = "list" => job.tasks # <<>>
    /\ awaited.do = "check" => awaited.id = job.next /\ job.next <= Len(Checks)
    /\ awaited.do = "create" => job.found = 0
    /\ awaited.do = "update" => job.found # 0 /\ awaited.id = job.found
    /\ awaited.do = "add" => awaited.labels = IF Passed THEN {Processed} ELSE {Processed, FixIt}
    /\ awaited.do = "remove" => awaited.labels = {FixIt}

(* Where the worker is, what it has in hand, and what it knows of the      *)
(* merge request: the summary it found is still the first one, and there   *)
(* is one when it comes to the labels.                                     *)
AtWork ==
    /\ pc \in {"sleep", "courses", "tasks", "mrs"} \cup MRSteps
    /\ job \in Jobs
    /\ pc \in {"mrs"} \cup MRSteps =>
         job.tasks # <<>> /\ ToSet(job.mrs) \subseteq ToSet(Labelled[Task])
    /\ pc = "tasks" => job.mrs = <<>>
    /\ pc \in MRSteps => job.mrs # <<>>
    /\ pc = "post" /\ job.found # 0 => job.found = Existing(MR, Task)
    /\ pc \in {"label", "unlabel"} => Summaries(MR, Task) # {}

HostingData ==
    /\ notes \in [MRs -> Seq(Notes)]
    /\ labels \in [MRs -> SUBSET Names]
    /\ DOMAIN version = MRs
    /\ \A m \in MRs : version[m] \in DOMAIN Failing[m]

AwaitedData == awaited # None => awaited \in Calls /\ Addressed(awaited) /\ Awaits

OrphansData == \A c \in BagToSet(orphans) : c \in Calls /\ Addressed(c)

SummaryData == HostingData /\ AtWork /\ AwaitedData /\ OrphansData

(* What any step does to the notes: it appends, and it rewrites what the   *)
(* bot's own notes say.                                                    *)
Evolves ==
    /\ notes' \in [MRs -> Seq(Notes)]
    /\ \A m \in MRs :
         /\ Len(notes[m]) <= Len(notes'[m])
         /\ \A i \in DOMAIN notes[m] :
              /\ notes'[m][i].task = notes[m][i].task
              /\ notes'[m][i].author = notes[m][i].author
              /\ notes[m][i].author # Bot => notes'[m][i] = notes[m][i]

LEMMA ExistingIs ==
  \A m, k : /\ Existing(m, k) = First(Summaries(m, k))
            /\ Existing(m, k)' = First(Summaries(m, k)')
BY DEF Existing, Summaries, First

LEMMA SummariesAre ==
  ASSUME HostingData
  PROVE  \A m \in MRs, k \in Tasks : Summaries(m, k) \subseteq Nat \ {0}
BY DEF HostingData, Summaries

(* A summary that is there stays, and the first one stays the first.       *)
LEMMA SummariesGrow ==
  ASSUME HostingData, Evolves, NEW m \in MRs, NEW k \in Tasks
  PROVE  /\ Summaries(m, k) \subseteq Summaries(m, k)'
         /\ Summaries(m, k)' \subseteq Nat \ {0}
         /\ \A i \in Summaries(m, k)' \ Summaries(m, k) : i > Len(notes[m])
         /\ Summaries(m, k) # {} => Existing(m, k)' = Existing(m, k)
<1>1. Summaries(m, k) \subseteq Summaries(m, k)' /\ Summaries(m, k)' \subseteq Nat \ {0}
  BY DEF HostingData, Evolves, Summaries, IsSummary
<1>2. \A i \in Summaries(m, k)' \ Summaries(m, k) : i > Len(notes[m])
  BY DEF HostingData, Evolves, Summaries, IsSummary
<1>3. \A i \in Summaries(m, k) : i \in Nat \ {0} /\ i <= Len(notes[m])
  BY DEF HostingData, Summaries
<1>4. ASSUME Summaries(m, k) # {} PROVE Existing(m, k)' = Existing(m, k)
  <2> DEFINE S == Summaries(m, k)
             T == Summaries(m, k)'
  <2>1. /\ S # {} /\ S \subseteq T /\ T \subseteq Nat \ {0}
        /\ Len(notes[m]) \in Nat
        /\ \A i \in T \ S : i > Len(notes[m])
        /\ \A i \in S : i <= Len(notes[m])
    BY <1>1, <1>2, <1>3, <1>4 DEF HostingData
  <2> HIDE DEF S, T
  <2>2. First(T) = First(S)
    BY <2>1, FirstStays
  <2> QED  BY <2>2, ExistingIs DEF S, T
<1> QED  BY <1>1, <1>2, <1>4

LEMMA AddressedStays ==
  ASSUME HostingData, Evolves, NEW c \in Calls, Addressed(c)
  PROVE  Addressed(c)'
BY DEF HostingData, Evolves, Addressed, IsSummary, Calls, Writes

LEMMA Unmoved == HostingData /\ UNCHANGED notes => Evolves
BY DEF HostingData, Evolves

------------------------------------------------------------------------------
(* What every step leaves in place.                                        *)

LEMMA BagsAre ==
  \A B, x, c : /\ c \in BagToSet(BagAdd(B, x)) => c \in BagToSet(B) \/ c = x
               /\ c \in BagToSet(BagRemove(B, x)) => c \in BagToSet(B)
               /\ c \notin BagToSet(EmptyBag)
BY DEF BagToSet, BagAdd, BagRemove, EmptyBag, SetToBag

LEMMA HeadAndTail ==
  ASSUME NEW S, NEW s \in Seq(S), s # <<>>
  PROVE  Head(s) \in S /\ Head(s) \in ToSet(s) /\ Tail(s) \in Seq(S) /\ ToSet(Tail(s)) \subseteq ToSet(s)
<1>1. Len(s) \in Nat \ {0} /\ Head(s) = s[1] /\ 1 \in DOMAIN s
  OBVIOUS
<1>2. Tail(s) \in Seq(S) /\ \A i \in DOMAIN Tail(s) : Tail(s)[i] = s[i + 1] /\ i + 1 \in DOMAIN s
  OBVIOUS
<1> QED  BY <1>1, <1>2 DEF ToSet

LEMMA Rewritten ==
  ASSUME NEW S, NEW s \in Seq(S), NEW i \in DOMAIN s, NEW e \in S
  PROVE  [s EXCEPT ![i] = e] \in Seq(S) /\ Len([s EXCEPT ![i] = e]) = Len(s)
OBVIOUS

(* The merge request and the task in hand.                                 *)
LEMMA InHand ==
  ASSUME AtWork, pc \in MRSteps
  PROVE  /\ Task \in Tasks /\ MR \in MRs /\ MR \in ToSet(Labelled[Task])
         /\ Tail(job.mrs) \in Seq(MRs) /\ ToSet(Tail(job.mrs)) \subseteq ToSet(Labelled[Task])
<1>1. job.tasks \in Seq(Tasks) /\ job.mrs \in Seq(MRs) /\ job.tasks # <<>> /\ job.mrs # <<>>
      /\ ToSet(job.mrs) \subseteq ToSet(Labelled[Task])
  BY DEF AtWork, Jobs
<1> QED  BY <1>1, HeadAndTail DEF Task, MR

LEMMA ApplyNotes ==
  ASSUME HostingData, NEW c \in Calls, Addressed(c), Apply(c)
  PROVE  Evolves /\ HostingData'
<1>1. version' = version
  BY DEF Apply
<1>2. labels' \in [MRs -> SUBSET Names]
  BY DEF Apply, HostingData, Calls, Addressed, Writes
<1>3. CASE c.do = "create"
  <2>1. /\ c.mr \in MRs /\ Note(c.task, Bot, c.failed) \in Notes
        /\ notes' = [notes EXCEPT ![c.mr] = Append(@, Note(c.task, Bot, c.failed))]
    BY <1>3, SummaryAssumption DEF Apply, Addressed, Writes, Calls, Notes, Note
  <2>2. notes' \in [MRs -> Seq(Notes)]
    BY <2>1 DEF HostingData
  <2>3. \A m \in MRs : notes'[m] = notes[m] \/ notes'[m] = Append(notes[m], Note(c.task, Bot, c.failed))
    BY <2>1 DEF HostingData
  <2> QED  BY <1>1, <1>2, <2>1, <2>2, <2>3 DEF Evolves, HostingData
<1>4. CASE c.do = "update"
  <2>1. /\ c.mr \in MRs /\ c.id \in DOMAIN notes[c.mr] /\ notes[c.mr][c.id].author = Bot
        /\ c.failed \in SUBSET AllChecks
        /\ notes' = [notes EXCEPT ![c.mr][c.id].failed = c.failed]
    BY <1>4 DEF Apply, Addressed, Writes, Calls, IsSummary
  <2>2. notes[c.mr] \in Seq(Notes) /\ notes[c.mr][c.id] \in Notes
    BY <2>1 DEF HostingData
  <2>3. [notes[c.mr][c.id] EXCEPT !.failed = c.failed] \in Notes
    BY <2>1, <2>2 DEF Notes
  <2>4. notes'[c.mr] = [notes[c.mr] EXCEPT ![c.id] = [notes[c.mr][c.id] EXCEPT !.failed = c.failed]]
        /\ \A m \in MRs \ {c.mr} : notes'[m] = notes[m]
    BY <2>1 DEF HostingData
  <2>5. notes'[c.mr] \in Seq(Notes) /\ Len(notes'[c.mr]) = Len(notes[c.mr])
    <3> DEFINE e == [notes[c.mr][c.id] EXCEPT !.failed = c.failed]
    <3>1. notes[c.mr] \in Seq(Notes) /\ c.id \in DOMAIN notes[c.mr] /\ e \in Notes
          /\ notes'[c.mr] = [notes[c.mr] EXCEPT ![c.id] = e]
      BY <2>1, <2>2, <2>3, <2>4
    <3> HIDE DEF e
    <3> QED  BY <3>1, Rewritten
  <2>6. notes' \in [MRs -> Seq(Notes)]
    BY <2>1, <2>4, <2>5 DEF HostingData
  <2>7. /\ \A i \in DOMAIN notes[c.mr] \ {c.id} : notes'[c.mr][i] = notes[c.mr][i]
        /\ notes'[c.mr][c.id] = [notes[c.mr][c.id] EXCEPT !.failed = c.failed]
    BY <2>1, <2>2, <2>4
  <2>8. /\ notes'[c.mr][c.id].task = notes[c.mr][c.id].task
        /\ notes'[c.mr][c.id].author = notes[c.mr][c.id].author
    BY <2>2, <2>7 DEF Notes
  <2> QED  BY <1>1, <1>2, <2>1, <2>4, <2>5, <2>6, <2>7, <2>8 DEF Evolves, HostingData
<1>5. CASE c.do \notin {"create", "update"}
  <2>1. notes' = notes
    BY <1>5 DEF Apply
  <2> QED  BY <1>1, <1>2, <2>1 DEF Evolves, HostingData
<1> QED  BY <1>3, <1>4, <1>5

LEMMA WorkerStays ==
  ASSUME SummaryData, Evolves, UNCHANGED <<pc, job>>
  PROVE  AtWork'
<1>1. pc \in MRSteps => Task \in Tasks /\ MR \in MRs
  BY InHand DEF SummaryData
<1>2. MR' = MR /\ Task' = Task
  BY DEF MR, Task
<1>3. ASSUME pc \in MRSteps
      PROVE  /\ Summaries(MR, Task) # {} => Summaries(MR, Task)' # {}
             /\ Summaries(MR, Task) # {} => Existing(MR, Task)' = Existing(MR, Task)
  <2>1. PICK m \in MRs, k \in Tasks : MR = m /\ Task = k
    BY <1>1, <1>3
  <2>2. /\ Summaries(m, k) # {} => Summaries(m, k)' # {}
        /\ Summaries(m, k) # {} => Existing(m, k)' = Existing(m, k)
    BY SummariesGrow DEF SummaryData
  <2>3. MR' = m /\ Task' = k /\ MR = m /\ Task = k
    BY <1>2, <2>1
  <2> QED  BY <2>2, <2>3 DEF Summaries, Existing
<1>4. ASSUME pc = "post", job.found # 0
      PROVE  job.found = Existing(MR, Task)'
  <2>1. pc \in MRSteps /\ job.found = Existing(MR, Task)
    BY <1>4 DEF SummaryData, AtWork, MRSteps, WriteSteps
  <2>2. Summaries(MR, Task) # {}
    BY <1>4, <2>1, ExistingIs DEF First
  <2> QED  BY <1>3, <2>1, <2>2
<1>5. ASSUME pc \in {"label", "unlabel"}
      PROVE  Summaries(MR, Task)' # {}
  <2>1. pc \in MRSteps /\ Summaries(MR, Task) # {}
    BY <1>5 DEF SummaryData, AtWork, MRSteps, WriteSteps
  <2> QED  BY <1>3, <2>1
<1> QED  BY <1>2, <1>4, <1>5 DEF SummaryData, AtWork, MR, Task

LEMMA OrphansStay ==
  ASSUME SummaryData, Evolves,
         \A c \in BagToSet(orphans)' : c \in BagToSet(orphans) \/ (c \in Calls /\ Addressed(c))
  PROVE  OrphansData'
<1> SUFFICES ASSUME NEW c \in BagToSet(orphans)' PROVE c \in Calls /\ Addressed(c)'
  BY DEF OrphansData
<1>1. c \in Calls /\ Addressed(c)
  BY DEF SummaryData, OrphansData
<1> QED  BY <1>1, AddressedStays DEF SummaryData

(* The call the worker waits for is the same but for its tries, or for     *)
(* hanging.                                                                *)
LEMMA AwaitedStays ==
  ASSUME SummaryData, Evolves, UNCHANGED <<pc, job>>, awaited # None, awaited' \in Calls,
         \A f \in {"do", "mr", "task", "failed", "labels", "id"} : awaited'[f] = awaited[f]
  PROVE  AwaitedData'
<1>1. awaited \in Calls /\ Addressed(awaited) /\ Awaits
  BY DEF SummaryData, AwaitedData
<1>2. PICK c \in Calls : c = awaited
  BY <1>1
<1>3. PICK d \in Calls : d = awaited'
  OBVIOUS
<1>4. /\ d.do = c.do /\ d.mr = c.mr /\ d.task = c.task /\ d.failed = c.failed
      /\ d.labels = c.labels /\ d.id = c.id
  BY <1>2, <1>3
<1>5. Addressed(c) /\ Addressed(c)'
  BY <1>1, <1>2, AddressedStays DEF SummaryData
<1>6. Addressed(d)'
  BY <1>4, <1>5 DEF Addressed
<1>7. Addressed(awaited)'
  BY <1>3, <1>6 DEF Addressed
<1>8. Awaits'
  BY <1>1, <1>2, <1>3, <1>4 DEF Awaits, MR, Task, Checks, Passed
<1> QED  BY <1>7, <1>8 DEF AwaitedData

(* The worker waits for nothing between calls.                             *)
LEMMA Idle ==
  ASSUME SummaryData,
         \/ pc \in {"sleep", "courses", "mrs"}
         \/ pc = "tasks" /\ job.tasks = <<>>
         \/ pc = "checks" /\ job.next > Len(Checks)
  PROVE  awaited = None
<1> SUFFICES ASSUME awaited # None PROVE FALSE
  OBVIOUS
<1>1. awaited \in Calls /\ Awaits
  BY DEF SummaryData, AwaitedData
<1>2. CASE pc = "checks" /\ job.next > Len(Checks)
  <2>1. awaited.do = "check"
    BY <1>1, <1>2 DEF Awaits, DoneAt, Calls
  <2>2. job.next <= Len(Checks) /\ job.next \in Nat
    BY <1>1, <2>1 DEF Awaits, SummaryData, AtWork, Jobs
  <2>3. Checks \in Seq(ToSet(Checks))
    BY <1>2, InHand, SummaryAssumption DEF Checks, SummaryData, MRSteps
  <2> QED  BY <1>2, <2>2, <2>3
<1> QED  BY <1>1, <1>2 DEF Awaits, DoneAt, Calls

LEMMA FoundIs ==
  ASSUME HostingData, AtWork, pc = "post", job.found # 0
  PROVE  job.found \in Summaries(MR, Task)
<1>1. MR \in MRs /\ Task \in Tasks
  BY InHand DEF MRSteps, WriteSteps
<1>2. job.found = Existing(MR, Task)
  BY DEF AtWork
<1>3. Summaries(MR, Task) # {}
  BY <1>2, ExistingIs DEF First
<1>4. Summaries(MR, Task) \subseteq Nat \ {0}
  BY <1>1, SummariesAre
<1> QED  BY <1>2, <1>3, <1>4, ExistingIs, FirstIs

LEMMA SubmitData ==
  ASSUME SummaryData, NEW step \in {"tasks"} \cup MRSteps,
         NEW do \in {"list", "check", "notes", "create", "update", "add", "remove"},
         NEW names \in SUBSET Names, NEW id \in Nat,
         Submit(step, do, names, id), step = DoneAt(do), job.tasks # <<>>,
         do = "check" => id = job.next /\ job.next <= Len(Checks),
         do = "create" => job.found = 0,
         do = "update" => job.found # 0 /\ id = job.found,
         do = "add" => names = IF Passed THEN {Processed} ELSE {Processed, FixIt},
         do = "remove" => names = {FixIt}
  PROVE  SummaryData'
<1>1. /\ pc = step /\ UNCHANGED <<version, notes, labels, pc, job, orphans>>
      /\ awaited' = Call(do, names, id)
  BY DEF Submit, hosting
<1>2. Task \in Tasks /\ job \in Jobs
  BY HeadAndTail DEF SummaryData, AtWork, Jobs, Task
<1>3. pc \in MRSteps => MR \in MRs /\ MR \in ToSet(Labelled[Task]) /\ job.mrs # <<>>
  BY InHand DEF SummaryData, AtWork
<1>4. pc = "tasks" => job.mrs = <<>>
  BY DEF SummaryData, AtWork
<1> DEFINE c == Call(do, names, id)
<1>5. /\ c.do = do /\ c.task = Task /\ c.failed = job.failed /\ c.labels = names /\ c.id = id
      /\ pc \in MRSteps => c.mr = MR
      /\ c \in Calls
  BY <1>1, <1>2, <1>3, <1>4, SummaryAssumption DEF Call, Calls, Jobs
<1>6. PICK d \in Calls : d = awaited'
  BY <1>1, <1>5
<1>7. /\ d.do = do /\ d.task = Task /\ d.failed = job.failed /\ d.labels = names /\ d.id = id
      /\ pc \in MRSteps => d.mr = MR
  BY <1>1, <1>5, <1>6
<1>8. do \in Writes => pc \in MRSteps
  BY <1>1 DEF DoneAt, Writes, MRSteps, WriteSteps
<1>9. do = "update" => id \in Summaries(MR, Task)
  BY <1>1, FoundIs DEF SummaryData, DoneAt
<1>10. Addressed(d)
  BY <1>3, <1>7, <1>8, <1>9 DEF Addressed, Summaries, Writes
<1>11. Addressed(d)'
  BY <1>1, <1>10 DEF Addressed
<1>12. Addressed(awaited)'
  BY <1>6, <1>11 DEF Addressed
<1>13. Awaits'
  BY <1>1, <1>6, <1>7 DEF Awaits, MR, Task, Checks, Passed
<1>14. HostingData' /\ AtWork' /\ OrphansData'
  BY <1>1 DEF SummaryData, HostingData, AtWork, OrphansData, MR, Task, Existing, Summaries, Addressed
<1> QED  BY <1>6, <1>12, <1>13, <1>14 DEF SummaryData, AwaitedData

(* A step of the worker between two calls.                                 *)
LEMMA LoopData ==
  ASSUME SummaryData, UNCHANGED <<hosting, awaited, orphans>>, awaited = None, AtWork'
  PROVE  SummaryData'
BY DEF SummaryData, HostingData, AwaitedData, OrphansData, Addressed, hosting

LEMMA NoJobIs == NoJob \in Jobs /\ NoJob.mrs = <<>>
BY DEF NoJob, Jobs

LEMMA JobWith ==
  ASSUME NEW j \in Jobs
  PROVE  /\ \A x \in Seq(Tasks) : [j EXCEPT !.tasks = x] \in Jobs
         /\ \A x \in Seq(MRs) : [j EXCEPT !.mrs = x] \in Jobs
         /\ \A x \in Nat \ {0} : [j EXCEPT !.next = x] \in Jobs
         /\ \A x \in SUBSET AllChecks : [j EXCEPT !.failed = x] \in Jobs
         /\ \A x \in Nat : [j EXCEPT !.found = x] \in Jobs
         /\ \A x \in BOOLEAN : [j EXCEPT !.clean = x] \in Jobs
<1>1. \A x \in Seq(Tasks) : [j EXCEPT !.tasks = x] \in Jobs
  BY DEF Jobs
<1>2. \A x \in Seq(MRs) : [j EXCEPT !.mrs = x] \in Jobs
  BY DEF Jobs
<1>3. \A x \in Nat \ {0} : [j EXCEPT !.next = x] \in Jobs
  BY DEF Jobs
<1>4. \A x \in SUBSET AllChecks : [j EXCEPT !.failed = x] \in Jobs
  BY DEF Jobs
<1>5. \A x \in Nat : [j EXCEPT !.found = x] \in Jobs
  BY DEF Jobs
<1>6. \A x \in BOOLEAN : [j EXCEPT !.clean = x] \in Jobs
  BY DEF Jobs
<1> QED  BY <1>1, <1>2, <1>3, <1>4, <1>5, <1>6

LEMMA JobBegun ==
  ASSUME NEW j \in Jobs, NEW b \in BOOLEAN, NEW k,
         k = [j EXCEPT !.next = 1, !.failed = {}, !.clean = b]
  PROVE  /\ k \in Jobs /\ k.mrs = j.mrs /\ k.tasks = j.tasks
         /\ k.next = 1 /\ k.failed = {} /\ k.clean = b
<1>1. [j EXCEPT !.next = 1] \in Jobs
  BY DEF Jobs
<1>2. [j EXCEPT !.next = 1, !.failed = {}] \in Jobs
  BY <1>1, JobWith
<1>3. [j EXCEPT !.next = 1, !.failed = {}, !.clean = b] \in Jobs
  BY <1>2, JobWith
<1>4. k.mrs = j.mrs /\ k.tasks = j.tasks /\ k.next = 1 /\ k.failed = {} /\ k.clean = b
  BY DEF Jobs
<1> QED  BY <1>3, <1>4

LEMMA LoopSteps ==
  ASSUME SummaryData, CoursesData,
         \/ StartCycle \/ LoadCourse \/ EndCycle \/ EndCourse
         \/ EndTask \/ StartMR \/ EndChecklist
  PROVE  SummaryData' /\ UNCHANGED <<hosting, orphans, upset, doubted>> /\ awaited' = None
<1>1. UNCHANGED <<hosting, awaited, orphans, upset, doubted>>
  BY DEF StartCycle, LoadCourse, EndCycle, EndCourse, EndTask, StartMR, EndChecklist, Loop
<1>2. awaited = None
  BY Idle DEF StartCycle, LoadCourse, EndCycle, EndCourse, EndTask, StartMR, EndChecklist, Loop
<1>w. AtWork /\ job \in Jobs
  BY DEF SummaryData, AtWork
<1>3. CASE StartCycle
  <2>1. job' \in Jobs /\ pc' = "courses"
    BY <1>3, NoJobIs DEF StartCycle, Loop, Jobs
  <2>2. AtWork'
    BY <2>1 DEF AtWork, MRSteps, WriteSteps
  <2> QED  BY <1>1, <1>2, <2>2, LoopData
<1>4. CASE LoadCourse
  <2>1. PICK c \in job.names :
          /\ Loop("courses", "tasks")
          /\ job' = [NoJob EXCEPT !.names = job.names \ {c},
                                  !.tasks = IF store[c] = None THEN <<>> ELSE store[c].config]
    BY <1>4 DEF LoadCourse
  <2>2. c \in Courses
    BY <1>w DEF Jobs
  <2>3. (IF store[c] = None THEN <<>> ELSE store[c].config) \in Seq(Tasks)
    BY <2>2, SummaryAssumption DEF CoursesData, Stored
  <2>4. job' \in Jobs /\ job'.mrs = <<>> /\ pc' = "tasks"
    BY <1>w, <2>1, <2>3, NoJobIs DEF Loop, Jobs
  <2>5. AtWork'
    BY <2>4 DEF AtWork, MRSteps, WriteSteps
  <2> QED  BY <1>1, <1>2, <2>5, LoopData
<1>5. CASE EndCycle \/ EndCourse
  <2>1. job' = job /\ pc' \in {"sleep", "courses"}
    BY <1>5 DEF EndCycle, EndCourse, Loop
  <2>2. AtWork'
    BY <1>w, <2>1 DEF AtWork, MRSteps, WriteSteps
  <2> QED  BY <1>1, <1>2, <2>2, LoopData
<1>6. CASE EndTask
  <2>1. /\ pc = "mrs" /\ pc' = "tasks" /\ job.mrs = <<>>
        /\ job' = [job EXCEPT !.tasks = Tail(@)]
    BY <1>6 DEF EndTask, Loop
  <2>2. job.tasks # <<>> /\ Tail(job.tasks) \in Seq(Tasks)
    BY <1>w, <2>1, HeadAndTail DEF AtWork, Jobs
  <2>3. job' \in Jobs /\ job'.mrs = <<>>
    BY <1>w, <2>1, <2>2 DEF Jobs
  <2>4. AtWork'
    BY <2>1, <2>3 DEF AtWork, MRSteps, WriteSteps
  <2> QED  BY <1>1, <1>2, <2>4, LoopData
<1>7. CASE StartMR
  <2>1. /\ pc = "mrs" /\ pc' = "checks" /\ job.mrs # <<>>
        /\ job' = [job EXCEPT !.next = 1, !.failed = {}, !.clean = Alone]
    BY <1>7 DEF StartMR, Loop
  <2>2. Alone \in BOOLEAN
    BY DEF Alone
  <2>4. /\ job' \in Jobs /\ job'.mrs = job.mrs /\ job'.tasks = job.tasks
        /\ job'.next = 1 /\ job'.failed = {}
    <3>1. \E b \in BOOLEAN : job' = [job EXCEPT !.next = 1, !.failed = {}, !.clean = b]
      <4> WITNESS Alone \in BOOLEAN
      <4> QED  BY <2>1
    <3> QED  BY <1>w, <3>1, JobBegun
  <2>5. job.tasks # <<>> /\ ToSet(job.mrs) \subseteq ToSet(Labelled[Task])
    BY <1>w, <2>1 DEF AtWork
  <2>6. AtWork'
    BY <2>1, <2>4, <2>5 DEF AtWork, MRSteps, WriteSteps, Task
  <2> QED  BY <1>1, <1>2, <2>6, LoopData
<1>8. CASE EndChecklist
  <2>1. pc = "checks" /\ pc' = "notes" /\ UNCHANGED job
    BY <1>8 DEF EndChecklist, Loop
  <2>2. AtWork'
    BY <1>w, <2>1 DEF AtWork, MRSteps, WriteSteps, Task
  <2> QED  BY <1>1, <1>2, <2>2, LoopData
<1> QED  BY <1>1, <1>2, <1>3, <1>4, <1>5, <1>6, <1>7, <1>8

LEMMA DoneAtIs ==
  /\ DoneAt("list") = "tasks" /\ DoneAt("check") = "checks" /\ DoneAt("notes") = "notes"
  /\ DoneAt("create") = "post" /\ DoneAt("update") = "post"
  /\ DoneAt("add") = "label" /\ DoneAt("remove") = "unlabel"
BY DEF DoneAt

LEMMA SubmitSteps ==
  ASSUME SummaryData,
         ListMRs \/ RunCheck \/ ListNotes \/ PostOrUpdate \/ AddLabels \/ RemoveLabels
  PROVE  SummaryData' /\ UNCHANGED <<hosting, pc, job, orphans, upset, doubted>> /\ awaited = None
<1>1. UNCHANGED <<hosting, pc, job, orphans, upset, doubted>> /\ awaited = None
  BY DEF ListMRs, RunCheck, ListNotes, PostOrUpdate, AddLabels, RemoveLabels, Submit
<1>2. /\ job.next \in Nat /\ job.found \in Nat
      /\ pc \in MRSteps => job.tasks # <<>>
      /\ {} \in SUBSET Names /\ {FixIt} \in SUBSET Names /\ 0 \in Nat
  BY DEF SummaryData, AtWork, Jobs, Names
<1>3. CASE ListMRs
  <2>1. Submit("tasks", "list", {}, 0) /\ job.tasks # <<>>
    BY <1>3 DEF ListMRs
  <2> QED  BY <1>1, <1>2, <2>1, SubmitData, DoneAtIs
<1>4. CASE RunCheck
  <2>1. Submit("checks", "check", {}, job.next) /\ job.next <= Len(Checks) /\ job.tasks # <<>>
    BY <1>2, <1>4 DEF RunCheck, Submit, MRSteps
  <2>2. PICK id \in Nat : id = job.next
    BY <1>2
  <2>3. Submit("checks", "check", {}, id)
    BY <2>1, <2>2
  <2>4. "checks" \in {"tasks"} \cup MRSteps
    BY DEF MRSteps
  <2> QED  BY <1>1, <1>2, <2>1, <2>2, <2>3, <2>4, SubmitData, DoneAtIs
<1>5. CASE ListNotes
  <2>1. Submit("notes", "notes", {}, 0) /\ job.tasks # <<>>
    BY <1>2, <1>5 DEF ListNotes, Submit, MRSteps
  <2>2. "notes" \in {"tasks"} \cup MRSteps
    BY DEF MRSteps
  <2> QED  BY <1>1, <1>2, <2>1, <2>2, SubmitData, DoneAtIs
<1>6. CASE PostOrUpdate
  <2>1. PICK id \in Nat : id = job.found
    BY <1>2
  <2>2. PICK do \in {"create", "update"} : do = IF job.found = 0 THEN "create" ELSE "update"
    OBVIOUS
  <2>3. Submit("post", do, {}, id) /\ pc = "post"
    BY <1>6, <2>1, <2>2 DEF PostOrUpdate, Submit
  <2>4. "post" \in {"tasks"} \cup MRSteps /\ job.tasks # <<>>
    BY <1>2, <2>3 DEF MRSteps, WriteSteps
  <2> QED  BY <1>1, <1>2, <2>1, <2>2, <2>3, <2>4, SubmitData, DoneAtIs
<1>7. CASE AddLabels
  <2>1. PICK names \in SUBSET Names : names = IF Passed THEN {Processed} ELSE {Processed, FixIt}
    BY DEF Names
  <2>2. Submit("label", "add", names, 0) /\ pc = "label"
    BY <1>7, <2>1 DEF AddLabels, Submit
  <2>3. "label" \in {"tasks"} \cup MRSteps /\ job.tasks # <<>>
    BY <1>2, <2>2 DEF MRSteps, WriteSteps
  <2> QED  BY <1>1, <1>2, <2>1, <2>2, <2>3, SubmitData, DoneAtIs
<1>8. CASE RemoveLabels
  <2>1. Submit("unlabel", "remove", {FixIt}, 0) /\ pc = "unlabel"
    BY <1>8 DEF RemoveLabels, Submit
  <2>2. "unlabel" \in {"tasks"} \cup MRSteps /\ job.tasks # <<>>
    BY <1>2, <2>1 DEF MRSteps, WriteSteps
  <2> QED  BY <1>1, <1>2, <2>1, <2>2, SubmitData, DoneAtIs
<1> QED  BY <1>1, <1>3, <1>4, <1>5, <1>6, <1>7, <1>8

------------------------------------------------------------------------------
(* Calls that return, fail, hang or are given up.                          *)

LEMMA NextMRAtWork ==
  ASSUME AtWork, pc \in MRSteps, NextMR
  PROVE  AtWork'
<1>1. pc' = "mrs" /\ job' = [job EXCEPT !.mrs = Tail(@)]
  BY DEF NextMR
<1>2. /\ job \in Jobs /\ job.tasks # <<>>
      /\ Tail(job.mrs) \in Seq(MRs) /\ ToSet(Tail(job.mrs)) \subseteq ToSet(Labelled[Task])
  BY InHand DEF AtWork
<1>3. [job EXCEPT !.mrs = Tail(job.mrs)] \in Jobs
  BY <1>2, JobWith
<1>4. job' \in Jobs /\ job'.tasks = job.tasks /\ job'.mrs = Tail(job.mrs)
  BY <1>1, <1>2, <1>3 DEF Jobs
<1> QED  BY <1>1, <1>2, <1>4 DEF AtWork, MRSteps, WriteSteps, Task

LEMMA CheckedAtWork ==
  ASSUME AtWork, pc = "checks", pc' = pc, job.next <= Len(Checks), NEW fails \in BOOLEAN,
         Checked(fails)
  PROVE  AtWork'
<1>1. Task \in Tasks /\ job \in Jobs /\ job.next \in Nat \ {0} /\ job.failed \in SUBSET AllChecks
  BY InHand DEF AtWork, MRSteps, Jobs
<1>2. Checks[job.next] \in AllChecks
  <2>1. Checks \in Seq(ToSet(Checks))
    BY <1>1, SummaryAssumption DEF Checks
  <2>2. job.next \in DOMAIN Checks
    BY <1>1, <2>1
  <2> QED  BY <1>1, <2>2 DEF Checks, ToSet, AllChecks
<1> DEFINE failed == IF fails THEN job.failed \cup {Checks[job.next]} ELSE job.failed
<1>3. failed \in SUBSET AllChecks /\ job.next + 1 \in Nat \ {0}
  BY <1>1, <1>2
<1>4. job' = [job EXCEPT !.next = job.next + 1, !.failed = failed]
  BY DEF Checked
<1> HIDE DEF failed
<1>5. [job EXCEPT !.next = job.next + 1] \in Jobs
  BY <1>1, <1>3, JobWith
<1>6. [job EXCEPT !.next = job.next + 1, !.failed = failed] \in Jobs
  BY <1>3, <1>5, JobWith
<1>7. job'.tasks = job.tasks /\ job'.mrs = job.mrs
  BY <1>1, <1>4 DEF Jobs
<1> QED  BY <1>4, <1>6, <1>7 DEF AtWork, MRSteps, WriteSteps, Task

(* The hosting applies the call the worker waits for, or not.              *)
LEMMA MayApply ==
  ASSUME SummaryData, awaited # None, Apply(awaited) \/ UNCHANGED hosting
  PROVE  Evolves /\ HostingData'
<1>1. awaited \in Calls /\ Addressed(awaited)
  BY DEF SummaryData, AwaitedData
<1>2. CASE UNCHANGED hosting
  BY <1>2, Unmoved DEF SummaryData, HostingData, hosting
<1>3. CASE Apply(awaited)
  <2>1. PICK c \in Calls : c = awaited
    BY <1>1
  <2>2. Apply(c) /\ Addressed(c)
    BY <1>1, <1>3, <2>1 DEF Apply
  <2> QED  BY <2>2, ApplyNotes DEF SummaryData
<1> QED  BY <1>2, <1>3

(* A summary that was posted is there.                                     *)
LEMMA Posted ==
  ASSUME HostingData, NEW c \in Calls, Addressed(c), Apply(c), c.do \in {"create", "update"}
  PROVE  Summaries(c.mr, c.task)' # {}
<1>0. c.mr \in MRs /\ c.task \in Tasks /\ c.failed \in SUBSET AllChecks /\ notes[c.mr] \in Seq(Notes)
  BY DEF Addressed, Writes, Calls, HostingData
<1>1. CASE c.do = "create"
  <2>1. notes'[c.mr] = Append(notes[c.mr], Note(c.task, Bot, c.failed))
    BY <1>0, <1>1 DEF Apply, HostingData
  <2>2. Len(notes[c.mr]) + 1 \in DOMAIN notes'[c.mr]
        /\ notes'[c.mr][Len(notes[c.mr]) + 1] = Note(c.task, Bot, c.failed)
    BY <1>0, <2>1, SummaryAssumption
  <2>3. IsSummary(Note(c.task, Bot, c.failed), c.task)
    BY DEF IsSummary, Note
  <2> QED  BY <2>2, <2>3 DEF Summaries
<1>2. CASE c.do = "update"
  <2>1. c.id \in Summaries(c.mr, c.task)
    BY <1>2 DEF Addressed, Summaries
  <2>2. Evolves
    BY ApplyNotes
  <2>3. PICK m \in MRs, k \in Tasks : m = c.mr /\ k = c.task
    BY <1>0
  <2>4. Summaries(m, k) \subseteq Summaries(m, k)'
    BY <2>2, SummariesGrow
  <2> QED  BY <2>1, <2>3, <2>4
<1> QED  BY <1>1, <1>2

LEMMA AnswerData ==
  ASSUME SummaryData, Answer
  PROVE  SummaryData' /\ Evolves
<1>1. /\ awaited # None /\ Apply(awaited) /\ Return(awaited) /\ awaited' = None
      /\ UNCHANGED orphans
  BY DEF Answer, Running
<1>2. Evolves /\ HostingData'
  BY <1>1, MayApply
<1>3. awaited \in Calls /\ Addressed(awaited) /\ Awaits /\ AtWork /\ job \in Jobs /\ HostingData
  BY <1>1 DEF SummaryData, AwaitedData, AtWork
<1>4. OrphansData'
  BY <1>1, <1>2, OrphansStay
<1>5. AwaitedData'
  BY <1>1 DEF AwaitedData
<1>6. AtWork'
  <2>1. ASSUME awaited.do = "list", pc' = "mrs", job' = [job EXCEPT !.mrs = Labelled[Task]]
        PROVE  AtWork'
    <3>1. job.tasks # <<>> /\ Task \in Tasks
      BY <1>3, <2>1, HeadAndTail DEF Awaits, Jobs, Task
    <3>2. Labelled[Task] \in Seq(MRs)
      BY <3>1, SummaryAssumption
    <3>3. job' \in Jobs
      BY <1>3, <2>1, <3>2, JobWith
    <3>4. job'.tasks = job.tasks /\ job'.mrs = Labelled[Task]
      BY <1>3, <2>1 DEF Jobs
    <3> QED  BY <2>1, <3>1, <3>3, <3>4 DEF AtWork, MRSteps, WriteSteps, Task
  <2>2. ASSUME awaited.do = "check", UNCHANGED pc,
               Checked(Checks[awaited.id] \in Failing[MR][version[MR]])
        PROVE  AtWork'
    <3>1. pc = "checks" /\ job.next <= Len(Checks)
      BY <1>3, <2>2 DEF Awaits, DoneAt
    <3>2. \E fails \in BOOLEAN : Checked(fails)
      <4> WITNESS (Checks[awaited.id] \in Failing[MR][version[MR]]) \in BOOLEAN
      <4> QED  BY <2>2
    <3> QED  BY <1>3, <2>2, <3>1, <3>2, CheckedAtWork
  <2>3. ASSUME awaited.do = "notes", pc' = "post", job' = [job EXCEPT !.found = Existing(MR, Task)]
        PROVE  AtWork'
    <3>1. pc \in MRSteps
      BY <1>3, <2>3 DEF Awaits, DoneAt, MRSteps
    <3>2. MR \in MRs /\ Task \in Tasks
      BY <1>3, <3>1, InHand
    <3>3. Existing(MR, Task) \in Nat
      BY <1>3, <3>2, SummariesAre, ExistingIs, FirstIs
    <3>4. job' \in Jobs
      BY <1>3, <2>3, <3>3, JobWith
    <3>5. job'.tasks = job.tasks /\ job'.mrs = job.mrs /\ job'.found = Existing(MR, Task)
      BY <1>3, <2>3 DEF Jobs
    <3>6. notes' = notes
      BY <1>1, <2>3 DEF Apply
    <3>7. Existing(MR, Task)' = Existing(MR, Task)
      BY <3>5, <3>6 DEF Existing, MR, Task
    <3> QED  BY <1>3, <2>3, <3>1, <3>4, <3>5, <3>7 DEF AtWork, MRSteps, WriteSteps, Task
  <2>4. ASSUME awaited.do \in {"create", "update"}, pc' = "label", UNCHANGED job
        PROVE  AtWork'
    <3>1. pc = "post" /\ awaited.mr = MR /\ awaited.task = Task
      BY <1>3, <2>4 DEF Awaits, DoneAt, MRSteps, WriteSteps
    <3>2. PICK c \in Calls : c = awaited
      BY <1>3
    <3>3. Apply(c) /\ Addressed(c) /\ c.do \in {"create", "update"}
      BY <1>1, <1>3, <2>4, <3>2 DEF Apply
    <3>4. Summaries(c.mr, c.task)' # {}
      BY <1>3, <3>3, Posted
    <3>5. Summaries(MR, Task)' # {}
      BY <2>4, <3>1, <3>2, <3>4 DEF Summaries, MR, Task
    <3> QED  BY <1>3, <2>4, <3>1, <3>5 DEF AtWork, MRSteps, WriteSteps, Task
  <2>5. ASSUME awaited.do = "add", pc' = "unlabel", UNCHANGED job
        PROVE  AtWork'
    <3>1. pc = "label"
      BY <1>3, <2>5 DEF Awaits, DoneAt
    <3>2. PICK m \in MRs, k \in Tasks : m = MR /\ k = Task
      BY <1>3, <3>1, InHand DEF MRSteps, WriteSteps
    <3>3. Summaries(m, k) # {}
      BY <1>3, <3>1, <3>2 DEF AtWork
    <3>4. Summaries(m, k)' # {}
      BY <1>2, <1>3, <3>3, SummariesGrow
    <3>5. Summaries(MR, Task)' # {}
      BY <2>5, <3>2, <3>4 DEF Summaries, MR, Task
    <3> QED  BY <1>3, <2>5, <3>1, <3>5 DEF AtWork, MRSteps, WriteSteps, Task
  <2>6. ASSUME awaited.do \in {"add", "remove"}, NextMR
        PROVE  AtWork'
    <3>1. pc \in MRSteps
      BY <1>3, <2>6 DEF Awaits, DoneAt, MRSteps, WriteSteps
    <3> QED  BY <1>3, <2>6, <3>1, NextMRAtWork
  <2> QED  BY <1>1, <2>1, <2>2, <2>3, <2>4, <2>5, <2>6 DEF Return
<1> QED  BY <1>2, <1>4, <1>5, <1>6 DEF SummaryData

LEMMA CallWith ==
  ASSUME NEW c \in Calls
  PROVE  /\ c.tries < Attempts => [c EXCEPT !.tries = @ + 1] \in Calls
         /\ [c EXCEPT !.hangs = TRUE] \in Calls
         /\ \A f \in {"do", "mr", "task", "failed", "labels", "id"} :
              [c EXCEPT !.tries = @ + 1][f] = c[f] /\ [c EXCEPT !.hangs = TRUE][f] = c[f]
<1>1. c.tries < Attempts => [c EXCEPT !.tries = @ + 1] \in Calls
  <2>1. c.tries < Attempts => c.tries + 1 \in 1..Attempts
    BY SummaryAssumption DEF Calls
  <2>2. \A x \in 1..Attempts : [c EXCEPT !.tries = x] \in Calls
    BY DEF Calls
  <2> QED  BY <2>1, <2>2
<1>2. [c EXCEPT !.hangs = TRUE] \in Calls
  BY DEF Calls
<1>3. \A f \in {"do", "mr", "task", "failed", "labels", "id"} :
        [c EXCEPT !.tries = @ + 1][f] = c[f] /\ [c EXCEPT !.hangs = TRUE][f] = c[f]
  BY DEF Calls
<1> QED  BY <1>1, <1>2, <1>3

LEMMA RetryData ==
  ASSUME SummaryData, Retry \/ Hang
  PROVE  SummaryData' /\ Evolves
<1>1. /\ awaited # None /\ (Apply(awaited) \/ UNCHANGED hosting)
      /\ UNCHANGED <<pc, job, orphans>>
  BY DEF Retry, Hang, Running
<1>2. Evolves /\ HostingData'
  BY <1>1, MayApply
<1>3. PICK c \in Calls : c = awaited
  BY <1>1 DEF SummaryData, AwaitedData
<1>4. /\ awaited' \in Calls
      /\ \A f \in {"do", "mr", "task", "failed", "labels", "id"} : awaited'[f] = awaited[f]
  <2>1. CASE Retry
    <3>1. c.tries < Attempts /\ awaited' = [c EXCEPT !.tries = @ + 1]
      BY <1>3, <2>1 DEF Retry
    <3> QED  BY <1>3, <3>1, CallWith
  <2>2. CASE Hang
    <3>1. awaited' = [c EXCEPT !.hangs = TRUE]
      BY <1>3, <2>2 DEF Hang
    <3> QED  BY <1>3, <3>1, CallWith
  <2> QED  BY <2>1, <2>2
<1>5. AwaitedData'
  BY <1>1, <1>2, <1>4, AwaitedStays
<1>6. AtWork' /\ OrphansData'
  BY <1>1, <1>2, WorkerStays, OrphansStay
<1> QED  BY <1>2, <1>5, <1>6 DEF SummaryData

LEMMA RaiseData ==
  ASSUME SummaryData, Raise
  PROVE  SummaryData' /\ Evolves
<1>1. /\ awaited # None /\ (Apply(awaited) \/ UNCHANGED hosting)
      /\ Raised /\ awaited' = None /\ UNCHANGED orphans
  BY DEF Raise, Running
<1>2. Evolves /\ HostingData'
  BY <1>1, MayApply
<1>3. OrphansData' /\ AwaitedData'
  BY <1>1, <1>2, OrphansStay DEF AwaitedData
<1>4. AtWork /\ job \in Jobs /\ Awaits /\ awaited \in Calls
  BY <1>1 DEF SummaryData, AwaitedData, AtWork
<1>5. CASE pc = "tasks" /\ pc' = "courses" /\ UNCHANGED job
  <2>1. AtWork'
    BY <1>4, <1>5 DEF AtWork, MRSteps, WriteSteps
  <2> QED  BY <1>2, <1>3, <2>1 DEF SummaryData
<1>6. CASE pc = "checks" /\ UNCHANGED pc /\ Checked(TRUE)
  <2>1. job.next <= Len(Checks)
    BY <1>4, <1>6 DEF Awaits, DoneAt, Calls
  <2>2. AtWork'
    BY <1>4, <1>6, <2>1, CheckedAtWork
  <2> QED  BY <1>2, <1>3, <2>2 DEF SummaryData
<1>7. CASE pc \in MRSteps \ {"checks"} /\ NextMR
  <2>1. AtWork'
    BY <1>4, <1>7, NextMRAtWork
  <2> QED  BY <1>2, <1>3, <2>1 DEF SummaryData
<1> QED  BY <1>1, <1>5, <1>6, <1>7 DEF Raised

LEMMA GiveUpData ==
  ASSUME SummaryData, GiveUp
  PROVE  SummaryData' /\ Evolves
<1>1. /\ pc \in MRSteps /\ NextMR /\ awaited' = None /\ UNCHANGED hosting
      /\ orphans' = IF Running THEN BagAdd(orphans, awaited) ELSE orphans
  BY DEF GiveUp
<1>2. Evolves /\ HostingData'
  BY <1>1, Unmoved DEF SummaryData, HostingData, hosting
<1>3. \A c \in BagToSet(orphans)' :
        c \in BagToSet(orphans) \/ (c = awaited /\ awaited # None)
  BY <1>1, BagsAre DEF Running
<1>4. OrphansData'
  BY <1>2, <1>3, OrphansStay DEF SummaryData, AwaitedData
<1>5. AtWork' /\ AwaitedData'
  BY <1>1, NextMRAtWork DEF SummaryData, AwaitedData
<1> QED  BY <1>2, <1>4, <1>5 DEF SummaryData

LEMMA AwaitedKept ==
  ASSUME SummaryData, Evolves, UNCHANGED <<pc, job, awaited>>
  PROVE  AwaitedData'
<1>1. CASE awaited = None
  BY <1>1 DEF AwaitedData
<1>2. CASE awaited # None
  <2>1. awaited' \in Calls
    BY <1>2 DEF SummaryData, AwaitedData
  <2> QED  BY <1>2, <2>1, AwaitedStays
<1> QED  BY <1>1, <1>2

(* A call that was given up is repeated, or ends.                          *)
LEMMA OrphanData ==
  ASSUME SummaryData, OrphanRetries \/ OrphanEnds
  PROVE  SummaryData' /\ Evolves
<1>1. PICK c \in BagToSet(orphans) :
        /\ Apply(c) \/ UNCHANGED hosting
        /\ \/ c.tries < Attempts /\ orphans' = BagAdd(BagRemove(orphans, c), [c EXCEPT !.tries = @ + 1])
           \/ orphans' = BagRemove(orphans, c)
  BY DEF OrphanRetries, OrphanEnds
<1>2. UNCHANGED <<pc, job, awaited>>
  BY DEF OrphanRetries, OrphanEnds, worker
<1>3. c \in Calls /\ Addressed(c)
  BY DEF SummaryData, OrphansData
<1>4. Evolves /\ HostingData'
  <2>1. CASE Apply(c)
    BY <1>3, <2>1, ApplyNotes DEF SummaryData
  <2>2. CASE UNCHANGED hosting
    BY <2>2, Unmoved DEF SummaryData, HostingData, hosting
  <2> QED  BY <1>1, <2>1, <2>2
<1>5. c.tries < Attempts => [c EXCEPT !.tries = @ + 1] \in Calls /\ Addressed([c EXCEPT !.tries = @ + 1])
  <2> SUFFICES ASSUME c.tries < Attempts
               PROVE  [c EXCEPT !.tries = @ + 1] \in Calls /\ Addressed([c EXCEPT !.tries = @ + 1])
    OBVIOUS
  <2>1. PICK d \in Calls : d = [c EXCEPT !.tries = @ + 1]
    BY <1>3, CallWith
  <2>2. d.do = c.do /\ d.mr = c.mr /\ d.task = c.task /\ d.id = c.id
    BY <1>3, <2>1, CallWith
  <2>3. Addressed(d)
    BY <1>3, <2>2 DEF Addressed
  <2> QED  BY <2>1, <2>3
<1>6. \A d \in BagToSet(orphans)' : d \in BagToSet(orphans) \/ (d \in Calls /\ Addressed(d))
  BY <1>1, <1>5, BagsAre
<1>7. OrphansData'
  BY <1>4, <1>6, OrphansStay
<1>8. AtWork' /\ AwaitedData'
  BY <1>2, <1>4, WorkerStays, AwaitedKept
<1> QED  BY <1>4, <1>7, <1>8 DEF SummaryData

LEMMA RestartData ==
  ASSUME SummaryData, Restart
  PROVE  SummaryData' /\ Evolves
<1>1. /\ pc' = "sleep" /\ job' = NoJob /\ awaited' = None /\ orphans' = EmptyBag
      /\ UNCHANGED hosting \/ (awaited # None /\ Apply(awaited))
  BY DEF Restart, Running
<1>2. Evolves /\ HostingData'
  <2>1. CASE UNCHANGED hosting
    BY <2>1, Unmoved DEF SummaryData, HostingData, hosting
  <2>2. CASE awaited # None /\ Apply(awaited)
    BY <2>2, MayApply
  <2> QED  BY <1>1, <2>1, <2>2
<1>3. AtWork'
  BY <1>1, NoJobIs DEF AtWork, MRSteps, WriteSteps
<1>4. AwaitedData' /\ OrphansData'
  BY <1>1, BagsAre DEF AwaitedData, OrphansData
<1> QED  BY <1>2, <1>3, <1>4 DEF SummaryData

LEMMA PushData ==
  ASSUME SummaryData, Push
  PROVE  SummaryData' /\ Evolves
<1>1. PICK m \in MRs : version[m] < Len(Failing[m]) /\ version' = [version EXCEPT ![m] = @ + 1]
  BY DEF Push
<1>2. UNCHANGED <<notes, labels, pc, job, awaited, orphans>>
  BY DEF Push, worker
<1>3. Evolves
  BY <1>2, Unmoved DEF SummaryData
<1>4. HostingData'
  <2>1. HostingData
    BY DEF SummaryData
  <2>2. DOMAIN version' = MRs /\ version'[m] = version[m] + 1
        /\ \A o \in MRs \ {m} : version'[o] = version[o]
    BY <1>1, <2>1 DEF HostingData
  <2>3. DOMAIN Failing[m] = 1..Len(Failing[m]) /\ Len(Failing[m]) \in Nat
    BY SummaryAssumption
  <2>4. version'[m] \in DOMAIN Failing[m]
    BY <1>1, <2>1, <2>2, <2>3 DEF HostingData
  <2> QED  BY <1>2, <2>1, <2>2, <2>4 DEF HostingData
<1>5. AtWork' /\ AwaitedData'
  BY <1>2, <1>3, WorkerStays, AwaitedKept
<1>6. OrphansData'
  BY <1>2, <1>3, OrphansStay
<1> QED  BY <1>3, <1>4, <1>5, <1>6 DEF SummaryData

LEMMA QuoteData ==
  ASSUME SummaryData, Quote
  PROVE  SummaryData' /\ Evolves
<1>1. PICK k \in Tasks : \E m \in ToSet(Labelled[k]), u \in Users \ {Bot} :
        notes' = [notes EXCEPT ![m] = Append(@, Note(k, u, {}))]
  BY DEF Quote
<1>2. PICK m \in ToSet(Labelled[k]), u \in Users \ {Bot} :
        notes' = [notes EXCEPT ![m] = Append(@, Note(k, u, {}))]
  BY <1>1
<1>3. UNCHANGED <<version, labels, pc, job, awaited, orphans>>
  BY DEF Quote, worker
<1>4. m \in MRs
  BY SummaryAssumption DEF ToSet
<1>5. Note(k, u, {}) \in Notes /\ notes \in [MRs -> Seq(Notes)]
  BY DEF Note, Notes, SummaryData, HostingData
<1>6. \A o \in MRs : notes'[o] = notes[o] \/ notes'[o] = Append(notes[o], Note(k, u, {}))
  BY <1>2, <1>4, <1>5
<1>7. notes' \in [MRs -> Seq(Notes)]
  BY <1>2, <1>4, <1>5
<1>8. Evolves
  <2>1. PICK x \in Notes : x = Note(k, u, {})
    BY <1>5
  <2>2. \A o \in MRs : notes[o] \in Seq(Notes) /\ (notes'[o] = notes[o] \/ notes'[o] = Append(notes[o], x))
    BY <1>5, <1>6, <2>1
  <2>3. \A s \in Seq(Notes) : /\ Len(s) <= Len(Append(s, x))
                              /\ \A i \in DOMAIN s : Append(s, x)[i] = s[i]
    OBVIOUS
  <2> QED  BY <1>7, <2>2, <2>3 DEF Evolves
<1>9. HostingData'
  <2>1. HostingData
    BY DEF SummaryData
  <2> QED  BY <1>3, <1>7, <2>1 DEF HostingData
<1>10. AtWork' /\ AwaitedData'
  BY <1>3, <1>8, WorkerStays, AwaitedKept
<1>11. OrphansData'
  BY <1>3, <1>8, OrphansStay
<1> QED  BY <1>8, <1>9, <1>10, <1>11 DEF SummaryData

------------------------------------------------------------------------------
(* The types, and the notes of others.                                     *)

LEMMA SummaryInit == Init => SummaryData
<1> SUFFICES ASSUME Init PROVE SummaryData
  OBVIOUS
<1>1. HostingData
  BY DEF Init, InitSummary, HostingData
<1>2. AtWork
  BY NoJobIs DEF Init, InitSummary, AtWork, MRSteps, WriteSteps
<1>3. AwaitedData /\ OrphansData
  BY BagsAre DEF Init, InitSummary, AwaitedData, OrphansData
<1> QED  BY <1>1, <1>2, <1>3 DEF SummaryData

LEMMA SummaryKept ==
  ASSUME SummaryData, UNCHANGED <<hosting, worker, orphans>>
  PROVE  SummaryData' /\ Evolves
<1>1. Evolves
  BY Unmoved DEF SummaryData, hosting
<1>2. AtWork' /\ AwaitedData'
  BY <1>1, WorkerStays, AwaitedKept DEF worker
<1>3. OrphansData'
  BY <1>1, OrphansStay
<1>4. HostingData'
  BY DEF SummaryData, HostingData, hosting
<1> QED  BY <1>1, <1>2, <1>3, <1>4 DEF SummaryData

(* The steps of Next, by what they do to the merge requests.               *)
Looping == StartCycle \/ LoadCourse \/ EndCycle \/ EndCourse \/ EndTask \/ StartMR \/ EndChecklist
Submitting == ListMRs \/ RunCheck \/ ListNotes \/ PostOrUpdate \/ AddLabels \/ RemoveLabels
Elsewhere == UNCHANGED <<hosting, worker, orphans, hung, upset, doubted>>

LEMMA Steps ==
  ASSUME [Next]_vars
  PROVE  \/ Looping \/ Submitting \/ Answer \/ Retry \/ Raise \/ Hang \/ TimeLimit
         \/ OrphanRetries \/ OrphanEnds \/ Restart \/ Push \/ Quote \/ Elsewhere
BY DEF Next, SummaryNext, Step, Looping, Submitting, Elsewhere, vars

LEMMA SummaryNextData ==
  ASSUME CoursesInv, SummaryData, [Next]_vars
  PROVE  SummaryData' /\ Evolves
<1>1. CASE Looping
  BY <1>1, LoopSteps, Unmoved DEF Looping, CoursesInv, SummaryData, hosting
<1>2. CASE Submitting
  BY <1>2, SubmitSteps, Unmoved DEF Submitting, SummaryData, hosting
<1>3. CASE TimeLimit
  BY <1>3, GiveUpData DEF TimeLimit
<1>4. CASE Elsewhere
  BY <1>4, SummaryKept DEF Elsewhere
<1> QED
  BY <1>1, <1>2, <1>3, <1>4, Steps, AnswerData, RetryData, RaiseData, OrphanData, RestartData,
     PushData, QuoteData

LEMMA CoursesNextInv ==
  ASSUME CoursesInv, [Next]_vars
  PROVE  CoursesInv'
<1>1. CASE SummaryNext
  BY <1>1, SummaryKeepsCourses, CoursesKept
<1>2. CASE CoursesNext
  BY <1>2, CoursesSteps
<1>3. CASE UNCHANGED vars
  BY <1>3, CoursesKept DEF vars, api, KeepsCourses
<1> QED  BY <1>1, <1>2, <1>3 DEF Next

BaseInv == CoursesInv /\ SummaryData

LEMMA BaseAlways == Spec => []BaseInv
<1>1. Init => BaseInv
  BY CoursesInit, SummaryInit DEF Init, BaseInv
<1>2. BaseInv /\ [Next]_vars => BaseInv'
  BY CoursesNextInv, SummaryNextData DEF BaseInv
<1> QED  BY <1>1, <1>2, PTL DEF Spec

(* A token that was replaced opens nothing for longer than TTL, whatever   *)
(* requests, replacements and the worker's steps overlap.                  *)
THEOREM TokensFadeAlways == Spec => []TokensFade
<1>1. BaseInv => TokensFade
  BY DEF BaseInv, CoursesInv
<1> QED  BY <1>1, BaseAlways, PTL

(* What others wrote on a merge request stays as it is, the quoted anchors *)
(* included: the bot rewrites notes of its own only.                       *)
THEOREM OthersNotesStayAlways == Spec => OthersNotesStay
<1>1. BaseInv /\ [Next]_vars =>
        [\A m \in MRs : \A i \in DOMAIN notes[m] :
           notes[m][i].author # Bot => notes'[m][i] = notes[m][i]]_notes
  BY SummaryNextData DEF BaseInv, Evolves
<1> QED  BY <1>1, BaseAlways, PTL DEF Spec, OthersNotesStay

(* The worker is always where its call is: what it waits for is a call of  *)
(* its step, task and merge request, a summary it rewrites is the bot's    *)
(* own and the first, and so is one that a given-up call rewrites.         *)
THEOREM WorkerAlwaysInPlace == Spec => []SummaryData
<1>1. BaseInv => SummaryData
  BY DEF BaseInv
<1> QED  BY <1>1, BaseAlways, PTL

------------------------------------------------------------------------------
(* A pair of a merge request and a task that no failure has put in doubt   *)
(* has at most one summary, no call that was given up can add one, and the *)
(* worker is about to add one only when there is none.                     *)
Adding(m, k) ==
    /\ pc = "post" /\ job.found = 0 /\ MR = m /\ Task = k
    /\ awaited = None \/ ~awaited.hangs

Undoubted(m, k) ==
    /\ \A i, j \in Summaries(m, k) : i = j
    /\ \A c \in BagToSet(orphans) : c.do = "create" => <<c.mr, c.task>> # <<m, k>>
    /\ Adding(m, k) => Summaries(m, k) = {}

Creations == \A m \in MRs, k \in Tasks : <<m, k>> \in doubted \/ Undoubted(m, k)

(* A merge request is labelled, or about to be, only with a summary.       *)
Shown(m) == \E k \in Tasks : Summaries(m, k) # {}

Labelling ==
    /\ LabelledHasSummary
    /\ \A c \in BagToSet(orphans) : c.do = "add" => Shown(c.mr)

Writing(c) == c.do \in Writes

(* The worker is sure that nothing else writes to its merge request.       *)
Sure == job.clean \/ MR \notin upset

(* What was given up leaves alone the merge requests that are not in       *)
(* doubt, and one whose turn began with none of it left at work.           *)
OrphansAway == \A m \in MRs \ upset : \A c \in BagToSet(orphans) : Writing(c) => c.mr # m
TurnAlone == pc \in MRSteps /\ job.clean => \A c \in BagToSet(orphans) : c.mr # MR

(* What the worker has published so far on a merge request it is sure of:  *)
(* a summary that says what has failed, then the label of a success.       *)
Posting ==
    pc = "post" /\ job.found = 0 /\ Sure =>
      \A i \in Summaries(MR, Task) : notes[MR][i].failed = job.failed
Told ==
    pc \in {"label", "unlabel"} /\ Sure => notes[MR][Existing(MR, Task)].failed = job.failed
Tagged == pc = "unlabel" /\ Sure => Passed /\ Processed \in labels[MR]

Published == Posting /\ Told /\ Tagged

Exact == OrphansAway /\ TurnAlone /\ Published /\ LabelsSaySummary

------------------------------------------------------------------------------
(* What a step leaves of the summaries of a merge request.                 *)

Same(m, k) ==
    /\ Summaries(m, k)' = Summaries(m, k)
    /\ \A i \in Summaries(m, k) : notes'[m][i].failed = notes[m][i].failed

Intact(m, k) == Same(m, k) /\ labels'[m] = labels[m]

LEMMA SameUnmoved ==
  ASSUME UNCHANGED notes, NEW m \in MRs, NEW k \in Tasks
  PROVE  Same(m, k)
BY DEF Same, Summaries

LEMMA SameAppended ==
  ASSUME NEW m \in MRs, NEW k \in Tasks, NEW x \in Notes,
         notes[m] \in Seq(Notes), notes'[m] = Append(notes[m], x), ~IsSummary(x, k)
  PROVE  Same(m, k)
<1>1. \A s \in Seq(Notes) :
        /\ Len(Append(s, x)) = Len(s) + 1 /\ Append(s, x)[Len(s) + 1] = x
        /\ DOMAIN Append(s, x) = DOMAIN s \cup {Len(s) + 1} /\ Len(s) + 1 \notin DOMAIN s
        /\ \A i \in DOMAIN s : Append(s, x)[i] = s[i]
  OBVIOUS
<1>2. /\ DOMAIN notes'[m] = DOMAIN notes[m] \cup {Len(notes[m]) + 1}
      /\ notes'[m][Len(notes[m]) + 1] = x
      /\ \A i \in DOMAIN notes[m] : notes'[m][i] = notes[m][i]
  BY <1>1
<1> QED  BY <1>2 DEF Same, Summaries, IsSummary

LEMMA SameLabels ==
  ASSUME NEW m \in MRs, NEW k \in Tasks, HostingData, Evolves, Same(m, k)
  PROVE  Existing(m, k)' = Existing(m, k)
<1>1. Summaries(m, k)' = Summaries(m, k)
  BY DEF Same
<1> QED  BY <1>1, ExistingIs

LEMMA IntactAgrees ==
  ASSUME NEW m \in MRs, NEW k \in Tasks, HostingData, Evolves, Intact(m, k), LabelsAgree(m, k)
  PROVE  LabelsAgree(m, k)'
<1>1. Existing(m, k)' = Existing(m, k)
  BY SameLabels DEF Intact
<1>2. Existing(m, k) # 0 => Existing(m, k) \in Summaries(m, k)
  BY ExistingIs, SummariesAre, FirstIs
<1>3. Existing(m, k) # 0 => notes'[m][Existing(m, k)].failed = notes[m][Existing(m, k)].failed
  BY <1>2 DEF Intact, Same
<1> QED  BY <1>1, <1>3 DEF LabelsAgree, Intact

(* A creation adds one summary, with what has failed.                      *)
LEMMA Created ==
  ASSUME HostingData, NEW c \in Calls, Addressed(c), Apply(c), c.do = "create"
  PROVE  LET i == Len(notes[c.mr]) + 1
         IN /\ Summaries(c.mr, c.task)' = Summaries(c.mr, c.task) \cup {i}
            /\ notes'[c.mr][i].failed = c.failed
            /\ \A j \in Summaries(c.mr, c.task) : notes'[c.mr][j].failed = notes[c.mr][j].failed
<1> DEFINE x == Note(c.task, Bot, c.failed)
<1>1. c.mr \in MRs /\ x \in Notes /\ IsSummary(x, c.task) /\ x.failed = c.failed
  BY SummaryAssumption DEF Addressed, Writes, Calls, Notes, Note, IsSummary
<1>2. notes[c.mr] \in Seq(Notes) /\ notes'[c.mr] = Append(notes[c.mr], x)
  BY <1>1 DEF Apply, HostingData
<1> HIDE DEF x
<1>3. \A s \in Seq(Notes) :
        /\ Len(Append(s, x)) = Len(s) + 1 /\ Append(s, x)[Len(s) + 1] = x
        /\ DOMAIN Append(s, x) = DOMAIN s \cup {Len(s) + 1} /\ Len(s) + 1 \notin DOMAIN s
        /\ \A i \in DOMAIN s : Append(s, x)[i] = s[i]
  BY <1>1
<1>4. /\ DOMAIN notes'[c.mr] = DOMAIN notes[c.mr] \cup {Len(notes[c.mr]) + 1}
      /\ notes'[c.mr][Len(notes[c.mr]) + 1] = x
      /\ \A i \in DOMAIN notes[c.mr] : notes'[c.mr][i] = notes[c.mr][i]
      /\ Len(notes[c.mr]) + 1 \notin DOMAIN notes[c.mr]
  BY <1>2, <1>3
<1> QED  BY <1>1, <1>4 DEF Summaries, IsSummary

(* An update rewrites one summary.                                         *)
LEMMA Updated ==
  ASSUME HostingData, NEW c \in Calls, Addressed(c), Apply(c), c.do = "update"
  PROVE  /\ \A k \in Tasks : Summaries(c.mr, k)' = Summaries(c.mr, k)
         /\ c.id \in Summaries(c.mr, c.task)
         /\ notes'[c.mr][c.id].failed = c.failed
         /\ \A j \in DOMAIN notes[c.mr] \ {c.id} : notes'[c.mr][j] = notes[c.mr][j]
<1>1. /\ c.mr \in MRs /\ c.id \in DOMAIN notes[c.mr] /\ IsSummary(notes[c.mr][c.id], c.task)
      /\ notes' = [notes EXCEPT ![c.mr][c.id].failed = c.failed]
      /\ notes[c.mr] \in Seq(Notes)
  BY DEF Apply, Addressed, Writes, Calls, HostingData
<1>2. PICK n \in Notes : n = notes[c.mr][c.id]
  BY <1>1
<1> DEFINE e == [n EXCEPT !.failed = c.failed]
<1>3. e.failed = c.failed /\ e.task = n.task /\ e.author = n.author
  BY DEF Notes
<1>4. notes'[c.mr] = [notes[c.mr] EXCEPT ![c.id] = e]
  BY <1>1, <1>2 DEF HostingData
<1> HIDE DEF e
<1>5. /\ DOMAIN notes'[c.mr] = DOMAIN notes[c.mr] /\ notes'[c.mr][c.id] = e
      /\ \A j \in DOMAIN notes[c.mr] \ {c.id} : notes'[c.mr][j] = notes[c.mr][j]
  BY <1>1, <1>4
<1>6. \A k \in Tasks, i \in DOMAIN notes[c.mr] :
        IsSummary(notes'[c.mr][i], k) <=> IsSummary(notes[c.mr][i], k)
  BY <1>2, <1>3, <1>5 DEF IsSummary
<1> QED  BY <1>1, <1>3, <1>5, <1>6 DEF Summaries

(* A call leaves alone what it does not write.                             *)
LEMMA Untouched ==
  ASSUME HostingData, NEW c \in Calls, Addressed(c), Apply(c), NEW m \in MRs, NEW k \in Tasks
  PROVE  /\ c.do \notin Writes \/ c.mr # m => Intact(m, k)
         /\ c.do \notin {"create", "update"} => Same(m, k)
         /\ c.do = "create" /\ <<c.mr, c.task>> # <<m, k>> => Same(m, k)
         /\ c.do # "create" => Summaries(m, k)' = Summaries(m, k)
<1>1. c.do \notin {"create", "update"} => notes' = notes
  BY DEF Apply
<1>2. c.mr # m => notes'[m] = notes[m] /\ labels'[m] = labels[m]
  BY DEF Apply, HostingData
<1>3. c.do \notin Writes => labels' = labels
  BY DEF Apply, Writes
<1>4. c.do \notin {"create", "update"} => Same(m, k)
  BY <1>1, SameUnmoved
<1>5. c.mr # m => Same(m, k)
  BY <1>2 DEF Same, Summaries
<1>6. c.do \notin Writes \/ c.mr # m => Intact(m, k)
  BY <1>2, <1>3, <1>4, <1>5 DEF Intact, Writes
<1>7. ASSUME c.do = "create", c.mr = m, c.task # k PROVE Same(m, k)
  <2>1. /\ Note(c.task, Bot, c.failed) \in Notes /\ ~IsSummary(Note(c.task, Bot, c.failed), k)
        /\ notes[m] \in Seq(Notes) /\ notes'[m] = Append(notes[m], Note(c.task, Bot, c.failed))
    BY <1>7, SummaryAssumption DEF Apply, Calls, Notes, Note, IsSummary, HostingData
  <2> QED  BY <2>1, SameAppended
<1>8. ASSUME c.do = "update", c.mr = m PROVE Summaries(m, k)' = Summaries(m, k)
  BY <1>8, Updated
<1> QED  BY <1>4, <1>5, <1>6, <1>7, <1>8 DEF Same

LEMMA QuoteIntact ==
  ASSUME HostingData, Quote, NEW m \in MRs, NEW k \in Tasks
  PROVE  Intact(m, k)
<1>1. PICK j \in Tasks : \E o \in ToSet(Labelled[j]), u \in Users \ {Bot} :
        notes' = [notes EXCEPT ![o] = Append(@, Note(j, u, {}))]
  BY DEF Quote
<1>2. PICK o \in ToSet(Labelled[j]), u \in Users \ {Bot} :
        notes' = [notes EXCEPT ![o] = Append(@, Note(j, u, {}))]
  BY <1>1
<1>3. labels' = labels
  BY DEF Quote
<1>4. PICK x \in Notes : x = Note(j, u, {}) /\ ~IsSummary(x, k)
  <2>1. Note(j, u, {}) \in Notes /\ ~IsSummary(Note(j, u, {}), k)
    BY DEF Notes, Note, IsSummary
  <2> QED  BY <2>1
<1>5. notes[m] \in Seq(Notes) /\ (notes'[m] = notes[m] \/ notes'[m] = Append(notes[m], x))
  BY <1>2, <1>4 DEF HostingData
<1>6. CASE notes'[m] = notes[m]
  BY <1>3, <1>6 DEF Intact, Same, Summaries
<1>7. CASE notes'[m] = Append(notes[m], x)
  BY <1>3, <1>4, <1>5, <1>7, SameAppended DEF Intact
<1> QED  BY <1>5, <1>6, <1>7

------------------------------------------------------------------------------
(* One summary.                                                            *)

(* The worker creates a summary where there is none.                       *)
LEMMA OnceApplied ==
  ASSUME SummaryData, NEW m \in MRs, NEW k \in Tasks, Undoubted(m, k), Running,
         Apply(awaited) \/ UNCHANGED hosting
  PROVE  \A i, j \in Summaries(m, k)' : i = j
<1>1. PICK c \in Calls : c = awaited
  BY DEF SummaryData, AwaitedData, Running
<1>2. HostingData /\ Addressed(c) /\ Awaits
  BY <1>1 DEF SummaryData, AwaitedData, Running
<1>3. CASE UNCHANGED hosting
  BY <1>3, SameUnmoved DEF hosting, Undoubted, Same
<1>4. CASE Apply(c) /\ ~(c.do = "create" /\ <<c.mr, c.task>> = <<m, k>>)
  <2>1. Summaries(m, k)' = Summaries(m, k)
    BY <1>2, <1>4, Untouched DEF Same
  <2> QED  BY <2>1 DEF Undoubted
<1>5. CASE Apply(c) /\ c.do = "create" /\ <<c.mr, c.task>> = <<m, k>>
  <2>1. Adding(m, k)
    BY <1>1, <1>2, <1>5 DEF Awaits, DoneAt, Adding, Running, MRSteps, WriteSteps
  <2>2. Summaries(m, k)' = Summaries(m, k) \cup {Len(notes[m]) + 1}
    BY <1>2, <1>5, Created
  <2> QED  BY <2>1, <2>2 DEF Undoubted
<1> QED  BY <1>1, <1>3, <1>4, <1>5

LEMMA LoopCreates ==
  ASSUME SummaryData, NEW m \in MRs, NEW k \in Tasks, Undoubted(m, k), Looping
  PROVE  Undoubted(m, k)'
<1>1. UNCHANGED <<hosting, orphans>> /\ pc' # "post"
  BY DEF Looping, StartCycle, LoadCourse, EndCycle, EndCourse, EndTask, StartMR, EndChecklist, Loop
<1> QED  BY <1>1, SameUnmoved DEF Undoubted, Adding, hosting, Same

LEMMA SubmitCreates ==
  ASSUME SummaryData, NEW m \in MRs, NEW k \in Tasks, Undoubted(m, k), Submitting
  PROVE  Undoubted(m, k)'
<1>1. UNCHANGED <<hosting, pc, job, orphans>> /\ awaited = None
  BY SubmitSteps DEF Submitting
<1>2. Adding(m, k)' => Adding(m, k)
  BY <1>1 DEF Adding, MR, Task
<1> QED  BY <1>1, <1>2, SameUnmoved DEF Undoubted, hosting, Same

LEMMA AnswerCreates ==
  ASSUME SummaryData, NEW m \in MRs, NEW k \in Tasks, Undoubted(m, k), Answer
  PROVE  Undoubted(m, k)'
<1>1. /\ Running /\ Apply(awaited) /\ Return(awaited) /\ UNCHANGED orphans
      /\ awaited \in Calls /\ Addressed(awaited) /\ Awaits
  BY DEF Answer, SummaryData, AwaitedData, Running
<1>2. \A i, j \in Summaries(m, k)' : i = j
  BY <1>1, OnceApplied
<1>3. ASSUME Adding(m, k)' PROVE Summaries(m, k)' = {}
  <2>1. awaited.do = "notes" /\ job' = [job EXCEPT !.found = Existing(MR, Task)]
    BY <1>1, <1>3 DEF Adding, Return, NextMR, Awaits, DoneAt
  <2>2. UNCHANGED notes
    BY <1>1, <2>1 DEF Apply
  <2>3. job'.mrs = job.mrs /\ job'.tasks = job.tasks /\ job'.found = Existing(MR, Task)
    BY <2>1 DEF SummaryData, AtWork, Jobs
  <2>4. Existing(m, k) = 0
    BY <1>3, <2>3 DEF Adding, MR, Task
  <2>5. Summaries(m, k) = {}
    BY <2>4, ExistingIs, SummariesAre, FirstIs DEF SummaryData
  <2> QED  BY <2>2, <2>5 DEF Summaries
<1> QED  BY <1>1, <1>2, <1>3 DEF Undoubted

LEMMA FailureCreates ==
  ASSUME SummaryData, NEW m \in MRs, NEW k \in Tasks, Undoubted(m, k), <<m, k>> \notin doubted',
         Retry \/ Raise \/ Hang
  PROVE  Undoubted(m, k)'
<1>1. /\ Running /\ (Apply(awaited) \/ UNCHANGED hosting)
      /\ UNCHANGED orphans
      /\ awaited \in Calls /\ Addressed(awaited) /\ Awaits /\ HostingData
  BY DEF Retry, Raise, Hang, SummaryData, AwaitedData, Running
<1>2. \A i, j \in Summaries(m, k)' : i = j
  BY <1>1, OnceApplied
<1>3. ASSUME Retry, Adding(m, k)' PROVE Summaries(m, k)' = {}
  <2>1. /\ Adding(m, k) /\ awaited.do = "create" /\ awaited.mr = m /\ awaited.task = k
        /\ doubted' = doubted \cup Creating(awaited)
    BY <1>1, <1>3 DEF Retry, Adding, MR, Task, Awaits, DoneAt, Calls, Running, MRSteps, WriteSteps
  <2> QED  BY <2>1 DEF Creating
<1>4. ASSUME Raise \/ Hang PROVE ~Adding(m, k)'
  <2>1. CASE Raise
    BY <2>1 DEF Raise, Raised, NextMR, Adding
  <2>2. CASE Hang
    <3>1. awaited' = [awaited EXCEPT !.hangs = TRUE]
      BY <2>2 DEF Hang
    <3>2. awaited' \in Calls /\ awaited'.hangs
      BY <1>1, <3>1 DEF Calls
    <3> QED  BY <3>2, NoneIsNoCall DEF Adding
  <2> QED  BY <1>4, <2>1, <2>2
<1>5. Adding(m, k)' => Summaries(m, k)' = {}
  BY <1>3, <1>4
<1> QED  BY <1>1, <1>2, <1>5 DEF Undoubted

LEMMA GiveUpCreates ==
  ASSUME SummaryData, NEW m \in MRs, NEW k \in Tasks, Undoubted(m, k), <<m, k>> \notin doubted',
         GiveUp
  PROVE  Undoubted(m, k)'
<1>1. /\ UNCHANGED hosting /\ pc' = "mrs"
      /\ orphans' = IF Running THEN BagAdd(orphans, awaited) ELSE orphans
      /\ doubted' = IF awaited # None THEN doubted \cup Creating(awaited) ELSE doubted
  BY DEF GiveUp, NextMR
<1>2. \A c \in BagToSet(orphans)' : c.do = "create" => <<c.mr, c.task>> # <<m, k>>
  <2> SUFFICES ASSUME NEW c \in BagToSet(orphans)', c.do = "create", <<c.mr, c.task>> = <<m, k>>
               PROVE  FALSE
    OBVIOUS
  <2>1. c = awaited /\ awaited # None
    BY <1>1, BagsAre DEF Undoubted, Running
  <2> QED  BY <1>1, <2>1 DEF Creating
<1> QED  BY <1>1, <1>2, SameUnmoved DEF Undoubted, Adding, hosting, Same

LEMMA OrphanCreates ==
  ASSUME SummaryData, NEW m \in MRs, NEW k \in Tasks, Undoubted(m, k), OrphanRetries \/ OrphanEnds
  PROVE  Undoubted(m, k)'
<1>1. PICK c \in BagToSet(orphans) :
        /\ Apply(c) \/ UNCHANGED hosting
        /\ \/ orphans' = BagAdd(BagRemove(orphans, c), [c EXCEPT !.tries = @ + 1])
           \/ orphans' = BagRemove(orphans, c)
  BY DEF OrphanRetries, OrphanEnds
<1>2. c \in Calls /\ Addressed(c) /\ HostingData
  BY DEF SummaryData, OrphansData
<1>3. c.do = "create" => <<c.mr, c.task>> # <<m, k>>
  BY DEF Undoubted
<1>4. Summaries(m, k)' = Summaries(m, k)
  <2>1. CASE Apply(c)
    BY <1>2, <1>3, <2>1, Untouched DEF Same
  <2>2. CASE UNCHANGED hosting
    BY <2>2, SameUnmoved DEF hosting, Same
  <2> QED  BY <1>1, <2>1, <2>2
<1>5. \A d \in BagToSet(orphans)' : d \in BagToSet(orphans) \/ d = [c EXCEPT !.tries = @ + 1]
  BY <1>1, BagsAre
<1>6. [c EXCEPT !.tries = @ + 1].do = c.do
      /\ [c EXCEPT !.tries = @ + 1].mr = c.mr /\ [c EXCEPT !.tries = @ + 1].task = c.task
  BY <1>2 DEF Calls
<1>7. \A d \in BagToSet(orphans)' : d.do = "create" => <<d.mr, d.task>> # <<m, k>>
  BY <1>3, <1>5, <1>6 DEF Undoubted
<1>8. UNCHANGED <<pc, job, awaited>>
  BY DEF OrphanRetries, OrphanEnds, worker
<1> QED  BY <1>4, <1>7, <1>8 DEF Undoubted, Adding, MR, Task

LEMMA RestartCreates ==
  ASSUME SummaryData, NEW m \in MRs, NEW k \in Tasks, Undoubted(m, k), Restart
  PROVE  Undoubted(m, k)'
<1>1. /\ pc' = "sleep" /\ orphans' = EmptyBag
      /\ UNCHANGED hosting \/ (Running /\ Apply(awaited))
  BY DEF Restart
<1>2. \A i, j \in Summaries(m, k)' : i = j
  <2>1. CASE UNCHANGED hosting
    BY <2>1, SameUnmoved DEF hosting, Undoubted, Same
  <2>2. CASE Running /\ Apply(awaited)
    BY <2>2, OnceApplied
  <2> QED  BY <1>1, <2>1, <2>2
<1> QED  BY <1>1, <1>2, BagsAre DEF Undoubted, Adding

LEMMA OthersCreate ==
  ASSUME SummaryData, NEW m \in MRs, NEW k \in Tasks, Undoubted(m, k), Push \/ Quote \/ Elsewhere
  PROVE  Undoubted(m, k)'
<1>1. UNCHANGED <<pc, job, awaited, orphans>>
  BY DEF Push, Quote, Elsewhere, worker
<1>2. Same(m, k)
  <2>1. CASE Push \/ Elsewhere
    BY <2>1, SameUnmoved DEF Push, Elsewhere, hosting
  <2>2. CASE Quote
    BY <2>2, QuoteIntact DEF Intact, SummaryData
  <2> QED  BY <2>1, <2>2
<1> QED  BY <1>1, <1>2 DEF Undoubted, Adding, Same, MR, Task

LEMMA CreationsStep ==
  ASSUME SummaryData, Creations, [Next]_vars
  PROVE  Creations'
<1> SUFFICES ASSUME NEW m \in MRs, NEW k \in Tasks, <<m, k>> \notin doubted'
             PROVE  Undoubted(m, k)'
  BY DEF Creations
<1>1. doubted \subseteq doubted'
  <2>1. CASE Retry \/ Raise \/ TimeLimit
    BY <2>1 DEF Retry, Raise, TimeLimit, GiveUp
  <2>2. CASE Looping \/ Submitting
    BY <2>2 DEF Looping, StartCycle, LoadCourse, EndCycle, EndCourse, EndTask, StartMR,
                EndChecklist, Loop, Submitting, ListMRs, RunCheck, ListNotes, PostOrUpdate,
                AddLabels, RemoveLabels, Submit
  <2>3. CASE Answer \/ Hang \/ OrphanRetries \/ OrphanEnds \/ Restart \/ Push \/ Quote \/ Elsewhere
    BY <2>3 DEF Answer, Hang, OrphanRetries, OrphanEnds, Restart, Push, Quote, Elsewhere
  <2> QED  BY <2>1, <2>2, <2>3, Steps
<1>2. Undoubted(m, k)
  BY <1>1 DEF Creations
<1> QED
  BY <1>2, Steps, LoopCreates, SubmitCreates, AnswerCreates, FailureCreates, GiveUpCreates,
     OrphanCreates, RestartCreates, OthersCreate DEF TimeLimit

(* A merge request has one summary of a task, unless a creation of it was  *)
(* repeated after a failure or given up: GitLabAdapter looks for the note  *)
(* and creates it in two calls.                                            *)
THEOREM OneSummaryAlways == Spec => []OneSummary
<1>1. Init => Creations
  <2> SUFFICES ASSUME Init, NEW m \in MRs, NEW k \in Tasks PROVE Undoubted(m, k)
    BY DEF Creations
  <2>1. Summaries(m, k) = {}
    BY DEF Init, InitSummary, Summaries
  <2>2. pc # "post" /\ orphans = EmptyBag
    BY DEF Init, InitSummary
  <2> QED  BY <2>1, <2>2, BagsAre DEF Undoubted, Adding
<1>2. BaseInv /\ Creations /\ [Next]_vars => Creations'
  BY CreationsStep DEF BaseInv
<1>3. BaseInv /\ Creations => OneSummary
  <2> SUFFICES ASSUME SummaryData, Creations,
                      NEW m \in MRs, NEW k \in Tasks, Cardinality(Summaries(m, k)) > 1
               PROVE  <<m, k>> \in doubted
    BY DEF OneSummary, BaseInv
  <2> SUFFICES ASSUME Undoubted(m, k) PROVE FALSE
    BY DEF Creations
  <2>1. CASE Summaries(m, k) = {}
    BY <2>1, FS_EmptySet
  <2>2. CASE Summaries(m, k) # {}
    <3>1. PICK i : Summaries(m, k) = {i}
      BY <2>2 DEF Undoubted
    <3>2. Cardinality({i}) = 1
      BY FS_Singleton
    <3>3. Cardinality(Summaries(m, k)) = 1
      BY <3>1, <3>2
    <3> QED  BY <3>3
  <2> QED  BY <2>1, <2>2
<1> QED  BY <1>1, <1>2, <1>3, BaseAlways, PTL DEF Spec

------------------------------------------------------------------------------
(* Labels come with a summary.                                             *)

LEMMA ShownStays ==
  ASSUME HostingData, Evolves, NEW m \in MRs, Shown(m)
  PROVE  Shown(m)'
<1>1. PICK k \in Tasks : Summaries(m, k) # {}
  BY DEF Shown
<1>2. Summaries(m, k)' # {}
  BY <1>1, SummariesGrow
<1> QED  BY <1>2 DEF Shown

(* The call that adds labels is for a merge request that shows a summary.  *)
LEMMA AddsShown ==
  ASSUME SummaryData, awaited # None, awaited.do = "add"
  PROVE  Shown(awaited.mr)
<1>1. pc = "label" /\ awaited.mr = MR
  BY DEF SummaryData, AwaitedData, Awaits, DoneAt, MRSteps, WriteSteps
<1>2. Summaries(MR, Task) # {} /\ Task \in Tasks
  BY <1>1, InHand DEF SummaryData, AtWork, MRSteps, WriteSteps
<1> QED  BY <1>1, <1>2 DEF Shown

LEMMA LabelsApplied ==
  ASSUME HostingData, Evolves, LabelledHasSummary, NEW c \in Calls, Addressed(c), Apply(c),
         c.do = "add" => Shown(c.mr)
  PROVE  LabelledHasSummary'
<1> SUFFICES ASSUME NEW m \in MRs, Processed \in labels'[m] PROVE Shown(m)'
  BY DEF LabelledHasSummary, Shown
<1>1. Processed \in labels[m] \/ (c.do = "add" /\ c.mr = m)
  BY DEF Apply, HostingData, Addressed, Writes
<1>2. Shown(m)
  BY <1>1 DEF LabelledHasSummary, Shown
<1> QED  BY <1>2, ShownStays

LEMMA LabellingStep ==
  ASSUME BaseInv, Labelling, [Next]_vars
  PROVE  Labelling'
<1>1. Evolves /\ HostingData /\ SummaryData /\ LabelledHasSummary
  BY SummaryNextData DEF BaseInv, SummaryData, Labelling
<1>2. ASSUME UNCHANGED labels PROVE LabelledHasSummary'
  BY <1>1, <1>2, ShownStays DEF LabelledHasSummary, Shown
<1>3. ASSUME awaited # None, Apply(awaited) PROVE LabelledHasSummary'
  <2>1. PICK c \in Calls : c = awaited
    BY <1>1, <1>3 DEF SummaryData, AwaitedData
  <2>2. Addressed(c) /\ (c.do = "add" => Shown(c.mr))
    BY <1>1, <1>3, <2>1, AddsShown DEF SummaryData, AwaitedData
  <2>3. Apply(c)
    BY <1>3, <2>1
  <2> QED  BY <1>1, <2>2, <2>3, LabelsApplied
<1>4. \A c \in BagToSet(orphans) : c.do = "add" => c.mr \in MRs /\ Shown(c.mr)
  BY <1>1 DEF SummaryData, OrphansData, Addressed, Writes, Labelling
<1>5. ASSUME \A c \in BagToSet(orphans)' : c.do = "add" => c.mr \in MRs /\ Shown(c.mr)
      PROVE  \A c \in BagToSet(orphans)' : c.do = "add" => Shown(c.mr)'
  BY <1>1, <1>5, ShownStays
<1>6. CASE Answer \/ Retry \/ Raise \/ Hang
  <2>1. awaited # None /\ (Apply(awaited) \/ UNCHANGED labels) /\ UNCHANGED orphans
    BY <1>6 DEF Answer, Retry, Raise, Hang, Running, hosting
  <2> QED  BY <2>1, <1>2, <1>3, <1>4, <1>5 DEF Labelling
<1>7. CASE TimeLimit
  <2>1. UNCHANGED labels /\ orphans' = IF Running THEN BagAdd(orphans, awaited) ELSE orphans
    BY <1>7 DEF TimeLimit, GiveUp, hosting
  <2>2. awaited # None /\ awaited.do = "add" => awaited.mr \in MRs /\ Shown(awaited.mr)
    BY <1>1, AddsShown DEF SummaryData, AwaitedData, Addressed, Writes
  <2>3. \A c \in BagToSet(orphans)' : c.do = "add" => c.mr \in MRs /\ Shown(c.mr)
    BY <1>4, <2>1, <2>2, BagsAre DEF Running
  <2> QED  BY <2>1, <2>3, <1>2, <1>5 DEF Labelling
<1>8. CASE OrphanRetries \/ OrphanEnds
  <2>1. PICK c \in BagToSet(orphans) :
          /\ Apply(c) \/ UNCHANGED hosting
          /\ \/ orphans' = BagAdd(BagRemove(orphans, c), [c EXCEPT !.tries = @ + 1])
             \/ orphans' = BagRemove(orphans, c)
    BY <1>8 DEF OrphanRetries, OrphanEnds
  <2>2. c \in Calls /\ Addressed(c)
    BY <1>1 DEF SummaryData, OrphansData
  <2>3. [c EXCEPT !.tries = @ + 1].do = c.do /\ [c EXCEPT !.tries = @ + 1].mr = c.mr
    BY <2>2 DEF Calls
  <2>4. \A d \in BagToSet(orphans)' : d \in BagToSet(orphans) \/ d = [c EXCEPT !.tries = @ + 1]
    BY <2>1, BagsAre
  <2>5. \A d \in BagToSet(orphans)' : d.do = "add" => d.mr \in MRs /\ Shown(d.mr)
    BY <1>4, <2>3, <2>4
  <2>6. LabelledHasSummary'
    <3>1. CASE Apply(c)
      BY <1>1, <1>4, <2>2, <3>1, LabelsApplied
    <3>2. CASE UNCHANGED hosting
      BY <1>2, <3>2 DEF hosting
    <3> QED  BY <2>1, <3>1, <3>2
  <2> QED  BY <2>5, <2>6, <1>5 DEF Labelling
<1>9. CASE Restart
  <2>1. orphans' = EmptyBag /\ (UNCHANGED labels \/ (awaited # None /\ Apply(awaited)))
    BY <1>9 DEF Restart, Running, hosting
  <2> QED  BY <2>1, <1>2, <1>3, BagsAre DEF Labelling
<1>10. CASE Looping \/ Submitting \/ Push \/ Quote \/ Elsewhere
  <2>1. UNCHANGED <<labels, orphans>>
    <3>1. CASE Looping
      BY <3>1 DEF Looping, StartCycle, LoadCourse, EndCycle, EndCourse, EndTask, StartMR,
                  EndChecklist, Loop, hosting
    <3>2. CASE Submitting
      BY <1>1, <3>2, SubmitSteps DEF Submitting, hosting
    <3>3. CASE Push \/ Quote \/ Elsewhere
      BY <3>3 DEF Push, Quote, Elsewhere, hosting
    <3> QED  BY <1>10, <3>1, <3>2, <3>3
  <2> QED  BY <2>1, <1>2, <1>4, <1>5 DEF Labelling
<1> QED  BY <1>6, <1>7, <1>8, <1>9, <1>10, Steps

(* "checklist: always applied after a run": a merge request is never       *)
(* labelled as processed without a summary, not by what was given up       *)
(* either.                                                                 *)
THEOREM LabelledAlways == Spec => []LabelledHasSummary
<1>1. Init => Labelling
  BY BagsAre DEF Init, InitSummary, Labelling, LabelledHasSummary
<1>2. BaseInv /\ Labelling /\ [Next]_vars => Labelling'
  BY LabellingStep
<1>3. Labelling => LabelledHasSummary
  BY DEF Labelling
<1> QED  BY <1>1, <1>2, <1>3, BaseAlways, PTL DEF Spec

------------------------------------------------------------------------------
(* Labels say what the summary says.                                       *)

Turn(m) == pc \in WriteSteps /\ MR = m

(* A merge request whose turn it is not, or that is not being written to,  *)
(* is left alone by the call the worker waits for.                         *)
LEMMA OthersIntact ==
  ASSUME SummaryData, awaited # None, Apply(awaited) \/ UNCHANGED hosting,
         NEW m \in MRs, NEW k \in Tasks, ~Turn(m)
  PROVE  Intact(m, k)
<1>1. CASE UNCHANGED hosting
  BY <1>1, SameUnmoved DEF Intact, hosting
<1>2. CASE Apply(awaited)
  <2>1. PICK c \in Calls : c = awaited
    BY DEF SummaryData, AwaitedData
  <2>2. Addressed(c) /\ Apply(c) /\ Awaits
    BY <1>2, <2>1 DEF SummaryData, AwaitedData
  <2>3. c.do \notin Writes \/ c.mr # m
    BY <2>1, <2>2 DEF Awaits, DoneAt, Writes, Turn, MRSteps, WriteSteps
  <2> QED  BY <2>2, <2>3, Untouched DEF SummaryData
<1> QED  BY <1>1, <1>2

LEMMA LabelsKept ==
  ASSUME HostingData, Evolves, LabelsSaySummary,
         \A m \in MRs \ upset' : ~Turn(m)' => m \notin upset /\ ~Turn(m) /\ \A k \in Tasks : Intact(m, k)
  PROVE  LabelsSaySummary'
<1> SUFFICES ASSUME NEW m \in MRs, m \notin upset', NEW k \in Tasks, Sole(m, k), ~Turn(m)'
             PROVE  LabelsAgree(m, k)'
  BY DEF LabelsSaySummary, Turn, Sole
<1>1. m \notin upset /\ ~Turn(m) /\ Intact(m, k)
  OBVIOUS
<1>2. LabelsAgree(m, k)
  BY <1>1 DEF LabelsSaySummary, Turn
<1> QED  BY <1>1, <1>2, IntactAgrees

(* The merge request and the task in hand as constants.                    *)
LEMMA PublishedBy ==
  ASSUME UNCHANGED <<pc, job>>, NEW m \in MRs, NEW k \in Tasks, MR = m, Task = k
  PROVE  MR' = m /\ Task' = k /\ (Passed' <=> Passed)
BY DEF MR, Task, Passed

LEMMA PublishedKept ==
  ASSUME SummaryData, Evolves, Published, UNCHANGED <<pc, job, upset>>,
         \A m \in MRs, k \in Tasks : Turn(m) /\ Sure => Intact(m, k)
  PROVE  Published'
<1>0. (Sure' <=> Sure) /\ pc' = pc
  BY DEF Sure, MR
<1> SUFFICES ASSUME pc \in WriteSteps, Sure PROVE Published'
  BY <1>0 DEF Published, Posting, Told, Tagged, WriteSteps
<1>1. PICK m \in MRs, k \in Tasks : m = MR /\ k = Task
  BY InHand DEF SummaryData, MRSteps
<1>2. MR' = m /\ Task' = k /\ (Passed' <=> Passed) /\ job' = job /\ pc' = pc
  BY <1>1, PublishedBy
<1>3. Intact(m, k)
  BY <1>1 DEF Turn
<1>4. Existing(m, k)' = Existing(m, k)
  BY <1>3, SameLabels DEF Intact, SummaryData
<1>5. pc \in {"label", "unlabel"} => Existing(m, k) \in Summaries(m, k)
  BY <1>1, ExistingIs, SummariesAre, FirstIs DEF SummaryData, AtWork
<1>6. Posting'
  BY <1>1, <1>2, <1>3 DEF Published, Posting, Intact, Same, Summaries
<1>7. Told'
  <2>1. Existing(MR, Task)' = Existing(m, k)'
    BY <1>2 DEF Existing
  <2>2. ASSUME pc \in {"label", "unlabel"}
        PROVE  notes'[m][Existing(m, k)].failed = job.failed
    <3>1. notes[m][Existing(m, k)].failed = job.failed
      BY <1>1, <2>2 DEF Published, Told
    <3> QED  BY <1>3, <1>5, <2>2, <3>1 DEF Intact, Same
  <2> QED  BY <1>2, <1>4, <2>1, <2>2 DEF Told
<1>8. Tagged'
  BY <1>1, <1>2, <1>3 DEF Published, Tagged, Intact
<1> QED  BY <1>6, <1>7, <1>8 DEF Published

(* A call that is repeated, or hangs, is what the worker publishes.        *)
LEMMA PublishedAgain ==
  ASSUME SummaryData, Evolves, Published, UNCHANGED <<pc, job, upset>>,
         awaited # None, Apply(awaited)
  PROVE  Published'
<1>0. (Sure' <=> Sure) /\ pc' = pc
  BY DEF Sure, MR
<1> SUFFICES ASSUME pc \in WriteSteps, Sure PROVE Published'
  BY <1>0 DEF Published, Posting, Told, Tagged, WriteSteps
<1>1. PICK m \in MRs, k \in Tasks : m = MR /\ k = Task
  BY InHand DEF SummaryData, MRSteps
<1>2. MR' = m /\ Task' = k /\ (Passed' <=> Passed) /\ job' = job /\ pc' = pc
  BY <1>1, PublishedBy
<1>3. PICK c \in Calls : c = awaited
  BY DEF SummaryData, AwaitedData
<1>4. Addressed(c) /\ Apply(c) /\ Awaits /\ HostingData /\ c.mr = m /\ c.task = k
  BY <1>1, <1>3 DEF SummaryData, AwaitedData, Awaits, MRSteps
<1>5. CASE pc = "post"
  <2>1. ASSUME job.found = 0 PROVE \A i \in Summaries(m, k)' : notes'[m][i].failed = job.failed
    <3>1. c.do = "create" /\ c.failed = job.failed
      BY <1>3, <1>4, <1>5, <2>1 DEF Awaits, DoneAt, Calls
    <3>2. \A i \in Summaries(m, k) : notes[m][i].failed = job.failed
      BY <1>1, <1>5, <2>1 DEF Published, Posting
    <3> QED  BY <1>4, <3>1, <3>2, Created
  <2>2. Posting'
    BY <1>2, <2>1 DEF Posting, Summaries
  <2> QED  BY <1>2, <1>5, <2>2 DEF Published, Told, Tagged
<1>6. CASE pc \in {"label", "unlabel"}
  <2>1. c.do \in {"add", "remove"} /\ (c.do = "remove" => c.labels = {FixIt})
        /\ (pc = "unlabel" => c.do = "remove")
    BY <1>3, <1>4, <1>6 DEF Awaits, DoneAt, Calls
  <2>2. Same(m, k)
    BY <1>4, <2>1, Untouched
  <2>3. Existing(m, k)' = Existing(m, k)
    BY <1>4, <2>2, SameLabels
  <2>4. Existing(m, k) \in Summaries(m, k)
    BY <1>1, <1>6, ExistingIs, SummariesAre, FirstIs DEF SummaryData, AtWork
  <2>5. Told'
    <3>1. Existing(MR, Task)' = Existing(m, k)'
      BY <1>2 DEF Existing
    <3>2. notes[m][Existing(m, k)].failed = job.failed
      BY <1>1, <1>6 DEF Published, Told
    <3> QED  BY <1>2, <2>2, <2>3, <2>4, <3>1, <3>2 DEF Told, Same
  <2>6. Processed \in labels[m] /\ pc = "unlabel" => Processed \in labels'[m]
    <3> SUFFICES ASSUME pc = "unlabel", Processed \in labels[m] PROVE Processed \in labels'[m]
      OBVIOUS
    <3>1. c.do = "remove" /\ c.labels = {FixIt} /\ c.mr = m
      BY <1>4, <2>1
    <3>2. labels' = [labels EXCEPT ![c.mr] = @ \ c.labels]
      BY <1>4, <3>1 DEF Apply
    <3>3. labels'[m] = labels[m] \ {FixIt}
      BY <1>4, <3>1, <3>2 DEF HostingData
    <3> QED  BY <3>3 DEF Processed, FixIt
  <2>7. Tagged'
    BY <1>1, <1>2, <2>6 DEF Published, Tagged
  <2> QED  BY <1>2, <1>6, <2>5, <2>7 DEF Published, Posting
<1> QED  BY <1>5, <1>6 DEF WriteSteps

LEMMA LoopExact ==
  ASSUME BaseInv, Exact, Looping
  PROVE  Exact'
<1>1. /\ UNCHANGED <<hosting, orphans, upset>>
      /\ pc \notin WriteSteps /\ pc' \notin WriteSteps
      /\ pc' \in MRSteps => StartMR \/ EndChecklist
  BY DEF Looping, StartCycle, LoadCourse, EndCycle, EndCourse, EndTask, StartMR, EndChecklist,
         Loop, WriteSteps, MRSteps
<1>2. SummaryData /\ HostingData /\ Evolves /\ job \in Jobs
  BY <1>1, Unmoved DEF BaseInv, SummaryData, AtWork, hosting
<1>3. OrphansAway'
  BY <1>1 DEF Exact, OrphansAway
<1>4. ASSUME StartMR PROVE TurnAlone'
  <2>1. job' = [job EXCEPT !.next = 1, !.failed = {}, !.clean = Alone]
    BY <1>4 DEF StartMR
  <2>2. MR' = MR /\ job'.clean = Alone
    BY <1>2, <2>1 DEF Jobs, MR
  <2> QED  BY <1>1, <2>2 DEF TurnAlone, Alone
<1>5. ASSUME EndChecklist PROVE TurnAlone'
  BY <1>1, <1>5 DEF EndChecklist, Loop, Exact, TurnAlone, MR, MRSteps
<1>6. TurnAlone'
  BY <1>1, <1>4, <1>5 DEF TurnAlone
<1>7. Published'
  BY <1>1 DEF Published, Posting, Told, Tagged, WriteSteps
<1>8. LabelsSaySummary'
  BY <1>1, <1>2, LabelsKept, SameUnmoved DEF Exact, Turn, Intact, hosting
<1> QED  BY <1>3, <1>6, <1>7, <1>8 DEF Exact

(* A step that leaves the worker and its calls alone, and what the hosting *)
(* shows where nothing is in doubt.                                        *)
LEMMA QuietExact ==
  ASSUME SummaryData, Evolves, Exact, UNCHANGED <<pc, job, upset>>,
         \A c \in BagToSet(orphans)' :
           \E d \in BagToSet(orphans) : d.mr = c.mr /\ d.do = c.do,
         \A m \in MRs, k \in Tasks : (m \notin upset \/ (Turn(m) /\ Sure)) => Intact(m, k)
  PROVE  Exact'
<1>1. MR' = MR
  BY DEF MR
<1>2. OrphansAway' /\ TurnAlone'
  BY <1>1 DEF Exact, OrphansAway, TurnAlone, Writing
<1>3. Published'
  BY PublishedKept DEF Exact
<1>4. LabelsSaySummary'
  BY <1>1, LabelsKept DEF Exact, SummaryData, Turn
<1> QED  BY <1>2, <1>3, <1>4 DEF Exact

LEMMA OthersExact ==
  ASSUME BaseInv, Exact, Submitting \/ Push \/ Quote \/ Elsewhere
  PROVE  Exact'
<1>1. SummaryData /\ HostingData
  BY DEF BaseInv, SummaryData
<1>2. Evolves
  BY <1>1, SubmitSteps, Unmoved, PushData, QuoteData, SummaryKept DEF Submitting, Elsewhere, hosting
<1>3. UNCHANGED <<pc, job, orphans, upset>>
  BY <1>1, SubmitSteps DEF Submitting, Push, Quote, Elsewhere, worker
<1>4. \A m \in MRs, k \in Tasks : Intact(m, k)
  <2>1. CASE Quote
    BY <1>1, <2>1, QuoteIntact
  <2>2. CASE Submitting \/ Push \/ Elsewhere
    BY <1>1, <2>2, SubmitSteps, SameUnmoved DEF Submitting, Push, Elsewhere, hosting, Intact
  <2> QED  BY <2>1, <2>2
<1> QED  BY <1>1, <1>2, <1>3, <1>4, QuietExact

LEMMA OrphanExact ==
  ASSUME BaseInv, Exact, OrphanRetries \/ OrphanEnds
  PROVE  Exact'
<1>1. SummaryData /\ HostingData /\ Evolves
  BY OrphanData DEF BaseInv, SummaryData
<1>2. UNCHANGED <<pc, job, upset>>
  BY DEF OrphanRetries, OrphanEnds, worker
<1>3. PICK c \in BagToSet(orphans) :
        /\ Apply(c) \/ UNCHANGED hosting
        /\ \/ orphans' = BagAdd(BagRemove(orphans, c), [c EXCEPT !.tries = @ + 1])
           \/ orphans' = BagRemove(orphans, c)
  BY DEF OrphanRetries, OrphanEnds
<1>4. c \in Calls /\ Addressed(c)
  BY <1>1 DEF SummaryData, OrphansData
<1>5. [c EXCEPT !.tries = @ + 1].do = c.do /\ [c EXCEPT !.tries = @ + 1].mr = c.mr
  BY <1>4 DEF Calls
<1>6. \A d \in BagToSet(orphans)' : d \in BagToSet(orphans) \/ d = [c EXCEPT !.tries = @ + 1]
  BY <1>3, BagsAre
<1>7. \A d \in BagToSet(orphans)' : \E e \in BagToSet(orphans) : e.mr = d.mr /\ e.do = d.do
  BY <1>5, <1>6
<1>8. ASSUME NEW m \in MRs, NEW k \in Tasks, m \notin upset \/ (Turn(m) /\ Sure)
      PROVE  Intact(m, k)
  <2>1. CASE UNCHANGED hosting
    BY <2>1, SameUnmoved DEF Intact, hosting
  <2>2. CASE Apply(c)
    <3>1. c.do \notin Writes \/ c.mr # m
      BY <1>8 DEF Exact, OrphansAway, TurnAlone, Writing, Turn, Sure, MRSteps
    <3> QED  BY <1>1, <1>4, <2>2, <3>1, Untouched
  <2> QED  BY <1>3, <2>1, <2>2
<1> QED  BY <1>1, <1>2, <1>7, <1>8, QuietExact

LEMMA RetryExact ==
  ASSUME BaseInv, Exact, Retry \/ Hang
  PROVE  Exact'
<1>1. SummaryData /\ HostingData /\ Evolves
  BY RetryData DEF BaseInv, SummaryData
<1>2. /\ UNCHANGED <<pc, job, orphans, upset>>
      /\ awaited # None /\ (Apply(awaited) \/ UNCHANGED hosting)
  BY DEF Retry, Hang, Running
<1>3. Published'
  <2>1. CASE Apply(awaited)
    BY <1>1, <1>2, <2>1, PublishedAgain DEF Exact
  <2>2. CASE UNCHANGED hosting
    BY <1>1, <1>2, <2>2, PublishedKept, SameUnmoved DEF Exact, Intact, hosting
  <2> QED  BY <1>2, <2>1, <2>2
<1>4. MR' = MR
  BY <1>2 DEF MR
<1>5. OrphansAway' /\ TurnAlone'
  BY <1>2, <1>4 DEF Exact, OrphansAway, TurnAlone
<1>6. LabelsSaySummary'
  BY <1>1, <1>2, <1>4, LabelsKept, OthersIntact DEF Exact, Turn
<1> QED  BY <1>3, <1>5, <1>6 DEF Exact

(* A turn that ends before all is published leaves the merge request in    *)
(* doubt.                                                                  *)
LEMMA CutShort ==
  ASSUME SummaryData, Evolves, Exact, pc' \notin WriteSteps,
         upset' = IF pc \in WriteSteps THEN upset \cup {MR} ELSE upset,
         UNCHANGED hosting \/ (awaited # None /\ Apply(awaited))
  PROVE  Published' /\ LabelsSaySummary'
<1>1. Published'
  BY DEF Published, Posting, Told, Tagged, WriteSteps
<1>2. ASSUME NEW m \in MRs \ upset'
      PROVE  m \notin upset /\ ~Turn(m) /\ \A k \in Tasks : Intact(m, k)
  <2>1. m \notin upset /\ ~Turn(m)
    BY <1>2 DEF Turn
  <2>2. ASSUME NEW k \in Tasks PROVE Intact(m, k)
    <3>1. CASE UNCHANGED hosting
      BY <3>1, SameUnmoved DEF Intact, hosting
    <3>2. CASE awaited # None /\ Apply(awaited)
      BY <2>1, <3>2, OthersIntact
    <3> QED  BY <3>1, <3>2
  <2> QED  BY <2>1, <2>2
<1>3. LabelsSaySummary'
  BY <1>2, LabelsKept DEF Exact, SummaryData
<1> QED  BY <1>1, <1>3

LEMMA RaiseExact ==
  ASSUME BaseInv, Exact, Raise
  PROVE  Exact'
<1>1. SummaryData /\ Evolves /\ job \in Jobs
  BY RaiseData DEF BaseInv, SummaryData, AtWork
<1>2. /\ awaited # None /\ (Apply(awaited) \/ UNCHANGED hosting) /\ Raised
      /\ upset' = IF pc \in WriteSteps THEN upset \cup {MR} ELSE upset
      /\ UNCHANGED orphans
  BY DEF Raise, Running
<1>3. pc' \notin WriteSteps
  BY <1>2 DEF Raised, NextMR, WriteSteps, MRSteps
<1>4. Published' /\ LabelsSaySummary'
  BY <1>1, <1>2, <1>3, CutShort
<1>5. OrphansAway'
  BY <1>2 DEF Exact, OrphansAway
<1>6. ASSUME pc' \in MRSteps PROVE pc \in MRSteps /\ job'.clean = job.clean /\ job'.mrs = job.mrs
  <2>1. pc = "checks" /\ Checked(TRUE)
    BY <1>2, <1>6 DEF Raised, NextMR, MRSteps, WriteSteps
  <2> QED  BY <1>1, <2>1 DEF Checked, Jobs, MRSteps
<1>7. TurnAlone'
  BY <1>2, <1>6 DEF Exact, TurnAlone, MR
<1> QED  BY <1>4, <1>5, <1>7 DEF Exact

LEMMA GiveUpExact ==
  ASSUME BaseInv, Exact, GiveUp
  PROVE  Exact'
<1>1. SummaryData /\ Evolves
  BY GiveUpData DEF BaseInv
<1>2. /\ UNCHANGED hosting /\ pc' = "mrs" /\ pc \in MRSteps
      /\ upset' = IF pc \in WriteSteps THEN upset \cup {MR} ELSE upset
      /\ orphans' = IF Running THEN BagAdd(orphans, awaited) ELSE orphans
  BY DEF GiveUp, NextMR
<1>3. Published' /\ LabelsSaySummary' /\ TurnAlone'
  BY <1>1, <1>2, CutShort DEF WriteSteps, MRSteps, TurnAlone
<1>4. OrphansAway'
  <2> SUFFICES ASSUME NEW m \in MRs \ upset', NEW c \in BagToSet(orphans)', Writing(c)
               PROVE  c.mr # m
    BY DEF OrphansAway
  <2>1. CASE c \in BagToSet(orphans)
    BY <1>2, <2>1 DEF Exact, OrphansAway
  <2>2. CASE c = awaited /\ awaited # None
    <3>1. Awaits /\ awaited \in Calls
      BY <1>1, <2>2 DEF SummaryData, AwaitedData
    <3>2. pc \in WriteSteps /\ c.mr = MR
      BY <1>2, <2>2, <3>1 DEF Awaits, DoneAt, Writing, Writes, WriteSteps
    <3> QED  BY <1>2, <3>2
  <2> QED  BY <1>2, <2>1, <2>2, BagsAre DEF Running
<1> QED  BY <1>3, <1>4 DEF Exact

LEMMA RestartExact ==
  ASSUME BaseInv, Exact, Restart
  PROVE  Exact'
<1>1. SummaryData /\ Evolves
  BY RestartData DEF BaseInv
<1>2. /\ pc' = "sleep" /\ orphans' = EmptyBag
      /\ upset' = IF pc \in WriteSteps THEN upset \cup {MR} ELSE upset
      /\ UNCHANGED hosting \/ (awaited # None /\ Apply(awaited))
  BY DEF Restart, Running
<1>3. Published' /\ LabelsSaySummary'
  BY <1>1, <1>2, CutShort DEF WriteSteps
<1>4. OrphansAway' /\ TurnAlone'
  BY <1>2, BagsAre DEF OrphansAway, TurnAlone
<1> QED  BY <1>3, <1>4 DEF Exact

(* What the worker is at when a call returns.                              *)
LEMMA Answered ==
  ASSUME SummaryData, Answer
  PROVE  /\ awaited \in Calls /\ Addressed(awaited) /\ Awaits /\ awaited # None
         /\ Apply(awaited) /\ Return(awaited) /\ UNCHANGED orphans
         /\ HostingData /\ Evolves /\ job \in Jobs
         /\ upset' = IF pc \in MRSteps /\ pc' = "mrs" /\ job.clean THEN upset \ {MR} ELSE upset
BY AnswerData DEF Answer, Running, SummaryData, AwaitedData, AtWork

(* A call that reads.                                                      *)
LEMMA ReadExact ==
  ASSUME BaseInv, Exact, Answer, awaited.do \in {"list", "check", "notes"}
  PROVE  Exact'
<1>1. SummaryData
  BY DEF BaseInv
<1>2. pc = DoneAt(awaited.do) /\ pc \notin WriteSteps
  BY <1>1, Answered DEF Awaits, DoneAt, WriteSteps
<1>3. UNCHANGED <<notes, labels>> /\ (\A m \in MRs, k \in Tasks : Intact(m, k))
  <2>1. UNCHANGED <<notes, labels>>
    BY <1>1, Answered DEF Apply
  <2> QED  BY <2>1, SameUnmoved DEF Intact
<1>4. UNCHANGED <<upset, orphans>>
  BY <1>1, <1>2, Answered DEF Return, Checked, NextMR, DoneAt, MRSteps, WriteSteps
<1>5. LabelsSaySummary'
  <2>1. \A m : ~Turn(m)
    BY <1>2 DEF Turn
  <2> QED  BY <1>1, <1>3, <1>4, <2>1, LabelsKept, Answered DEF Exact
<1>6. OrphansAway'
  BY <1>4 DEF Exact, OrphansAway
<1>7. ASSUME pc' \in MRSteps
      PROVE  /\ pc \in MRSteps /\ job'.clean = job.clean /\ job'.mrs = job.mrs
             /\ job'.tasks = job.tasks
  <2>1. job \in Jobs /\ Return(awaited)
    BY <1>1, Answered
  <2>2. CASE awaited.do = "list"
    BY <1>7, <2>1, <2>2 DEF Return, MRSteps, WriteSteps
  <2>3. CASE awaited.do = "check"
    BY <1>2, <2>1, <2>3 DEF Return, Checked, Jobs, DoneAt, MRSteps
  <2>4. CASE awaited.do = "notes"
    BY <1>2, <2>1, <2>4 DEF Return, Jobs, DoneAt, MRSteps
  <2> QED  BY <2>2, <2>3, <2>4
<1>8. TurnAlone'
  BY <1>4, <1>7 DEF Exact, TurnAlone, MR
<1>9. Published'
  <2>1. CASE pc' \notin WriteSteps
    BY <2>1 DEF Published, Posting, Told, Tagged, WriteSteps
  <2>2. CASE pc' \in WriteSteps
    <3>1. awaited.do = "notes" /\ pc' = "post" /\ job' = [job EXCEPT !.found = Existing(MR, Task)]
      BY <1>1, <1>2, <2>2, Answered DEF Return, WriteSteps
    <3>2. MR' = MR /\ Task' = Task /\ job'.found = Existing(MR, Task)
      BY <1>1, <3>1, Answered DEF MR, Task, Jobs
    <3>3. PICK m \in MRs, k \in Tasks : m = MR /\ k = Task
      BY <1>1, <1>2, <3>1, InHand DEF SummaryData, MRSteps, DoneAt
    <3>4. ASSUME job'.found = 0 PROVE Summaries(m, k)' = {}
      <4>1. Existing(m, k) = 0
        BY <3>2, <3>3, <3>4
      <4>2. Summaries(m, k) = {}
        BY <1>1, <4>1, ExistingIs, SummariesAre, FirstIs DEF SummaryData
      <4> QED  BY <1>3, <4>2 DEF Summaries
    <3>5. Posting'
      BY <3>2, <3>3, <3>4 DEF Posting, Summaries
    <3> QED  BY <3>1, <3>5 DEF Published, Told, Tagged
  <2> QED  BY <2>1, <2>2
<1> QED  BY <1>5, <1>6, <1>8, <1>9 DEF Exact

(* A call that writes, after which the turn goes on.                       *)
LEMMA WriteExact ==
  ASSUME BaseInv, Exact, Answer, awaited.do \in Writes, pc' \in {"label", "unlabel"}
  PROVE  Exact'
<1>1. SummaryData
  BY DEF BaseInv
<1>2. pc \in WriteSteps /\ pc = DoneAt(awaited.do) /\ awaited.mr = MR /\ awaited.task = Task
  BY <1>1, Answered DEF Awaits, DoneAt, WriteSteps, MRSteps, Writes
<1>3. UNCHANGED <<job, orphans, upset>>
  BY <1>1, Answered DEF Return, NextMR, Writes
<1>4. MR' = MR /\ (Sure' <=> Sure)
  BY <1>3 DEF MR, Sure
<1>5. OrphansAway' /\ TurnAlone'
  BY <1>2, <1>3, <1>4 DEF Exact, OrphansAway, TurnAlone, MRSteps
<1>6. LabelsSaySummary'
  BY <1>1, <1>3, <1>4, LabelsKept, OthersIntact, Answered DEF Exact, Turn, WriteSteps
<1>7. PICK m \in MRs, k \in Tasks : m = MR /\ k = Task
  BY <1>1, <1>2, InHand DEF SummaryData, MRSteps
<1>8. PICK c \in Calls : c = awaited
  BY <1>1, Answered
<1>9. Addressed(c) /\ Apply(c) /\ Awaits /\ Return(c) /\ HostingData /\ Evolves /\ c.mr = m /\ c.task = k
  BY <1>1, <1>2, <1>7, <1>8, Answered
<1>10. MR' = m /\ Task' = k /\ (Passed' <=> Passed)
  BY <1>3, <1>7 DEF MR, Task, Passed
<1>11. ASSUME notes'[m][Existing(m, k)'].failed = job.failed PROVE Told'
  <2>1. Existing(MR, Task)' = Existing(m, k)'
    BY <1>10 DEF Existing
  <2> QED  BY <1>3, <1>10, <1>11, <2>1 DEF Told
<1>12. ASSUME Sure, c.do \in {"create", "update"} PROVE Told' /\ pc' = "label"
  <2>1. pc' = "label" /\ pc = "post" /\ c.failed = job.failed
    BY <1>2, <1>8, <1>9, <1>12 DEF Return, NextMR, DoneAt, Awaits
  <2>2. CASE c.do = "create"
    <3>1. \A i \in Summaries(m, k) : notes[m][i].failed = job.failed
      BY <1>7, <1>8, <1>9, <1>12, <2>1, <2>2 DEF Exact, Published, Posting, Awaits
    <3>2. \A i \in Summaries(m, k)' : notes'[m][i].failed = job.failed
      BY <1>9, <2>1, <2>2, <3>1, Created
    <3>3. Summaries(m, k)' # {} /\ Summaries(m, k)' \subseteq Nat \ {0}
      BY <1>9, <2>2, Posted, SummariesGrow
    <3>4. Existing(m, k)' \in Summaries(m, k)'
      BY <3>3, ExistingIs, FirstIs
    <3> QED  BY <1>11, <2>1, <3>2, <3>4
  <2>3. CASE c.do = "update"
    <3>1. c.id = Existing(m, k) /\ Summaries(m, k)' = Summaries(m, k)
          /\ notes'[m][c.id].failed = c.failed
      <4>1. c.id = job.found /\ job.found # 0 /\ job.found = Existing(MR, Task)
        BY <1>1, <1>8, <1>9, <2>1, <2>3 DEF Awaits, SummaryData, AtWork
      <4> QED  BY <1>7, <1>9, <2>3, <4>1, Updated
    <3>2. Existing(m, k)' = Existing(m, k)
      BY <3>1, ExistingIs
    <3> QED  BY <1>11, <2>1, <3>1, <3>2
  <2> QED  BY <1>12, <2>1, <2>2, <2>3
<1>13. ASSUME Sure, c.do \notin {"create", "update"} PROVE Told' /\ Tagged'
  <2>1. c.do = "add" /\ Passed /\ pc' = "unlabel" /\ pc = "label" /\ c.labels = {Processed}
    BY <1>2, <1>8, <1>9, <1>13 DEF Return, NextMR, DoneAt, Awaits, Writes
  <2>2. Same(m, k)
    BY <1>9, <2>1, Untouched
  <2>3. Existing(m, k)' = Existing(m, k)
    BY <1>9, <2>2, SameLabels
  <2>4. Existing(m, k) \in Summaries(m, k)
    BY <1>1, <1>7, <2>1, ExistingIs, SummariesAre, FirstIs DEF SummaryData, AtWork
  <2>5. notes[m][Existing(m, k)].failed = job.failed
    BY <1>7, <1>13, <2>1 DEF Exact, Published, Told
  <2>6. Told'
    BY <1>11, <2>2, <2>3, <2>4, <2>5 DEF Same
  <2>7. Processed \in labels'[m]
    BY <1>9, <2>1 DEF Apply, HostingData
  <2> QED  BY <1>10, <2>1, <2>6, <2>7 DEF Tagged
<1>14. Published'
  BY <1>4, <1>12, <1>13 DEF Published, Posting, Told, Tagged
<1> QED  BY <1>5, <1>6, <1>14 DEF Exact

(* The call that ends a turn.                                              *)
LEMMA TurnExact ==
  ASSUME BaseInv, Exact, Answer, awaited.do \in Writes, pc' = "mrs"
  PROVE  Exact'
<1>1. SummaryData
  BY DEF BaseInv
<1>2. pc \in WriteSteps /\ pc = DoneAt(awaited.do) /\ awaited.mr = MR /\ awaited.task = Task
  BY <1>1, Answered DEF Awaits, DoneAt, WriteSteps, MRSteps, Writes
<1>3. UNCHANGED orphans /\ upset' = IF job.clean THEN upset \ {MR} ELSE upset
  BY <1>1, <1>2, Answered DEF MRSteps
<1>4. PICK m \in MRs, k \in Tasks : m = MR /\ k = Task /\ m \in ToSet(Labelled[k])
  BY <1>1, <1>2, InHand DEF SummaryData, MRSteps
<1>5. PICK c \in Calls : c = awaited
  BY <1>1, Answered
<1>6. Addressed(c) /\ Apply(c) /\ Awaits /\ Return(c) /\ HostingData /\ Evolves /\ c.mr = m
  BY <1>1, <1>2, <1>4, <1>5, Answered
<1>7. OrphansAway'
  <2> SUFFICES ASSUME NEW o \in MRs \ upset', NEW d \in BagToSet(orphans), Writing(d) PROVE d.mr # o
    BY <1>3 DEF OrphansAway
  <2>1. CASE o \notin upset
    BY <2>1 DEF Exact, OrphansAway
  <2>2. CASE o \in upset
    BY <1>2, <1>3, <2>2 DEF Exact, TurnAlone, MRSteps
  <2> QED  BY <2>1, <2>2
<1>8. TurnAlone' /\ Published'
  BY DEF TurnAlone, Published, Posting, Told, Tagged, MRSteps, WriteSteps
<1>9. ASSUME m \notin upset' PROVE LabelsAgree(m, k)'
  <2>1. Sure
    BY <1>3, <1>4, <1>9 DEF Sure
  <2>2. pc \in {"label", "unlabel"} /\ c.do \in {"add", "remove"}
        /\ (c.do = "add" => ~Passed /\ c.labels = {Processed, FixIt})
        /\ (c.do = "remove" => pc = "unlabel" /\ c.labels = {FixIt})
    BY <1>2, <1>5, <1>6 DEF Return, DoneAt, Awaits, Writes
  <2>3. Same(m, k)
    BY <1>6, <2>2, Untouched
  <2>4. Existing(m, k)' = Existing(m, k)
    BY <1>6, <2>3, SameLabels
  <2>5. Existing(m, k) \in Summaries(m, k) /\ Existing(m, k) # 0
    BY <1>1, <1>4, <2>2, ExistingIs, SummariesAre, FirstIs DEF SummaryData, AtWork
  <2>6. notes'[m][Existing(m, k)].failed = job.failed
    BY <1>4, <2>1, <2>2, <2>3, <2>5 DEF Exact, Published, Told, Same
  <2>7. CASE c.do = "add"
    <3>1. job.failed # {} /\ labels'[m] = labels[m] \cup {Processed, FixIt}
      BY <1>6, <2>2, <2>7 DEF Apply, HostingData, Passed
    <3>2. labels'[m] = {Processed, FixIt}
      BY <1>6, <3>1 DEF HostingData, Names
    <3> QED  BY <2>4, <2>5, <2>6, <3>1, <3>2 DEF LabelsAgree
  <2>8. CASE c.do = "remove"
    <3>1. Passed /\ Processed \in labels[m]
      BY <1>4, <2>1, <2>2, <2>8 DEF Exact, Published, Tagged
    <3>2. labels' = [labels EXCEPT ![c.mr] = @ \ c.labels]
      BY <1>6, <2>8 DEF Apply
    <3>3. labels'[m] = labels[m] \ {FixIt} /\ labels[m] \subseteq {Processed, FixIt}
      BY <1>6, <2>2, <2>8, <3>2 DEF HostingData, Names
    <3>4. labels'[m] = {Processed}
      BY <3>1, <3>3 DEF Processed, FixIt
    <3> QED  BY <2>4, <2>5, <2>6, <3>1, <3>4 DEF LabelsAgree, Passed
  <2> QED  BY <2>2, <2>7, <2>8
<1>10. ASSUME NEW o \in MRs, o \notin upset', NEW j \in Tasks, Sole(o, j) PROVE LabelsAgree(o, j)'
  <2>1. CASE o = m
    <3>1. j = k
      BY <1>4, <1>10, <2>1 DEF Sole
    <3> QED  BY <1>9, <1>10, <2>1, <3>1
  <2>2. CASE o # m
    <3>1. ~Turn(o) /\ o \notin upset
      BY <1>3, <1>4, <1>10, <2>2 DEF Turn
    <3>2. Intact(o, j)
      BY <1>1, <3>1, OthersIntact, Answered
    <3>3. LabelsAgree(o, j)
      BY <1>10, <3>1 DEF Exact, LabelsSaySummary, Turn
    <3> QED  BY <1>6, <3>2, <3>3, IntactAgrees
  <2> QED  BY <2>1, <2>2
<1>11. LabelsSaySummary'
  BY <1>10 DEF LabelsSaySummary, Sole
<1> QED  BY <1>7, <1>8, <1>11 DEF Exact

LEMMA AnswerExact ==
  ASSUME BaseInv, Exact, Answer
  PROVE  Exact'
<1>1. awaited \in Calls /\ Return(awaited)
  BY Answered DEF BaseInv
<1>2. awaited.do \in {"list", "check", "notes"} \cup Writes
  BY <1>1 DEF Calls, Writes
<1>3. awaited.do \in Writes => pc' \in {"label", "unlabel", "mrs"}
  BY <1>1 DEF Return, NextMR, Writes
<1> QED  BY <1>2, <1>3, ReadExact, WriteExact, TurnExact

(* "fix it: applied additionally when at least one step failed; removed    *)
(* when all checks pass": between its turns, the labels of a merge request *)
(* that one task reviews say what its summary says, but while a            *)
(* publication that was cut short has not been made good.                  *)
THEOREM LabelsAlwaysSay == Spec => []LabelsSaySummary
<1>1. Init => Exact
  <2> SUFFICES ASSUME Init PROVE Exact
    OBVIOUS
  <2>1. /\ pc = "sleep" /\ orphans = EmptyBag
        /\ notes = [m \in MRs |-> <<>>] /\ labels = [m \in MRs |-> {}]
    BY DEF Init, InitSummary
  <2>2. OrphansAway /\ TurnAlone
    BY <2>1, BagsAre DEF OrphansAway, TurnAlone
  <2>3. Published
    BY <2>1 DEF Published, Posting, Told, Tagged
  <2>4. ASSUME NEW m \in MRs, NEW k \in Tasks PROVE LabelsAgree(m, k)
    <3>1. Existing(m, k) = 0
      BY <2>1 DEF Existing
    <3> QED  BY <2>1, <3>1 DEF LabelsAgree
  <2>5. LabelsSaySummary
    BY <2>4 DEF LabelsSaySummary
  <2> QED  BY <2>2, <2>3, <2>5 DEF Exact
<1>2. BaseInv /\ Exact /\ [Next]_vars => Exact'
  BY Steps, LoopExact, OthersExact, OrphanExact, RetryExact, RaiseExact, GiveUpExact, RestartExact,
     AnswerExact DEF TimeLimit
<1>3. Exact => LabelsSaySummary
  BY DEF Exact
<1> QED  BY <1>1, <1>2, <1>3, BaseAlways, PTL DEF Spec

------------------------------------------------------------------------------
(* The threads of the executor: the calls that were given up, those that   *)
(* never come back and the one the worker waits for.                       *)
IsBag(B) == B = [c \in DOMAIN B |-> B[c]] /\ \A c \in DOMAIN B : B[c] \in Nat \ {0}

LEMMA ThreadsAre ==
  \A B, c, i : /\ <<c, i>> \in Threads(B) <=> c \in DOMAIN B /\ i \in 1..B[c]
               /\ \A x \in Threads(B) : \E d, j : x = <<d, j>>
BY DEF Threads, BagToSet

(* A call more, in a thread of its own.                                    *)
LEMMA ThreadMore ==
  ASSUME NEW B, IsBag(B), NEW c
  PROVE  /\ IsBag(BagAdd(B, c))
         /\ \E n : <<c, n>> \notin Threads(B) /\ Threads(BagAdd(B, c)) = Threads(B) \cup {<<c, n>>}
<1> DEFINE more == BagAdd(B, c)
           n == IF c \in DOMAIN B THEN B[c] + 1 ELSE 1
<1>1. /\ DOMAIN more = DOMAIN B \cup {c}
      /\ more[c] = n /\ \A d \in DOMAIN B \ {c} : more[d] = B[d]
      /\ more = [d \in DOMAIN more |-> more[d]]
  BY DEF BagAdd
<1>2. n \in Nat \ {0} /\ (c \in DOMAIN B => 1..n = 1..B[c] \cup {n} /\ n \notin 1..B[c])
      /\ (c \notin DOMAIN B => 1..n = {n})
  BY DEF IsBag
<1> HIDE DEF more, n
<1>3. IsBag(more)
  BY <1>1, <1>2 DEF IsBag
<1>4. <<c, n>> \notin Threads(B)
  BY <1>2, ThreadsAre
<1>5. \A d, i : <<d, i>> \in Threads(more) <=> <<d, i>> \in Threads(B) \/ (d = c /\ i = n)
  <2> SUFFICES ASSUME NEW d, NEW i
               PROVE  <<d, i>> \in Threads(more) <=> <<d, i>> \in Threads(B) \/ (d = c /\ i = n)
    OBVIOUS
  <2>1. CASE d = c
    <3>1. <<d, i>> \in Threads(more) <=> i \in 1..n
      BY <1>1, <2>1, ThreadsAre
    <3>2. <<d, i>> \in Threads(B) <=> c \in DOMAIN B /\ i \in 1..B[c]
      BY <2>1, ThreadsAre
    <3> QED  BY <1>2, <2>1, <3>1, <3>2
  <2>2. CASE d # c
    BY <1>1, <2>2, ThreadsAre
  <2> QED  BY <2>1, <2>2
<1>6. Threads(more) = Threads(B) \cup {<<c, n>>}
  <2>1. ASSUME NEW x \in Threads(more) PROVE x \in Threads(B) \cup {<<c, n>>}
    <3>1. PICK d, i : x = <<d, i>>
      BY ThreadsAre
    <3> QED  BY <1>5, <2>1, <3>1
  <2>2. ASSUME NEW x \in Threads(B) \cup {<<c, n>>} PROVE x \in Threads(more)
    <3>1. PICK d, i : x = <<d, i>>
      BY ThreadsAre
    <3> QED  BY <1>5, <2>2, <3>1
  <2> QED  BY <2>1, <2>2
<1> QED  BY <1>3, <1>4, <1>6 DEF more

(* A call less, and its thread is free.                                    *)
LEMMA ThreadLess ==
  ASSUME NEW B, IsBag(B), NEW c \in BagToSet(B)
  PROVE  /\ IsBag(BagRemove(B, c))
         /\ \E n : <<c, n>> \in Threads(B) /\ Threads(BagRemove(B, c)) = Threads(B) \ {<<c, n>>}
<1> DEFINE less == BagRemove(B, c)
           n == B[c]
<1>0. c \in DOMAIN B
  BY DEF BagToSet
<1>1. /\ DOMAIN less = IF n = 1 THEN DOMAIN B \ {c} ELSE DOMAIN B
      /\ n # 1 => less[c] = n - 1
      /\ \A d \in DOMAIN B \ {c} : less[d] = B[d]
      /\ less = [d \in DOMAIN less |-> less[d]]
  BY <1>0 DEF BagRemove
<1>2. n \in Nat \ {0} /\ (n # 1 => n - 1 \in Nat \ {0} /\ 1..(n - 1) = 1..n \ {n})
      /\ (n = 1 => 1..n = {n}) /\ n \in 1..n
  BY <1>0 DEF IsBag
<1>3. \A d \in DOMAIN B : B[d] \in Nat \ {0}
  BY DEF IsBag
<1> HIDE DEF less, n
<1>4. IsBag(less)
  BY <1>1, <1>2, <1>3 DEF IsBag
<1>5. <<c, n>> \in Threads(B)
  BY <1>0, <1>2, ThreadsAre DEF n
<1>6. \A d, i : <<d, i>> \in Threads(less) <=> <<d, i>> \in Threads(B) /\ ~(d = c /\ i = n)
  <2> SUFFICES ASSUME NEW d, NEW i
               PROVE  <<d, i>> \in Threads(less) <=> <<d, i>> \in Threads(B) /\ ~(d = c /\ i = n)
    OBVIOUS
  <2>1. CASE d = c
    <3>1. <<d, i>> \in Threads(B) <=> i \in 1..n
      BY <1>0, <2>1, ThreadsAre DEF n
    <3>2. <<d, i>> \in Threads(less) <=> n # 1 /\ i \in 1..(n - 1)
      BY <1>0, <1>1, <2>1, ThreadsAre
    <3> QED  BY <1>2, <2>1, <3>1, <3>2
  <2>2. CASE d # c
    BY <1>1, <2>2, ThreadsAre
  <2> QED  BY <2>1, <2>2
<1>7. Threads(less) = Threads(B) \ {<<c, n>>}
  <2>1. ASSUME NEW x \in Threads(less) PROVE x \in Threads(B) \ {<<c, n>>}
    <3>1. PICK d, i : x = <<d, i>>
      BY ThreadsAre
    <3> QED  BY <1>6, <2>1, <3>1
  <2>2. ASSUME NEW x \in Threads(B) \ {<<c, n>>} PROVE x \in Threads(less)
    <3>1. PICK d, i : x = <<d, i>>
      BY ThreadsAre
    <3> QED  BY <1>6, <2>2, <3>1
  <2> QED  BY <2>1, <2>2
<1> QED  BY <1>4, <1>5, <1>7 DEF less

(* What a bag of calls comes to with one call more, or less.               *)
Counted(B, n) == IsBag(B) /\ IsFiniteSet(Threads(B)) /\ Cardinality(Threads(B)) = n

LEMMA CountMore ==
  ASSUME NEW B, NEW n, Counted(B, n), NEW c
  PROVE  Counted(BagAdd(B, c), n + 1)
<1>1. PICK i : <<c, i>> \notin Threads(B) /\ Threads(BagAdd(B, c)) = Threads(B) \cup {<<c, i>>}
  BY ThreadMore DEF Counted
<1>2. IsFiniteSet(Threads(B) \cup {<<c, i>>}) /\ Cardinality(Threads(B) \cup {<<c, i>>}) = n + 1
  BY <1>1, FS_AddElement DEF Counted
<1> QED  BY <1>1, <1>2, ThreadMore DEF Counted

LEMMA CountLess ==
  ASSUME NEW B, NEW n, Counted(B, n), NEW c \in BagToSet(B)
  PROVE  Counted(BagRemove(B, c), n - 1)
<1>1. PICK i : <<c, i>> \in Threads(B) /\ Threads(BagRemove(B, c)) = Threads(B) \ {<<c, i>>}
  BY ThreadLess DEF Counted
<1>2. IsFiniteSet(Threads(B) \ {<<c, i>>}) /\ Cardinality(Threads(B) \ {<<c, i>>}) = n - 1
  BY <1>1, FS_RemoveElement DEF Counted
<1> QED  BY <1>1, <1>2, ThreadLess DEF Counted

LEMMA NoThreads == Counted(EmptyBag, 0)
<1>1. EmptyBag = [c \in {} |-> 1]
  BY DEF EmptyBag, SetToBag
<1>2. Threads(EmptyBag) = {}
  BY <1>1 DEF Threads, BagToSet
<1> QED  BY <1>1, <1>2, FS_EmptySet DEF Counted, IsBag

(* The executor has a thread for each call that is at work.                *)
Executor ==
    /\ hung \in Nat
    /\ \E n \in Nat : /\ Counted(orphans, n)
                      /\ n + hung + (IF awaited = None THEN 0 ELSE 1) <= Workers

LEMMA ExecutorIs ==
  ASSUME NEW n \in Nat, Counted(orphans, n), hung \in Nat,
         n + hung + (IF awaited = None THEN 0 ELSE 1) <= Workers
  PROVE  Executor
BY DEF Executor

LEMMA ExecutorNext ==
  ASSUME NEW n \in Nat, Counted(orphans', n), hung' \in Nat,
         n + hung' + (IF awaited' = None THEN 0 ELSE 1) <= Workers
  PROVE  Executor'
BY DEF Executor

LEMMA ExecutorInit == Init => Executor
<1> SUFFICES ASSUME Init PROVE Executor
  OBVIOUS
<1>1. orphans = EmptyBag /\ hung = 0 /\ awaited = None
  BY DEF Init, InitSummary
<1>2. Counted(orphans, 0)
  BY <1>1, NoThreads
<1> QED  BY <1>1, <1>2, ExecutorIs, SummaryAssumption

LEMMA ExecutorStep ==
  ASSUME SummaryData, Executor, [Next]_vars
  PROVE  Executor'
<1>0. PICK n \in Nat : /\ Counted(orphans, n)
                       /\ n + hung + (IF awaited = None THEN 0 ELSE 1) <= Workers
  BY DEF Executor
<1>w. hung \in Nat /\ Workers \in Nat \ {0}
  BY SummaryAssumption DEF Executor
\* The worker goes on, or stops waiting.
<1>1. ASSUME UNCHANGED <<orphans, hung>>, awaited' = None \/ awaited # None
      PROVE  Executor'
  BY <1>0, <1>1, <1>w, ExecutorNext
<1>2. CASE Looping
  <2>1. UNCHANGED <<awaited, orphans, hung>>
    BY <1>2 DEF Looping, StartCycle, LoadCourse, EndCycle, EndCourse, EndTask, StartMR, EndChecklist, Loop
  <2> QED  BY <1>1, <2>1
<1>3. CASE Submitting
  <2>1. awaited = None /\ Free /\ UNCHANGED <<orphans, hung>>
    BY <1>3 DEF Submitting, ListMRs, RunCheck, ListNotes, PostOrUpdate, AddLabels, RemoveLabels, Submit
  <2>2. n + hung < Workers
    BY <1>0, <2>1 DEF Free, Counted
  <2> QED  BY <1>0, <1>w, <2>1, <2>2, ExecutorNext
<1>4. CASE Answer \/ Raise
  BY <1>1, <1>4 DEF Answer, Raise
<1>5. CASE Retry \/ Hang
  BY <1>1, <1>5 DEF Retry, Hang, Running
<1>6. CASE TimeLimit
  <2>1. /\ awaited' = None
        /\ orphans' = IF Running THEN BagAdd(orphans, awaited) ELSE orphans
        /\ hung' = IF awaited # None /\ awaited.hangs THEN hung + 1 ELSE hung
    BY <1>6 DEF TimeLimit, GiveUp
  <2>2. CASE Running
    <3>1. awaited # None /\ hung' = hung /\ Counted(orphans', n + 1)
      BY <1>0, <2>1, <2>2, CountMore DEF Running
    <3> QED  BY <1>0, <1>w, <2>1, <3>1, ExecutorNext
  <2>3. CASE awaited # None /\ awaited.hangs
    <3>1. hung' = hung + 1 /\ Counted(orphans', n)
      BY <1>0, <2>1, <2>3 DEF Running
    <3> QED  BY <1>0, <1>w, <2>1, <2>3, <3>1, ExecutorNext
  <2>4. CASE awaited = None
    <3>1. hung' = hung /\ orphans' = orphans
      BY <2>1, <2>4 DEF Running
    <3> QED  BY <1>1, <2>1, <3>1
  <2> QED  BY <2>2, <2>3, <2>4 DEF Running
<1>7. CASE OrphanRetries \/ OrphanEnds
  <2>1. PICK c \in BagToSet(orphans) :
          \/ orphans' = BagAdd(BagRemove(orphans, c), [c EXCEPT !.tries = @ + 1])
          \/ orphans' = BagRemove(orphans, c)
    BY <1>7 DEF OrphanRetries, OrphanEnds
  <2>2. UNCHANGED <<awaited, hung>>
    BY <1>7 DEF OrphanRetries, OrphanEnds, worker
  <2>3. Counted(BagRemove(orphans, c), n - 1)
    BY <1>0, CountLess
  <2>4. n - 1 \in Nat
    BY <2>3, FS_CardinalityType DEF Counted
  <2>5. CASE orphans' = BagRemove(orphans, c)
    BY <1>0, <1>w, <2>2, <2>3, <2>4, <2>5, ExecutorNext
  <2>6. CASE orphans' = BagAdd(BagRemove(orphans, c), [c EXCEPT !.tries = @ + 1])
    <3>1. Counted(orphans', (n - 1) + 1)
      BY <2>3, <2>6, CountMore
    <3> QED  BY <1>0, <1>w, <2>2, <3>1, ExecutorNext
  <2> QED  BY <2>1, <2>5, <2>6
<1>8. CASE Restart
  <2>1. orphans' = EmptyBag /\ hung' = 0 /\ awaited' = None
    BY <1>8 DEF Restart
  <2>2. Counted(orphans', 0)
    BY <2>1, NoThreads
  <2> QED  BY <1>w, <2>1, <2>2, ExecutorNext
<1>9. CASE Push \/ Quote \/ Elsewhere
  <2>1. UNCHANGED <<awaited, orphans, hung>>
    BY <1>9 DEF Push, Quote, Elsewhere, worker
  <2> QED  BY <1>1, <2>1
<1> QED  BY <1>2, <1>3, <1>4, <1>5, <1>6, <1>7, <1>8, <1>9, Steps

(* Whatever is repeated, given up or hangs, the bot never has more calls   *)
(* at work than its executor has threads, nor one that was tried more      *)
(* often than it should be, and the worker never waits for one where it    *)
(* sends none.  (lifespan, hosting_executor_workers.)                      *)
THEOREM SummaryTypeOK == Spec => []TypeOK
<1>1. BaseInv /\ Executor => TypeOK
  <2> SUFFICES ASSUME BaseInv, Executor PROVE TypeOK
    OBVIOUS
  <2>1. PICK n \in Nat : /\ Counted(orphans, n)
                         /\ n + hung + (IF awaited = None THEN 0 ELSE 1) <= Workers
    BY DEF Executor
  <2>2. Cardinality(Threads(orphans)) + hung + (IF awaited = None THEN 0 ELSE 1) \in 0..Workers
    BY <2>1, SummaryAssumption DEF Executor, Counted
  <2>3. awaited # None => pc \in {"tasks"} \cup MRSteps /\ awaited.tries \in 1..Attempts
    <3> SUFFICES ASSUME awaited # None
                 PROVE  pc \in {"tasks"} \cup MRSteps /\ awaited.tries \in 1..Attempts
      OBVIOUS
    <3>1. awaited \in Calls /\ Awaits
      BY DEF BaseInv, SummaryData, AwaitedData
    <3>2. awaited.tries \in 1..Attempts
      BY <3>1 DEF Calls
    <3>3. pc \in {"tasks"} \cup MRSteps
      BY <3>1 DEF Awaits, DoneAt, Calls, MRSteps, WriteSteps
    <3> QED  BY <3>2, <3>3
  <2>4. \A c \in Courses : store[c] = None \/ store[c].config \in Configs
    BY DEF BaseInv, CoursesInv, CoursesData, Stored
  <2>5. \A m \in MRs : version[m] \in DOMAIN Failing[m] /\ labels[m] \subseteq {Processed, FixIt}
    BY DEF BaseInv, SummaryData, HostingData, Names
  <2>6. pc \in {"sleep", "courses", "tasks", "mrs"} \cup MRSteps /\ (pc \in MRSteps => job.mrs # <<>>)
    BY DEF BaseInv, SummaryData, AtWork
  <2> QED  BY <2>2, <2>3, <2>4, <2>5, <2>6 DEF TypeOK
<1>2. Init => Executor
  BY ExecutorInit
<1>3. BaseInv /\ Executor /\ [Next]_vars => Executor'
  BY ExecutorStep DEF BaseInv
<1> QED  BY <1>1, <1>2, <1>3, BaseAlways, PTL DEF Spec

=============================================================================
