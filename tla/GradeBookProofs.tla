--------------------------- MODULE GradeBookProofs ---------------------------
(***************************************************************************)
(* Proofs about GradeBook, for every course, every set of requests and     *)
(* every configuration: the types, that no report is lost, that saved      *)
(* grades are kept, limited or frozen as the status of the course says,    *)
(* that uploads apply their configuration and recalculate the grades, and  *)
(* that all of this implements GradeLedger.                                *)
(***************************************************************************)
EXTENDS GradeBook, TLAPS, WellFoundedInduction

(* A non-empty set of grades of a scale has a highest one. *)
LEMMA MaximumExists ==
    ASSUME NEW n \in Nat, NEW S, S \subseteq 0..n, S # {}
    PROVE  \E g \in S : \A h \in S : g >= h
<1> DEFINE T == {n - g : g \in S}
<1>1. \A g \in S : g \in Int /\ n - g \in Nat
  OBVIOUS
<1>2. T \subseteq Nat
  BY <1>1
<1>3. T # {}
  OBVIOUS
<1>4. PICK x \in T : \A y \in T : ~(<<y, x>> \in OpToRel(<, Nat))
  <2> HIDE DEF T
  <2>1. IsWellFoundedOn(OpToRel(<, Nat), Nat)
    BY NatLessThanWellFounded
  <2> QED
    BY <1>2, <1>3, <2>1, WFMin
<1>5. \A y \in T : ~(y < x)
  <2> HIDE DEF T
  <2> QED
    BY <1>2, <1>4 DEF OpToRel
<1>6. PICK g \in S : x = n - g
  OBVIOUS
<1>7. ASSUME NEW h \in S PROVE g >= h
  <2>1. n - h \in T
    OBVIOUS
  <2>2. ~(n - h < n - g)
    BY <1>5, <1>6, <2>1
  <2> QED
    BY <1>1, <2>2
<1> QED
  BY <1>7

(* Evaluating any formulas on any data gives a grade of the scale. *)
LEMMA EvaluateType ==
    ASSUME NEW g, IsGradeConfig(g), NEW data
    PROVE  Evaluate(g, data) \in Grade
<1> DEFINE matched == {d \in DOMAIN g : EvaluateGrade(g[d], data)}
<1>1. matched \subseteq 0..MaxGrade
  BY DEF IsGradeConfig, Grade
<1>2. CASE matched = {}
  BY <1>2, GradesAssumption DEF Evaluate, Grade
<1>3. CASE matched # {}
  <2> HIDE DEF matched
  <2>1. \E d \in matched : \A h \in matched : d >= h
    BY <1>1, <1>3, MaximumExists, GradesAssumption
  <2>2. (CHOOSE d \in matched : \A h \in matched : d >= h) \in 0..MaxGrade
    BY <1>1, <2>1
  <2> QED
    BY <1>3, <2>2 DEF Evaluate, Grade, matched
<1> QED
  BY <1>2, <1>3

(* calculate_effective_grade returns a grade of the scale, never None. *)
LEMMA EffectiveGradeType ==
    ASSUME NEW st, NEW g, IsGradeConfig(g), NEW data,
           NEW saved \in Grade \cup {None}
    PROVE  CalculateEffectiveGrade(st, g, data, saved) \in Grade
<1> DEFINE calculated == Evaluate(g, data)
<1>1. calculated \in Grade
  BY EvaluateType
<1>2. \A a, c \in Grade : AtLeast(a, c) \in Grade
  BY DEF AtLeast
<1>3. \A a \in Grade : AtMost(a, DoreshkaLimit) \in Grade
  BY GradesAssumption DEF AtMost, Grade, DoreshkaLimit
<1>4. 0 \in Grade
  BY GradesAssumption DEF Grade
<1> HIDE DEF calculated
<1> QED
  BY <1>1, <1>2, <1>3, <1>4 DEF CalculateEffectiveGrade, calculated

(* What the local variables of a handler are before it reads anything.     *)
LEMMA NoLocalOK == LocalOK(NoLocal)
  BY DEF LocalOK, NoLocal

(* A step of request r that leaves a well-typed request leaves all others. *)
LEMMA RequestsKeep ==
    ASSUME TypeOK, NEW r \in Requests, NEW step \in {"idle"} \cup Steps \cup Ended,
           NEW q, NEW l,
           \/ pc' = [pc EXCEPT ![r] = step]
           \/ pc' = pc /\ step = pc[r],
           \/ req' = [req EXCEPT ![r] = q]
           \/ req' = req /\ q = req[r],
           \/ local' = [local EXCEPT ![r] = l]
           \/ local' = local /\ l = local[r],
           RequestOK(step, q, l), LocalOK(l)
    PROVE  /\ pc' \in [Requests -> {"idle"} \cup Steps \cup Ended]
           /\ DOMAIN req' = Requests /\ DOMAIN local' = Requests
           /\ \A x \in Requests :
                 RequestOK(pc'[x], req'[x], local'[x]) /\ LocalOK(local'[x])
<1>1. /\ pc \in [Requests -> {"idle"} \cup Steps \cup Ended]
      /\ DOMAIN req = Requests /\ DOMAIN local = Requests
      /\ \A x \in Requests : RequestOK(pc[x], req[x], local[x]) /\ LocalOK(local[x])
  BY DEF TypeOK
<1> QED
  BY <1>1

(* The tasks of a configuration are placed in groups. *)
LEMMA PlacesType ==
    ASSUME NEW c, IsConfig(c)
    PROVE  \A t : Places(c, t) \subseteq Groups
<1>1. \A i \in DOMAIN c.groups : c.groups[i] \in Section
  BY DEF IsConfig
<1>2. \A i \in DOMAIN c.groups : c.groups[i].name \in Groups
  BY <1>1 DEF Section
<1> QED
  BY <1>2 DEF Places

(* Setting the deadline of a group leaves rows of groups. *)
LEMMA DateGroupType ==
    ASSUME NEW g \in GroupRows, NEW section \in Section
    PROVE  DateGroup(g, section) \in GroupRows
  BY DEF GroupRows, Section, DateGroup, Row

LEMMA TypeInit == Init => TypeOK
<1> SUFFICES ASSUME Init PROVE TypeOK
  OBVIOUS
<1>1. IsGradeConfig(grades)
  BY ConfigsAssumption DEF Init, IsConfig
<1>2. place \in [Tasks -> Groups] /\ taskOn \subseteq Tasks /\ group \in GroupRows
      /\ overlapped \subseteq Requests
  <2>1. IsConfig(InitConfig)
    BY ConfigsAssumption
  <2>2. \A t \in Tasks : (CHOOSE g \in Places(InitConfig, t) : TRUE) \in Groups
    BY <2>1, PlacesType, PlacesAssumption
  <2>3. \A i \in DOMAIN InitConfig.groups : InitConfig.groups[i] \in Section
    BY <2>1 DEF IsConfig
  <2>4. taskOn \subseteq Tasks
    BY <2>3 DEF Init, Section
  <2>5. ASSUME NEW g \in Groups,
               \E i \in DOMAIN InitConfig.groups : InitConfig.groups[i].name = g
        PROVE  Named(InitConfig, g).on \in BOOLEAN
    BY <2>3, <2>5 DEF Named, Section
  <2>6. group \in GroupRows
    BY <2>5 DEF Init, GroupRows, Row
  <2> QED
    BY <2>2, <2>4, <2>6 DEF Init
<1>3. /\ status \in CourseStatus
      /\ score \in [Students -> ScoreOfTask]
      /\ final \in [Students -> Grade \cup {None}]
      /\ override \in [Students -> Overrides \cup {None}]
  BY StatusesAssumption, InitAssumption DEF Init, ScoreOfTask
<1>4. /\ pc \in [Requests -> {"idle"} \cup Steps \cup Ended]
      /\ DOMAIN req = Requests /\ DOMAIN local = Requests
  BY DEF Init
<1>5. ASSUME NEW r \in Requests
      PROVE  RequestOK(pc[r], req[r], local[r]) /\ LocalOK(local[r])
  <2>1. pc[r] = "idle" /\ req[r] = None /\ local[r] = NoLocal
    BY DEF Init
  <2>2. RequestOK("idle", None, NoLocal)
    BY DEF RequestOK, ReportSteps, StoreSteps, UploadSteps, RecalcSteps
  <2> QED
    BY <2>1, <2>2, NoLocalOK
<1> QED
  BY <1>1, <1>2, <1>3, <1>4, <1>5 DEF TypeOK

(* Storing a score keeps the types of the scores. *)
LEMMA AfterStoreType ==
    ASSUME TypeOK, NEW r \in Requests, req[r] \in Report \cup Edit,
           NEW new \in Int, AfterStore(r, new)
    PROVE  TypeOK'
<1>1. score' \in [Students -> ScoreOfTask]
  <2>1. score \in [Students -> ScoreOfTask]
    BY DEF TypeOK
  <2>2. score' = [score EXCEPT ![req[r].student][req[r].task] = new]
    BY DEF AfterStore
  <2> QED
    BY <2>1, <2>2 DEF ScoreOfTask
<1>2. CASE req[r].kind = "report"
  <2>1. req[r] \in Report
    BY <1>2 DEF Report, Edit
  <2>2. pc' = [pc EXCEPT ![r] = "scores"] /\ UNCHANGED <<req, local>>
    BY <1>2 DEF AfterStore, Goto
  <2>3. RequestOK("scores", req[r], local[r]) /\ LocalOK(local[r])
    BY <2>1 DEF TypeOK, RequestOK, StoreSteps, UploadSteps, RecalcSteps
  <2>4. "scores" \in Steps
    BY DEF Steps, ReportSteps
  <2> QED
    BY <1>1, <2>2, <2>3, <2>4, RequestsKeep DEF TypeOK, AfterStore, course, tasks
<1>3. CASE req[r].kind # "report"
  <2> DEFINE l == [local[r] EXCEPT !.rows[req[r].student][req[r].task] = new]
  <2>1. /\ pc' = [pc EXCEPT ![r] = "max"] /\ UNCHANGED req
        /\ local' = [local EXCEPT ![r] = l]
    BY <1>3 DEF AfterStore, Goto
  <2>2. LocalOK(local[r])
    BY DEF TypeOK
  <2>3. LocalOK(l)
    BY <2>2 DEF LocalOK, NoLocal
  <2>4. RequestOK("max", req[r], l)
    BY DEF RequestOK, ReportSteps, StoreSteps, UploadSteps, RecalcSteps
  <2>5. "max" \in Steps
    BY DEF Steps, StoreSteps
  <2> HIDE DEF l
  <2> QED
    BY <1>1, <2>1, <2>3, <2>4, <2>5, RequestsKeep DEF TypeOK, AfterStore, course, tasks
<1> QED
  BY <1>2, <1>3

(* A step that changes only its request's step and local variables. *)
LEMMA ReadType ==
    ASSUME TypeOK, NEW r \in Requests, NEW step \in Steps \cup Ended, NEW l,
           UNCHANGED <<course, rows, req>>,
           pc' = [pc EXCEPT ![r] = step],
           \/ local' = [local EXCEPT ![r] = l]
           \/ local' = local /\ l = local[r],
           RequestOK(step, req[r], l), LocalOK(l)
    PROVE  TypeOK'
<1>1. /\ pc' \in [Requests -> {"idle"} \cup Steps \cup Ended]
      /\ DOMAIN req' = Requests /\ DOMAIN local' = Requests
      /\ \A x \in Requests :
            RequestOK(pc'[x], req'[x], local'[x]) /\ LocalOK(local'[x])
  BY RequestsKeep
<1> QED
  BY <1>1 DEF TypeOK, course, tasks, rows

(* The steps of /report and of /database/update keep the types. *)
LEMMA ReportType ==
    ASSUME TypeOK, NEW r \in Requests,
           \/ FindTask(r) \/ StoreScore(r) \/ StoreNoRow(r) \/ InsertGrade(r)
           \/ InsertConflict(r) \/ ReadScores(r) \/ ReadBonus(r)
           \/ ReadMaxScore(r) \/ ReadGroups(r) \/ LoadCourse(r)
           \/ SaveGrade(r) \/ EditAccept(r)
    PROVE  TypeOK'
<1> USE DEF ReportSteps, StoreSteps, UploadSteps, RecalcSteps, Steps, Ended
<1>0. /\ RequestOK(pc[r], req[r], local[r]) /\ LocalOK(local[r])
      /\ status \in CourseStatus /\ score \in [Students -> ScoreOfTask]
  BY DEF TypeOK
<1>1. CASE FindTask(r)
  <2> DEFINE step == CASE req[r].task \in counted -> "store"
                       [] req[r].task \in enabled \ counted -> "failed"
                       [] OTHER -> "rejected"
  <2>1. RequestOK(step, req[r], local[r])
    BY <1>0, <1>1 DEF FindTask, RequestOK
  <2> QED
    BY <1>0, <1>1, <2>1, ReadType DEF FindTask, Goto
<1>2. CASE StoreScore(r)
  <2>1. req[r] \in Report \cup Edit
    BY <1>0, <1>2 DEF StoreScore, RequestOK
  <2>2. score[req[r].student][req[r].task] \in Int /\ req[r].points \in Int
    <3>1. req[r].student \in Students /\ req[r].task \in Tasks /\ req[r].points \in Points
      BY <2>1 DEF Report, Edit
    <3>2. score[req[r].student] \in [Tasks -> Int \cup {NoRow}]
      BY <1>0, <3>1 DEF ScoreOfTask
    <3>3. score[req[r].student][req[r].task] # NoRow
      BY <1>2 DEF StoreScore
    <3> QED
      BY <3>1, <3>2, <3>3, TasksAssumption
  <2>3. UpdateScore(score[req[r].student][req[r].task],
                    req[r].points, req[r].reduce) \in Int
    BY <2>2 DEF UpdateScore, AtLeast
  <2> QED
    BY <1>2, <2>1, <2>3, AfterStoreType DEF StoreScore
<1>3. CASE StoreNoRow(r)
  <2>1. RequestOK("insert", req[r], local[r])
    BY <1>0, <1>3 DEF StoreNoRow, RequestOK
  <2> QED
    BY <1>0, <1>3, <2>1, ReadType DEF StoreNoRow, Goto
<1>4. CASE InsertGrade(r)
  <2>1. req[r] \in Report \cup Edit
    BY <1>0, <1>4 DEF InsertGrade, RequestOK
  <2>2. req[r].points \in Int
    BY <2>1, TasksAssumption DEF Report, Edit
  <2>3. UpdateScore(0, req[r].points, req[r].reduce) \in Int
    BY <2>2 DEF UpdateScore, AtLeast
  <2> QED
    BY <1>4, <2>1, <2>3, AfterStoreType DEF InsertGrade
<1>5. CASE InsertConflict(r)
  <2>1. RequestOK("failed", req[r], NoLocal)
    BY <1>0, <1>5 DEF RequestOK, InsertConflict
  <2> QED
    BY <1>5, <2>1, NoLocalOK, ReadType DEF InsertConflict, End, Goto
<1>6. CASE ReadScores(r)
  <2> DEFINE l == [local[r] EXCEPT !.rows[req[r].student] = GetScores(req[r].student, Tasks)]
  <2>1. RequestOK("bonus", req[r], l) /\ LocalOK(l)
    BY <1>0, <1>6 DEF ReadScores, RequestOK, LocalOK, NoLocal
  <2>2. local' = [local EXCEPT ![r] = l]
    BY <1>6 DEF ReadScores
  <2> HIDE DEF l
  <2> QED
    BY <1>6, <2>1, <2>2, ReadType DEF ReadScores, Goto
<1>7. CASE ReadBonus(r)
  <2> DEFINE l == [local[r] EXCEPT !.bonus = GetScores(req[r].student, Bonus)]
  <2>1. RequestOK("max", req[r], l) /\ LocalOK(l)
    BY <1>0, <1>7 DEF ReadBonus, RequestOK, LocalOK, NoLocal
  <2>2. local' = [local EXCEPT ![r] = l]
    BY <1>7 DEF ReadBonus
  <2> HIDE DEF l
  <2> QED
    BY <1>7, <2>1, <2>2, ReadType DEF ReadBonus, Goto
<1>8. CASE ReadMaxScore(r)
  <2> DEFINE l == [local[r] EXCEPT !.open = counted]
             step == IF req[r].kind = "report" THEN "groups" ELSE "course"
  <2>1. RequestOK(step, req[r], l) /\ LocalOK(l)
    BY <1>0, <1>8 DEF ReadMaxScore, RequestOK, LocalOK, NoLocal, Report, Edit
  <2>2. local' = [local EXCEPT ![r] = l] /\ pc' = [pc EXCEPT ![r] = step]
    BY <1>8 DEF ReadMaxScore, Goto
  <2>3. step \in Steps
    OBVIOUS
  <2> HIDE DEF l, step
  <2> QED
    BY <1>8, <2>1, <2>2, <2>3, ReadType DEF ReadMaxScore
<1>9. CASE ReadGroups(r)
  <2> DEFINE l == [local[r] EXCEPT !.large =
                      SolvedLarge(local[r].rows[req[r].student], counted)]
  <2>1. RequestOK("course", req[r], l) /\ LocalOK(l)
    BY <1>0, <1>9 DEF ReadGroups, RequestOK, LocalOK, NoLocal
  <2>2. local' = [local EXCEPT ![r] = l]
    BY <1>9 DEF ReadGroups
  <2> HIDE DEF l
  <2> QED
    BY <1>9, <2>1, <2>2, ReadType DEF ReadGroups, Goto
<1>10. CASE LoadCourse(r)
  <2> DEFINE l == [local[r] EXCEPT !.seen = status]
  <2>1. RequestOK("save", req[r], l) /\ LocalOK(l)
    BY <1>0, <1>10 DEF LoadCourse, RequestOK, LocalOK, NoLocal
  <2>2. local' = [local EXCEPT ![r] = l]
    BY <1>10 DEF LoadCourse
  <2> HIDE DEF l
  <2> QED
    BY <1>10, <2>1, <2>2, ReadType DEF LoadCourse, Goto
<1>11. CASE SaveGrade(r)
  <2> DEFINE s == req[r].student
             data == RowData(local[r].rows[s], ReportedTotal(local[r], s),
                             local[r].open, local[r].large)
             grade == CalculateEffectiveGrade(local[r].seen, grades, data, final[s])
  <2>1. s \in Students
    BY <1>0, <1>11 DEF SaveGrade, RequestOK, Report, Edit
  <2>2. IsGradeConfig(grades) /\ final \in [Students -> Grade \cup {None}]
    BY DEF TypeOK
  <2>3. final[s] \in Grade \cup {None}
    BY <2>1, <2>2
  <2>4. grade \in Grade
    <3> HIDE DEF data
    <3> QED
      BY <2>2, <2>3, EffectiveGradeType
  <2>5. final' = [final EXCEPT ![s] = grade]
    BY <1>11 DEF SaveGrade
  <2>6. RequestOK("done", req[r], NoLocal)
    BY <1>0, <1>11 DEF RequestOK, SaveGrade
  <2>7. /\ pc' \in [Requests -> {"idle"} \cup Steps \cup Ended]
        /\ DOMAIN req' = Requests /\ DOMAIN local' = Requests
        /\ \A x \in Requests :
              RequestOK(pc'[x], req'[x], local'[x]) /\ LocalOK(local'[x])
    BY <1>11, <2>6, NoLocalOK, RequestsKeep DEF SaveGrade, End, Goto
  <2> HIDE DEF s, grade
  <2>8. final' \in [Students -> Grade \cup {None}]
    BY <2>2, <2>4, <2>5
  <2> QED
    BY <1>11, <2>7, <2>8 DEF TypeOK, SaveGrade, course, tasks
<1>12. CASE EditAccept(r)
  <2>1. RequestOK("store", req[r], local[r])
    BY <1>0, <1>12 DEF EditAccept, RequestOK
  <2> QED
    BY <1>0, <1>12, <2>1, ReadType DEF EditAccept, Goto
<1> QED
  BY <1>1, <1>2, <1>3, <1>4, <1>5, <1>6, <1>7, <1>8, <1>9, <1>10, <1>11, <1>12

(* The steps of /update_config keep the types. *)
LEMMA UploadType ==
    ASSUME TypeOK, NEW r \in Requests,
           \/ CreateGroups(r) \/ MoveTasks(r) \/ SyncColumns(r) \/ EnableGroup(r)
           \/ StartGrades(r) \/ AddFormula(r)
           \/ UpdateGrade(r) \/ FinishGrades(r) \/ GradesGone(r) \/ RecalcScores(r)
           \/ RecalcGrades(r) \/ RecalcCourse(r) \/ RecalcGroups(r) \/ BatchWrite(r)
    PROVE  TypeOK'
<1> USE DEF ReportSteps, StoreSteps, UploadSteps, RecalcSteps, Steps, Ended
<1>0. /\ RequestOK(pc[r], req[r], local[r]) /\ LocalOK(local[r])
      /\ pc[r] \in {"idle"} \cup Steps \cup Ended
  BY DEF TypeOK
<1>u. req[r] \in Upload
  BY <1>0 DEF RequestOK, CreateGroups, MoveTasks, SyncColumns, EnableGroup,
              StartGrades, AddFormula, UpdateGrade, FinishGrades, GradesGone,
              RecalcScores, RecalcGrades,
              RecalcCourse, RecalcGroups, BatchWrite
<1>c. IsConfig(req[r].config) /\ req[r].status \in ConfigStatuses
  BY <1>u, ConfigsAssumption DEF Upload
<1>1. CASE SyncColumns(r)
  <2>1. RequestOK("enable", req[r], local[r])
    BY <1>u DEF RequestOK
  <2>2. /\ pc' \in [Requests -> {"idle"} \cup Steps \cup Ended]
        /\ DOMAIN req' = Requests /\ DOMAIN local' = Requests
        /\ \A x \in Requests :
              RequestOK(pc'[x], req'[x], local'[x]) /\ LocalOK(local'[x])
    BY <1>0, <1>1, <2>1, RequestsKeep DEF SyncColumns, Goto
  <2>3. status' \in CourseStatus
    BY <1>1, <1>c, StatusesAssumption DEF SyncColumns, TypeOK, CourseStatus
  <2>4. group' \in GroupRows
    <3> DEFINE off == [g \in Groups |-> IF group[g] = None THEN None
                                                      ELSE Row(FALSE, group[g].dated)]
    <3>1. off \in GroupRows
      BY DEF TypeOK, GroupRows, Row
    <3>2. req[r].config.groups[1] \in Section
      BY <1>c DEF IsConfig
    <3> HIDE DEF off
    <3>3. DateGroup(off, req[r].config.groups[1]) \in GroupRows
      BY <3>1, <3>2, DateGroupType
    <3> QED
      BY <1>1, <3>3 DEF SyncColumns, off
  <2> QED
    BY <1>1, <2>2, <2>3, <2>4 DEF TypeOK, SyncColumns, rows
<1>2. CASE EnableGroup(r)
  <2> DEFINE l == [local[r] EXCEPT !.synced = local[r].synced + 1]
  <2>1. RequestOK(pc[r], req[r], l) /\ LocalOK(l)
    BY <1>0, <1>2 DEF EnableGroup, RequestOK, LocalOK, NoLocal
  <2>2. local' = [local EXCEPT ![r] = l]
    BY <1>2 DEF EnableGroup
  <2>3. /\ pc' \in [Requests -> {"idle"} \cup Steps \cup Ended]
        /\ DOMAIN req' = Requests /\ DOMAIN local' = Requests
        /\ \A x \in Requests :
              RequestOK(pc'[x], req'[x], local'[x]) /\ LocalOK(local'[x])
    <3> HIDE DEF l
    <3> QED
      BY <1>0, <1>2, <2>1, <2>2, RequestsKeep DEF EnableGroup
  <2>4. taskOn' \subseteq Tasks /\ group' \in GroupRows
    <3> DEFINE k == local[r].synced + 1
               groups == req[r].config.groups
    <3>1. groups \in Seq(Section) /\ k \in DOMAIN groups
      BY <1>2, <1>c DEF EnableGroup, IsConfig
    <3>2. groups[k].open \subseteq Tasks
      <4> HIDE DEF k, groups
      <4>1. groups[k] \in Section
        BY <3>1
      <4> QED
        BY <4>1 DEF Section
    <3>3. k = Len(groups) \/ groups[k + 1] \in Section
      BY <3>1
    <3>4. group \in GroupRows
      BY DEF TypeOK
    <3>5. k = Len(groups) \/ DateGroup(group, groups[k + 1]) \in GroupRows
      BY <3>3, <3>4, DateGroupType
    <3> QED
      BY <1>2, <3>2, <3>4, <3>5 DEF EnableGroup, TypeOK
  <2> QED
    BY <1>2, <2>3, <2>4 DEF TypeOK, EnableGroup, rows
<1>g. CASE CreateGroups(r)
  <2>1. RequestOK("move", req[r], local[r])
    BY <1>u DEF RequestOK
  <2>2. /\ pc' \in [Requests -> {"idle"} \cup Steps \cup Ended]
        /\ DOMAIN req' = Requests /\ DOMAIN local' = Requests
        /\ \A x \in Requests :
              RequestOK(pc'[x], req'[x], local'[x]) /\ LocalOK(local'[x])
    BY <1>0, <1>g, <2>1, RequestsKeep DEF CreateGroups, Goto
  <2>3. group' \in GroupRows
    BY <1>g DEF CreateGroups, TypeOK, GroupRows, Row
  <2> QED
    BY <1>g, <2>2, <2>3 DEF TypeOK, CreateGroups, rows
<1>m. CASE MoveTasks(r)
  <2>1. RequestOK("sync", req[r], local[r])
    BY <1>u DEF RequestOK
  <2>2. /\ pc' \in [Requests -> {"idle"} \cup Steps \cup Ended]
        /\ DOMAIN req' = Requests /\ DOMAIN local' = Requests
        /\ \A x \in Requests :
              RequestOK(pc'[x], req'[x], local'[x]) /\ LocalOK(local'[x])
    BY <1>0, <1>m, <2>1, RequestsKeep DEF MoveTasks, Goto
  <2>3. \A t \in Moved(req[r].config) : To(req[r].config, t) \in Groups
    BY <1>c, PlacesType DEF Moved, To
  <2>4. place' \in [Tasks -> Groups]
    BY <1>m, <2>3 DEF MoveTasks, TypeOK
  <2> QED
    BY <1>m, <2>2, <2>4 DEF TypeOK, MoveTasks, rows
<1>3. CASE StartGrades(r)
  <2> DEFINE wanted == req[r].config.grades
             todo == UNION {{g} \X wanted[g] : g \in DOMAIN wanted \ DOMAIN grades}
             l == [local[r] EXCEPT !.rules = grades, !.todo = todo]
  <2>1. CASE wanted = None
    <3>1. RequestOK("recalc", req[r], local[r])
      BY <1>u DEF RequestOK
    <3> QED
      BY <1>0, <1>3, <2>1, <3>1, ReadType DEF StartGrades, Goto
  <2>2. CASE wanted # None
    <3>1. IsGradeConfig(wanted) /\ IsGradeConfig(grades)
      BY <1>c, <2>2 DEF IsConfig, TypeOK
    <3>2. \A gf \in todo : gf[1] \in Grade
      BY <3>1 DEF IsGradeConfig
    <3> HIDE DEF todo
    <3>3. DOMAIN l = DOMAIN local[r] /\ l.rules = grades /\ l.todo = todo
          /\ l.saved = local[r].saved /\ l.batch = local[r].batch
      BY <1>0 DEF LocalOK, NoLocal
    <3>4. RequestOK("formulas", req[r], l) /\ LocalOK(l)
      <4> HIDE DEF l
      <4> QED
        BY <1>0, <1>u, <2>2, <3>1, <3>2, <3>3 DEF RequestOK, LocalOK
    <3>5. local' = [local EXCEPT ![r] = l]
      BY <1>3, <2>2 DEF StartGrades, todo
    <3> HIDE DEF l
    <3> QED
      BY <1>3, <2>2, <3>4, <3>5, ReadType DEF StartGrades, Goto
  <2> QED
    BY <2>1, <2>2
<1>4. CASE AddFormula(r)
  <2>1. PICK gf \in local[r].todo :
          LET g   == gf[1]
              old == IF g \in DOMAIN grades THEN grades[g] ELSE {}
          IN  /\ grades' = [h \in DOMAIN grades \cup {g} |->
                               IF h = g THEN old \cup {gf[2]} ELSE grades[h]]
              /\ local' = [local EXCEPT ![r].todo = @ \ {gf}]
    BY <1>4 DEF AddFormula
  <2> DEFINE l == [local[r] EXCEPT !.todo = @ \ {gf}]
  <2>2. RequestOK(pc[r], req[r], l) /\ LocalOK(l)
    BY <1>0, <1>4 DEF AddFormula, RequestOK, LocalOK, NoLocal
  <2>3. local' = [local EXCEPT ![r] = l]
    BY <2>1
  <2>4. /\ pc' \in [Requests -> {"idle"} \cup Steps \cup Ended]
        /\ DOMAIN req' = Requests /\ DOMAIN local' = Requests
        /\ \A x \in Requests :
              RequestOK(pc'[x], req'[x], local'[x]) /\ LocalOK(local'[x])
    <3> HIDE DEF l
    <3> QED
      BY <1>0, <1>4, <2>2, <2>3, RequestsKeep DEF AddFormula
  <2>5. IsGradeConfig(grades')
    <3>1. gf[1] \in Grade /\ IsGradeConfig(grades)
      BY <1>0 DEF LocalOK, TypeOK
    <3> QED
      BY <2>1, <3>1 DEF IsGradeConfig
  <2> QED
    BY <1>4, <2>4, <2>5 DEF TypeOK, AddFormula, tasks, rows
<1>5. CASE UpdateGrade(r)
  <2>a. PICK seen \in SUBSET (Kept(r) \cap DOMAIN grades),
             g \in Kept(r) \cap DOMAIN grades :
          \E f \in NewFormulas(r, g) :
            /\ \A h \in seen : NewFormulas(r, h) = {}
            /\ grades' = [h \in DOMAIN grades \ Dropped(r) |->
                  CASE h = g -> Unchanged(r, g) \cup {f}
                    [] h \in seen -> Unchanged(r, h)
                    [] OTHER -> grades[h]]
            /\ local' = [local EXCEPT
                  ![r].todo = {g} \X (NewFormulas(r, g) \ {f}),
                  ![r].done = @ \cup Dropped(r) \cup seen \cup {g}]
    BY <1>5 DEF UpdateGrade
  <2>1. PICK f \in NewFormulas(r, g) :
          /\ \A h \in seen : NewFormulas(r, h) = {}
          /\ grades' = [h \in DOMAIN grades \ Dropped(r) |->
                CASE h = g -> Unchanged(r, g) \cup {f}
                  [] h \in seen -> Unchanged(r, h)
                  [] OTHER -> grades[h]]
          /\ local' = [local EXCEPT
                ![r].todo = {g} \X (NewFormulas(r, g) \ {f}),
                ![r].done = @ \cup Dropped(r) \cup seen \cup {g}]
    BY <2>a
  <2>c. IsGradeConfig(grades) /\ IsGradeConfig(req[r].config.grades)
    BY <1>0, <1>5, <1>c DEF UpdateGrade, RequestOK, IsConfig, TypeOK
  <2> DEFINE todo == {g} \X (NewFormulas(r, g) \ {f})
             done == local[r].done \cup Dropped(r) \cup seen \cup {g}
             l == [local[r] EXCEPT !.todo = todo, !.done = done]
  <2>2. RequestOK(pc[r], req[r], l) /\ LocalOK(l)
    <3>1. \A gf \in todo : gf[1] \in Grade
      BY <2>1, <2>c DEF IsGradeConfig
    <3> HIDE DEF todo, done
    <3> QED
      BY <1>0, <1>5, <3>1 DEF UpdateGrade, RequestOK, LocalOK, NoLocal
  <2>3. local' = [local EXCEPT ![r] = l]
    BY <2>1
  <2>4. /\ pc' \in [Requests -> {"idle"} \cup Steps \cup Ended]
        /\ DOMAIN req' = Requests /\ DOMAIN local' = Requests
        /\ \A x \in Requests :
              RequestOK(pc'[x], req'[x], local'[x]) /\ LocalOK(local'[x])
    <3> HIDE DEF l
    <3> QED
      BY <1>0, <1>5, <2>2, <2>3, RequestsKeep DEF UpdateGrade
  <2>5. IsGradeConfig(grades')
    <3>1. \A h \in seen : Unchanged(r, h) # {}
      BY <2>1, <2>c DEF IsGradeConfig, Kept, NewFormulas, Unchanged
    <3> QED
      BY <2>1, <2>c, <3>1 DEF IsGradeConfig
  <2> QED
    BY <1>5, <2>4, <2>5 DEF TypeOK, UpdateGrade, tasks, rows
<1>6. CASE FinishGrades(r)
  <2> DEFINE l == [local[r] EXCEPT !.rules = None, !.done = {}]
  <2>1. RequestOK("recalc", req[r], l) /\ LocalOK(l)
    BY <1>0, <1>u DEF RequestOK, LocalOK, NoLocal
  <2>2. local' = [local EXCEPT ![r] = l]
    BY <1>6 DEF FinishGrades
  <2>3. /\ pc' \in [Requests -> {"idle"} \cup Steps \cup Ended]
        /\ DOMAIN req' = Requests /\ DOMAIN local' = Requests
        /\ \A x \in Requests :
              RequestOK(pc'[x], req'[x], local'[x]) /\ LocalOK(local'[x])
    <3> HIDE DEF l
    <3> QED
      BY <1>6, <2>1, <2>2, RequestsKeep DEF FinishGrades, Goto
  <2>4. IsGradeConfig(grades')
    <3>1. IsGradeConfig(req[r].config.grades) /\ IsGradeConfig(grades)
      BY <1>0, <1>6, <1>c DEF FinishGrades, RequestOK, IsConfig, TypeOK
    <3>2. \A g \in Kept(r) : Unchanged(r, g) # {}
      BY <1>6, <3>1 DEF FinishGrades, IsGradeConfig, Kept, NewFormulas, Unchanged
    <3>3. grades' = [g \in DOMAIN grades \ Dropped(r) |->
                        IF g \in Kept(r) THEN Unchanged(r, g) ELSE grades[g]]
      BY <1>6 DEF FinishGrades
    <3> QED
      BY <3>1, <3>2, <3>3 DEF IsGradeConfig
  <2> QED
    BY <1>6, <2>3, <2>4 DEF TypeOK, FinishGrades, tasks, rows
<1>7. CASE GradesGone(r)
  <2>1. RequestOK("failed", req[r], NoLocal)
    BY <1>0, <1>7 DEF RequestOK, GradesGone
  <2> QED
    BY <1>7, <2>1, NoLocalOK, ReadType DEF GradesGone, End, Goto
<1>8. CASE RecalcScores(r)
  <2> DEFINE saved == [s \in Students |-> IF override[s] # None THEN Skip ELSE final[s]]
             l == [local[r] EXCEPT !.rows = score, !.saved = saved]
  <2>1. saved \in [Students -> Grade \cup {None, Skip}]
    BY DEF TypeOK
  <2> HIDE DEF saved
  <2>2. RequestOK("recalcgrades", req[r], l) /\ LocalOK(l)
    BY <1>0, <1>u, <2>1 DEF RequestOK, LocalOK, NoLocal
  <2>3. local' = [local EXCEPT ![r] = l]
    BY <1>8 DEF RecalcScores, saved
  <2> HIDE DEF l
  <2> QED
    BY <1>8, <2>2, <2>3, ReadType DEF RecalcScores, Goto
<1>9. CASE RecalcGrades(r)
  <2> DEFINE l == [local[r] EXCEPT !.rules = grades]
  <2>1. IsGradeConfig(grades)
    BY DEF TypeOK
  <2>2. RequestOK("recalccourse", req[r], l) /\ LocalOK(l)
    BY <1>0, <1>u, <2>1 DEF RequestOK, LocalOK, NoLocal
  <2>3. local' = [local EXCEPT ![r] = l]
    BY <1>9 DEF RecalcGrades
  <2> HIDE DEF l
  <2> QED
    BY <1>9, <2>2, <2>3, ReadType DEF RecalcGrades, Goto
<1>10. CASE RecalcCourse(r)
  <2> DEFINE l == [local[r] EXCEPT !.seen = status]
  <2>1. RequestOK("recalcgroups", req[r], l) /\ LocalOK(l)
    BY <1>0, <1>10, <1>u DEF RecalcCourse, RequestOK, LocalOK, NoLocal
  <2>2. local' = [local EXCEPT ![r] = l]
    BY <1>10 DEF RecalcCourse
  <2> HIDE DEF l
  <2> QED
    BY <1>10, <2>1, <2>2, ReadType DEF RecalcCourse, Goto
<1>11. CASE RecalcGroups(r)
  <2> DEFINE batch == [s \in Students |-> RecalcGrade(local[r], s)]
             l == [local[r] EXCEPT !.batch = batch]
  <2>1. IsGradeConfig(local[r].rules)
    BY <1>0, <1>11 DEF RecalcGroups, RequestOK
  <2>2. ASSUME NEW s \in Students PROVE RecalcGrade(local[r], s) \in Grade \cup {Skip}
    <3>1. CASE local[r].saved[s] = Skip
      BY <3>1 DEF RecalcGrade
    <3>2. CASE local[r].saved[s] # Skip
      <4>1. local[r].saved[s] \in Grade \cup {None}
        BY <1>0, <3>2 DEF LocalOK
      <4> QED
        BY <2>1, <3>2, <4>1, EffectiveGradeType DEF RecalcGrade
    <3> QED
      BY <3>1, <3>2
  <2>3. batch \in [Students -> Grade \cup {Skip}]
    BY <2>2
  <2> HIDE DEF batch
  <2>4. RequestOK("write", req[r], l) /\ LocalOK(l)
    BY <1>0, <1>u, <2>3 DEF RequestOK, LocalOK, NoLocal
  <2>5. local' = [local EXCEPT ![r] = l]
    BY <1>11 DEF RecalcGroups, batch
  <2> HIDE DEF l
  <2> QED
    BY <1>11, <2>4, <2>5, ReadType DEF RecalcGroups, Goto
<1>12. CASE BatchWrite(r)
  <2>1. RequestOK("done", req[r], NoLocal)
    BY <1>0, <1>12 DEF RequestOK, BatchWrite
  <2>2. /\ pc' \in [Requests -> {"idle"} \cup Steps \cup Ended]
        /\ DOMAIN req' = Requests /\ DOMAIN local' = Requests
        /\ \A x \in Requests :
              RequestOK(pc'[x], req'[x], local'[x]) /\ LocalOK(local'[x])
    BY <1>12, <2>1, NoLocalOK, RequestsKeep DEF BatchWrite, End, Goto
  <2>3. local[r].batch \in [Students -> Grade \cup {Skip}]
    BY <1>0 DEF LocalOK
  <2>4. final' \in [Students -> Grade \cup {None}]
    BY <1>12, <2>3 DEF BatchWrite, TypeOK
  <2> QED
    BY <1>12, <2>2, <2>4 DEF TypeOK, BatchWrite, course, tasks
<1> QED
  BY <1>1, <1>2, <1>g, <1>m, <1>3, <1>4, <1>5, <1>6, <1>7, <1>8, <1>9, <1>10, <1>11, <1>12

(* Arrivals, the one-step requests and the death of a handler keep the     *)
(* types.                                                                  *)
LEMMA SendType ==
    ASSUME TypeOK, NEW r \in Requests,
           \/ ReportAccept(r) \/ OpenTable(r) \/ UploadAccept(r) \/ EditCourse(r)
           \/ OverrideGrade(r) \/ ClearGradeOverride(r) \/ Abort(r)
    PROVE  TypeOK'
<1> USE DEF ReportSteps, StoreSteps, UploadSteps, RecalcSteps, Steps, Ended
<1>0. RequestOK(pc[r], req[r], local[r]) /\ LocalOK(local[r])
  BY DEF TypeOK
<1>1. CASE ReportAccept(r)
  <2>1. PICK q \in Report :
          Arrive(r, q, IF status = "finished" THEN "rejected" ELSE "find")
    BY <1>1 DEF ReportAccept
  <2> DEFINE step == IF status = "finished" THEN "rejected" ELSE "find"
  <2>2. RequestOK(step, q, local[r])
    BY DEF RequestOK
  <2>3. /\ pc' \in [Requests -> {"idle"} \cup Steps \cup Ended]
        /\ DOMAIN req' = Requests /\ DOMAIN local' = Requests
        /\ \A x \in Requests :
              RequestOK(pc'[x], req'[x], local'[x]) /\ LocalOK(local'[x])
    BY <1>0, <1>1, <2>1, <2>2, RequestsKeep DEF ReportAccept, Arrive, Goto
  <2> QED
    BY <1>1, <2>3 DEF TypeOK, ReportAccept, course, tasks, rows
<1>2. CASE OpenTable(r)
  <2>1. PICK q \in Edit :
          /\ Arrive(r, q, "page")
          /\ local' = [local EXCEPT
                ![r].rows[q.student] = score[q.student],
                ![r].large = SolvedLarge(score[q.student], counted)]
    BY <1>2 DEF OpenTable
  <2> DEFINE l == [local[r] EXCEPT !.rows[q.student] = score[q.student],
                                  !.large = SolvedLarge(score[q.student], counted)]
  <2>2. RequestOK("page", q, l) /\ LocalOK(l)
    BY <1>0 DEF RequestOK, LocalOK, NoLocal
  <2>3. local' = [local EXCEPT ![r] = l]
    BY <2>1 DEF TypeOK
  <2>4. /\ pc' \in [Requests -> {"idle"} \cup Steps \cup Ended]
        /\ DOMAIN req' = Requests /\ DOMAIN local' = Requests
        /\ \A x \in Requests :
              RequestOK(pc'[x], req'[x], local'[x]) /\ LocalOK(local'[x])
    <3> HIDE DEF l
    <3> QED
      BY <2>1, <2>2, <2>3, RequestsKeep DEF Arrive, Goto
  <2> QED
    BY <1>2, <2>4 DEF TypeOK, OpenTable, course, tasks, rows
<1>3. CASE UploadAccept(r)
  <2>1. PICK q \in Upload :
          Arrive(r, q, IF status = "finished" THEN "rejected" ELSE "create")
    BY <1>3 DEF UploadAccept
  <2> DEFINE step == IF status = "finished" THEN "rejected" ELSE "create"
  <2>2. RequestOK(step, q, local[r])
    BY DEF RequestOK
  <2>3. /\ pc' \in [Requests -> {"idle"} \cup Steps \cup Ended]
        /\ DOMAIN req' = Requests /\ DOMAIN local' = Requests
        /\ \A x \in Requests :
              RequestOK(pc'[x], req'[x], local'[x]) /\ LocalOK(local'[x])
    BY <1>0, <1>3, <2>1, <2>2, RequestsKeep DEF UploadAccept, Arrive, Goto
  <2>4. overlapped' \subseteq Requests
    BY <1>3 DEF TypeOK, UploadAccept, Uploading
  <2> QED
    BY <1>3, <2>3, <2>4 DEF TypeOK, UploadAccept, tasks, rows
<1>4. ASSUME NEW k \in {"status", "override"}, Arrive(r, [kind |-> k], "done"),
             UNCHANGED local
      PROVE  /\ pc' \in [Requests -> {"idle"} \cup Steps \cup Ended]
        /\ DOMAIN req' = Requests /\ DOMAIN local' = Requests
        /\ \A x \in Requests :
              RequestOK(pc'[x], req'[x], local'[x]) /\ LocalOK(local'[x])
  <2>1. RequestOK("done", [kind |-> k], local[r])
    BY DEF RequestOK, Other
  <2> QED
    BY <1>0, <1>4, <2>1, RequestsKeep DEF Arrive, Goto
<1>5. CASE EditCourse(r)
  <2>1. status' \in CourseStatus
    BY <1>5, StatusesAssumption DEF EditCourse
  <2> QED
    BY <1>4, <1>5, <2>1 DEF TypeOK, EditCourse, tasks, rows
<1>6. CASE OverrideGrade(r)
  <2>1. override' \in [Students -> Overrides \cup {None}]
    BY <1>6 DEF OverrideGrade, TypeOK
  <2> QED
    BY <1>4, <1>6, <2>1 DEF TypeOK, OverrideGrade, course, tasks
<1>7. CASE ClearGradeOverride(r)
  <2>1. override' \in [Students -> Overrides \cup {None}]
    BY <1>7 DEF ClearGradeOverride, TypeOK
  <2> QED
    BY <1>4, <1>7, <2>1 DEF TypeOK, ClearGradeOverride, course, tasks
<1>8. CASE Abort(r)
  <2>1. PICK how \in {"aborted", "stopped", "done"} : End(r, how)
    BY <1>8 DEF Abort
  <2>2. RequestOK(how, req[r], NoLocal)
    BY <1>0, <1>8 DEF RequestOK, Abort
  <2> QED
    BY <1>8, <2>1, <2>2, NoLocalOK, ReadType DEF Abort, End, Goto
<1> QED
  BY <1>1, <1>2, <1>3, <1>5, <1>6, <1>7, <1>8

LEMMA TypeNext == TypeOK /\ [Next]_vars => TypeOK'
<1> SUFFICES ASSUME TypeOK, [Next]_vars PROVE TypeOK'
  OBVIOUS
<1>1. CASE Next
  <2>1. PICK r \in Requests : Send(r) \/ Handle(r) \/ Abort(r)
    BY <1>1 DEF Next
  <2> QED
    BY <2>1, SendType, ReportType, UploadType DEF Send, Handle
<1>2. CASE UNCHANGED vars
  BY <1>2 DEF vars, course, tasks, rows, TypeOK
<1> QED
  BY <1>1, <1>2

(* Type correctness.  Whatever requests run, whatever configurations they  *)
(* upload: a saved grade is always a grade of the scale, the batch of a    *)
(* recalculation holds grades or the mark of a student left alone, and the *)
(* course's formulas are a grade configuration.                            *)
THEOREM TypeCorrect == Spec => []TypeOK
<1>1. Init => TypeOK
  BY TypeInit
<1>2. TypeOK /\ [Next]_vars => TypeOK'
  BY TypeNext
<1> QED
  BY <1>1, <1>2, PTL DEF Spec

-----------------------------------------------------------------------------
(* No lost report.                                                         *)

(* A report or edit that is stored is a request for a score of the course. *)
LEMMA StoredType ==
    ASSUME TypeOK, NEW x \in Requests, Stored(x)
    PROVE  /\ req[x] \in Report \cup Edit
           /\ req[x].student \in Students /\ req[x].task \in Tasks
           /\ req[x].points \in Int /\ req[x].reduce \in BOOLEAN
<1>1. RequestOK(pc[x], req[x], local[x])
  BY DEF TypeOK
<1>2. pc[x] # "idle" /\ req[x].kind \in StoreKinds
  BY DEF Stored
<1>3. req[x] \in Report \cup Edit
  BY <1>1, <1>2 DEF RequestOK, Report, Edit, Upload, Other, StoreKinds
<1> QED
  BY <1>3, TasksAssumption DEF Report, Edit

(* Only the steps that store a score make a request a stored one, and a    *)
(* stored request stays stored.                                            *)
LEMMA OtherStepsKeepScores ==
    ASSUME TypeOK, NEW r \in Requests, Send(r) \/ Handle(r) \/ Abort(r),
           ~StoreScore(r), ~InsertGrade(r)
    PROVE  /\ score' = score
           /\ \A x \in Requests : Stored(x)' <=> Stored(x)
           /\ \A x \in Requests : Stored(x) => req'[x] = req[x]
<1> USE DEF Stored, Uncommitted, StoreKinds, Goto, End
<1>0. /\ RequestOK(pc[r], req[r], local[r])
      /\ pc \in [Requests -> {"idle"} \cup Steps \cup Ended]
      /\ DOMAIN req = Requests
  BY DEF TypeOK
<1>1. CASE \/ ReportAccept(r) \/ OpenTable(r) \/ UploadAccept(r)
           \/ EditCourse(r) \/ OverrideGrade(r) \/ ClearGradeOverride(r)
  <2>1. PICK q \in Report \cup Edit \cup Upload \cup Other,
             step \in {"find", "page", "create", "rejected", "done"} :
          /\ Arrive(r, q, step)
          /\ step = "done" => q \in Other
          /\ score' = score
    BY <1>1 DEF ReportAccept, OpenTable, UploadAccept, EditCourse,
                OverrideGrade, ClearGradeOverride, Other, rows
  <2> QED
    BY <1>0, <2>1 DEF Arrive, Other
<1>2. CASE \/ FindTask(r) \/ StoreNoRow(r) \/ InsertConflict(r) \/ EditAccept(r)
  BY <1>0, <1>2 DEF FindTask, StoreNoRow, InsertConflict, EditAccept, rows
<1>3. CASE \/ ReadScores(r) \/ ReadBonus(r) \/ ReadMaxScore(r)
           \/ ReadGroups(r) \/ LoadCourse(r) \/ SaveGrade(r)
  BY <1>0, <1>3 DEF ReadScores, ReadBonus, ReadMaxScore, ReadGroups,
                    LoadCourse, SaveGrade, rows
<1>4. CASE \/ CreateGroups(r) \/ MoveTasks(r) \/ SyncColumns(r) \/ EnableGroup(r)
           \/ StartGrades(r) \/ AddFormula(r) \/ UpdateGrade(r) \/ FinishGrades(r) \/ GradesGone(r)
           \/ RecalcScores(r) \/ RecalcGrades(r) \/ RecalcCourse(r)
           \/ RecalcGroups(r) \/ BatchWrite(r)
  <2>1. req[r] \in Upload
    BY <1>0, <1>4 DEF RequestOK, UploadSteps, RecalcSteps, CreateGroups, MoveTasks,
         SyncColumns, EnableGroup, StartGrades, AddFormula, UpdateGrade, FinishGrades, GradesGone,
         RecalcScores, RecalcGrades, RecalcCourse, RecalcGroups, BatchWrite
  <2>2. /\ score' = score /\ req' = req
        /\ \A x \in Requests \ {r} : pc'[x] = pc[x]
    BY <1>0, <1>4 DEF CreateGroups, MoveTasks, SyncColumns,
         EnableGroup, StartGrades, AddFormula, UpdateGrade, FinishGrades, GradesGone,
         RecalcScores, RecalcGrades, RecalcCourse, RecalcGroups, BatchWrite, rows
  <2> QED
    BY <2>1, <2>2 DEF Upload
<1>5. CASE Abort(r)
  <2>1. PICK how \in {"aborted", "stopped", "done"} : pc' = [pc EXCEPT ![r] = how]
    BY <1>5 DEF Abort
  <2>2. pc[r] \in Steps /\ score' = score /\ req' = req
    BY <1>5 DEF Abort, rows
  <2>3. \/ how = "aborted" /\ pc[r] \in Uncommitted
        \/ how # "aborted" /\ pc[r] \notin Uncommitted
    BY <1>0, <1>5, <2>1 DEF Abort, Caught, RecalcSteps, Steps
  <2>4. \A x \in Requests \ {r} : pc'[x] = pc[x]
    BY <1>0, <2>1
  <2>5. pc'[r] = how
    BY <1>0, <2>1
  <2>6. Stored(r)' <=> Stored(r)
    BY <2>2, <2>3, <2>5 DEF Steps, ReportSteps, StoreSteps, UploadSteps, RecalcSteps
  <2> QED
    BY <2>2, <2>4, <2>6
<1> QED
  BY <1>1, <1>2, <1>3, <1>4, <1>5 DEF Send, Handle

(* What storing does to the cell of the request, and to no other cell.     *)
LEMMA StoringSteps ==
    ASSUME TypeOK, NEW r \in Requests, StoreScore(r) \/ InsertGrade(r)
    PROVE  \E old \in Int, new \in Int :
              /\ req[r] \in Report \cup Edit
              /\ score[req[r].student][req[r].task] \in {old, NoRow}
              /\ score' = [score EXCEPT ![req[r].student][req[r].task] = new]
              /\ new = UpdateScore(old, req[r].points, req[r].reduce)
              /\ score[req[r].student][req[r].task] = NoRow => old = 0
              /\ Stored(r)' /\ ~Stored(r) /\ req' = req
              /\ \A x \in Requests \ {r} : Stored(x)' <=> Stored(x)
<1> DEFINE cell == score[req[r].student][req[r].task]
           old  == IF cell = NoRow THEN 0 ELSE cell
           new  == UpdateScore(old, req[r].points, req[r].reduce)
<1>1. req[r] \in Report \cup Edit /\ pc[r] \in {"store", "insert"}
  BY DEF TypeOK, RequestOK, StoreSteps, StoreScore, InsertGrade
<1>2. req[r].student \in Students /\ req[r].task \in Tasks /\ req[r].points \in Int
  BY <1>1, TasksAssumption DEF Report, Edit
<1>3. cell \in Int \cup {NoRow}
  <2>1. score[req[r].student] \in [Tasks -> Int \cup {NoRow}]
    BY <1>2 DEF TypeOK, ScoreOfTask
  <2> QED
    BY <1>2, <2>1
<1>4. old \in Int
  BY <1>3
<1>5. AfterStore(r, new)
  BY DEF StoreScore, InsertGrade
<1> HIDE DEF cell, old
<1>6. new \in Int
  BY <1>2, <1>4 DEF UpdateScore, AtLeast
<1> HIDE DEF new
<1>7. /\ score' = [score EXCEPT ![req[r].student][req[r].task] = new]
      /\ req' = req
  BY <1>5 DEF AfterStore
<1>8. pc' \in {[pc EXCEPT ![r] = "scores"], [pc EXCEPT ![r] = "max"]}
  BY <1>5 DEF AfterStore, Goto
<1>9. /\ Stored(r)' /\ ~Stored(r)
      /\ \A x \in Requests \ {r} : Stored(x)' <=> Stored(x)
  BY <1>1, <1>7, <1>8 DEF Stored, Uncommitted, TypeOK, StoreKinds, Report, Edit
<1>10. cell \in {old, NoRow} /\ (cell = NoRow => old = 0)
  BY DEF cell, old
<1> QED
  BY <1>1, <1>4, <1>6, <1>7, <1>9, <1>10 DEF cell, new

(* UpdateScore without reduction: never below the old score, and at least  *)
(* the points unless the old score is negative.                            *)
LEMMA UpdateScoreRaises ==
    ASSUME NEW old \in Int, NEW points \in Int
    PROVE  /\ UpdateScore(old, points, FALSE) >= old
           /\ UpdateScore(old, points, FALSE) >= points \/ old < 0
           /\ old < 0 => UpdateScore(old, points, FALSE) < 0
  BY DEF UpdateScore, AtLeast

LEMMA NoLostReportNext == TypeOK /\ NoLostReport /\ [Next]_vars => NoLostReport'
<1> SUFFICES ASSUME TypeOK, NoLostReport, [Next]_vars PROVE NoLostReport'
  OBVIOUS
<1>1. CASE UNCHANGED vars
  BY <1>1 DEF vars, rows, NoLostReport, Stored, SameCell
<1>2. CASE Next
  <2>1. PICK r \in Requests : Send(r) \/ Handle(r) \/ Abort(r)
    BY <1>2 DEF Next
  <2>2. CASE ~StoreScore(r) /\ ~InsertGrade(r)
    <3>1. /\ score' = score
          /\ \A x \in Requests : Stored(x)' <=> Stored(x)
          /\ \A x \in Requests : Stored(x) => req'[x] = req[x]
      BY <2>1, <2>2, OtherStepsKeepScores
    <3> QED
      BY <3>1 DEF NoLostReport, SameCell
  <2>3. CASE StoreScore(r) \/ InsertGrade(r)
    <3>1. PICK old \in Int, new \in Int :
              /\ req[r] \in Report \cup Edit
              /\ score[req[r].student][req[r].task] \in {old, NoRow}
              /\ score' = [score EXCEPT ![req[r].student][req[r].task] = new]
              /\ new = UpdateScore(old, req[r].points, req[r].reduce)
              /\ score[req[r].student][req[r].task] = NoRow => old = 0
              /\ Stored(r)' /\ ~Stored(r) /\ req' = req
              /\ \A x \in Requests \ {r} : Stored(x)' <=> Stored(x)
      BY <2>3, StoringSteps
    <3>2. /\ req[r].student \in Students /\ req[r].task \in Tasks
          /\ req[r].points \in Int /\ req[r].reduce \in BOOLEAN
      BY <3>1, TasksAssumption DEF Report, Edit
    <3>3. score'[req[r].student][req[r].task] = new
      BY <3>1, <3>2 DEF TypeOK, ScoreOfTask
    <3>4. ~req[r].reduce =>
            new >= old /\ (new >= req[r].points \/ old < 0) /\ (old < 0 => new < 0)
      BY <3>1, <3>2, UpdateScoreRaises
    <3>5. ASSUME NEW x \in Requests, Stored(x)', ~req[x].reduce
          PROVE  LET current == score'[req[x].student][req[x].task]
                 IN  /\ current # NoRow
                     /\ \/ current >= req[x].points \/ current < 0
                        \/ \E q \in Requests :
                              Stored(q)' /\ req[q].reduce /\ SameCell(q, x)
      <4>1. CASE x = r
        BY <3>1, <3>3, <3>4, <3>5, <4>1, NoRowAssumption
      <4>2. CASE x # r /\ SameCell(r, x)
        <5>1. /\ Stored(x) /\ req[x].points \in Int
          BY <3>1, <3>5, <4>2, StoredType
        <5>2. score'[req[x].student][req[x].task] = new
          BY <3>3, <4>2 DEF SameCell
        <5>3. CASE req[r].reduce
          BY <3>1, <4>2, <5>2, <5>3, NoRowAssumption
        <5>4. CASE ~req[r].reduce
          <6>1. score[req[x].student][req[x].task] = old
            BY <3>1, <3>5, <4>2, <5>1 DEF NoLostReport, SameCell
          <6>2. CASE old >= req[x].points \/ old < 0
            BY <3>4, <5>1, <5>2, <5>4, <6>2, NoRowAssumption
          <6>3. CASE \E q \in Requests : Stored(q) /\ req[q].reduce /\ SameCell(q, x)
            BY <3>1, <5>2, <6>3, NoRowAssumption
          <6> QED
            BY <3>5, <5>1, <6>1, <6>2, <6>3 DEF NoLostReport
        <5> QED
          BY <3>2, <5>3, <5>4
      <4>3. CASE x # r /\ ~SameCell(r, x)
        <5>1. Stored(x)
          BY <3>1, <3>5, <4>3
        <5>2. req[x].student \in Students /\ req[x].task \in Tasks
          BY <5>1, StoredType
        <5>3. score'[req[x].student][req[x].task] = score[req[x].student][req[x].task]
          BY <3>1, <4>3, <5>2 DEF SameCell, TypeOK, ScoreOfTask
        <5> QED
          BY <3>1, <3>5, <5>1, <5>3 DEF NoLostReport
      <4> QED
        BY <4>1, <4>2, <4>3
    <3> QED
      BY <3>1, <3>5 DEF NoLostReport, SameCell
  <2> QED
    BY <2>2, <2>3
<1> QED
  BY <1>1, <1>2

(* No lost report.  Whatever requests interleave, and wherever they die: a *)
(* score stored by a report that may not reduce stays at least the points  *)
(* of the report, unless it was negative or a request that may reduce has  *)
(* stored to the same cell.                                                *)
THEOREM ReportsAreKept == Spec => []NoLostReport
<1>1. Init => NoLostReport
  BY DEF Init, NoLostReport, Stored
<1>2. TypeOK /\ NoLostReport /\ [Next]_vars => NoLostReport'
  BY NoLostReportNext
<1> QED
  BY <1>1, <1>2, TypeCorrect, PTL DEF Spec

-----------------------------------------------------------------------------
(* The grades of frozen and finished courses.                              *)

(* What a grade new may be that replaces the grade old under a status. *)
Follows(st, new, old) ==
    /\ st \in FreezeStatuses => NotLower(new, old)
    /\ st = "doreshka" => WithinLimit(new, old)
    /\ st = "finished" => Frozen(new, old)

(* A handler about to save has loaded a status, and the batch of a         *)
(* recalculation follows it, from the saved grades it read.                *)
FollowsOK(step, l) ==
    /\ step \in {"save", "recalcgroups", "write"} => l.seen \in CourseStatus
    /\ step = "write" =>
          \A s \in Students :
              \/ l.batch[s] = Skip
              \/ l.saved[s] # Skip /\ Follows(l.seen, l.batch[s], l.saved[s])

HandlersFollow == \A r \in Requests : FollowsOK(pc[r], local[r])

(* calculate_effective_grade follows the status it is given. *)
LEMMA EffectiveGradeFollows ==
    ASSUME NEW st, NEW g, IsGradeConfig(g), NEW data,
           NEW saved \in Grade \cup {None}
    PROVE  Follows(st, CalculateEffectiveGrade(st, g, data, saved), saved)
<1> DEFINE calculated == Evaluate(g, data)
           grade == CalculateEffectiveGrade(st, g, data, saved)
<1>1. calculated \in Grade
  BY EvaluateType
<1>2. \A a \in Grade : AtMost(a, DoreshkaLimit) \in Grade \cap 0..DoreshkaLimit
  BY GradesAssumption DEF AtMost, Grade, DoreshkaLimit
<1>3. \A a, c \in Grade : AtLeast(a, c) \in {a, c} /\ AtLeast(a, c) >= a
  BY GradesAssumption DEF AtLeast, Grade
<1> HIDE DEF calculated
<1>4. CASE st = "finished"
  <2>1. grade = IF saved = None THEN 0 ELSE saved
    BY <1>4 DEF CalculateEffectiveGrade, FreezeStatuses
  <2> QED
    BY <1>4, <2>1 DEF Follows, Frozen, FreezeStatuses
<1>5. CASE st \in FreezeStatuses
  <2> DEFINE capped == IF st = "doreshka" THEN AtMost(calculated, DoreshkaLimit)
                       ELSE calculated
  <2>1. /\ capped \in Grade
        /\ st = "doreshka" => capped \in 0..DoreshkaLimit
    BY <1>1, <1>2
  <2>2. grade = IF saved = None THEN capped ELSE AtLeast(saved, capped)
    BY <1>5 DEF CalculateEffectiveGrade, FreezeStatuses, calculated
  <2>3. saved # None => grade \in {saved, capped} /\ grade >= saved
    <3> HIDE DEF grade, capped
    <3> QED
      BY <1>3, <2>1, <2>2
  <2>4. saved = None => grade = capped
    BY <2>2
  <2>5. grade \in Grade
    BY EffectiveGradeType
  <2>6. st # "finished" /\ None \notin Grade
    BY <1>5, GradesAssumption DEF FreezeStatuses, Grade
  <2> HIDE DEF grade, capped
  <2>7. NotLower(grade, saved) /\ (st = "doreshka" => WithinLimit(grade, saved))
    BY <2>1, <2>3, <2>4, <2>5, <2>6 DEF NotLower, WithinLimit
  <2> QED
    BY <2>6, <2>7 DEF Follows, grade
<1>6. CASE st # "finished" /\ st \notin FreezeStatuses
  BY <1>6 DEF Follows, FreezeStatuses
<1> QED
  BY <1>4, <1>5, <1>6

(* A step that does not load a course's status or compute a batch leads    *)
(* to no step that needs them.                                             *)
LEMMA OtherStepsLoadNothing ==
    ASSUME TypeOK, NEW r \in Requests, Send(r) \/ Handle(r) \/ Abort(r),
           ~LoadCourse(r), ~RecalcCourse(r), ~RecalcGroups(r)
    PROVE  pc'[r] \notin {"save", "recalcgroups", "write"}
<1>0. pc \in [Requests -> {"idle"} \cup Steps \cup Ended]
  BY DEF TypeOK
<1>1. CASE Send(r) \/ Abort(r)
  BY <1>0, <1>1 DEF Send, Abort, Goto, End, Arrive, ReportAccept, OpenTable,
       EditAccept, UploadAccept, EditCourse, OverrideGrade, ClearGradeOverride
<1>2. CASE \/ FindTask(r) \/ StoreScore(r) \/ StoreNoRow(r) \/ InsertGrade(r)
           \/ InsertConflict(r) \/ ReadScores(r) \/ ReadBonus(r)
           \/ ReadMaxScore(r) \/ ReadGroups(r) \/ SaveGrade(r)
  BY <1>0, <1>2 DEF Goto, End, AfterStore, FindTask, StoreScore, StoreNoRow,
       InsertGrade, InsertConflict, ReadScores, ReadBonus, ReadMaxScore,
       ReadGroups, SaveGrade
<1>3. CASE \/ CreateGroups(r) \/ MoveTasks(r) \/ SyncColumns(r) \/ EnableGroup(r)
           \/ StartGrades(r) \/ AddFormula(r)
           \/ UpdateGrade(r) \/ FinishGrades(r) \/ GradesGone(r) \/ RecalcScores(r)
           \/ RecalcGrades(r) \/ BatchWrite(r)
  BY <1>0, <1>3 DEF Goto, End, CreateGroups, MoveTasks, SyncColumns,
       EnableGroup, StartGrades, AddFormula,
       UpdateGrade, FinishGrades, GradesGone, RecalcScores, RecalcGrades, BatchWrite
<1> QED
  BY <1>1, <1>2, <1>3 DEF Handle

(* Every step changes the step and the local variables of one request.     *)
LEMMA StepsAreLocal ==
    ASSUME TypeOK, NEW r \in Requests, Send(r) \/ Handle(r) \/ Abort(r),
           NEW x \in Requests, x # r
    PROVE  pc'[x] = pc[x] /\ local'[x] = local[x]
<1>0. /\ pc \in [Requests -> {"idle"} \cup Steps \cup Ended]
      /\ DOMAIN local = Requests
  BY DEF TypeOK
<1>1. CASE Send(r) \/ Abort(r)
  BY <1>0, <1>1 DEF Send, Abort, Goto, End, Arrive, ReportAccept, OpenTable,
       EditAccept, UploadAccept, EditCourse, OverrideGrade, ClearGradeOverride
<1>2. CASE \/ FindTask(r) \/ StoreScore(r) \/ StoreNoRow(r) \/ InsertGrade(r)
           \/ InsertConflict(r)
  BY <1>0, <1>2 DEF Goto, End, AfterStore, FindTask, StoreScore, StoreNoRow,
       InsertGrade, InsertConflict
<1>3. CASE \/ ReadScores(r) \/ ReadBonus(r) \/ ReadMaxScore(r)
           \/ ReadGroups(r) \/ LoadCourse(r) \/ SaveGrade(r)
  BY <1>0, <1>3 DEF Goto, End, ReadScores, ReadBonus, ReadMaxScore,
       ReadGroups, LoadCourse, SaveGrade
<1>4. CASE \/ CreateGroups(r) \/ MoveTasks(r) \/ SyncColumns(r) \/ EnableGroup(r)
           \/ StartGrades(r) \/ AddFormula(r)
           \/ UpdateGrade(r) \/ FinishGrades(r) \/ GradesGone(r)
  BY <1>0, <1>4 DEF Goto, End, CreateGroups, MoveTasks, SyncColumns,
       EnableGroup, StartGrades, AddFormula,
       UpdateGrade, FinishGrades, GradesGone
<1>5. CASE \/ RecalcScores(r) \/ RecalcGrades(r) \/ RecalcCourse(r)
           \/ RecalcGroups(r) \/ BatchWrite(r)
  BY <1>0, <1>5 DEF Goto, End, RecalcScores, RecalcGrades, RecalcCourse,
       RecalcGroups, BatchWrite
<1> QED
  BY <1>1, <1>2, <1>3, <1>4, <1>5 DEF Handle

LEMMA HandlersFollowNext == TypeOK /\ HandlersFollow /\ [Next]_vars => HandlersFollow'
<1> SUFFICES ASSUME TypeOK, HandlersFollow, [Next]_vars PROVE HandlersFollow'
  OBVIOUS
<1>1. CASE UNCHANGED vars
  BY <1>1 DEF vars, HandlersFollow, FollowsOK, Follows
<1>2. CASE Next
  <2>1. PICK r \in Requests : Send(r) \/ Handle(r) \/ Abort(r)
    BY <1>2 DEF Next
  <2>2. ASSUME NEW x \in Requests, x # r PROVE FollowsOK(pc'[x], local'[x])
    BY <2>1, <2>2, StepsAreLocal DEF HandlersFollow
  <2>3. LocalOK(local[r]) /\ DOMAIN local = Requests /\ status \in CourseStatus
    BY DEF TypeOK
  <2>4. pc \in [Requests -> {"idle"} \cup Steps \cup Ended]
    BY DEF TypeOK
  <2>5. CASE ~LoadCourse(r) /\ ~RecalcCourse(r) /\ ~RecalcGroups(r)
    <3>1. pc'[r] \notin {"save", "recalcgroups", "write"}
      BY <2>1, <2>5, OtherStepsLoadNothing
    <3>2. FollowsOK(pc'[r], local'[r])
      BY <3>1 DEF FollowsOK
    <3> QED
      BY <2>2, <3>2 DEF HandlersFollow
  <2>6. CASE LoadCourse(r) \/ RecalcCourse(r)
    <3>1. pc'[r] \in {"save", "recalcgroups"} /\ local'[r].seen = status
      BY <2>3, <2>4, <2>6 DEF LoadCourse, RecalcCourse, Goto, LocalOK, NoLocal
    <3>2. FollowsOK(pc'[r], local'[r])
      BY <2>3, <3>1 DEF FollowsOK
    <3> QED
      BY <2>2, <3>2 DEF HandlersFollow
  <2>7. CASE RecalcGroups(r)
    <3> DEFINE batch == [s \in Students |-> RecalcGrade(local[r], s)]
    <3>1. /\ pc'[r] = "write" /\ local'[r].batch = batch
          /\ local'[r].seen = local[r].seen /\ local'[r].saved = local[r].saved
      BY <2>3, <2>4, <2>7 DEF RecalcGroups, Goto, LocalOK, NoLocal
    <3>2. IsGradeConfig(local[r].rules) /\ local[r].seen \in CourseStatus
      BY <2>7 DEF RecalcGroups, TypeOK, RequestOK, HandlersFollow, FollowsOK
    <3>3. ASSUME NEW s \in Students
          PROVE  \/ batch[s] = Skip
                 \/ /\ local[r].saved[s] # Skip
                    /\ Follows(local[r].seen, batch[s], local[r].saved[s])
      <4>1. CASE local[r].saved[s] = Skip
        BY <4>1 DEF RecalcGrade
      <4>2. CASE local[r].saved[s] # Skip
        <5>1. local[r].saved[s] \in Grade \cup {None}
          BY <2>3, <4>2 DEF LocalOK
        <5>2. Follows(local[r].seen, RecalcGrade(local[r], s), local[r].saved[s])
          BY <3>2, <4>2, <5>1, EffectiveGradeFollows DEF RecalcGrade
        <5> QED
          BY <4>2, <5>2
      <4> QED
        BY <4>1, <4>2
    <3> HIDE DEF batch
    <3>4. FollowsOK(pc'[r], local'[r])
      BY <3>1, <3>2, <3>3 DEF FollowsOK
    <3> QED
      BY <2>2, <3>4 DEF HandlersFollow
  <2> QED
    BY <2>5, <2>6, <2>7
<1> QED
  BY <1>1, <1>2

LEMMA HandlersFollowAlways == Spec => []HandlersFollow
<1>1. Init => HandlersFollow
  BY DEF Init, HandlersFollow, FollowsOK
<1>2. TypeOK /\ HandlersFollow /\ [Next]_vars => HandlersFollow'
  BY HandlersFollowNext
<1> QED
  BY <1>1, <1>2, TypeCorrect, PTL DEF Spec

(* Only the two saving steps change a saved grade. *)
LEMMA OtherStepsKeepGrades ==
    ASSUME NEW r \in Requests, Send(r) \/ Handle(r) \/ Abort(r),
           ~SaveGrade(r), ~BatchWrite(r)
    PROVE  final' = final
<1>1. CASE Send(r) \/ Abort(r)
  BY <1>1 DEF Send, Abort, rows, ReportAccept, OpenTable, EditAccept,
       UploadAccept, EditCourse, OverrideGrade, ClearGradeOverride
<1>2. CASE \/ FindTask(r) \/ StoreScore(r) \/ StoreNoRow(r) \/ InsertGrade(r)
           \/ InsertConflict(r) \/ ReadScores(r) \/ ReadBonus(r)
           \/ ReadMaxScore(r) \/ ReadGroups(r) \/ LoadCourse(r)
  BY <1>2 DEF rows, AfterStore, FindTask, StoreScore, StoreNoRow, InsertGrade,
       InsertConflict, ReadScores, ReadBonus, ReadMaxScore, ReadGroups, LoadCourse
<1>3. CASE \/ CreateGroups(r) \/ MoveTasks(r) \/ SyncColumns(r) \/ EnableGroup(r)
           \/ StartGrades(r) \/ AddFormula(r)
           \/ UpdateGrade(r) \/ FinishGrades(r) \/ GradesGone(r) \/ RecalcScores(r)
           \/ RecalcGrades(r) \/ RecalcCourse(r) \/ RecalcGroups(r)
  BY <1>3 DEF rows, CreateGroups, MoveTasks, SyncColumns, EnableGroup,
       StartGrades, AddFormula, UpdateGrade, FinishGrades, GradesGone,
       RecalcScores, RecalcGrades, RecalcCourse, RecalcGroups
<1> QED
  BY <1>1, <1>2, <1>3 DEF Handle

(* A saved grade that changes follows every set of statuses the course and *)
(* the handlers have settled in.                                           *)
LEMMA SavedGradesFollow ==
    ASSUME TypeOK, HandlersFollow, [Next]_vars, NoOverlap,
           NEW S \in SUBSET CourseStatus, SettledIn(S), NEW s \in Students
    PROVE  final'[s] = final[s] \/ \E st \in S : Follows(st, final'[s], final[s])
<1>1. CASE UNCHANGED vars
  BY <1>1 DEF vars, rows
<1>2. CASE Next
  <2>1. PICK r \in Requests : Send(r) \/ Handle(r) \/ Abort(r)
    BY <1>2 DEF Next
  <2>2. CASE ~SaveGrade(r) /\ ~BatchWrite(r)
    BY <2>1, <2>2, OtherStepsKeepGrades
  <2>3. FollowsOK(pc[r], local[r]) /\ local[r].seen \in S \cup {None}
    BY DEF HandlersFollow, SettledIn
  <2>4. IsGradeConfig(grades) /\ final \in [Students -> Grade \cup {None}]
    BY DEF TypeOK
  <2>5. CASE SaveGrade(r)
    <3> DEFINE u == req[r].student
               data == RowData(local[r].rows[u], ReportedTotal(local[r], u),
                               local[r].open, local[r].large)
               grade == CalculateEffectiveGrade(local[r].seen, grades, data, final[u])
    <3>1. final' = [final EXCEPT ![u] = grade] /\ pc[r] = "save"
      BY <2>5 DEF SaveGrade
    <3>2. local[r].seen \in S
      BY <2>3, <3>1, StatusesAssumption DEF FollowsOK
    <3>3. CASE s # u
      BY <2>4, <3>1, <3>3
    <3>4. CASE s = u
      <4>1. Follows(local[r].seen, grade, final[u])
        <5> HIDE DEF data
        <5> QED
          BY <2>4, <3>4, EffectiveGradeFollows
      <4>2. final'[s] = grade
        BY <2>4, <3>1, <3>4
      <4> QED
        BY <3>2, <3>4, <4>1, <4>2
    <3> QED
      BY <3>3, <3>4
  <2>6. CASE BatchWrite(r)
    <3>1. /\ final'[s] = IF local[r].batch[s] = Skip THEN final[s]
                         ELSE local[r].batch[s]
          /\ pc[r] = "write"
      BY <2>6 DEF BatchWrite
    <3>2. local[r].seen \in S
      BY <2>3, <3>1, StatusesAssumption DEF FollowsOK
    <3>3. CASE local[r].batch[s] # Skip
      <4>1. /\ local[r].saved[s] # Skip
            /\ Follows(local[r].seen, local[r].batch[s], local[r].saved[s])
        BY <2>3, <3>1, <3>3 DEF FollowsOK
      <4>2. local[r].saved[s] = final[s]
        BY <4>1 DEF NoOverlap
      <4> QED
        BY <3>1, <3>2, <3>3, <4>1, <4>2
    <3> QED
      BY <3>1, <3>3
  <2> QED
    BY <2>1, <2>2, <2>5, <2>6
<1> QED
  BY <1>1, <1>2

(* Frozen grades.  While the course is DORESHKA or ALL_TASKS_ISSUED, and   *)
(* so it was for every handler in flight, no request lowers a saved grade, *)
(* unless it overlaps a recalculation.                                     *)
THEOREM FrozenGradesKept == Spec => NoDowngradeWhenFrozen
<1>1. TypeOK /\ HandlersFollow /\ [Next]_vars =>
        [SettledIn(FreezeStatuses) /\ NoOverlap =>
            \A s \in Students : NotLower(final'[s], final[s])]_vars
  <2> SUFFICES ASSUME TypeOK, HandlersFollow, [Next]_vars,
                      SettledIn(FreezeStatuses), NoOverlap, NEW s \in Students
               PROVE  NotLower(final'[s], final[s])
    OBVIOUS
  <2>1. FreezeStatuses \in SUBSET CourseStatus
    BY DEF FreezeStatuses, CourseStatus
  <2>2. \/ final'[s] = final[s]
        \/ \E st \in FreezeStatuses : Follows(st, final'[s], final[s])
    BY <2>1, SavedGradesFollow
  <2>3. NotLower(final[s], final[s])
    BY GradesAssumption DEF NotLower, TypeOK, Grade
  <2> QED
    BY <2>2, <2>3 DEF Follows
<1> QED
  BY <1>1, TypeCorrect, HandlersFollowAlways, PTL DEF Spec, NoDowngradeWhenFrozen

(* The limit.  In a DORESHKA course, and so it was for every handler in    *)
(* flight, a saved grade changes to one of at most 3, or not at all.       *)
THEOREM DoreshkaLimited == Spec => DoreshkaCap
<1>1. TypeOK /\ HandlersFollow /\ [Next]_vars =>
        [SettledIn({"doreshka"}) /\ NoOverlap =>
            \A s \in Students : WithinLimit(final'[s], final[s])]_vars
  <2> SUFFICES ASSUME TypeOK, HandlersFollow, [Next]_vars,
                      SettledIn({"doreshka"}), NoOverlap, NEW s \in Students
               PROVE  WithinLimit(final'[s], final[s])
    OBVIOUS
  <2>1. {"doreshka"} \in SUBSET CourseStatus
    BY DEF CourseStatus
  <2>2. final'[s] = final[s] \/ Follows("doreshka", final'[s], final[s])
    BY <2>1, SavedGradesFollow
  <2> QED
    BY <2>2 DEF Follows, WithinLimit
<1> QED
  BY <1>1, TypeCorrect, HandlersFollowAlways, PTL DEF Spec, DoreshkaCap

(* Finished courses.  When the course is FINISHED for all of its handlers, *)
(* saved grades stay as they are; one never saved may become 0.            *)
THEOREM FinishedGradesKept == Spec => FinishedGradesStay
<1>1. TypeOK /\ HandlersFollow /\ [Next]_vars =>
        [SettledIn({"finished"}) /\ NoOverlap =>
            \A s \in Students : Frozen(final'[s], final[s])]_vars
  <2> SUFFICES ASSUME TypeOK, HandlersFollow, [Next]_vars,
                      SettledIn({"finished"}), NoOverlap, NEW s \in Students
               PROVE  Frozen(final'[s], final[s])
    OBVIOUS
  <2>1. {"finished"} \in SUBSET CourseStatus
    BY DEF CourseStatus
  <2>2. final'[s] = final[s] \/ Follows("finished", final'[s], final[s])
    BY <2>1, SavedGradesFollow
  <2> QED
    BY <2>2 DEF Follows, Frozen
<1> QED
  BY <1>1, TypeCorrect, HandlersFollowAlways, PTL DEF Spec, FinishedGradesStay

------------------------------------------------------------------------------
(* Uploads.                                                                *)

(* An upload that no other has overlapped so far. *)
Alone(r) == r \notin overlapped /\ pc[r] \in UploadSteps

NoOtherUpload == \A r \in Requests : Alone(r) => Uploading = {r}

(* What a handler has in its local variables before it reads anything. *)
Fresh == \A r \in Requests :
    /\ pc[r] \in {"idle", "create", "move", "sync"} => local[r] = NoLocal
    /\ pc[r] = "enable" => local[r].done = {}

(* Uploads in flight together place tasks alike. *)
Alike == \A q, r \in Uploading : q # r => PlaceAlike(req[q].config, req[r].config)

(* Every task is in a group, and so it will be after a move. *)
Housed ==
    /\ \A t \in Tasks : group[place[t]] # None
    /\ \A r \in Requests : pc[r] = "move" =>
          \A t \in Moved(req[r].config) : group[To(req[r].config, t)] # None

(* A group is open without a deadline only between a move and a sync. *)
Dates == \/ \A t \in Tasks : group[place[t]].on => group[place[t]].dated
         \/ \E r \in Requests : IsUpload(r) /\ pc[r] \in {"sync", "stopped"}

(* What _sync_columns has done with the sections up to local[r].synced. *)
Enabling(r) ==
    LET groups == req[r].config.groups
        k      == local[r].synced
    IN  /\ k \in 0..Len(groups)
        /\ taskOn = UNION {groups[i].open : i \in 1..k}
        /\ \A i \in DOMAIN groups : i <= k + 1 => group[groups[i].name] = Row(groups[i].on, TRUE)

Opened(c) == enabled = OpenTasks(c) /\ enabled \subseteq counted

(* What _sync_grades_config has done: a new grade, or one it has been      *)
(* through, has the formulas it wants but for those still to create.       *)
Syncing(r) ==
    LET wanted == req[r].config.grades
        l      == local[r]
        old    == DOMAIN l.rules \ l.done
    IN  /\ \A gf \in l.todo : \E g \in DOMAIN wanted \ old : \E f \in wanted[g] : gf = <<g, f>>
        /\ \A g \in DOMAIN wanted \ old :
              IF g \in DOMAIN grades THEN grades[g] = {f \in wanted[g] : <<g, f>> \notin l.todo}
              ELSE \A f \in wanted[g] : <<g, f>> \in l.todo
        /\ old \subseteq DOMAIN grades /\ DOMAIN grades \subseteq old \cup DOMAIN wanted

(* How far an upload has come that no other overlaps. *)
Progress(r) ==
    LET c == req[r].config
    IN  /\ pc[r] \in {"sync", "enable", "formulas"} \cup RecalcSteps => Moved(c) = {}
        /\ pc[r] = "enable" => Enabling(r)
        /\ pc[r] \in {"formulas"} \cup RecalcSteps => Opened(c)
        /\ pc[r] = "formulas" => Syncing(r)
        /\ pc[r] \in RecalcSteps => c.grades = None \/ grades = c.grades
        /\ pc[r] = "write" => local[r].batch = [s \in Students |-> RecalcGrade(local[r], s)]

Uploads == \A r \in Requests : Alone(r) => Progress(r)

TaskState == <<place, taskOn, group, grades>>

(* Only uploads change tasks, groups and grades. *)
LEMMA OthersKeepTasks ==
    ASSUME NEW r \in Requests, Send(r) \/ Handle(r) \/ Abort(r), pc[r] \notin UploadSteps
    PROVE  UNCHANGED TaskState
<1>1. CASE Send(r) \/ Abort(r)
  BY <1>1 DEF Send, Abort, ReportAccept, OpenTable, EditAccept, UploadAccept, EditCourse,
       OverrideGrade, ClearGradeOverride, TaskState, course, tasks
<1>2. CASE \/ FindTask(r) \/ StoreScore(r) \/ StoreNoRow(r) \/ InsertGrade(r)
           \/ InsertConflict(r) \/ ReadScores(r) \/ ReadBonus(r) \/ ReadMaxScore(r)
           \/ ReadGroups(r) \/ LoadCourse(r) \/ SaveGrade(r)
  BY <1>2 DEF FindTask, StoreScore, StoreNoRow, InsertGrade, InsertConflict, AfterStore, ReadScores,
       ReadBonus, ReadMaxScore, ReadGroups, LoadCourse, SaveGrade, TaskState, course, tasks
<1>3. CASE \/ CreateGroups(r) \/ MoveTasks(r) \/ SyncColumns(r) \/ EnableGroup(r)
           \/ StartGrades(r) \/ AddFormula(r)
           \/ UpdateGrade(r) \/ FinishGrades(r) \/ GradesGone(r) \/ RecalcScores(r)
           \/ RecalcGrades(r) \/ RecalcCourse(r) \/ RecalcGroups(r) \/ BatchWrite(r)
  BY <1>3 DEF CreateGroups, MoveTasks, SyncColumns, EnableGroup, StartGrades, AddFormula, UpdateGrade,
       FinishGrades, GradesGone, RecalcScores, RecalcGrades, RecalcCourse, RecalcGroups, BatchWrite,
       UploadSteps, RecalcSteps
<1> QED  BY <1>1, <1>2, <1>3 DEF Handle

(* A request that has arrived stays what it is. *)
LEMMA RequestsStay ==
    ASSUME TypeOK, NEW r \in Requests, Send(r) \/ Handle(r) \/ Abort(r),
           NEW x \in Requests, x # r \/ pc[x] # "idle"
    PROVE  req'[x] = req[x]
<1>0. DOMAIN req = Requests
  BY DEF TypeOK
<1>1. CASE Send(r) \/ Abort(r)
  BY <1>0, <1>1 DEF Send, Abort, Arrive, ReportAccept, OpenTable, EditAccept, UploadAccept, EditCourse,
       OverrideGrade, ClearGradeOverride
<1>2. CASE \/ FindTask(r) \/ StoreScore(r) \/ StoreNoRow(r) \/ InsertGrade(r)
           \/ InsertConflict(r) \/ ReadScores(r) \/ ReadBonus(r) \/ ReadMaxScore(r)
           \/ ReadGroups(r) \/ LoadCourse(r) \/ SaveGrade(r)
  BY <1>2 DEF FindTask, StoreScore, StoreNoRow, InsertGrade, InsertConflict, AfterStore, ReadScores,
       ReadBonus, ReadMaxScore, ReadGroups, LoadCourse, SaveGrade
<1>3. CASE \/ CreateGroups(r) \/ MoveTasks(r) \/ SyncColumns(r) \/ EnableGroup(r)
           \/ StartGrades(r) \/ AddFormula(r)
           \/ UpdateGrade(r) \/ FinishGrades(r) \/ GradesGone(r) \/ RecalcScores(r)
           \/ RecalcGrades(r) \/ RecalcCourse(r) \/ RecalcGroups(r) \/ BatchWrite(r)
  BY <1>3 DEF CreateGroups, MoveTasks, SyncColumns, EnableGroup, StartGrades, AddFormula, UpdateGrade,
       FinishGrades, GradesGone, RecalcScores, RecalcGrades, RecalcCourse, RecalcGroups, BatchWrite
<1> QED  BY <1>1, <1>2, <1>3 DEF Handle

(* How a request comes to the steps before the formulas of an upload. *)
LEMMA UploadEnters ==
    ASSUME TypeOK, NEW r \in Requests, Send(r) \/ Handle(r) \/ Abort(r)
    PROVE  /\ pc'[r] # "idle"
           /\ pc'[r] = "create" => UploadAccept(r)
           /\ pc'[r] = "move" => CreateGroups(r)
           /\ pc'[r] = "sync" => MoveTasks(r)
           /\ pc'[r] = "enable" => SyncColumns(r) \/ EnableGroup(r)
           /\ pc'[r] \in UploadSteps /\ pc'[r] # "create" => pc[r] \in UploadSteps
<1> USE DEF UploadSteps, RecalcSteps
<1>0. pc \in [Requests -> {"idle"} \cup Steps \cup Ended]
  BY DEF TypeOK
<1>1. CASE Send(r)
  <2>1. CASE UploadAccept(r)
    <3>1. pc' = [pc EXCEPT ![r] = IF status = "finished" THEN "rejected" ELSE "create"]
      BY <2>1 DEF UploadAccept, Arrive, Goto
    <3> QED  BY <1>0, <2>1, <3>1
  <2>2. CASE ReportAccept(r)
    <3>1. pc' = [pc EXCEPT ![r] = IF status = "finished" THEN "rejected" ELSE "find"]
      BY <2>2 DEF ReportAccept, Arrive, Goto
    <3> QED  BY <1>0, <3>1
  <2>3. CASE OpenTable(r) \/ EditAccept(r) \/ EditCourse(r) \/ OverrideGrade(r) \/ ClearGradeOverride(r)
    <3>1. \E step \in {"page", "store", "done"} : pc' = [pc EXCEPT ![r] = step]
      BY <2>3 DEF OpenTable, EditAccept, EditCourse, OverrideGrade, ClearGradeOverride, Arrive, Goto
    <3> QED  BY <1>0, <3>1
  <2> QED  BY <1>1, <2>1, <2>2, <2>3 DEF Send
<1>2. CASE Abort(r)
  BY <1>0, <1>2 DEF Abort, End, Goto
<1>3. CASE FindTask(r)
  <2>1. \E step \in {"store", "failed", "rejected"} : pc' = [pc EXCEPT ![r] = step]
    <3> DEFINE step == CASE req[r].task \in counted -> "store"
                         [] req[r].task \in enabled \ counted -> "failed"
                         [] OTHER -> "rejected"
    <3>1. step \in {"store", "failed", "rejected"} /\ pc' = [pc EXCEPT ![r] = step]
      BY <1>3 DEF FindTask, Goto
    <3> HIDE DEF step
    <3> QED  BY <3>1
  <2> QED  BY <1>0, <2>1
<1>4. CASE StoreScore(r) \/ InsertGrade(r)
  <2>1. pc' = [pc EXCEPT ![r] = "scores"] \/ pc' = [pc EXCEPT ![r] = "max"]
    BY <1>4 DEF StoreScore, InsertGrade, AfterStore, Goto
  <2> QED  BY <1>0, <2>1
<1>5. CASE \/ StoreNoRow(r) \/ InsertConflict(r) \/ ReadScores(r) \/ ReadBonus(r) \/ ReadMaxScore(r)
           \/ ReadGroups(r) \/ LoadCourse(r) \/ SaveGrade(r)
  BY <1>0, <1>5 DEF StoreNoRow, InsertConflict, ReadScores, ReadBonus, ReadMaxScore, ReadGroups, LoadCourse,
       SaveGrade, End, Goto
<1>6. CASE CreateGroups(r) \/ MoveTasks(r) \/ SyncColumns(r) \/ EnableGroup(r)
  BY <1>0, <1>6 DEF CreateGroups, MoveTasks, SyncColumns, EnableGroup, Goto
<1>7. CASE StartGrades(r) \/ AddFormula(r) \/ UpdateGrade(r) \/ FinishGrades(r) \/ GradesGone(r)
  BY <1>0, <1>7 DEF StartGrades, AddFormula, UpdateGrade, FinishGrades, GradesGone, End, Goto
<1>8. CASE \/ RecalcScores(r) \/ RecalcGrades(r) \/ RecalcCourse(r) \/ RecalcGroups(r) \/ BatchWrite(r)
  BY <1>0, <1>8 DEF RecalcScores, RecalcGrades, RecalcCourse, RecalcGroups, BatchWrite, End, Goto
<1> QED  BY <1>1, <1>2, <1>3, <1>4, <1>5, <1>6, <1>7, <1>8 DEF Handle

(* Only an arriving upload overlaps others, and it overlaps all of them. *)
LEMMA OverlapsGrow ==
    ASSUME NEW r \in Requests, Send(r) \/ Handle(r) \/ Abort(r)
    PROVE  overlapped \subseteq overlapped'
<1>1. CASE Send(r) \/ Abort(r)
  BY <1>1 DEF Send, Abort, ReportAccept, OpenTable, EditAccept, UploadAccept, EditCourse,
       OverrideGrade, ClearGradeOverride, course, tasks
<1>2. CASE \/ FindTask(r) \/ StoreScore(r) \/ StoreNoRow(r) \/ InsertGrade(r)
           \/ InsertConflict(r) \/ ReadScores(r) \/ ReadBonus(r) \/ ReadMaxScore(r)
           \/ ReadGroups(r) \/ LoadCourse(r) \/ SaveGrade(r)
  BY <1>2 DEF FindTask, StoreScore, StoreNoRow, InsertGrade, InsertConflict, AfterStore, ReadScores,
       ReadBonus, ReadMaxScore, ReadGroups, LoadCourse, SaveGrade, course
<1>3. CASE \/ CreateGroups(r) \/ MoveTasks(r) \/ SyncColumns(r) \/ EnableGroup(r)
           \/ StartGrades(r) \/ AddFormula(r)
           \/ UpdateGrade(r) \/ FinishGrades(r) \/ GradesGone(r) \/ RecalcScores(r)
           \/ RecalcGrades(r) \/ RecalcCourse(r) \/ RecalcGroups(r) \/ BatchWrite(r)
  BY <1>3 DEF CreateGroups, MoveTasks, SyncColumns, EnableGroup, StartGrades, AddFormula, UpdateGrade,
       FinishGrades, GradesGone, RecalcScores, RecalcGrades, RecalcCourse, RecalcGroups, BatchWrite, course
<1> QED  BY <1>1, <1>2, <1>3 DEF Handle

LEMMA UploadArrives ==
    ASSUME TypeOK, NEW r \in Requests, UploadAccept(r), pc'[r] = "create"
    PROVE  Uploading = {} \/ overlapped' = overlapped \cup Uploading \cup {r}
<1>1. DOMAIN pc = Requests
  BY DEF TypeOK
<1>2. CASE status = "finished"
  BY <1>1, <1>2 DEF UploadAccept, Arrive, Goto
<1>3. CASE status # "finished"
  BY <1>3 DEF UploadAccept
<1> QED  BY <1>2, <1>3

LEMMA NoOtherUploadNext ==
    ASSUME TypeOK, NoOtherUpload, NEW x \in Requests, Send(x) \/ Handle(x) \/ Abort(x)
    PROVE  NoOtherUpload'
<1> SUFFICES ASSUME NEW r \in Requests, Alone(r)', NEW q \in Requests, pc'[q] \in UploadSteps
             PROVE  q = r
  BY DEF NoOtherUpload, Alone, Uploading
<1>1. r \notin overlapped /\ r \notin overlapped' /\ pc'[r] \in UploadSteps
  BY OverlapsGrow DEF Alone
<1>2. \A o \in Requests : o # x => pc'[o] = pc[o]
  BY StepsAreLocal
<1>3. CASE pc[r] \in UploadSteps
  <2>1. Uploading = {r}
    BY <1>1, <1>3 DEF NoOtherUpload, Alone
  <2>2. CASE pc[q] \in UploadSteps
    BY <2>1, <2>2 DEF Uploading
  <2>3. CASE pc[q] \notin UploadSteps
    <3>1. q = x /\ UploadAccept(x) /\ pc'[x] = "create"
      BY <1>2, <2>3, UploadEnters
    <3>2. overlapped' = overlapped \cup Uploading \cup {x}
      BY <2>1, <3>1, UploadArrives
    <3> QED  BY <1>1, <2>1, <3>2
  <2> QED  BY <2>2, <2>3
<1>4. CASE pc[r] \notin UploadSteps
  <2>1. r = x /\ UploadAccept(x) /\ pc'[x] = "create"
    BY <1>1, <1>2, <1>4, UploadEnters
  <2>2. Uploading = {}
    BY <1>1, <2>1, UploadArrives
  <2> QED  BY <1>2, <2>1, <2>2 DEF Uploading
<1> QED  BY <1>3, <1>4

LEMMA FreshNext ==
    ASSUME TypeOK, Fresh, NEW x \in Requests, Send(x) \/ Handle(x) \/ Abort(x)
    PROVE  Fresh'
<1>1. ASSUME NEW r \in Requests, r # x
      PROVE  /\ pc'[r] \in {"idle", "create", "move", "sync"} => local'[r] = NoLocal
             /\ pc'[r] = "enable" => local'[r].done = {}
  BY <1>1, StepsAreLocal DEF Fresh
<1>2. CASE pc'[x] \in {"create", "move", "sync"}
  <2>1. UploadAccept(x) \/ CreateGroups(x) \/ MoveTasks(x)
    BY <1>2, UploadEnters
  <2>2. local' = local /\ pc[x] \in {"idle", "create", "move"}
    BY <2>1 DEF UploadAccept, CreateGroups, MoveTasks, Arrive
  <2> QED  BY <1>1, <1>2, <2>2 DEF Fresh
<1>3. CASE pc'[x] = "enable"
  <2>1. SyncColumns(x) \/ EnableGroup(x)
    BY <1>3, UploadEnters
  <2>2. local'[x].done = {}
    <3>1. CASE SyncColumns(x)
      <4>1. local' = local /\ pc[x] = "sync"
        BY <3>1 DEF SyncColumns
      <4> QED  BY <4>1 DEF Fresh, NoLocal
    <3>2. CASE EnableGroup(x)
      <4>1. pc[x] = "enable" /\ local' = [local EXCEPT ![x].synced = local[x].synced + 1]
        BY <3>2 DEF EnableGroup
      <4>2. DOMAIN local = Requests /\ DOMAIN local[x] = DOMAIN NoLocal
        BY DEF TypeOK, LocalOK
      <4> QED  BY <4>1, <4>2 DEF Fresh, NoLocal
    <3> QED  BY <2>1, <3>1, <3>2
  <2> QED  BY <1>1, <1>3, <2>2 DEF Fresh
<1>4. pc'[x] # "idle"
  BY UploadEnters
<1> QED  BY <1>1, <1>2, <1>3, <1>4 DEF Fresh

(* The steps that change groups and their tasks. *)
LEMMA GroupSteps ==
    ASSUME NEW x \in Requests, Send(x) \/ Handle(x) \/ Abort(x)
    PROVE  \/ CreateGroups(x) \/ MoveTasks(x) \/ SyncColumns(x) \/ EnableGroup(x)
           \/ UNCHANGED <<place, taskOn, group>>
<1>1. CASE \/ StartGrades(x) \/ AddFormula(x) \/ UpdateGrade(x) \/ FinishGrades(x) \/ GradesGone(x)
           \/ RecalcScores(x) \/ RecalcGrades(x) \/ RecalcCourse(x) \/ RecalcGroups(x) \/ BatchWrite(x)
  BY <1>1 DEF StartGrades, AddFormula, UpdateGrade, FinishGrades, GradesGone, RecalcScores, RecalcGrades,
       RecalcCourse, RecalcGroups, BatchWrite, course, tasks
<1>2. CASE Send(x) \/ Abort(x)
  BY <1>2 DEF Send, Abort, ReportAccept, OpenTable, EditAccept, UploadAccept, EditCourse,
       OverrideGrade, ClearGradeOverride, course, tasks
<1>3. CASE \/ FindTask(x) \/ StoreScore(x) \/ StoreNoRow(x) \/ InsertGrade(x)
           \/ InsertConflict(x) \/ ReadScores(x) \/ ReadBonus(x) \/ ReadMaxScore(x)
           \/ ReadGroups(x) \/ LoadCourse(x) \/ SaveGrade(x)
  BY <1>3 DEF FindTask, StoreScore, StoreNoRow, InsertGrade, InsertConflict, AfterStore, ReadScores,
       ReadBonus, ReadMaxScore, ReadGroups, LoadCourse, SaveGrade, course, tasks
<1> QED  BY <1>1, <1>2, <1>3 DEF Handle

LEMMA UploadIs ==
    ASSUME TypeOK, NEW x \in Requests, pc[x] \in UploadSteps
    PROVE  /\ req[x] \in Upload /\ req[x].config \in Configs /\ IsConfig(req[x].config) /\ IsUpload(x)
           /\ \A i \in DOMAIN req[x].config.groups : req[x].config.groups[i] \in Section
<1>1. req[x] \in Upload /\ pc[x] # "idle"
  BY DEF TypeOK, RequestOK, UploadSteps, RecalcSteps
<1>2. req[x].config \in Configs /\ IsConfig(req[x].config) /\ req[x].kind = "upload"
  BY <1>1, ConfigsAssumption DEF Upload
<1> QED  BY <1>1, <1>2 DEF IsConfig, IsUpload

LEMMA RowIs ==
    ASSUME NEW on \in BOOLEAN, NEW dated \in BOOLEAN
    PROVE  /\ Row(on, dated) \in [on : BOOLEAN, dated : BOOLEAN] /\ Row(on, dated) # None
           /\ Row(on, dated).on = on /\ Row(on, dated).dated = dated
BY RowsAssumption DEF Row

(* Rows of groups stay, and a group that is open without a deadline was    *)
(* so before, or is new.                                                   *)
LEMMA GroupsStay ==
    ASSUME TypeOK, NEW x \in Requests, Send(x) \/ Handle(x) \/ Abort(x),
           NEW g \in Groups, group[g] # None
    PROVE  /\ group'[g] # None
           /\ group'[g].on /\ ~group'[g].dated => group'[g] = group[g] /\ ~SyncColumns(x)
<1>1. group \in GroupRows /\ group[g] \in [on : BOOLEAN, dated : BOOLEAN]
  BY DEF TypeOK, GroupRows
<1>2. ASSUME NEW h \in GroupRows, NEW section \in Section, h[g] # None
      PROVE  /\ DateGroup(h, section)[g] # None
             /\ \/ DateGroup(h, section)[g] = h[g]
                \/ DateGroup(h, section)[g].dated
  <2>1. section.on \in BOOLEAN
    BY DEF Section
  <2>2. Row(section.on, TRUE) # None /\ Row(section.on, TRUE).dated
    BY <2>1, RowIs
  <2> QED  BY <1>2, <2>2 DEF DateGroup, GroupRows
<1>3. CASE CreateGroups(x)
  BY <1>3, RowIs DEF CreateGroups, SyncColumns
<1>4. CASE SyncColumns(x)
  <2> DEFINE off == [h \in Groups |-> IF group[h] = None THEN None ELSE Row(FALSE, group[h].dated)]
  <2>1. off \in GroupRows /\ off[g] # None /\ ~off[g].on
    <3>1. \A h \in Groups : group[h] # None => Row(FALSE, group[h].dated) \in [on : BOOLEAN, dated : BOOLEAN]
      BY <1>1, RowIs DEF GroupRows
    <3>2. Row(FALSE, group[g].dated) # None /\ ~Row(FALSE, group[g].dated).on
      BY <1>1, RowIs
    <3> QED  BY <3>1, <3>2 DEF GroupRows
  <2>2. req[x].config.groups[1] \in Section
    <3>1. pc[x] \in UploadSteps
      BY <1>4 DEF SyncColumns, UploadSteps
    <3> QED  BY <3>1, UploadIs DEF IsConfig
  <2>3. group' = DateGroup(off, req[x].config.groups[1])
    BY <1>4 DEF SyncColumns
  <2> HIDE DEF off
  <2> QED  BY <1>2, <2>1, <2>2, <2>3
<1>5. CASE EnableGroup(x)
  <2> DEFINE k == local[x].synced + 1
             groups == req[x].config.groups
  <2>1. k \in DOMAIN groups /\ group' = IF k = Len(groups) THEN group ELSE DateGroup(group, groups[k + 1])
    BY <1>5 DEF EnableGroup
  <2>2. k = Len(groups) \/ groups[k + 1] \in Section
    <3>1. pc[x] \in UploadSteps
      BY <1>5 DEF EnableGroup, UploadSteps
    <3>2. groups \in Seq(Section)
      BY <3>1, UploadIs DEF IsConfig
    <3> QED  BY <2>1, <3>2
  <2>3. ~SyncColumns(x)
    BY <1>5 DEF EnableGroup, SyncColumns
  <2> HIDE DEF k, groups
  <2> QED  BY <1>1, <1>2, <2>1, <2>2, <2>3
<1>6. CASE MoveTasks(x)
  BY <1>6 DEF MoveTasks, SyncColumns
<1>7. CASE UNCHANGED <<place, taskOn, group>> /\ ~SyncColumns(x)
  BY <1>7
<1> QED  BY <1>3, <1>4, <1>5, <1>6, <1>7, GroupSteps

LEMMA AlikeNext ==
    ASSUME TypeOK, Alike, NEW x \in Requests, Send(x) \/ Handle(x) \/ Abort(x)
    PROVE  Alike'
<1> SUFFICES ASSUME NEW q \in Requests, NEW r \in Requests, q # r,
                    pc'[q] \in UploadSteps, pc'[r] \in UploadSteps
             PROVE  PlaceAlike(req'[q].config, req'[r].config)
  BY DEF Alike, Uploading, PlaceAlike, Places
<1>1. ASSUME NEW o \in Requests, pc'[o] \in UploadSteps, pc[o] \notin UploadSteps
      PROVE  o = x /\ UploadAccept(x) /\ pc'[x] = "create"
  BY <1>1, StepsAreLocal, UploadEnters
<1>2. ASSUME NEW o \in Requests, pc[o] \in UploadSteps
      PROVE  req'[o] = req[o]
  BY <1>2, RequestsStay DEF UploadSteps, RecalcSteps
<1>3. ASSUME UploadAccept(x), NEW o \in Requests, pc[o] \in UploadSteps
      PROVE  /\ PlaceAlike(req[o].config, req'[x].config)
             /\ PlaceAlike(req'[x].config, req[o].config)
  <2>1. PICK c \in Upload : PlaceAlike(req[o].config, c.config) /\ req' = [req EXCEPT ![x] = c]
    BY <1>3 DEF UploadAccept, Uploading, Arrive
  <2>2. req'[x] = c
    BY <2>1 DEF TypeOK
  <2> QED  BY <2>1, <2>2 DEF PlaceAlike
<1>4. CASE pc[q] \in UploadSteps /\ pc[r] \in UploadSteps
  BY <1>2, <1>4 DEF Alike, Uploading
<1>5. CASE pc[q] \notin UploadSteps /\ pc[r] \in UploadSteps
  BY <1>1, <1>2, <1>3, <1>5
<1>6. CASE pc[q] \in UploadSteps /\ pc[r] \notin UploadSteps
  BY <1>1, <1>2, <1>3, <1>6
<1>7. CASE pc[q] \notin UploadSteps /\ pc[r] \notin UploadSteps
  BY <1>1, <1>7
<1> QED  BY <1>4, <1>5, <1>6, <1>7

(* A move undoes none of a configuration that places tasks alike. *)
LEMMA MovedShrinks ==
    ASSUME TypeOK, NEW x \in Requests, Send(x) \/ Handle(x) \/ Abort(x), NEW c \in Configs,
           MoveTasks(x) => PlaceAlike(req[x].config, c)
    PROVE  Moved(c)' \subseteq Moved(c)
<1> SUFFICES ASSUME NEW t \in Tasks, Places(c, t) # {}, place'[t] \notin Places(c, t)
             PROVE  place[t] \notin Places(c, t)
  BY DEF Moved
<1>1. CASE place' = place
  BY <1>1
<1>2. CASE MoveTasks(x)
  <2> DEFINE d == req[x].config
  <2>1. d \in Configs
    BY <1>2, UploadIs DEF MoveTasks, UploadSteps
  <2>2. place'[t] = IF t \in Moved(d) THEN To(d, t) ELSE place[t]
    BY <1>2 DEF MoveTasks
  <2>3. CASE t \in Moved(d)
    <3>1. To(d, t) \in Places(d, t)
      BY <2>3 DEF Moved, To
    <3>2. \A g \in Places(c, t) : g = To(d, t)
      BY <1>2, <3>1 DEF PlaceAlike
    <3> QED  BY <2>2, <2>3, <3>2
  <2> QED  BY <2>2, <2>3
<1> QED  BY <1>1, <1>2, GroupSteps DEF CreateGroups, SyncColumns, EnableGroup

LEMMA ToIs ==
    ASSUME NEW c \in Configs, NEW t \in Moved(c)
    PROVE  To(c, t) \in Places(c, t) /\ To(c, t) \in Groups
BY PlacesType, ConfigsAssumption DEF Moved, To

LEMMA HousedNext ==
    ASSUME TypeOK, Alike, Housed, NEW x \in Requests, Send(x) \/ Handle(x) \/ Abort(x)
    PROVE  Housed'
<1>1. place \in [Tasks -> Groups]
  BY DEF TypeOK
<1>2. ASSUME NEW t \in Tasks PROVE group'[place'[t]] # None
  <2>1. CASE place'[t] = place[t]
    BY <1>1, <2>1, GroupsStay DEF Housed
  <2>2. CASE MoveTasks(x)
    <3> DEFINE d == req[x].config
    <3>1. d \in Configs /\ pc[x] = "move" /\ group' = group
      BY <2>2, UploadIs DEF MoveTasks, UploadSteps
    <3>2. place'[t] = IF t \in Moved(d) THEN To(d, t) ELSE place[t]
      BY <2>2 DEF MoveTasks
    <3> QED  BY <3>1, <3>2 DEF Housed
  <2> QED  BY <2>1, <2>2, GroupSteps DEF CreateGroups, SyncColumns, EnableGroup
<1>3. ASSUME NEW r \in Requests, pc'[r] = "move", NEW c, c = req'[r].config,
             NEW t \in Moved(c)'
      PROVE  group'[To(c, t)] # None
  <2>1. CASE pc[r] = "move"
    <3>1. c = req[r].config /\ c \in Configs
      BY <1>3, <2>1, UploadIs, RequestsStay DEF UploadSteps
    <3>2. MoveTasks(x) => PlaceAlike(req[x].config, c)
      <4>1. CASE r = x
        BY <1>3, <4>1 DEF MoveTasks, Goto, TypeOK
      <4>2. CASE r # x
        BY <2>1, <3>1, <4>2 DEF Alike, Uploading, UploadSteps, MoveTasks
      <4> QED  BY <4>1, <4>2
    <3>2a. t \in Moved(c)
      BY <1>3, <3>1, <3>2, MovedShrinks
    <3>3. group[To(c, t)] # None
      BY <2>1, <3>1, <3>2a DEF Housed
    <3> QED  BY <3>1, <3>2a, <3>3, ToIs, GroupsStay
  <2>2. CASE pc[r] # "move"
    <3>1. r = x /\ CreateGroups(x)
      BY <1>3, <2>2, StepsAreLocal, UploadEnters
    <3>2. c = req[x].config /\ c \in Configs
      BY <1>3, <3>1, UploadIs DEF CreateGroups, UploadSteps
    <3>3. t \in Moved(c) /\ To(c, t) \in Groups
      <4>1. ~MoveTasks(x)
        BY <3>1 DEF CreateGroups, MoveTasks
      <4> QED  BY <1>3, <3>2, <4>1, MovedShrinks, ToIs
    <3>4. group' = [g \in Groups |-> IF g \in {h \in {To(c, u) : u \in Moved(c)} : group[h] = None}
                                     THEN Row(TRUE, FALSE) ELSE group[g]]
      BY <3>1, <3>2 DEF CreateGroups
    <3> QED  BY <3>3, <3>4, RowIs
  <2> QED  BY <2>1, <2>2
<1> QED  BY <1>2, <1>3 DEF Housed

LEMMA SyncLeft ==
    ASSUME TypeOK, NEW x \in Requests, Send(x) \/ Handle(x) \/ Abort(x),
           NEW r \in Requests, pc[r] \in {"sync", "stopped"}
    PROVE  pc'[r] \in {"sync", "stopped"} \/ SyncColumns(x)
<1>0. DOMAIN pc = Requests
  BY DEF TypeOK
<1>1. CASE r # x
  BY <1>1, StepsAreLocal
<1>2. CASE r = x /\ Send(x)
  BY <1>2 DEF Send, Arrive, ReportAccept, OpenTable, EditAccept, UploadAccept, EditCourse,
       OverrideGrade, ClearGradeOverride
<1>3. CASE r = x /\ Abort(x)
  <2>1. pc[x] = "sync"
    BY <1>3 DEF Abort, Steps, ReportSteps, StoreSteps, UploadSteps, RecalcSteps
  <2>2. ~Caught(x)
    BY <2>1, UploadIs DEF Caught, RecalcSteps, UploadSteps, Upload
  <2>3. pc' = [pc EXCEPT ![x] = "stopped"]
    BY <1>3, <2>1, <2>2 DEF Abort, End, Goto, Uncommitted
  <2> QED  BY <1>0, <1>3, <2>3
<1>4. CASE r = x /\ Handle(x)
  BY <1>4 DEF Handle, FindTask, StoreScore, StoreNoRow, InsertGrade, InsertConflict, ReadScores,
       ReadBonus, ReadMaxScore, ReadGroups, LoadCourse, SaveGrade, CreateGroups, MoveTasks, EnableGroup,
       StartGrades, AddFormula, UpdateGrade, FinishGrades, GradesGone, RecalcScores, RecalcGrades,
       RecalcCourse, RecalcGroups, BatchWrite
<1> QED  BY <1>1, <1>2, <1>3, <1>4

LEMMA DatesNext ==
    ASSUME TypeOK, Housed, Dates, NEW x \in Requests, Send(x) \/ Handle(x) \/ Abort(x)
    PROVE  Dates'
<1>0. place \in [Tasks -> Groups] /\ group \in GroupRows /\ DOMAIN pc = Requests
  BY DEF TypeOK
<1>1. CASE MoveTasks(x)
  <2>1. pc'[x] = "sync" /\ req'[x] = req[x] /\ IsUpload(x)
    BY <1>0, <1>1, UploadIs DEF MoveTasks, Goto, UploadSteps
  <2> QED  BY <2>1 DEF Dates, IsUpload
<1>2. CASE ~MoveTasks(x)
  <2>1. place' = place
    BY <1>2, GroupSteps DEF CreateGroups, SyncColumns, EnableGroup
  <2>2. ASSUME \A t \in Tasks : group[place[t]].on => group[place[t]].dated
        PROVE  Dates'
    <3>1. ASSUME NEW t \in Tasks, group'[place[t]].on PROVE group'[place[t]].dated
      BY <1>0, <2>2, <3>1, GroupsStay DEF Housed
    <3> QED  BY <2>1, <3>1 DEF Dates
  <2>3. ASSUME NEW r \in Requests, IsUpload(r), pc[r] \in {"sync", "stopped"}
        PROVE  Dates'
    <3>1. req'[r] = req[r]
      BY <2>3, RequestsStay
    <3>2. CASE pc'[r] \in {"sync", "stopped"}
      BY <2>3, <3>1, <3>2 DEF Dates, IsUpload
    <3>3. CASE SyncColumns(x)
      <4>1. ASSUME NEW t \in Tasks, group'[place[t]].on PROVE group'[place[t]].dated
        BY <1>0, <3>3, <4>1, GroupsStay DEF Housed
      <4> QED  BY <2>1, <4>1 DEF Dates
    <3>4. pc'[r] \in {"sync", "stopped"} \/ SyncColumns(x)
      BY <2>3, SyncLeft
    <3> QED  BY <3>2, <3>3, <3>4
  <2> QED  BY <2>2, <2>3 DEF Dates
<1> QED  BY <1>1, <1>2

(* A step of another request leaves an upload that none overlaps alone. *)
LEMMA ProgressStays ==
    ASSUME TypeOK, NoOtherUpload, Uploads,
           NEW x \in Requests, Send(x) \/ Handle(x) \/ Abort(x),
           NEW r \in Requests, r # x, Alone(r)'
    PROVE  Progress(r)'
<1>1. pc'[r] = pc[r] /\ local'[r] = local[r]
  BY StepsAreLocal
<1>2. Alone(r)
  BY <1>1, OverlapsGrow DEF Alone
<1>3. req'[r] = req[r]
  BY RequestsStay
<1>4. pc[x] \notin UploadSteps
  BY <1>2 DEF NoOtherUpload, Uploading
<1>5. UNCHANGED TaskState
  BY <1>4, OthersKeepTasks
<1>6. Progress(r)
  BY <1>2 DEF Uploads
<1>7. RecalcSteps' = RecalcSteps
  BY DEF RecalcSteps
<1>8. /\ Moved(req[r].config)' = Moved(req[r].config)
      /\ Opened(req[r].config)' <=> Opened(req[r].config)
      /\ Enabling(r)' <=> Enabling(r)
      /\ Syncing(r)' <=> Syncing(r)
  <2>1. place' = place /\ taskOn' = taskOn /\ group' = group /\ grades' = grades
    BY <1>5 DEF TaskState
  <2>2. Moved(req[r].config)' = Moved(req[r].config)
    BY <1>3, <2>1 DEF Moved
  <2>3. Opened(req[r].config)' <=> Opened(req[r].config)
    BY <1>3, <2>1 DEF Opened, enabled, counted, Dated, OpenTasks
  <2>4. Enabling(r)' <=> Enabling(r)
    BY <1>1, <1>3, <2>1 DEF Enabling
  <2>5. Syncing(r)' <=> Syncing(r)
    BY <1>1, <1>3, <2>1 DEF Syncing
  <2> QED  BY <2>2, <2>3, <2>4, <2>5
<1>9. (local[r].batch = [s \in Students |-> RecalcGrade(local[r], s)])' <=>
      (local[r].batch = [s \in Students |-> RecalcGrade(local[r], s)])
  BY <1>1, <1>5 DEF TaskState, RecalcGrade, enabled
<1> QED  BY <1>1, <1>3, <1>5, <1>6, <1>7, <1>8, <1>9 DEF Progress, TaskState

(* The steps of an upload, one by one. *)
LEMMA MoveProgress ==
    ASSUME TypeOK, NEW r \in Requests, MoveTasks(r)
    PROVE  Progress(r)'
<1>0. DOMAIN pc = Requests
  BY DEF TypeOK
<1>1. pc'[r] = "sync" /\ req'[r] = req[r]
  BY <1>0 DEF MoveTasks, Goto
<1>2. req[r].config \in Configs
  BY UploadIs DEF MoveTasks, UploadSteps
<1>3. Moved(req[r].config)' = {}
  <2>1. SUFFICES ASSUME NEW t \in Tasks, Places(req[r].config, t) # {}
                 PROVE  place'[t] \in Places(req[r].config, t)
    BY <1>1 DEF Moved
  <2>2. place'[t] = IF t \in Moved(req[r].config) THEN To(req[r].config, t) ELSE place[t]
    BY DEF MoveTasks
  <2>3. t \in Moved(req[r].config) => To(req[r].config, t) \in Places(req[r].config, t)
    BY DEF Moved, To
  <2> QED  BY <2>1, <2>2, <2>3 DEF Moved
<1> QED  BY <1>1, <1>3 DEF Progress, RecalcSteps

LEMMA SyncProgress ==
    ASSUME TypeOK, Fresh, NEW r \in Requests, SyncColumns(r), Progress(r)
    PROVE  Progress(r)'
<1> DEFINE c == req[r].config
<1>0. DOMAIN pc = Requests /\ pc[r] = "sync"
  BY DEF TypeOK, SyncColumns
<1>1. pc'[r] = "enable" /\ req' = req /\ place' = place /\ local' = local /\ local[r].synced = 0
  BY <1>0 DEF SyncColumns, Goto, Fresh, NoLocal
<1>2. Moved(c)' = {}
  BY <1>0, <1>1 DEF Moved, Progress
<1>3. c.groups \in Seq(Section) /\ c.groups # <<>> /\ c.groups[1] \in Section
  BY <1>0, UploadIs DEF UploadSteps, IsConfig
<1>4. taskOn' = {} /\ group'[c.groups[1].name] = Row(c.groups[1].on, TRUE)
  <2>1. c.groups[1].name \in Groups
    BY <1>3 DEF Section
  <2> QED  BY <2>1 DEF SyncColumns, DateGroup
<1>5. Enabling(r)'
  <2>1. Len(c.groups) \in Nat /\ DOMAIN c.groups = 1..Len(c.groups)
    BY <1>3
  <2>2. taskOn' = UNION {c.groups[i].open : i \in 1..0}
    BY <1>4
  <2>3. \A i \in DOMAIN c.groups :
           i <= 0 + 1 => group'[c.groups[i].name] = Row(c.groups[i].on, TRUE)
    <3>1. \A i \in DOMAIN c.groups : i <= 0 + 1 => i = 1
      BY <2>1
    <3> QED  BY <1>4, <3>1
  <2>4. 0 \in 0..Len(c.groups)
    BY <2>1
  <2>5. req'[r].config.groups = c.groups /\ local'[r].synced = 0
    BY <1>1
  <2> HIDE DEF c
  <2> QED  BY <2>2, <2>3, <2>4, <2>5 DEF Enabling
<1> QED  BY <1>1, <1>2, <1>5 DEF Progress, RecalcSteps

LEMMA EnableProgress ==
    ASSUME TypeOK, NEW r \in Requests, EnableGroup(r), Progress(r)
    PROVE  Progress(r)'
<1> DEFINE c == req[r].config
           groups == c.groups
           k == local[r].synced
<1>0. pc[r] = "enable" /\ k + 1 \in DOMAIN groups /\ local' = [local EXCEPT ![r].synced = k + 1]
  BY DEF EnableGroup
<1>1. pc' = pc /\ req' = req /\ place' = place
  BY DEF EnableGroup
<1>2. /\ groups \in Seq(Section)
      /\ \A i, j \in DOMAIN groups : i # j => groups[i].name # groups[j].name
  BY <1>0, UploadIs DEF UploadSteps, IsConfig
<1>3. Moved(c)' = {}
  BY <1>0, <1>1 DEF Moved, Progress
<1>4. /\ k \in 0..Len(groups)
      /\ taskOn = UNION {groups[i].open : i \in 1..k}
      /\ \A i \in DOMAIN groups : i <= k + 1 => group[groups[i].name] = Row(groups[i].on, TRUE)
  BY <1>0 DEF Progress, Enabling
<1>5. local'[r].synced = k + 1
  <2>1. DOMAIN local = Requests /\ DOMAIN local[r] = DOMAIN NoLocal
    BY DEF TypeOK, LocalOK
  <2> QED  BY <1>0, <2>1 DEF NoLocal
<1>6. taskOn' = UNION {groups[i].open : i \in 1..(k + 1)}
  <2>1. taskOn' = taskOn \cup groups[k + 1].open
    BY DEF EnableGroup
  <2>2. 1..(k + 1) = 1..k \cup {k + 1}
    BY <1>4
  <2> HIDE DEF groups, k
  <2> QED  BY <1>4, <2>1, <2>2
<1>7. ASSUME NEW i \in DOMAIN groups, i <= k + 2
      PROVE  group'[groups[i].name] = Row(groups[i].on, TRUE)
  <2>1. group' = IF k + 1 = Len(groups) THEN group ELSE DateGroup(group, groups[k + 2])
    <3>1. (k + 1) + 1 = k + 2
      BY <1>4
    <3> QED  BY <3>1 DEF EnableGroup
  <2>2. group \in GroupRows /\ groups[i].name \in Groups
    <3>1. groups[i] \in Section
      BY <1>2
    <3> QED  BY <3>1 DEF TypeOK, Section
  <2>3. CASE i = k + 2
    <3>1. k + 1 # Len(groups)
      BY <1>2, <1>4, <2>3
    <3> HIDE DEF groups, k
    <3> QED  BY <2>1, <2>2, <2>3, <3>1 DEF DateGroup, GroupRows
  <2>4. CASE i # k + 2
    <3>1. i <= k + 1
      <4>1. i \in Nat /\ k \in Nat
        BY <1>2, <1>4
      <4> QED  BY <1>7, <2>4, <4>1
    <3>2. k + 1 = Len(groups) \/ (k + 2 \in DOMAIN groups /\ groups[k + 2].name # groups[i].name)
      BY <1>0, <1>2, <1>4, <2>4
    <3>3. group[groups[i].name] = Row(groups[i].on, TRUE)
      BY <1>4, <3>1
    <3> HIDE DEF groups, k
    <3> QED  BY <2>1, <2>2, <3>2, <3>3 DEF DateGroup, GroupRows
  <2> QED  BY <2>3, <2>4
<1>8. Enabling(r)'
  <2>1. k + 1 \in 0..Len(groups) /\ (k + 1) + 1 = k + 2
    BY <1>0, <1>2, <1>4
  <2>2. req'[r].config.groups = groups /\ groups' = groups
    BY <1>1
  <2> HIDE DEF groups, k
  <2> QED  BY <1>5, <1>6, <1>7, <2>1, <2>2 DEF Enabling, groups
<1> QED  BY <1>0, <1>1, <1>3, <1>8 DEF Progress, RecalcSteps

(* With all sections enabled, the open tasks are those of the configuration. *)
LEMMA AllEnabled ==
    ASSUME NEW r \in Requests, IsConfig(req[r].config), Enabling(r), Moved(req[r].config) = {},
           local[r].synced = Len(req[r].config.groups)
    PROVE  Opened(req[r].config)
<1> DEFINE c == req[r].config
           groups == c.groups
<1>1. groups \in Seq(Section) /\ Len(groups) \in Nat /\ DOMAIN groups = 1..Len(groups)
  BY DEF IsConfig
<1>2. taskOn = UNION {groups[i].open : i \in DOMAIN groups}
  BY <1>1 DEF Enabling
<1>3. \A i \in DOMAIN groups : group[groups[i].name] = Row(groups[i].on, TRUE)
  <2> HIDE DEF groups
  <2>1. \A i \in DOMAIN groups : i <= Len(groups) + 1
    BY <1>1
  <2> QED  BY <2>1 DEF Enabling, groups
<1>4. ASSUME NEW i \in DOMAIN groups, NEW t \in groups[i].open
      PROVE  /\ t \in Tasks /\ group[place[t]].on = groups[i].on /\ group[place[t]].dated
             /\ \A j \in DOMAIN groups : t \in groups[j].open => j = i
  <2>1. groups[i] \in Section /\ t \in groups[i].tasks
    BY <1>1 DEF IsConfig
  <2>2. \A j \in DOMAIN groups : t \in groups[j].tasks => j = i
    BY <2>1 DEF IsConfig
  <2>3. t \in Tasks /\ groups[i].on \in BOOLEAN
    BY <2>1 DEF Section
  <2>4. Places(c, t) = {groups[i].name}
    BY <2>1, <2>2 DEF Places
  <2>5. place[t] = groups[i].name
    BY <2>3, <2>4 DEF Moved
  <2>6. \A j \in DOMAIN groups : groups[j].open \subseteq groups[j].tasks
    BY DEF IsConfig
  <2>7. group[place[t]] = Row(groups[i].on, TRUE)
    BY <1>3, <2>5
  <2>8. /\ Row(groups[i].on, TRUE).on = groups[i].on
        /\ Row(groups[i].on, TRUE).dated
    BY <2>3, RowIs
  <2>9. \A j \in DOMAIN groups : t \in groups[j].open => j = i
    BY <2>2, <2>6
  <2> QED  BY <2>3, <2>7, <2>8, <2>9
<1>5. enabled = OpenTasks(c)
  BY <1>2, <1>4 DEF enabled, OpenTasks
<1>6. enabled \subseteq counted
  BY <1>2, <1>4 DEF enabled, counted, Dated
<1> QED  BY <1>5, <1>6 DEF Opened

LEMMA StartProgress ==
    ASSUME TypeOK, Fresh, NEW r \in Requests, StartGrades(r), Progress(r)
    PROVE  Progress(r)'
<1> DEFINE c == req[r].config
           wanted == c.grades
<1>0. pc[r] = "enable" /\ local[r].synced = Len(c.groups) /\ local[r].done = {}
  BY DEF StartGrades, Fresh
<1>1. req' = req /\ place' = place /\ taskOn' = taskOn /\ group' = group /\ grades' = grades
  BY DEF StartGrades, course, tasks
<1>2. Moved(c) = {} /\ Opened(c)
  BY <1>0, AllEnabled, UploadIs DEF Progress, UploadSteps
<1>3. Moved(c)' = {} /\ Opened(c)'
  BY <1>1, <1>2 DEF Moved, Opened, enabled, counted, Dated, OpenTasks
<1>4. DOMAIN pc = Requests /\ DOMAIN local = Requests /\ DOMAIN local[r] = DOMAIN NoLocal
  BY DEF TypeOK, LocalOK
<1>5. CASE wanted = None
  <2>1. pc'[r] = "recalc"
    BY <1>4, <1>5 DEF StartGrades, Goto
  <2> QED  BY <1>1, <1>3, <1>5, <2>1 DEF Progress, RecalcSteps
<1>6. CASE wanted # None
  <2> DEFINE todo == UNION {{g} \X wanted[g] : g \in DOMAIN wanted \ DOMAIN grades}
  <2>1. pc'[r] = "formulas" /\ local' = [local EXCEPT ![r].rules = grades, ![r].todo = todo]
    BY <1>4, <1>6 DEF StartGrades, Goto
  <2>2. local'[r].rules = grades /\ local'[r].todo = todo /\ local'[r].done = {}
    <3> HIDE DEF todo
    <3> QED  BY <1>0, <1>4, <2>1 DEF NoLocal
  <2>3. \A gf \in todo : \E g \in DOMAIN wanted \ DOMAIN grades : \E f \in wanted[g] : gf = <<g, f>>
    OBVIOUS
  <2>4. \A g \in DOMAIN wanted \ DOMAIN grades : \A f \in wanted[g] : <<g, f>> \in todo
    OBVIOUS
  <2> HIDE DEF todo
  <2>5. Syncing(r)'
    BY <1>1, <2>2, <2>3, <2>4 DEF Syncing
  <2> QED  BY <1>1, <1>3, <2>1, <2>5 DEF Progress, RecalcSteps
<1> QED  BY <1>5, <1>6

(* While the formulas are synchronised, open tasks stay. *)
LEMMA OpenedStays ==
    ASSUME NEW r \in Requests, req'[r] = req[r], UNCHANGED <<place, taskOn, group>>,
           Opened(req[r].config), Moved(req[r].config) = {}
    PROVE  Opened(req[r].config)' /\ Moved(req[r].config)' = {}
BY DEF Moved, Opened, enabled, counted, Dated, OpenTasks

LEMMA AddProgress ==
    ASSUME TypeOK, NEW r \in Requests, AddFormula(r), Progress(r)
    PROVE  Progress(r)'
<1> DEFINE wanted == req[r].config.grades
           l == local[r]
<1>0. pc[r] = "formulas" /\ pc' = pc /\ req' = req /\ UNCHANGED <<place, taskOn, group>>
  BY DEF AddFormula, tasks
<1>1. PICK gf \in l.todo :
        /\ grades' = [h \in DOMAIN grades \cup {gf[1]} |->
                         IF h = gf[1]
                         THEN (IF gf[1] \in DOMAIN grades THEN grades[gf[1]] ELSE {}) \cup {gf[2]}
                         ELSE grades[h]]
        /\ local' = [local EXCEPT ![r].todo = l.todo \ {gf}]
  BY DEF AddFormula
<1>2. Syncing(r) /\ Opened(req[r].config) /\ Moved(req[r].config) = {}
  BY <1>0 DEF Progress
<1> DEFINE old == DOMAIN l.rules \ l.done
<1>p. PICK g \in DOMAIN wanted \ old : \E f \in wanted[g] : gf = <<g, f>>
  BY <1>2 DEF Syncing
<1>3. PICK f \in wanted[g] : gf = <<g, f>>
  BY <1>p
<1>4. /\ grades' = [h \in DOMAIN grades \cup {g} |->
                       IF h = g THEN (IF g \in DOMAIN grades THEN grades[g] ELSE {}) \cup {f}
                       ELSE grades[h]]
      /\ local' = [local EXCEPT ![r].todo = l.todo \ {<<g, f>>}]
  BY <1>1, <1>3
<1>5. local'[r].todo = l.todo \ {<<g, f>>} /\ local'[r].rules = l.rules /\ local'[r].done = l.done
  <2>1. DOMAIN local = Requests /\ DOMAIN local[r] = DOMAIN NoLocal
    BY DEF TypeOK, LocalOK
  <2> QED  BY <1>4, <2>1 DEF NoLocal
<1>6. Syncing(r)'
  <2>1. \A x \in l.todo : \E h \in DOMAIN wanted \ old : \E e \in wanted[h] : x = <<h, e>>
    BY <1>2 DEF Syncing
  <2>2. old \subseteq DOMAIN grades' /\ DOMAIN grades' \subseteq old \cup DOMAIN wanted
    BY <1>2, <1>4 DEF Syncing
  <2>3. ASSUME NEW h \in DOMAIN wanted \ old
        PROVE  IF h \in DOMAIN grades' THEN grades'[h] = {e \in wanted[h] : <<h, e>> \notin local'[r].todo}
               ELSE \A e \in wanted[h] : <<h, e>> \in local'[r].todo
    <3>1. IF h \in DOMAIN grades THEN grades[h] = {e \in wanted[h] : <<h, e>> \notin l.todo}
          ELSE \A e \in wanted[h] : <<h, e>> \in l.todo
      BY <1>2 DEF Syncing
    <3>2. CASE h = g
      <4>1. h \in DOMAIN grades' /\ grades'[h] = (IF g \in DOMAIN grades THEN grades[g] ELSE {}) \cup {f}
        BY <1>4, <3>2
      <4> HIDE DEF wanted, l, old
      <4> QED  BY <1>3, <1>5, <3>1, <3>2, <4>1
    <3>3. CASE h # g
      <4>1. /\ h \in DOMAIN grades' <=> h \in DOMAIN grades
            /\ h \in DOMAIN grades => grades'[h] = grades[h]
        BY <1>4, <3>3
      <4>2. \A e : <<h, e>> \in l.todo <=> <<h, e>> \in local'[r].todo
        BY <1>5, <3>3
      <4> HIDE DEF wanted, l, old
      <4> QED  BY <3>1, <4>1, <4>2
    <3> QED  BY <3>2, <3>3
  <2>4. req'[r].config.grades = wanted /\ DOMAIN local'[r].rules \ local'[r].done = old
    BY <1>0, <1>5
  <2>5. local'[r].todo \subseteq l.todo
    BY <1>5
  <2> HIDE DEF wanted, l, old
  <2> QED  BY <2>1, <2>2, <2>3, <2>4, <2>5 DEF Syncing
<1>7. Opened(req[r].config)' /\ Moved(req[r].config)' = {}
  BY <1>0, <1>2, OpenedStays
<1> QED  BY <1>0, <1>6, <1>7 DEF Progress, RecalcSteps

(* With no formula left to create, a grade the sync has been through has   *)
(* the formulas of the configuration.                                      *)
LEMMA SyncedGrades ==
    ASSUME NEW r \in Requests, Syncing(r), IsGradeConfig(req[r].config.grades),
           local[r].todo = {}, NEW g \in DOMAIN req[r].config.grades \ Pending(r)
    PROVE  g \in DOMAIN grades /\ grades[g] = req[r].config.grades[g]
<1> DEFINE wanted == req[r].config.grades
<1>1. wanted[g] # {}
  BY DEF IsGradeConfig
<1>2. IF g \in DOMAIN grades THEN grades[g] = {f \in wanted[g] : <<g, f>> \notin {}}
      ELSE \A f \in wanted[g] : <<g, f>> \in {}
  BY DEF Syncing, Pending
<1> HIDE DEF wanted
<1> QED  BY <1>1, <1>2 DEF wanted

LEMMA UpdateProgress ==
    ASSUME TypeOK, NEW r \in Requests, UpdateGrade(r), Progress(r)
    PROVE  Progress(r)'
<1> DEFINE wanted == req[r].config.grades
           l == local[r]
<1>0. pc[r] = "formulas" /\ l.todo = {} /\ pc' = pc /\ req' = req /\ UNCHANGED <<place, taskOn, group>>
  BY DEF UpdateGrade, tasks
<1>1. PICK seen \in SUBSET (Kept(r) \cap DOMAIN grades), g \in Kept(r) \cap DOMAIN grades :
       \E f \in NewFormulas(r, g) :
        /\ \A h \in seen : NewFormulas(r, h) = {}
        /\ grades' = [h \in DOMAIN grades \ Dropped(r) |->
                CASE h = g -> Unchanged(r, g) \cup {f}
                  [] h \in seen -> Unchanged(r, h)
                  [] OTHER -> grades[h]]
        /\ local' = [local EXCEPT
                ![r].todo = {g} \X (NewFormulas(r, g) \ {f}),
                ![r].done = @ \cup Dropped(r) \cup seen \cup {g}]
  BY DEF UpdateGrade
<1>2. PICK f \in NewFormulas(r, g) :
        /\ \A h \in seen : NewFormulas(r, h) = {}
        /\ grades' = [h \in DOMAIN grades \ Dropped(r) |->
                CASE h = g -> Unchanged(r, g) \cup {f}
                  [] h \in seen -> Unchanged(r, h)
                  [] OTHER -> grades[h]]
        /\ local' = [local EXCEPT
                ![r].todo = {g} \X (NewFormulas(r, g) \ {f}),
                ![r].done = l.done \cup Dropped(r) \cup seen \cup {g}]
  BY <1>1
<1>3. Syncing(r) /\ Opened(req[r].config) /\ Moved(req[r].config) = {}
  BY <1>0 DEF Progress
<1> DEFINE todo == {g} \X (NewFormulas(r, g) \ {f})
           old  == DOMAIN l.rules \ l.done
           left == old \ (Dropped(r) \cup seen \cup {g})
<1>4. local'[r].todo = todo /\ DOMAIN local'[r].rules \ local'[r].done = left
  <2>1. DOMAIN local = Requests /\ DOMAIN local[r] = DOMAIN NoLocal
    BY DEF TypeOK, LocalOK
  <2>2. /\ local'[r].todo = todo /\ local'[r].rules = l.rules
        /\ local'[r].done = l.done \cup Dropped(r) \cup seen \cup {g}
    <3> HIDE DEF todo
    <3> QED  BY <1>2, <2>1 DEF NoLocal, todo
  <2> QED  BY <2>2
<1>5. IsGradeConfig(wanted)
  <2>1. wanted # None
    BY <1>0 DEF TypeOK, RequestOK
  <2> QED  BY <1>0, <2>1, UploadIs DEF UploadSteps, IsConfig
<1>6. /\ Kept(r) = old \cap DOMAIN wanted /\ Dropped(r) = old \ DOMAIN wanted
      /\ old \subseteq DOMAIN grades /\ DOMAIN grades \subseteq old \cup DOMAIN wanted
  BY <1>3 DEF Kept, Dropped, Pending, Syncing
<1>7. Syncing(r)'
  <2>1. \A gf \in todo : \E h \in DOMAIN wanted \ left : \E e \in wanted[h] : gf = <<h, e>>
    <3>1. g \in DOMAIN wanted \ left /\ NewFormulas(r, g) \subseteq wanted[g]
      BY <1>6 DEF NewFormulas
    <3> HIDE DEF wanted, left
    <3> QED  BY <3>1
  <2>2. left \subseteq DOMAIN grades' /\ DOMAIN grades' \subseteq left \cup DOMAIN wanted
    BY <1>1, <1>2, <1>6
  <2>3. ASSUME NEW h \in DOMAIN wanted \ left
        PROVE  h \in DOMAIN grades' /\ grades'[h] = {e \in wanted[h] : <<h, e>> \notin todo}
    <3>1. h \in DOMAIN grades \ Dropped(r)
      <4>1. CASE h \in old
        BY <1>6, <4>1
      <4>2. CASE h \notin old
        BY <1>0, <1>3, <1>5, <1>6, <4>2, SyncedGrades DEF Pending
      <4> QED  BY <4>1, <4>2
    <3>2. CASE h = g
      <4>1. grades'[h] = Unchanged(r, g) \cup {f}
        BY <1>2, <3>1, <3>2
      <4>2. Unchanged(r, g) = grades[g] \cap wanted[g] /\ NewFormulas(r, g) = wanted[g] \ grades[g]
        BY DEF Unchanged, NewFormulas
      <4>3. \A e : <<h, e>> \in todo <=> e \in NewFormulas(r, g) /\ e # f
        BY <3>2
      <4>4. h \in DOMAIN grades'
        BY <1>2, <3>1
      <4> HIDE DEF wanted, todo
      <4> QED  BY <1>2, <3>2, <4>1, <4>2, <4>3, <4>4
    <3>3. CASE h \in seen /\ h # g
      <4>1. grades'[h] = Unchanged(r, h) /\ NewFormulas(r, h) = {}
        BY <1>2, <3>1, <3>3
      <4>2. grades'[h] = wanted[h]
        BY <4>1 DEF Unchanged, NewFormulas
      <4>3. \A e : <<h, e>> \notin todo
        BY <3>3
      <4> HIDE DEF wanted, todo
      <4> QED  BY <3>1, <4>2, <4>3, <1>2
    <3>4. CASE h \notin seen \cup {g}
      <4>1. grades'[h] = grades[h]
        BY <1>2, <3>1, <3>4
      <4>2. h \notin old
        BY <1>6, <3>1, <3>4
      <4>3. grades[h] = wanted[h]
        BY <1>0, <1>3, <1>5, <4>2, SyncedGrades DEF Pending
      <4>4. \A e : <<h, e>> \notin todo
        BY <3>4
      <4> HIDE DEF wanted, todo
      <4> QED  BY <3>1, <4>1, <4>3, <4>4, <1>2
    <3> QED  BY <3>2, <3>3, <3>4
  <2>4. req'[r].config.grades = wanted
    BY <1>0
  <2> HIDE DEF wanted, l, left, todo
  <2> QED  BY <1>4, <2>1, <2>2, <2>3, <2>4 DEF Syncing
<1>8. Opened(req[r].config)' /\ Moved(req[r].config)' = {}
  BY <1>0, <1>3, OpenedStays
<1> QED  BY <1>0, <1>7, <1>8 DEF Progress, RecalcSteps

LEMMA FinishProgress ==
    ASSUME TypeOK, NEW r \in Requests, FinishGrades(r), Progress(r)
    PROVE  Progress(r)'
<1> DEFINE wanted == req[r].config.grades
           old == DOMAIN local[r].rules \ local[r].done
<1>0. pc[r] = "formulas" /\ local[r].todo = {} /\ req' = req /\ UNCHANGED <<place, taskOn, group>>
  BY DEF FinishGrades, tasks
<1>1. pc'[r] = "recalc"
  BY DEF FinishGrades, Goto, TypeOK
<1>2. Syncing(r) /\ Opened(req[r].config) /\ Moved(req[r].config) = {}
  BY <1>0 DEF Progress
<1>3. IsGradeConfig(wanted)
  <2>1. wanted # None
    BY <1>0 DEF TypeOK, RequestOK
  <2> QED  BY <1>0, <2>1, UploadIs DEF UploadSteps, IsConfig
<1>4. /\ Kept(r) = old \cap DOMAIN wanted /\ Dropped(r) = old \ DOMAIN wanted
      /\ old \subseteq DOMAIN grades /\ DOMAIN grades \subseteq old \cup DOMAIN wanted
  BY <1>2 DEF Kept, Dropped, Pending, Syncing
<1>5. \A g \in DOMAIN wanted \ old : g \in DOMAIN grades /\ grades[g] = wanted[g]
  BY <1>0, <1>2, <1>3, SyncedGrades DEF Pending
<1>6. DOMAIN grades \ Dropped(r) = DOMAIN wanted
  BY <1>4, <1>5
<1>7. \A g \in DOMAIN wanted : (IF g \in Kept(r) THEN Unchanged(r, g) ELSE grades[g]) = wanted[g]
  <2>1. \A g \in Kept(r) : Unchanged(r, g) = wanted[g]
    BY DEF FinishGrades, Unchanged, NewFormulas
  <2> QED  BY <1>4, <1>5, <2>1
<1>8. grades' = [g \in DOMAIN wanted |-> IF g \in Kept(r) THEN Unchanged(r, g) ELSE grades[g]]
  BY <1>6 DEF FinishGrades
<1>9. grades' = wanted
  <2>1. wanted = [g \in DOMAIN wanted |-> wanted[g]]
    BY <1>3 DEF IsGradeConfig
  <2> HIDE DEF wanted
  <2> QED  BY <1>7, <1>8, <2>1
<1>10. Opened(req[r].config)' /\ Moved(req[r].config)' = {}
  BY <1>0, <1>2, OpenedStays
<1> QED  BY <1>0, <1>1, <1>9, <1>10 DEF Progress, RecalcSteps

LEMMA RecalcProgress ==
    ASSUME TypeOK, NEW r \in Requests, Progress(r),
           RecalcScores(r) \/ RecalcGrades(r) \/ RecalcCourse(r) \/ RecalcGroups(r)
    PROVE  Progress(r)'
<1> USE DEF RecalcSteps
<1>0. pc[r] \in RecalcSteps /\ req' = req /\ grades' = grades /\ UNCHANGED <<place, taskOn, group>>
  BY DEF RecalcScores, RecalcGrades, RecalcCourse, RecalcGroups, course, tasks
<1>1. /\ Opened(req[r].config) /\ Moved(req[r].config) = {}
      /\ req[r].config.grades = None \/ grades = req[r].config.grades
  BY <1>0 DEF Progress
<1>2. Opened(req[r].config)' /\ Moved(req[r].config)' = {}
  BY <1>0, <1>1, OpenedStays
<1>3. /\ pc'[r] \in RecalcSteps
      /\ pc'[r] = "write" => (local[r].batch = [s \in Students |-> RecalcGrade(local[r], s)])'
  <2>0. DOMAIN pc = Requests /\ DOMAIN local = Requests /\ DOMAIN local[r] = DOMAIN NoLocal
    BY DEF TypeOK, LocalOK
  <2>1. CASE RecalcGroups(r)
    <3> DEFINE batch == [s \in Students |-> RecalcGrade(local[r], s)]
    <3>1. pc'[r] = "write" /\ local' = [local EXCEPT ![r].batch = batch]
      BY <2>0, <2>1 DEF RecalcGroups, Goto
    <3>2. /\ local'[r].batch = batch /\ local'[r].rows = local[r].rows /\ local'[r].saved = local[r].saved
          /\ local'[r].seen = local[r].seen /\ local'[r].rules = local[r].rules
      <4> HIDE DEF batch
      <4> QED  BY <2>0, <3>1 DEF NoLocal
    <3>3. enabled' = enabled
      BY <1>0 DEF enabled
    <3>4. \A s \in Students : RecalcGrade(local[r], s)' = RecalcGrade(local[r], s)
      BY <3>2, <3>3 DEF RecalcGrade, SolvedLarge
    <3> QED  BY <3>1, <3>2, <3>4
  <2>2. CASE RecalcScores(r) \/ RecalcGrades(r) \/ RecalcCourse(r)
    BY <2>0, <2>2 DEF RecalcScores, RecalcGrades, RecalcCourse, Goto
  <2> QED  BY <2>1, <2>2
<1> QED  BY <1>0, <1>1, <1>2, <1>3 DEF Progress

(* How an upload comes to the steps from its formulas on. *)
LEMMA UploadContinues ==
    ASSUME TypeOK, NEW r \in Requests, Send(r) \/ Handle(r) \/ Abort(r),
           pc'[r] \in {"formulas"} \cup RecalcSteps
    PROVE  \/ StartGrades(r) \/ AddFormula(r) \/ UpdateGrade(r) \/ FinishGrades(r)
           \/ RecalcScores(r) \/ RecalcGrades(r) \/ RecalcCourse(r) \/ RecalcGroups(r)
<1> USE DEF RecalcSteps
<1>0. pc \in [Requests -> {"idle"} \cup Steps \cup Ended]
  BY DEF TypeOK
<1>1. CASE Send(r) \/ Abort(r)
  BY <1>0, <1>1 DEF Send, Abort, Goto, End, Arrive, ReportAccept, OpenTable,
       EditAccept, UploadAccept, EditCourse, OverrideGrade, ClearGradeOverride
<1>2. CASE \/ FindTask(r) \/ StoreScore(r) \/ StoreNoRow(r) \/ InsertGrade(r)
           \/ InsertConflict(r) \/ ReadScores(r) \/ ReadBonus(r)
           \/ ReadMaxScore(r) \/ ReadGroups(r) \/ LoadCourse(r) \/ SaveGrade(r)
  BY <1>0, <1>2 DEF Goto, End, AfterStore, FindTask, StoreScore, StoreNoRow,
       InsertGrade, InsertConflict, ReadScores, ReadBonus, ReadMaxScore,
       ReadGroups, LoadCourse, SaveGrade
<1>3. CASE \/ CreateGroups(r) \/ MoveTasks(r) \/ SyncColumns(r) \/ EnableGroup(r)
           \/ GradesGone(r) \/ BatchWrite(r)
  BY <1>0, <1>3 DEF Goto, End, CreateGroups, MoveTasks, SyncColumns,
       EnableGroup, GradesGone, BatchWrite
<1> QED  BY <1>1, <1>2, <1>3 DEF Handle

LEMMA UploadsNext ==
    ASSUME TypeOK, NoOtherUpload, Fresh, Uploads, NEW x \in Requests, Send(x) \/ Handle(x) \/ Abort(x)
    PROVE  Uploads'
<1> SUFFICES ASSUME Alone(x)' PROVE Progress(x)'
  BY ProgressStays DEF Uploads
<1>0. pc'[x] \in UploadSteps /\ x \notin overlapped
  BY OverlapsGrow DEF Alone
<1>1. CASE pc'[x] \in {"create", "move"}
  BY <1>1 DEF Progress, RecalcSteps
<1>2. CASE pc'[x] \notin {"create", "move"}
  <2>1. Alone(x) /\ Progress(x)
    BY <1>0, <1>2, UploadEnters DEF Alone, Uploads
  <2>2. CASE pc'[x] \in {"sync", "enable"}
    BY <2>1, <2>2, UploadEnters, MoveProgress, SyncProgress, EnableProgress
  <2>3. CASE pc'[x] \in {"formulas"} \cup RecalcSteps
    BY <2>1, <2>3, UploadContinues, StartProgress, AddProgress, UpdateProgress, FinishProgress,
       RecalcProgress
  <2> QED  BY <1>0, <1>2, <2>2, <2>3 DEF UploadSteps
<1> QED  BY <1>1, <1>2

------------------------------------------------------------------------------
(* The theorems about uploads.                                             *)

LEMMA UploadsInit == Init => NoOtherUpload /\ Alike /\ Fresh /\ Housed /\ Dates /\ Uploads
<1> SUFFICES ASSUME Init PROVE NoOtherUpload /\ Alike /\ Fresh /\ Housed /\ Dates /\ Uploads
  OBVIOUS
<1>1. \A r \in Requests : pc[r] = "idle" /\ local[r] = NoLocal
  BY DEF Init
<1>2. NoOtherUpload /\ Alike /\ Fresh /\ Uploads
  BY <1>1 DEF NoOtherUpload, Alike, Uploading, Fresh, Uploads, Alone, UploadSteps, RecalcSteps
<1>3. ASSUME NEW t \in Tasks PROVE group[place[t]] # None /\ group[place[t]].dated
  <2>1. IsConfig(InitConfig) /\ Places(InitConfig, t) # {}
    BY ConfigsAssumption, PlacesAssumption
  <2>2. place[t] \in Places(InitConfig, t) /\ place[t] \in Groups
    BY <2>1, PlacesType DEF Init
  <2>3. \E i \in DOMAIN InitConfig.groups : InitConfig.groups[i].name = place[t]
    BY <2>2 DEF Places
  <2>4. group[place[t]] = Row(Named(InitConfig, place[t]).on, TRUE)
    BY <2>2, <2>3 DEF Init
  <2>5. Named(InitConfig, place[t]).on \in BOOLEAN
    <3>1. \A i \in DOMAIN InitConfig.groups : InitConfig.groups[i] \in Section
      BY <2>1 DEF IsConfig
    <3> QED  BY <2>3, <3>1 DEF Named, Section
  <2> QED  BY <2>4, <2>5, RowIs
<1>4. Housed /\ Dates
  BY <1>1, <1>3 DEF Housed, Dates
<1> QED  BY <1>2, <1>4

LEMMA UploadsAlways == Spec => [](NoOtherUpload /\ Alike /\ Fresh /\ Housed /\ Dates /\ Uploads)
<1> DEFINE Inv == NoOtherUpload /\ Alike /\ Fresh /\ Housed /\ Dates /\ Uploads
<1>1. TypeOK /\ Inv /\ [Next]_vars => Inv'
  <2> SUFFICES ASSUME TypeOK, Inv, [Next]_vars PROVE Inv'
    OBVIOUS
  <2>1. CASE UNCHANGED vars
    <3>1. /\ UNCHANGED TaskState /\ UNCHANGED overlapped
          /\ pc' = pc /\ req' = req /\ local' = local
      BY <2>1 DEF vars, course, tasks, TaskState
    <3>2. NoOtherUpload' /\ Alike' /\ Fresh'
      BY <3>1 DEF NoOtherUpload, Alike, Fresh, Alone, Uploading, NoLocal
    <3>3. Housed' /\ Dates'
      BY <3>1 DEF Housed, Dates, Moved, IsUpload, TaskState
    <3>4. \A r \in Requests : Progress(r)' <=> Progress(r)
      BY <3>1 DEF TaskState, Progress, Moved, Enabling, Opened, Syncing, RecalcGrade, enabled,
           counted, Dated, OpenTasks
    <3>5. Uploads'
      BY <3>1, <3>4 DEF Uploads, Alone
    <3> QED  BY <3>2, <3>3, <3>5
  <2>2. CASE Next
    <3>1. PICK x \in Requests : Send(x) \/ Handle(x) \/ Abort(x)
      BY <2>2 DEF Next
    <3> QED  BY <3>1, NoOtherUploadNext, AlikeNext, FreshNext, HousedNext, DatesNext, UploadsNext
  <2> QED  BY <2>1, <2>2
<1>2. Init => Inv
  BY UploadsInit
<1> HIDE DEF Inv
<1>3. Spec => []Inv
  BY <1>1, <1>2, TypeCorrect, PTL DEF Spec
<1> QED  BY <1>3 DEF Inv

(* update_course.  An upload that no other overlaps opens exactly the      *)
(* tasks of its configuration, in their groups and with deadlines, and     *)
(* leaves exactly its grades and formulas, whatever earlier uploads left   *)
(* behind when they died.                                                  *)
THEOREM UploadAppliedAlways == Spec => []UploadApplied
<1>1. Uploads => UploadApplied
  BY DEF Uploads, UploadApplied, Alone, Progress, Opened, UploadSteps
<1> QED  BY <1>1, UploadsAlways, PTL

(* The deadlines every query joins.  The open tasks are those that count   *)
(* in totals, maxima and large tasks, but between the move of tasks into a *)
(* new group and the deadline it gets, or when the upload died there.      *)
THEOREM OpenTasksCountAlways == Spec => []OpenTasksCount
<1>1. TypeOK /\ Dates => OpenTasksCount
  <2> SUFFICES ASSUME taskOn \subseteq Tasks, \A t \in Tasks : group[place[t]].on => group[place[t]].dated
               PROVE  enabled = counted
    BY DEF TypeOK, Dates, OpenTasksCount
  <2> QED  BY DEF enabled, counted, Dated
<1> QED  BY <1>1, UploadsAlways, TypeCorrect, PTL

------------------------------------------------------------------------------
(* Recalculation.                                                          *)

(* No formula asks for the score of one task. *)
ScoreFree(g)     == \A d \in DOMAIN g : \A f \in g[d] : DOMAIN f \cap Tasks \subseteq DataPaths
ScoreFreeConfigs == \A c \in Configs \cup {InitConfig} : c.grades # None => ScoreFree(c.grades)

(* The formulas of the course, and those an upload is about to create. *)
ScoreFreeCourse ==
    /\ ScoreFree(grades)
    /\ \A r \in Requests : \A gf \in local[r].todo : DOMAIN gf[2] \cap Tasks \subseteq DataPaths

LEMMA OtherStepsKeepFormulas ==
    ASSUME TypeOK, NEW r \in Requests, Send(r) \/ Handle(r) \/ Abort(r),
           ~StartGrades(r), ~AddFormula(r), ~UpdateGrade(r), ~FinishGrades(r)
    PROVE  grades' = grades /\ local'[r].todo \subseteq local[r].todo
<1>0. DOMAIN local = Requests /\ DOMAIN local[r] = DOMAIN NoLocal /\ NoLocal.todo = {}
  BY DEF TypeOK, LocalOK, NoLocal
<1>1. CASE Send(r) \/ Abort(r)
  <2>1. CASE OpenTable(r)
    <3>1. PICK q \in Edit : local' = [local EXCEPT
                                 ![r].rows[q.student] = score[q.student],
                                 ![r].large = SolvedLarge(score[q.student], counted)]
      BY <2>1 DEF OpenTable
    <3>2. local'[r].todo = local[r].todo
      BY <1>0, <3>1 DEF NoLocal
    <3> QED  BY <2>1, <3>2 DEF OpenTable, course
  <2>2. CASE ~OpenTable(r)
    BY <1>0, <1>1, <2>2 DEF Send, Abort, End, ReportAccept, EditAccept, UploadAccept,
         EditCourse, OverrideGrade, ClearGradeOverride, course
  <2> QED  BY <2>1, <2>2
<1>2. CASE StoreScore(r) \/ InsertGrade(r)
  <2>1. PICK new : AfterStore(r, new)
    BY <1>2 DEF StoreScore, InsertGrade
  <2>2. \/ local' = local
        \/ local' = [local EXCEPT ![r].rows[req[r].student][req[r].task] = new]
    BY <2>1 DEF AfterStore
  <2>3. local'[r].todo = local[r].todo
    BY <1>0, <2>2 DEF NoLocal
  <2> QED  BY <2>1, <2>3 DEF AfterStore, course
<1>3. CASE FindTask(r) \/ StoreNoRow(r) \/ InsertConflict(r) \/ SaveGrade(r)
  BY <1>0, <1>3 DEF FindTask, StoreNoRow, InsertConflict, SaveGrade, End, course
<1>4. CASE ReadScores(r) \/ ReadBonus(r) \/ ReadMaxScore(r) \/ ReadGroups(r) \/ LoadCourse(r)
  <2>1. local'[r].todo = local[r].todo
    BY <1>0, <1>4 DEF ReadScores, ReadBonus, ReadMaxScore, ReadGroups, LoadCourse, NoLocal
  <2> QED  BY <1>4, <2>1 DEF ReadScores, ReadBonus, ReadMaxScore, ReadGroups, LoadCourse, course
<1>5. CASE CreateGroups(r) \/ MoveTasks(r) \/ SyncColumns(r) \/ EnableGroup(r)
  <2>1. local'[r].todo = local[r].todo
    BY <1>0, <1>5 DEF CreateGroups, MoveTasks, SyncColumns, EnableGroup, NoLocal
  <2> QED  BY <1>5, <2>1 DEF CreateGroups, MoveTasks, SyncColumns, EnableGroup
<1>6. CASE \/ GradesGone(r) \/ RecalcScores(r) \/ RecalcGrades(r) \/ RecalcCourse(r) \/ RecalcGroups(r)
           \/ BatchWrite(r)
  <2>1. local'[r].todo \subseteq local[r].todo
    BY <1>0, <1>6 DEF GradesGone, RecalcScores, RecalcGrades, RecalcCourse, RecalcGroups, BatchWrite,
         End, NoLocal
  <2> QED  BY <1>6, <2>1 DEF GradesGone, RecalcScores, RecalcGrades, RecalcCourse, RecalcGroups,
                BatchWrite, course
<1> QED  BY <1>1, <1>2, <1>3, <1>4, <1>5, <1>6 DEF Handle

LEMMA ScoreFreeNext ==
    ASSUME ScoreFreeConfigs, TypeOK, ScoreFreeCourse, NEW x \in Requests, Send(x) \/ Handle(x) \/ Abort(x)
    PROVE  ScoreFreeCourse'
<1> DEFINE wanted == req[x].config.grades
           Free(f) == DOMAIN f \cap Tasks \subseteq DataPaths
<1>0. DOMAIN local = Requests /\ DOMAIN local[x] = DOMAIN NoLocal
  BY DEF TypeOK, LocalOK
<1>1. /\ \A d \in DOMAIN grades : \A f \in grades[d] : Free(f)
      /\ \A gf \in local[x].todo : Free(gf[2])
  BY DEF ScoreFreeCourse, ScoreFree
<1>2. SUFFICES /\ \A d \in DOMAIN grades' : \A f \in grades'[d] : Free(f)
               /\ \A gf \in local'[x].todo : Free(gf[2])
  <2>1. \A r \in Requests : r # x => local'[r] = local[r]
    BY StepsAreLocal
  <2>2. DataPaths' = DataPaths
    BY DEF DataPaths
  <2> QED  BY <2>1, <2>2 DEF ScoreFreeCourse, ScoreFree
<1>3. ASSUME pc[x] \in {"enable", "formulas"}, wanted # None
      PROVE  \A d \in DOMAIN wanted : \A f \in wanted[d] : Free(f)
  BY <1>3, UploadIs DEF UploadSteps, ScoreFreeConfigs, ScoreFree
<1>4. CASE StartGrades(x)
  <2>1. CASE wanted = None
    <3>1. local' = local /\ grades' = grades
      BY <1>4, <2>1 DEF StartGrades, course
    <3> HIDE DEF Free
    <3> QED  BY <1>1, <3>1
  <2>2. CASE wanted # None
    <3> DEFINE todo == UNION {{g} \X wanted[g] : g \in DOMAIN wanted \ DOMAIN grades}
    <3>1. local' = [local EXCEPT ![x].rules = grades, ![x].todo = todo] /\ pc[x] = "enable"
      BY <1>4, <2>2 DEF StartGrades
    <3>2. \A gf \in todo : \E d \in DOMAIN wanted : gf[2] \in wanted[d]
      OBVIOUS
    <3> HIDE DEF todo
    <3>3. local'[x].todo = todo /\ grades' = grades
      BY <1>0, <1>4, <3>1 DEF NoLocal, StartGrades, course
    <3>4. \A gf \in todo : Free(gf[2])
      <4> HIDE DEF Free, wanted
      <4> QED  BY <1>3, <2>2, <3>1, <3>2
    <3> HIDE DEF Free
    <3> QED  BY <1>1, <3>3, <3>4
  <2> QED  BY <2>1, <2>2
<1>5. CASE AddFormula(x)
  <2>1. PICK gf \in local[x].todo :
          /\ grades' = [h \in DOMAIN grades \cup {gf[1]} |->
                           IF h = gf[1]
                           THEN (IF gf[1] \in DOMAIN grades THEN grades[gf[1]] ELSE {}) \cup {gf[2]}
                           ELSE grades[h]]
          /\ local' = [local EXCEPT ![x].todo = local[x].todo \ {gf}]
    BY <1>5 DEF AddFormula
  <2>2. local'[x].todo = local[x].todo \ {gf}
    BY <1>0, <2>1 DEF NoLocal
  <2> HIDE DEF Free
  <2> QED  BY <1>1, <2>1, <2>2
<1>6. CASE UpdateGrade(x)
  <2>0. pc[x] = "formulas" /\ wanted # None
    BY <1>6 DEF UpdateGrade, TypeOK, RequestOK
  <2>1. PICK seen \in SUBSET (Kept(x) \cap DOMAIN grades), g \in Kept(x) \cap DOMAIN grades :
         \E f \in NewFormulas(x, g) :
          /\ grades' = [h \in DOMAIN grades \ Dropped(x) |->
                  CASE h = g -> Unchanged(x, g) \cup {f}
                    [] h \in seen -> Unchanged(x, h)
                    [] OTHER -> grades[h]]
          /\ local' = [local EXCEPT
                  ![x].todo = {g} \X (NewFormulas(x, g) \ {f}),
                  ![x].done = local[x].done \cup Dropped(x) \cup seen \cup {g}]
    BY <1>6 DEF UpdateGrade
  <2>2. PICK f \in NewFormulas(x, g) :
          /\ grades' = [h \in DOMAIN grades \ Dropped(x) |->
                  CASE h = g -> Unchanged(x, g) \cup {f}
                    [] h \in seen -> Unchanged(x, h)
                    [] OTHER -> grades[h]]
          /\ local' = [local EXCEPT
                  ![x].todo = {g} \X (NewFormulas(x, g) \ {f}),
                  ![x].done = local[x].done \cup Dropped(x) \cup seen \cup {g}]
    BY <2>1
  <2> DEFINE todo == {g} \X (NewFormulas(x, g) \ {f})
  <2>3. \A e \in NewFormulas(x, g) : Free(e)
    <3>1. g \in DOMAIN wanted /\ NewFormulas(x, g) \subseteq wanted[g]
      BY DEF Kept, NewFormulas
    <3> HIDE DEF Free, wanted
    <3> QED  BY <1>3, <2>0, <3>1
  <2>4. \A h \in DOMAIN grades : Unchanged(x, h) \subseteq grades[h]
    BY DEF Unchanged
  <2>5. \A gf \in todo : gf[2] \in NewFormulas(x, g)
    OBVIOUS
  <2>6. local'[x].todo = todo
    <3> HIDE DEF todo
    <3> QED  BY <1>0, <2>2 DEF NoLocal, todo
  <2>7. \A d \in DOMAIN grades' : d \in DOMAIN grades /\ grades'[d] \subseteq grades[d] \cup {f}
    BY <2>2, <2>4
  <2> HIDE DEF todo, Free
  <2> QED  BY <1>1, <2>3, <2>5, <2>6, <2>7
<1>7. CASE FinishGrades(x)
  <2>1. local' = [local EXCEPT ![x].rules = None, ![x].done = {}]
    BY <1>7 DEF FinishGrades
  <2>2. local'[x].todo = local[x].todo
    BY <1>0, <2>1 DEF NoLocal
  <2>3. grades' = [g \in DOMAIN grades \ Dropped(x) |->
                      IF g \in Kept(x) THEN Unchanged(x, g) ELSE grades[g]]
    BY <1>7 DEF FinishGrades
  <2>4. \A d \in DOMAIN grades' : d \in DOMAIN grades /\ grades'[d] \subseteq grades[d]
    BY <2>3 DEF Unchanged
  <2> HIDE DEF Free
  <2> QED  BY <1>1, <2>2, <2>4
<1>8. CASE ~StartGrades(x) /\ ~AddFormula(x) /\ ~UpdateGrade(x) /\ ~FinishGrades(x)
  <2>1. grades' = grades /\ local'[x].todo \subseteq local[x].todo
    BY <1>8, OtherStepsKeepFormulas
  <2> HIDE DEF Free
  <2> QED  BY <1>1, <2>1
<1> QED  BY <1>4, <1>5, <1>6, <1>7, <1>8

(* On formulas without scores, the scores in a row tell nothing. *)
LEMMA ScoresTellNothing ==
    ASSUME NEW g, ScoreFree(g), NEW scores, NEW total, NEW open, NEW large
    PROVE  Evaluate(g, RowData(scores, total, open, large)) = Evaluate(g, SummaryData(total, open, large))
<1> DEFINE row     == RowData(scores, total, open, large)
           summary == SummaryData(total, open, large)
<1>1. DOMAIN summary = DataPaths
  BY DEF SummaryData
<1>2. /\ DOMAIN row = DataPaths \cup {t \in Tasks : scores[t] # NoRow}
      /\ \A p \in DataPaths : row[p] = summary[p]
  BY DEF RowData
<1> HIDE DEF row, summary
<1>3. ASSUME NEW d \in DOMAIN g, NEW f \in g[d]
      PROVE  EvaluatePrimaryFormula(f, row) <=> EvaluatePrimaryFormula(f, summary)
  <2>1. \A p \in DOMAIN f : p \in Tasks => p \in DataPaths
    BY DEF ScoreFree
  <2>2. \A p \in DOMAIN f : p \in DOMAIN row <=> p \in DOMAIN summary
    BY <1>1, <1>2, <2>1
  <2>3. \A p \in DOMAIN f : p \in DOMAIN summary => row[p] = summary[p]
    BY <1>1, <1>2
  <2> QED  BY <2>2, <2>3 DEF EvaluatePrimaryFormula
<1>4. \A d \in DOMAIN g : EvaluateGrade(g[d], row) <=> EvaluateGrade(g[d], summary)
  BY <1>3 DEF EvaluateGrade
<1>5. {d \in DOMAIN g : EvaluateGrade(g[d], row)} = {d \in DOMAIN g : EvaluateGrade(g[d], summary)}
  BY <1>4
<1>6. Evaluate(g, row) = Evaluate(g, summary)
  <2> DEFINE Matched(data) == {d \in DOMAIN g : EvaluateGrade(g[d], data)}
             Highest(S) == IF S = {} THEN 0 ELSE CHOOSE d \in S : \A h \in S : d >= h
  <2>1. Evaluate(g, row) = Highest(Matched(row)) /\ Evaluate(g, summary) = Highest(Matched(summary))
    BY DEF Evaluate
  <2>2. Matched(row) = Matched(summary)
    BY <1>5
  <2> HIDE DEF Matched, Highest
  <2> QED  BY <2>1, <2>2
<1> QED  BY <1>6 DEF row, summary

(* recalculate_all_grades.  Of formulas that use no score of a single task *)
(* -- with them its row and that of the scores table differ -- a           *)
(* recalculation that nothing has overtaken is about to save exactly the   *)
(* grades the scores table shows.                                          *)
THEOREM RecalculationInSyncAlways ==
    ASSUME ScoreFreeConfigs
    PROVE  Spec => []RecalculationInSync
<1>1. Init => ScoreFreeCourse
  <2> SUFFICES ASSUME Init PROVE ScoreFreeCourse
    OBVIOUS
  <2>1. ScoreFree(grades)
    BY ConfigsAssumption DEF ScoreFreeConfigs, Init
  <2> QED  BY <2>1 DEF Init, ScoreFreeCourse, NoLocal
<1>2. TypeOK /\ ScoreFreeCourse /\ [Next]_vars => ScoreFreeCourse'
  <2> SUFFICES ASSUME TypeOK, ScoreFreeCourse, [Next]_vars PROVE ScoreFreeCourse'
    OBVIOUS
  <2>1. CASE UNCHANGED vars
    BY <2>1 DEF vars, course, ScoreFreeCourse, ScoreFree, DataPaths
  <2>2. CASE Next
    BY <2>2, ScoreFreeNext DEF Next
  <2> QED  BY <2>1, <2>2
<1>3. TypeOK /\ Uploads /\ ScoreFreeCourse => RecalculationInSync
  <2> SUFFICES ASSUME TypeOK, Uploads, ScoreFreeCourse, NEW r \in Requests, pc[r] = "write",
                      NotOvertaken(r), NEW s \in Students
               PROVE  local[r].batch[s] = IF override[s] # None THEN Skip ELSE TableGrade(s)
    BY DEF RecalculationInSync
  <2>1. /\ local[r].rows = score /\ local[r].rules = grades /\ local[r].seen = status
        /\ local[r].saved[s] = IF override[s] # None THEN Skip ELSE final[s]
    BY DEF NotOvertaken
  <2>2. Progress(r)
    BY DEF NotOvertaken, Uploads, Alone, UploadSteps, RecalcSteps
  <2>3. local[r].batch[s] = RecalcGrade(local[r], s) /\ enabled = counted
    BY <2>2 DEF Progress, Opened, RecalcSteps, counted
  <2>4. CASE override[s] # None
    BY <2>1, <2>3, <2>4 DEF RecalcGrade
  <2>5. CASE override[s] = None
    <3> DEFINE total == TotalScore(score[s])
               large == SolvedLarge(score[s], counted)
    <3>1. final[s] # Skip
      BY GradesAssumption DEF TypeOK, Grade
    <3>2. local[r].batch[s] = CalculateEffectiveGrade(status, grades, SummaryData(total, counted, large), final[s])
      BY <2>1, <2>3, <2>5, <3>1 DEF RecalcGrade, RecalcData
    <3>3. Evaluate(grades, RowData(score[s], total, counted, large)) =
          Evaluate(grades, SummaryData(total, counted, large))
      <4>1. ScoreFree(grades)
        BY DEF ScoreFreeCourse
      <4> QED  BY <4>1, ScoresTellNothing
    <3>4. TableGrade(s) = CalculateEffectiveGrade(status, grades, SummaryData(total, counted, large), final[s])
      <4> HIDE DEF total, large
      <4>1. CalculateEffectiveGrade(status, grades, RowData(score[s], total, counted, large), final[s]) =
            CalculateEffectiveGrade(status, grades, SummaryData(total, counted, large), final[s])
        BY <3>3 DEF CalculateEffectiveGrade
      <4> QED  BY <4>1 DEF TableGrade, total, large
    <3> QED  BY <2>5, <3>2, <3>4
  <2> QED  BY <2>4, <2>5
<1> QED  BY <1>1, <1>2, <1>3, TypeCorrect, UploadsAlways, PTL DEF Spec

-----------------------------------------------------------------------------
(* The grade book implements GradeLedger.                                  *)

LEMMA StagesAre ==
    /\ StageOf("idle") = "idle" /\ StageOf("done") = "done"
    /\ \A x \in {"rejected", "failed", "aborted", "stopped"} : StageOf(x) = "dropped"
    /\ \A x \in {"page", "find", "store", "insert"} : StageOf(x) = "asked"
    /\ \A x \in {"scores", "bonus", "groups", "max", "course", "save"} : StageOf(x) = "stored"
    /\ \A x \in UploadSteps : StageOf(x) = "batch"
<1>1. \A x \in UploadSteps : x \notin {"idle", "done", "page", "find", "store", "insert"} \cup Ended
  BY DEF UploadSteps, RecalcSteps, Ended
<1>2. \A x \in UploadSteps : StageOf(x) = "batch"
  BY <1>1 DEF StageOf
<1> QED
  BY <1>2 DEF StageOf, Ended, UploadSteps, RecalcSteps

(* A request goes from one step to another.                                *)
LEMMA Moves ==
    ASSUME TypeOK, NEW r \in Requests, NEW step, Goto(r, step)
    PROVE  /\ Staged[r] = StageOf(pc[r])
           /\ Staged' = [Staged EXCEPT ![r] = StageOf(step)]
           /\ StageOf(step) = StageOf(pc[r]) => Staged' = Staged
           /\ pc[r] # "idle" /\ step # "idle" /\ req' = req => Asked' = Asked
<1>1. pc' = [pc EXCEPT ![r] = step] /\ DOMAIN pc = Requests
  BY DEF Goto, TypeOK
<1>2. pc'[r] = step /\ \A x \in Requests \ {r} : pc'[x] = pc[x]
  BY <1>1
<1>3. Staged' = [x \in Requests |-> StageOf(pc'[x])]
  BY DEF Staged, StageOf
<1>4. Staged' = [Staged EXCEPT ![r] = StageOf(step)]
  BY <1>2, <1>3 DEF Staged
<1> QED
  BY <1>2, <1>4 DEF Staged, Asked

(* A request arrives: it asks for points, or stores none.                  *)
LEMMA Begins ==
    ASSUME TypeOK, NEW r \in Requests, NEW q, NEW step, Arrive(r, q, step), step # "idle"
    PROVE  /\ Staged[r] = "idle" /\ Staged' = [Staged EXCEPT ![r] = StageOf(step)]
           /\ q.kind \in StoreKinds => Asked'[r] = q /\ Asked' = [Asked EXCEPT ![r] = q]
           /\ q.kind \notin StoreKinds => Asked' = Asked
<1>1. /\ pc[r] = "idle" /\ Goto(r, step) /\ req' = [req EXCEPT ![r] = q]
      /\ DOMAIN req = Requests /\ DOMAIN pc = Requests
  BY DEF Arrive, TypeOK
<1>2. /\ req'[r] = q /\ pc'[r] = step
      /\ \A x \in Requests \ {r} : req'[x] = req[x] /\ pc'[x] = pc[x]
  BY <1>1 DEF Goto
<1>3. \A x \in Requests : Asked'[x] = IF x = r THEN IF q.kind \in StoreKinds THEN q ELSE None
                                      ELSE Asked[x]
  BY <1>2 DEF Asked
<1>4. Asked[r] = None /\ DOMAIN Asked = Requests /\ DOMAIN Asked' = Requests
      /\ Asked = [x \in Requests |-> Asked[x]] /\ Asked' = [x \in Requests |-> Asked'[x]]
  BY <1>1 DEF Asked
<1>5. Staged[r] = "idle" /\ Staged' = [Staged EXCEPT ![r] = StageOf(step)]
  BY <1>1, Moves, StagesAre
<1> HIDE DEF Asked
<1> QED
  BY <1>3, <1>4, <1>5

LEMMA LedgerSends ==
    ASSUME TypeOK, NEW r \in Requests, Send(r)
    PROVE  Ledger!Ask(r) \/ Ledger!Other(r) \/ UNCHANGED <<score, final, Asked, Staged>>
<1>0. score' = score /\ final' = final
  BY DEF Send, rows, ReportAccept, OpenTable, EditAccept, UploadAccept, EditCourse,
         OverrideGrade, ClearGradeOverride
<1>1. CASE ReportAccept(r) \/ OpenTable(r)
  <2>1. PICK q \in Report \cup Edit, step \in {"find", "rejected", "page"} : Arrive(r, q, step)
    BY <1>1 DEF ReportAccept, OpenTable
  <2>2. q.kind \in StoreKinds
    BY DEF Report, Edit, StoreKinds
  <2>3. StageOf(step) \in {"asked", "dropped"}
    BY StagesAre
  <2>4. /\ Staged[r] = "idle" /\ Staged' = [Staged EXCEPT ![r] = StageOf(step)]
        /\ Asked'[r] = q /\ Asked' = [Asked EXCEPT ![r] = q]
    BY <2>1, <2>2, Begins
  <2> QED
    BY <1>0, <2>3, <2>4 DEF Ledger!Ask, Ledger!Becomes
<1>2. CASE UploadAccept(r) \/ EditCourse(r) \/ OverrideGrade(r) \/ ClearGradeOverride(r)
  <2>1. PICK q \in Upload \cup Other, step \in {"create", "rejected", "done"} : Arrive(r, q, step)
    BY <1>2 DEF UploadAccept, EditCourse, OverrideGrade, ClearGradeOverride, Other
  <2>2. q.kind \notin StoreKinds
    BY DEF Upload, Other, StoreKinds
  <2>3. StageOf(step) \in {"batch", "done", "dropped"}
    BY StagesAre DEF UploadSteps
  <2>4. Staged[r] = "idle" /\ Staged' = [Staged EXCEPT ![r] = StageOf(step)] /\ Asked' = Asked
    BY <2>1, <2>2, Begins
  <2> QED
    BY <1>0, <2>3, <2>4 DEF Ledger!Other, Ledger!Becomes
<1>3. CASE EditAccept(r)
  <2>1. pc[r] = "page" /\ Goto(r, "store") /\ req' = req
    BY <1>3 DEF EditAccept
  <2> QED
    BY <1>0, <2>1, Moves, StagesAre
<1> QED
  BY <1>1, <1>2, <1>3 DEF Send

(* A score is stored, at once.                                             *)
LEMMA LedgerStores ==
    ASSUME TypeOK, NEW r \in Requests, StoreScore(r) \/ InsertGrade(r)
    PROVE  Ledger!Store(r)
<1>1. PICK old \in Int, new \in Int :
        /\ req[r] \in Report \cup Edit
        /\ score[req[r].student][req[r].task] \in {old, NoRow}
        /\ score' = [score EXCEPT ![req[r].student][req[r].task] = new]
        /\ new = UpdateScore(old, req[r].points, req[r].reduce)
        /\ score[req[r].student][req[r].task] = NoRow => old = 0
        /\ req' = req
  BY StoringSteps
<1>2. PICK step \in {"scores", "max"} : Goto(r, step)
  BY DEF StoreScore, InsertGrade, AfterStore
<1>3. pc[r] \in {"store", "insert"} /\ final' = final
  BY DEF StoreScore, InsertGrade, AfterStore
<1>4. Staged[r] = "asked" /\ Staged' = [Staged EXCEPT ![r] = "stored"] /\ Asked' = Asked
  BY <1>1, <1>2, <1>3, Moves, StagesAre
<1>5. Asked[r] = req[r]
  BY <1>1, <1>3 DEF Asked, Report, Edit, StoreKinds
<1>6. req[r].points \in Int /\ req[r].reduce \in BOOLEAN
  BY <1>1, TasksAssumption DEF Report, Edit
<1>7. new = Ledger!Merged(score[req[r].student][req[r].task], req[r])
  BY <1>1, <1>6, NoRowAssumption DEF Ledger!Merged, UpdateScore, AtLeast
<1>8. score' = [score EXCEPT ![Asked[r].student][Asked[r].task] = Ledger!Merged(@, Asked[r])]
  BY <1>1, <1>5, <1>7
<1> QED
  BY <1>3, <1>4, <1>8 DEF Ledger!Store, Ledger!Becomes

(* A grade is saved, of a request that has stored.                         *)
LEMMA LedgerSaves ==
    ASSUME TypeOK, NEW r \in Requests, SaveGrade(r)
    PROVE  Ledger!Save(r)
<1> DEFINE s == req[r].student
           data == RowData(local[r].rows[s], ReportedTotal(local[r], s), local[r].open, local[r].large)
           g == CalculateEffectiveGrade(local[r].seen, grades, data, final[s])
<1>1. /\ pc[r] = "save" /\ Goto(r, "done") /\ req' = req /\ score' = score
      /\ final' = [final EXCEPT ![s] = g]
  BY DEF SaveGrade, End
<1>2. req[r] \in Report \cup Edit
  BY <1>1 DEF TypeOK, RequestOK, StoreSteps
<1>3. s \in Students /\ IsGradeConfig(grades) /\ final \in [Students -> Grade \cup {None}]
  BY <1>2 DEF TypeOK, Report, Edit
<1>4. g \in Grade
  <2> HIDE DEF data, s
  <2> QED
    BY <1>3, EffectiveGradeType
<1>5. Staged[r] = "stored" /\ Staged' = [Staged EXCEPT ![r] = "done"] /\ Asked' = Asked
  BY <1>1, Moves, StagesAre
<1>6. Asked[r] = req[r]
  BY <1>1, <1>2 DEF Asked, Report, Edit, StoreKinds
<1> HIDE DEF g
<1>7. final'[s] \in Grade /\ final' = [final EXCEPT ![s] = final'[s]]
  BY <1>1, <1>3, <1>4
<1> QED
  BY <1>1, <1>5, <1>6, <1>7 DEF Ledger!Save, Ledger!Becomes

LEMMA LedgerRecalculates ==
    ASSUME TypeOK, NEW r \in Requests, BatchWrite(r)
    PROVE  Ledger!Recalculate(r)
<1> DEFINE batch == local[r].batch
<1>1. /\ pc[r] = "write" /\ Goto(r, "done") /\ req' = req /\ score' = score
      /\ final' = [s \in Students |-> IF batch[s] = Skip THEN final[s] ELSE batch[s]]
  BY DEF BatchWrite, End
<1>2. \A s \in Students : batch[s] \in Grade \cup {Skip}
  BY DEF TypeOK, LocalOK
<1>3. "write" \in UploadSteps
  BY DEF UploadSteps, RecalcSteps
<1>4. Staged[r] = "batch" /\ Staged' = [Staged EXCEPT ![r] = "done"] /\ Asked' = Asked
  BY <1>1, <1>3, Moves, StagesAre
<1> HIDE DEF batch
<1>5. final' = [s \in Students |-> final'[s]] /\ \A s \in Students : final'[s] \in Grade \cup {final[s]}
  BY <1>1, <1>2
<1> QED
  BY <1>1, <1>4, <1>5 DEF Ledger!Recalculate, Ledger!Becomes

(* A request is refused, fails or dies.                                    *)
LEMMA LedgerDrops ==
    ASSUME TypeOK, NEW r \in Requests, NEW step \in {"rejected", "failed", "aborted", "stopped"},
           Goto(r, step), pc[r] \in Steps, UNCHANGED <<score, final, req>>
    PROVE  Ledger!Drop(r)
<1>1. StageOf(pc[r]) \in {"asked", "stored", "batch"} /\ pc[r] # "idle"
  BY StagesAre DEF Steps, ReportSteps, StoreSteps, UploadSteps, RecalcSteps
<1>2. Staged[r] = StageOf(pc[r]) /\ Staged' = [Staged EXCEPT ![r] = "dropped"] /\ Asked' = Asked
  BY <1>1, Moves, StagesAre
<1> QED
  BY <1>1, <1>2 DEF Ledger!Drop, Ledger!Becomes

(* A report, or an upload, answers success although no grade was saved.    *)
LEMMA LedgerAnswers ==
    ASSUME TypeOK, NEW r \in Requests, Caught(r), pc[r] \in Steps, Goto(r, "done"),
           UNCHANGED <<score, final, req>>
    PROVE  Ledger!Answer(r)
<1>1. Staged[r] = StageOf(pc[r]) /\ Staged' = [Staged EXCEPT ![r] = "done"] /\ Asked' = Asked
  BY Moves, StagesAre DEF Steps, ReportSteps, StoreSteps, UploadSteps, RecalcSteps
<1>2. CASE pc[r] \in RecalcSteps
  <2>1. Staged[r] = "batch"
    BY <1>1, <1>2, StagesAre DEF UploadSteps
  <2> QED  BY <1>1, <2>1 DEF Ledger!Answer, Ledger!Becomes
<1>3. CASE Stored(r) /\ req[r].kind = "report"
  <2>1. req[r].kind \in StoreKinds /\ pc[r] # "idle"
    BY <1>3 DEF Stored
  <2>2. Asked[r] = req[r]
    BY <2>1 DEF Asked
  <2>3. req[r] \notin Edit
    BY <1>3 DEF Edit
  <2>4. pc[r] \notin UploadSteps
    BY <1>3 DEF TypeOK, RequestOK, Upload
  <2>5. Staged[r] = "stored"
    BY <1>1, <1>3, <2>4, StagesAre DEF Stored, Uncommitted, Steps, ReportSteps, StoreSteps
  <2> QED  BY <1>1, <2>2, <2>3, <2>5 DEF Ledger!Answer, Ledger!Becomes
<1> QED  BY <1>2, <1>3 DEF Caught

(* All that a handler does besides is to go on.                            *)
LEMMA LedgerGoesOn ==
    ASSUME TypeOK, NEW r \in Requests,
           \/ FindTask(r) \/ StoreNoRow(r) \/ ReadScores(r) \/ ReadBonus(r) \/ ReadMaxScore(r)
           \/ ReadGroups(r) \/ LoadCourse(r) \/ CreateGroups(r) \/ MoveTasks(r) \/ SyncColumns(r)
           \/ EnableGroup(r) \/ StartGrades(r) \/ AddFormula(r) \/ UpdateGrade(r)
           \/ FinishGrades(r) \/ RecalcScores(r) \/ RecalcGrades(r) \/ RecalcCourse(r)
           \/ RecalcGroups(r)
    PROVE  Ledger!Drop(r) \/ UNCHANGED <<score, final, Asked, Staged>>
<1>0. UNCHANGED <<score, final, req>>
  BY DEF rows, FindTask, StoreNoRow, ReadScores, ReadBonus, ReadMaxScore, ReadGroups,
         LoadCourse, CreateGroups, MoveTasks, SyncColumns, EnableGroup, StartGrades,
         AddFormula, UpdateGrade, FinishGrades, RecalcScores, RecalcGrades, RecalcCourse,
         RecalcGroups
<1>1. ASSUME NEW step \in Steps, Goto(r, step), pc[r] \in Steps, StageOf(step) = StageOf(pc[r])
      PROVE  UNCHANGED <<score, final, Asked, Staged>>
  <2>1. step # "idle" /\ pc[r] # "idle"
    BY <1>1 DEF Steps, ReportSteps, StoreSteps, UploadSteps, RecalcSteps
  <2> QED
    BY <1>0, <1>1, <2>1, Moves
<1>2. CASE FindTask(r)
  <2>1. PICK step \in {"store", "failed", "rejected"} : Goto(r, step)
    BY <1>2 DEF FindTask
  <2>2. pc[r] = "find" /\ "find" \in Steps /\ "store" \in Steps
    BY <1>2 DEF FindTask, Steps, ReportSteps, StoreSteps
  <2>3. CASE step = "store"
    BY <1>1, <2>1, <2>2, <2>3, StagesAre
  <2>4. CASE step # "store"
    BY <1>0, <2>1, <2>2, <2>4, LedgerDrops
  <2> QED
    BY <2>3, <2>4
<1>3. CASE \/ StoreNoRow(r) \/ ReadScores(r) \/ ReadBonus(r) \/ ReadMaxScore(r)
           \/ ReadGroups(r) \/ LoadCourse(r)
  <2>1. PICK step \in {"insert", "bonus", "max", "groups", "course", "save"} :
            /\ Goto(r, step)
            /\ pc[r] \in IF step = "insert" THEN {"store"}
                         ELSE {"scores", "bonus", "max", "groups", "course"}
    BY <1>3 DEF StoreNoRow, ReadScores, ReadBonus, ReadMaxScore, ReadGroups, LoadCourse
  <2>2. step \in Steps /\ pc[r] \in Steps
    BY <2>1 DEF Steps, ReportSteps, StoreSteps
  <2>3. StageOf(step) = StageOf(pc[r])
    BY <2>1, StagesAre
  <2> QED
    BY <1>1, <2>1, <2>2, <2>3
<1>4. CASE EnableGroup(r) \/ AddFormula(r) \/ UpdateGrade(r)
  <2>1. pc' = pc
    BY <1>4 DEF EnableGroup, AddFormula, UpdateGrade
  <2> QED
    BY <1>0, <2>1 DEF Asked, Staged
<1>5. CASE \/ CreateGroups(r) \/ MoveTasks(r) \/ SyncColumns(r) \/ StartGrades(r)
           \/ FinishGrades(r) \/ RecalcScores(r) \/ RecalcGrades(r) \/ RecalcCourse(r)
           \/ RecalcGroups(r)
  <2>1. PICK step \in UploadSteps : Goto(r, step)
    BY <1>5 DEF CreateGroups, MoveTasks, SyncColumns, StartGrades, FinishGrades, RecalcScores,
                RecalcGrades, RecalcCourse, RecalcGroups, UploadSteps, RecalcSteps
  <2>2. pc[r] \in UploadSteps
    BY <1>5 DEF CreateGroups, MoveTasks, SyncColumns, StartGrades, FinishGrades, RecalcScores,
                RecalcGrades, RecalcCourse, RecalcGroups, UploadSteps, RecalcSteps
  <2>3. step \in Steps /\ pc[r] \in Steps
    BY <2>2 DEF Steps
  <2>4. StageOf(step) = StageOf(pc[r])
    BY <2>2, StagesAre
  <2> QED
    BY <1>1, <2>1, <2>3, <2>4
<1> QED
  BY <1>2, <1>3, <1>4, <1>5

LEMMA LedgerSteps ==
    ASSUME TypeOK, [Next]_vars
    PROVE  [Ledger!LedgerStep]_(Ledger!ledgerVars)
<1> SUFFICES \/ Ledger!LedgerStep \/ UNCHANGED <<score, final, Asked, Staged>>
  BY DEF Ledger!ledgerVars
<1>1. CASE UNCHANGED vars
  BY <1>1 DEF vars, rows, Asked, Staged
<1>2. ASSUME NEW r \in Requests, Send(r) \/ Handle(r) \/ Abort(r)
      PROVE  \/ Ledger!Ask(r) \/ Ledger!Other(r) \/ Ledger!Store(r) \/ Ledger!Save(r)
             \/ Ledger!Recalculate(r) \/ Ledger!Answer(r) \/ Ledger!Drop(r)
             \/ UNCHANGED <<score, final, Asked, Staged>>
  <2>1. CASE InsertConflict(r) \/ GradesGone(r) \/ Abort(r)
    <3>1. PICK step \in {"failed", "aborted", "stopped", "done"} :
             Goto(r, step) /\ (step = "done" => Caught(r))
      BY <2>1 DEF InsertConflict, GradesGone, Abort, End
    <3>2. pc[r] \in Steps /\ UNCHANGED <<score, final, req>>
      BY <2>1 DEF InsertConflict, GradesGone, Abort, rows, Steps, StoreSteps, UploadSteps
    <3> QED
      BY <3>1, <3>2, LedgerDrops, LedgerAnswers
  <2> QED
    BY <1>2, <2>1, LedgerSends, LedgerStores, LedgerSaves, LedgerRecalculates, LedgerGoesOn
       DEF Handle
<1>3. CASE Next
  BY <1>2, <1>3 DEF Next, Ledger!LedgerStep
<1> QED
  BY <1>1, <1>3

(* Every report and edit takes effect once, at one moment and on one cell, *)
(* and succeeds only after that, an edit only after the grade was saved    *)
(* too; no other request touches a score: the grade book implements        *)
(* GradeLedger.  (store_score.)                                            *)
THEOREM LedgerImplemented == Spec => ImplementsLedger
<1>1. Init => Ledger!InitLedger
  <2> SUFFICES ASSUME Init PROVE Ledger!InitLedger
    OBVIOUS
  <2>1. TypeOK
    BY TypeInit
  <2>2. \A r \in Requests : pc[r] = "idle"
    BY DEF Init
  <2>3. Asked = [r \in Requests |-> None] /\ Staged = [r \in Requests |-> "idle"]
    BY <2>2, StagesAre DEF Asked, Staged
  <2> QED
    BY <2>1, <2>3 DEF Ledger!InitLedger, TypeOK, ScoreOfTask
<1>2. TypeOK /\ [Next]_vars => [Ledger!LedgerStep]_(Ledger!ledgerVars)
  BY LedgerSteps
<1> QED
  BY <1>1, <1>2, TypeCorrect, PTL DEF Spec, ImplementsLedger, Ledger!LedgerSpec

=============================================================================
