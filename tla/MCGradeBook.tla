----------------------------- MODULE MCGradeBook ------------------------------
(* Small instances of GradeBook for TLC.                                   *)
EXTENDS GradeBook, TLC

CONSTANTS s1, t1, t2, g1, g2, g3, gb, r1, r2, r3

(* Task attributes: t1 is a large task, t2 a bonus task. *)
MCMaxPoints == [t \in {t1, t2} |-> 10]
MCMinScore  == [t \in {t1, t2} |-> IF t = t1 THEN 5 ELSE 0]

Always == [p \in {"always"} |-> 1]
Total(n) == [p \in {"total_score"} |-> n]
Percent(n) == [p \in {"percent"} |-> 10 * n]
LargeTasks(n) == [p \in {"large_count"} |-> n]
Both(f, g) == f @@ g

OldGrades == [g \in {2, 3, 5} |->
    CASE g = 2 -> {Always}
      [] g = 3 -> {Percent(50), LargeTasks(1)}
      [] g = 5 -> {Both(Total(10), LargeTasks(1))}]

(* Grade 4 is new, grade 2 removed, a formula of grade 3 changed. *)
NewGrades == [g \in {3, 4, 5} |->
    CASE g = 3 -> {Percent(50), Total(8), LargeTasks(2)}
      [] g = 4 -> {Total(10), Percent(90)}
      [] g = 5 -> {Percent(100)}]

Enables(g, open) == [name |-> g, on |-> TRUE, tasks |-> open, open |-> open]
Extra == [name |-> gb, on |-> FALSE, tasks |-> {}, open |-> {}]

(* Two of the new ones move t1 to a new group, one of them t2 to an old    *)
(* one; the third has t1 where it was, and moves t2 to the new group.      *)
OldConfig == [groups |-> << Enables(g1, {t1}), Enables(g2, {t2}), Extra >>, grades |-> OldGrades]
NewConfig == [groups |-> << Enables(g3, {t1}), Extra >>, grades |-> NewGrades]
UngradedConfig ==
    [groups |-> << Enables(g1, {t2}), Enables(g3, {t1}), Extra >>, grades |-> None]
BackConfig ==
    [groups |-> << Enables(g3, {t2}), Enables(g1, {t1}), Extra >>, grades |-> None]

Mix(a1, a2, a3) == [r \in {r1, r2, r3} |->
    CASE r = r1 -> a1 [] r = r2 -> a2 [] r = r3 -> a3]

(* Which requests meet in a behaviour. *)
MCWorkload == {Mix("upload", "report", "status"), Mix("upload", "edit", "status"),
               Mix("report", "edit", "status"),   Mix("report", "report", "none"),
               Mix("upload", "upload", "none"),   Mix("upload", "override", "none")}
MCConfigs == {NewConfig, UngradedConfig, BackConfig}
MCPoints  == {-1, 5, 10}

(* The instances of the runs that end in a violation. *)
UploadAndReport == {Mix("upload", "report", "none")}
TwoReports      == {Mix("report", "report", "none")}
OneReport       == {Mix("report", "none", "none")}

(* Grade 3 asks for a total that one report does not reach. *)
TotalGrades == [g \in {2, 3} |-> IF g = 2 THEN {Always} ELSE {Total(15)}]
TotalConfig == [OldConfig EXCEPT !.grades = TotalGrades]

OldConfigs     == {OldConfig}

=============================================================================
