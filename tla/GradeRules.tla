------------------------------ MODULE GradeRules ------------------------------
(***************************************************************************)
(* The pure rules of grading: how a reported score is merged into a stored *)
(* one (api._update_score), how a grade formula is evaluated               *)
(* (config.ManytaskFinalGradeConfig) and how the course status turns the   *)
(* calculated grade into the grade that is saved                           *)
(* (database.calculate_effective_grade).                                   *)
(*                                                                         *)
(* A grade configuration is a function from grades to sets of primary      *)
(* formulas; a primary formula is a function from paths to limits.  A path *)
(* is one of DataPaths, or a task, which stands for "scores/<task name>".  *)
(* The data a formula is evaluated on is a function from the paths that    *)
(* the caller's dictionary holds to values.  Percentages are in tenths.    *)
(***************************************************************************)
EXTENDS Integers, FiniteSets, FiniteSetsExt

CONSTANTS
    None,     \* Python's None: no saved grade, no override, nothing loaded
    NoRow     \* a student without a Grade row for a task

CourseStatus == {"created", "hidden", "in_progress", "all_tasks_issued",
                 "doreshka", "finished"}

FreezeStatuses == {"doreshka", "all_tasks_issued"}

DoreshkaLimit == 3

AtLeast(a, b) == IF a >= b THEN a ELSE b
AtMost(a, b)  == IF a <= b THEN a ELSE b

-----------------------------------------------------------------------------

(* The sum of the scores a student has rows for. *)
TotalScore(scores) ==
    LET Score(t) == scores[t]
    IN  MapThenSumSet(Score, {t \in DOMAIN scores : scores[t] # NoRow})

(* round(total * 100 / max, 1), in tenths of a percent. *)
CalculatePercent(total, max) ==
    IF max <= 0 THEN 0 ELSE (2000 * total + max) \div (2 * max)

(* A mutant of UpdateScore: reports overwrite. *)
UpdateScoreOverwriting(old, points, reduce) ==
    IF old < 0 /\ ~reduce THEN old ELSE points

(* The points of a report, merged into the score the row holds.  The       *)
(* deadline multiplier is already in points.                               *)
UpdateScore(old, points, reduce) ==
    IF reduce     THEN points
    ELSE IF old < 0 THEN old
    ELSE AtLeast(old, points)

-----------------------------------------------------------------------------

(* A path the data lacks makes the formula false (get_attribute raises). *)
EvaluatePrimaryFormula(formula, data) ==
    \A p \in DOMAIN formula : p \in DOMAIN data /\ data[p] >= formula[p]

EvaluateGrade(formulas, data) ==
    \E f \in formulas : EvaluatePrimaryFormula(f, data)

(* The highest grade with a formula that holds; none (the ValueError the   *)
(* caller catches, or a course without grades) counts as 0.                *)
Evaluate(grades, data) ==
    LET matched == {g \in DOMAIN grades : EvaluateGrade(grades[g], data)}
    IN  IF matched = {} THEN 0
        ELSE CHOOSE g \in matched : \A h \in matched : g >= h

(* Mutants of CalculateEffectiveGrade: a saved grade is not kept while the *)
(* course is frozen; the limit is not applied; a finished course is graded *)
(* like any other; a finished course returns None for no saved grade.      *)
EffectiveGradeWithoutMax(status, grades, data, saved) ==
    LET calculated == Evaluate(grades, data)
    IN  CASE status = "finished" -> IF saved = None THEN 0 ELSE saved
          [] status = "doreshka" -> AtMost(calculated, DoreshkaLimit)
          [] OTHER -> calculated

EffectiveGradeWithoutLimit(status, grades, data, saved) ==
    LET calculated == Evaluate(grades, data)
    IN  CASE status = "finished" -> IF saved = None THEN 0 ELSE saved
          [] status \in FreezeStatuses /\ saved # None -> AtLeast(saved, calculated)
          [] OTHER -> calculated

EffectiveGradeUnfinished(status, grades, data, saved) ==
    LET calculated == Evaluate(grades, data)
        capped     == IF status = "doreshka"
                      THEN AtMost(calculated, DoreshkaLimit)
                      ELSE calculated
    IN  IF status \in FreezeStatuses /\ saved # None
        THEN AtLeast(saved, capped) ELSE capped

EffectiveGradeOrNone(status, grades, data, saved) ==
    IF status = "finished" THEN saved
    ELSE EffectiveGradeUnfinished(status, grades, data, saved)

(* No saved grade counts as 0 in a finished course; a frozen course keeps  *)
(* the better of the saved and the (limited) calculated grade.             *)
CalculateEffectiveGrade(status, grades, data, saved) ==
    LET calculated == Evaluate(grades, data)
        capped     == IF status = "doreshka"
                      THEN AtMost(calculated, DoreshkaLimit)
                      ELSE calculated
    IN  CASE status = "finished" -> IF saved = None THEN 0 ELSE saved
          [] status \in FreezeStatuses /\ saved # None -> AtLeast(saved, capped)
          [] OTHER -> capped

=============================================================================
