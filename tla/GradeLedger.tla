---------------------------- MODULE GradeLedger ----------------------------
(***************************************************************************)
(* What users rely on in the grade book, without transactions, row locks,  *)
(* tasks that move or formulas: a ledger with a cell for each student and  *)
(* task.  A request that asks for points takes effect on its cell at one   *)
(* moment, or never, and is answered with success only after that moment;  *)
(* a strict one only once the grade of its student was saved after it.     *)
(* All other requests leave the cells alone, and grades are only replaced  *)
(* by grades.                                                              *)
(***************************************************************************)
EXTENDS Integers

CONSTANTS
    Students, Tasks, Requests,
    Asks,       \* what requests ask for: [student, task, points, reduce]
    Strict,     \* those that succeed only with the grade saved
    Grades, None, NoRow

VARIABLES
    cell,       \* cell[s][t]: the score of a student for a task, or NoRow
    grade,      \* grade[s]: the grade that is saved, or None
    ask,        \* ask[r]: what a request asks for, None if it stores nothing
    stage       \* stage[r]: how far a request has come

ledgerVars == <<cell, grade, ask, stage>>

InitLedger ==
    /\ cell \in [Students -> [Tasks -> Int \cup {NoRow}]]
    /\ grade \in [Students -> Grades \cup {None}]
    /\ ask = [r \in Requests |-> None]
    /\ stage = [r \in Requests |-> "idle"]

Becomes(r, s) == stage' = [stage EXCEPT ![r] = s]

\* Points raise what is stored, unless that is negative; a reduction replaces it.
Merged(old, q) ==
    LET base == IF old = NoRow THEN 0 ELSE old
    IN  IF q.reduce \/ (0 <= base /\ base < q.points) THEN q.points ELSE base

\* ask'[r] is any of Asks: the mapped state has it already.
Ask(r) ==
    /\ stage[r] = "idle"
    /\ ask'[r] \in Asks /\ ask' = [ask EXCEPT ![r] = ask'[r]]
    /\ Becomes(r, "asked") \/ Becomes(r, "dropped")
    /\ UNCHANGED <<cell, grade>>

\* A request that stores no score.
Other(r) ==
    /\ stage[r] = "idle"
    /\ Becomes(r, "batch") \/ Becomes(r, "done") \/ Becomes(r, "dropped")
    /\ UNCHANGED <<cell, grade, ask>>

Store(r) ==
    LET q == ask[r] IN
    /\ stage[r] = "asked" /\ Becomes(r, "stored")
    /\ cell' = [cell EXCEPT ![q.student][q.task] = Merged(@, q)]
    /\ UNCHANGED <<grade, ask>>

Save(r) ==
    LET s == ask[r].student IN
    /\ stage[r] = "stored" /\ Becomes(r, "done")
    /\ grade'[s] \in Grades /\ grade' = [grade EXCEPT ![s] = grade'[s]]
    /\ UNCHANGED <<cell, ask>>

Recalculate(r) ==
    /\ stage[r] = "batch" /\ Becomes(r, "done")
    /\ grade' = [s \in Students |-> grade'[s]]
    /\ \A s \in Students : grade'[s] \in Grades \cup {grade[s]}
    /\ UNCHANGED <<cell, ask>>

\* Success without a grade saved: points are in their cell all the same.
Answer(r) ==
    /\ \/ stage[r] = "stored" /\ ask[r] \notin Strict
       \/ stage[r] = "batch"
    /\ Becomes(r, "done")
    /\ UNCHANGED <<cell, grade, ask>>

\* Refused, or broken off: what was stored stays.
Drop(r) ==
    /\ stage[r] \in {"asked", "stored", "batch"} /\ Becomes(r, "dropped")
    /\ UNCHANGED <<cell, grade, ask>>

LedgerStep ==
    \E r \in Requests : \/ Ask(r) \/ Other(r) \/ Store(r) \/ Save(r) \/ Recalculate(r)
                        \/ Answer(r) \/ Drop(r)

LedgerSpec == InitLedger /\ [][LedgerStep]_ledgerVars
=============================================================================
