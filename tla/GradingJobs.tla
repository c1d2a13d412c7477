---------------------------- MODULE GradingJobs ----------------------------
(***************************************************************************)
(* What a course relies on in its CI jobs, without pipelines, files or     *)
(* plugins: a job that was queued takes a sequence of tasks or none, takes *)
(* them one after the other, changes no score but the one of the task at   *)
(* hand, never lowers it, and comes to an end.  A rehearsal, the check of  *)
(* the teachers' own solutions, changes no score at all.                   *)
(***************************************************************************)
EXTENDS Naturals, Sequences

CONSTANTS Jobs, Subjects

VARIABLES
    job,        \* job[j]: [state, rehearsal, pending]
    best        \* best[t]: the score of a task

jobVars == <<job, best>>

States == {"waiting", "working", "over"}

Becomes(j, state, pending) ==
    job' = [job EXCEPT ![j].state = state, ![j].pending = pending]

InitJobs ==
    /\ job = [j \in Jobs |-> [state |-> "over", rehearsal |-> FALSE, pending |-> <<>>]]
    /\ best = [t \in Subjects |-> 0]

Accept(j) ==
    /\ job[j].state = "over"
    /\ \E rehearsal \in BOOLEAN :
         job' = [job EXCEPT ![j] = [state |-> "waiting", rehearsal |-> rehearsal, pending |-> <<>>]]
    /\ UNCHANGED best

\* pending' is any sequence of tasks: the mapped state has it already.
Take(j) ==
    /\ job[j].state = "waiting"
    /\ \A i \in DOMAIN job'[j].pending : job'[j].pending[i] \in Subjects
    /\ Becomes(j, "working", job'[j].pending)
    /\ UNCHANGED best

Settle(j) ==
    /\ job[j].state = "working" /\ job[j].pending # <<>>
    /\ Becomes(j, "working", Tail(job[j].pending))
    /\ UNCHANGED best

\* The score of the task at hand goes up; the job goes on, or breaks off.
Record(j) ==
    LET t == Head(job[j].pending) IN
    /\ job[j].state = "working" /\ job[j].pending # <<>> /\ ~job[j].rehearsal
    /\ best' = [best EXCEPT ![t] = best'[t]]
    /\ best'[t] >= best[t]
    /\ \/ UNCHANGED job
       \/ Becomes(j, "over", <<>>)

\* A job ends when all is settled, or breaks off before.
End(j) ==
    /\ job[j].state # "over"
    /\ Becomes(j, "over", <<>>)
    /\ UNCHANGED best

Step == \E j \in Jobs : Accept(j) \/ Take(j) \/ Settle(j) \/ Record(j) \/ End(j)

Ends == \A j \in Jobs : job[j].state = "waiting" ~> job[j].state = "over"

JobsSafety == InitJobs /\ [][Step]_jobVars
=============================================================================
