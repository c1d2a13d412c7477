----------------------------- MODULE Deadlines -----------------------------
(***************************************************************************)
(* The share of a score that is left at a moment, as the checker computes  *)
(* it for its pipelines and as manytask computes it when a score arrives.  *)
(*                                                                         *)
(* A group has a start, steps in the order of the file (mult, when) and an *)
(* end; a date is [at, delta]: a moment, or a delay counted from the start *)
(* when delta holds.  Shares are whole percents.                           *)
(* (Selections are folds here, for proofs to look into.)                   *)
(***************************************************************************)
EXTENDS Integers, SequencesExt

Whole == 100

\* What a division by a window of zero length leaves the checker with.
NoPercent == -1

\* The elements of a sequence that are in S, in their order.
Among(s, S) == FoldLeft(LAMBDA kept, x : IF x \in S THEN Append(kept, x) ELSE kept, <<>>, s)

Date == [at : Int, delta : BOOLEAN]
IsSchedule(g) == /\ g \in [start : Int, steps : Seq([mult : Int, when : Date]), end : Date]
                 /\ \A i, j \in DOMAIN g.steps : g.steps[i].mult = g.steps[j].mult => i = j

DateOf(g, d) == IF d.delta THEN g.start + d.at ELSE d.at

\* check_dates: the dates of a group as both configurations accept them.
ValidDates(g) ==
    /\ IF g.end.delta THEN g.end.at >= 0 ELSE g.end.at >= g.start
    /\ \A i \in DOMAIN g.steps :
         /\ IF g.steps[i].when.delta THEN g.steps[i].when.at >= 0
                                     ELSE g.steps[i].when.at > g.start
         /\ DateOf(g, g.steps[i].when)
              > IF i = 1 THEN g.start ELSE DateOf(g, g.steps[i - 1].when)

\* Giving the dates of a group their time zone keeps the steps that are moments.
Localised(g) ==
    [g EXCEPT !.steps = Among(@, {s \in Range(@) : ~s.when.delta})]

\* The shares with the date each is good until, and with the date it begins at.
\* The checker's are a dictionary: of two equal shares the first keeps its place,
\* with the date of the last.
Turns(g) == 1..(Len(g.steps) + 1)
Share(g, i) == IF i = 1 THEN Whole ELSE g.steps[i - 1].mult
Until(g, i) == DateOf(g, IF i <= Len(g.steps) THEN g.steps[i].when ELSE g.end)
Before(g) ==
    [i \in Turns(g) |->
       [percent |-> Share(g, i),
        date |-> Until(g, Max({j \in Turns(g) : Share(g, j) = Share(g, i)}))]]
After(g) ==
    [i \in Turns(g) |->
       [percent |-> Share(g, i),
        date |-> IF i = 1 THEN g.start ELSE DateOf(g, g.steps[i - 1].when)]]

\* The checker: the first share whose date has not passed; an interpolating
\* course slides to it from the one before, over a window after its date.
CheckerPercent(g, kind, window, now) ==
    LET ps == Before(g)
        open == {i \in DOMAIN ps : now <= ps[i].date}
        i == Min(open)
        since == IF i = 1 THEN now ELSE ps[i - 1].date
        was == IF i = 1 THEN Whole ELSE ps[i - 1].percent
    IN CASE open = {} -> 0
         [] open # {} /\ kind = "hard" -> ps[i].percent
         [] open # {} /\ kind # "hard" /\ window = 0 -> NoPercent
         [] OTHER -> IF now - since >= window THEN ps[i].percent
                     ELSE was - ((now - since) * (was - ps[i].percent)) \div window

(* A mutant of ServerPercent: a step begins where the one before it does. *)
ServerPercentEarly(g, kind, now) ==
    LET open == {i \in DOMAIN Before(g) : now <= Before(g)[i].date}
    IN IF open = {} THEN 0 ELSE Before(g)[Max(open)].percent

\* manytask: nothing from the end on; else the last share that has begun, in an
\* interpolating course on the line to the next one.
ServerPercent(g, kind, now) ==
    LET ps == After(g)
        begun == {i \in DOMAIN ps : now >= ps[i].date}
        i == Max(begun)
    IN IF now >= DateOf(g, g.end) \/ begun = {} THEN 0
       ELSE IF kind = "hard" \/ i = Len(ps) THEN ps[i].percent
       ELSE ps[i].percent + ((now - ps[i].date) * (ps[i + 1].percent - ps[i].percent))
                              \div (ps[i + 1].date - ps[i].date)
=============================================================================
