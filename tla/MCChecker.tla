----------------------------- MODULE MCChecker -----------------------------
(* Instances of Grading: a course of two groups and three tasks.           *)
EXTENDS Grading

Names == [tpl \in {"sol.tpl", "src.tpl"} |-> IF tpl = "sol.tpl" THEN "sol" ELSE "src"]
Order == <<"g1", "g2">>
Contents == [g1 |-> <<"a", "b">>, g2 |-> <<"c">>]
Places == [g1 |-> <<"g1">>, a |-> <<"g1", "a">>, b |-> <<"g1", "b">>,
           g2 |-> <<"g2">>, c |-> <<"g2", "c">>]

At(n) == [at |-> n, delta |-> FALSE]
Dates == [g1 |-> [start |-> 0, steps |-> <<[mult |-> 50, when |-> At(2)]>>, end |-> At(4)],
          g2 |-> [start |-> 1, steps |-> <<>>, end |-> [at |-> 2, delta |-> TRUE]]]

\* The same with the step as a delay.
DelayedDates == [Dates EXCEPT !["g1"].steps[1].when.delta = TRUE]

In(t, files) == [p \in {Append(DirOf[t], n) : n \in DOMAIN files} |-> files[Last(p)]]

\* One task with a template file, one with comments in its solution and a file
\* that only its own config makes private, one with a template folder.
Files ==
    In("g1", [meta |-> "plain"])
      @@ In("a", ("sol.tpl" :> "template") @@
                 [meta |-> "plain", tests |-> "v1", hidden |-> "secret", sol |-> "gold"])
      @@ In("b", [meta |-> "plain", tests |-> "v1", extra |-> "secret", sol |-> "marked"])
      @@ In("c", [meta |-> "plain", tests |-> "v1"])
      @@ (<<"g2", "c", "src", "sol">> :> "gold") @@ (<<"g2", "c", "src.tpl", "sol">> :> "template")

Rules(ignored, secret, shown) == [ignore |-> ignored, private |-> secret, public |-> shown]

Stage(run, fail, partial, key, needs, when) ==
    [run |-> run, fail |-> fail, partial |-> partial, key |-> key, needs |-> needs, when |-> when,
     weights |-> <<>>, strategy |-> "mean"]

Report == <<Stage("report", "fast", FALSE, None, <<"passed">>, "always")>>
Testing(run, fail, partial) == <<Stage(run, fail, partial, "passed", <<>>, "testing")>>

Everything == {"g1", "g2", "a", "b", "c"}

Course ==
    [enabled |-> Everything, plans |-> {}, messages |-> {{}}, touched |-> {"sol"}, relative |-> TRUE,
     structure |-> Rules({"junk"}, {"hidden"}, {"meta", "tests"}),
     sub |-> (Places["b"] :> Rules(Inherit, {"extra"}, Inherit)),
     mode |-> "search_or_create", detect |-> "last_commit_changes",
     kind |-> "hard", window |-> 0, testing |-> {"a", "b", "c"}, own |-> <<>>,
     pipes |-> [global |-> <<>>, task |-> Testing("share", "fast", FALSE), report |-> Report]]

Budget(ticks, revisions, edits, faults) ==
    [ticks |-> ticks, revisions |-> revisions, edits |-> edits, faults |-> faults]

From(c, budget) == [files |-> Files, conf |-> c, budget |-> budget]

\* Teachers revise the course, twice or while a group opens; a student follows.
Publishing ==
    {From([Course EXCEPT !.pipes.task = Testing("tests", "fast", FALSE),
                         !.enabled = Everything \ {"b"},
                         !.plans = {Everything} \cup IF twice THEN {} ELSE {Everything \ {"g2"}}],
          IF twice THEN Budget(0, 2, 0, 0) ELSE Budget(1, 1, 0, 0)) : twice \in BOOLEAN}

\* The student writes and removes files of every kind.
Tampering ==
    {From([Course EXCEPT !.touched = {"meta", "tests", "hidden", "extra", "sol"}],
          Budget(0, 0, 2, 0))}

\* Pipelines of several stages with every way to fail, own pipelines of a task
\* and a group, a task without tests, and all that may select tasks.
Style(fail, key) == Stage("script", fail, FALSE, key, <<>>, "always")
Unit == Stage("tests", "after_all", TRUE, "unit", <<>>, "always")
Total(strategy, weights) ==
    <<[Stage("aggregate", "fast", FALSE, "passed", <<"unit", "style">>, "always")
         EXCEPT !.strategy = strategy, !.weights = weights]>>

Named == [Course EXCEPT !.detect = "commit_message",
                        !.messages = {{"a", "b"}, {"a", "g2"}, {"g1"}}]

Pipelines ==
    {[Named EXCEPT !.pipes.task = <<Style(fail, "style"), Unit>> \o Total(strategy, <<>>),
                   !.pipes.global = <<Style("fast", None)>>] :
        fail \in {"fast", "after_all", "never"}, strategy \in {"mean", "min"}}
      \cup {[Named EXCEPT !.testing = off] : off \in {{"a"}, {"b"}}}
      \cup {[Named EXCEPT !.own = [b |-> [task |-> Testing(plugin, "after_all", partial)],
                                   g1 |-> [task |-> Testing("share", "never", FALSE)
                                                      \o <<Stage("script", "fast", FALSE, None, <<>>, "passed")>>]],
                          !.detect = "branch_name", !.messages = {{"b"}, {"g1"}}] :
               plugin \in {"tests", "script"}, partial \in BOOLEAN}
      \cup {[Named EXCEPT !.detect = "files_changed", !.messages = {{"a"}}]}

Stages == {From(c, Budget(0, 0, 1, 1)) : c \in Pipelines}

\* Two jobs of one student at a time report the same task, and answers get lost.
Twice == {From([Named EXCEPT !.messages = {{"a"}}], Budget(0, 0, 2, 2))}

\* Jobs that start before and after a deadline, in every type of schedule.
Scheduling ==
    {From([Course EXCEPT !.kind = type[1], !.window = type[2], !.plans = {Everything \ {"g2"}}],
          budget) :
        type \in {<<"hard", 0>>, <<"interpolate", 0>>, <<"interpolate", 2>>},
        budget \in {Budget(5, 1, 0, 0), Budget(5, 0, 1, 0)}}

Instances == Publishing \cup Tampering \cup Stages \cup Twice \cup Scheduling

\* The instances keep to the documentation, as the theorems on its jobs suppose.
ASSUME LastHere == ReportsLast
ASSUME AlwaysHere == ReportsAlways
ASSUME OwnHere == OwnScores
ASSUME FoldersHere == PlainFolders /\ FoldersApart /\ AllPresent
ASSUME ContentsHere == KeptBack /\ TestsAreListed /\ SolutionsAreOpen /\ ConfigsTravel
=============================================================================
