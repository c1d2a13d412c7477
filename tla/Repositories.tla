---------------------------- MODULE Repositories ----------------------------
(***************************************************************************)
(* The repositories of a course and what moves files between them: the     *)
(* teachers' private repository, the testing image that carries an         *)
(* export of it, the public repository students start from, and one        *)
(* student's repository.                                                   *)
(*                                                                         *)
(* The operations on the private side are run by the course's own CI (see  *)
(* Grading); the merges and edits of teachers and students are git's and   *)
(* theirs, not the program's.                                              *)
(***************************************************************************)
EXTENDS Exporter, Deadlines

ASSUME ScheduleAssumption == 
    \A g \in Range(Groups) : IsSchedule(Schedule[g]) /\ ValidDates(Schedule[g])

VARIABLES
    clock,          \* the time, in the units of Schedule
    reference,      \* the files of the private repository
    conf,           \* the .checker.yml and .manytask.yml in it
    image,          \* the newest testing image, an Export
    public,         \* the public repository, an Export
    work,           \* the student's repository: [tree, base, last, named]
    left            \* how many more edits, pushes, ... are made (a bound)

repositories == <<clock, reference, conf, image, public, work, left>>

\* What the names and contents of files mean to people.
TeacherSide == {"v1", "v2", "secret"}
SolutionSide == {"gold", "marked", "wholly"}
Solutions(tree) == {p \in DOMAIN tree : tree[p] \in SolutionSide}

\* A repository: no file is a directory too.
IsTree(tree) ==
    /\ \A p \in DOMAIN tree : p \in Seq(Range(p)) /\ p # <<>>
    /\ \A p, q \in DOMAIN tree : Len(p) < Len(q) => SubSeq(q, 1, Len(p)) # p

\* p is the folder of x, or below it.
Under(p, x) == Len(p) >= Len(DirOf[x]) /\ SubSeq(p, 1, Len(DirOf[x])) = DirOf[x]

\* What courses do, and no code checks: no folder of a task or of its config file
\* is, or has the name of, a template; and it is in no folder of another task or
\* group than its own, whose names differ.
PlainFolders ==
    \A t \in Range(Tasks) :
        (Range(DirOf[t]) \cup {Meta}) \cap (DOMAIN Original \cup Range(Original)) = {}
FoldersApart ==
    /\ Range(Groups) \cap Range(Tasks) = {}
    /\ \A t \in Range(Tasks), x \in Range(Groups) \cup Range(Tasks) :
         Under(DirOf[t], x) => x \in {t, GroupOf(t)}

\* The folders with a structure section of their own, and what p[k] goes by in a
\* field: the nearest section above it that does not inherit the field.
Homes(files, c) ==
    {DirOf[x] : x \in {x \in Range(Groups) \cup Range(Tasks) : Present(files, x)}} \cap DOMAIN c.sub
RuleAt(files, c, p, k, f) ==
    LET own == {j \in 1..(k - 1) : SubSeq(p, 1, j) \in Homes(files, c)
                                     /\ c.sub[SubSeq(p, 1, j)][f] # Inherit}
    IN IF own = {} THEN c.structure[f] ELSE c.sub[SubSeq(p, 1, Max(own))][f]

\* All that p[k] may go by, when the sections of some tasks are not read.
RulesFor(c, p, k, f) ==
    {c.structure[f]} \cup ({c.sub[SubSeq(p, 1, j)][f] :
                             j \in {j \in 1..(k - 1) : SubSeq(p, 1, j) \in DOMAIN c.sub}} \ {Inherit})

\* A file that is private, or in a private folder, and in no public one before.
Hidden(files, c, p) ==
    \E k \in 1..Len(p) :
        /\ p[k] \in RuleAt(files, c, p, k, "private") \ RuleAt(files, c, p, k, "public")
        /\ \A j \in 1..(k - 1) : p[j] \notin RuleAt(files, c, p, j, "public")

\* A file that has a template, or is in a folder that has one.
Templated(files, c, p) ==
    /\ c.mode \in Searching
    /\ \E k \in 1..Len(p) :
         \E n \in Entries(files, SubSeq(p, 1, k - 1)) \cap DOMAIN Original : Original[n] = p[k]

\* A file that is public, and one that is not listed at all, whatever is read.
Shown(c, p) ==
    \E k \in 1..Len(p) : \A rule \in RulesFor(c, p, k, "public") : p[k] \in rule
Unlisted(c, p) ==
    \A k \in 1..Len(p), f \in {"ignore", "public", "private"} :
        \A rule \in RulesFor(c, p, k, f) : p[k] \notin rule

\* What an export made: the files, with the configuration among them and the
\* time it was made at.
Export(tree, c, now) == [tree |-> tree, conf |-> c, at |-> now]

\* A course that has been set up: the first image is built, the first export
\* is published, and the student has just forked it.
InitRepositories(tree, c) ==
    /\ clock = 0
    /\ reference = tree
    /\ conf = c
    /\ image = Export(ExportPrivate(tree, c, 0), c, 0)
    /\ public = Export(ExportPublic(tree, c, 0), c, 0)
    /\ work = [tree |-> public.tree, base |-> public.tree, last |-> {}, named |-> {}]

------------------------------------------------------------------------------
Spend(what) == left[what] > 0 /\ left' = [left EXCEPT ![what] = @ - 1]

Tick ==
    /\ Spend("ticks")
    /\ clock' = clock + 1
    /\ UNCHANGED <<reference, conf, image, public, work>>

\* Teachers write new tests, break their own solution, or enable and disable
\* groups and tasks.
Replaced(tree, old, new) == [p \in DOMAIN tree |-> IF tree[p] = old THEN new ELSE tree[p]]
Revisions(tree) == {tree, Replaced(tree, "v1", "v2"), Replaced(tree, "gold", "work")}
Revise(tree, c) ==
    /\ reference' = tree
    /\ conf' = c

\* The image and the public repository follow a checkout of the private one.
BuildImage(tree, c) == image' = Export(ExportPrivate(tree, c, clock), c, clock)
Publish(tree, c) == public' = Export(ExportPublic(tree, c, clock), c, clock)

------------------------------------------------------------------------------
(* The student's side.                                                      *)

\* One commit that writes or removes a file; it names tasks or groups in its
\* message, or is made on a branch of that name.  conf.touched bounds the names
\* of the files, conf.messages what commits name.
Edit ==
    /\ Spend("edits")
    /\ \E p \in {p \in DOMAIN work.tree \cup DOMAIN reference : Last(p) \in conf.touched},
          write \in BOOLEAN, named \in conf.messages :
         /\ write \/ p \in DOMAIN work.tree
         /\ work' = [work EXCEPT
                !.last = {p},
                !.named = named,
                !.tree = IF write
                         THEN Both([q \in {p} |-> IF p \in Solutions(reference)
                                                   THEN "work" ELSE "edited"], @)
                         ELSE [q \in DOMAIN @ \ {p} |-> @[q]]]
    /\ UNCHANGED <<clock, reference, conf, image, public>>

\* Merging the public repository: what the student changed or removed stays.
Pull ==
    LET mine == {p \in DOMAIN work.tree :
                   p \notin DOMAIN work.base \/ work.tree[p] # work.base[p]}
        removed == DOMAIN work.base \ DOMAIN work.tree
        merged == [p \in mine \cup (DOMAIN public.tree \ removed) |->
                     IF p \in mine THEN work.tree[p] ELSE public.tree[p]]
    IN /\ public.tree # work.base
       /\ work' = [work EXCEPT
              !.tree = merged, !.base = public.tree, !.named = {},
              !.last = {p \in DOMAIN merged :
                          p \notin DOMAIN work.tree \/ merged[p] # work.tree[p]}]
       /\ UNCHANGED <<clock, reference, conf, image, public, left>>

------------------------------------------------------------------------------
(* Properties of the exports.                                               *)

\* Nothing students must not see is ever public: no gold solution, in whole or
\* between template comments, and no private file.  (export_public, over every
\* structure section, sub-config and template strategy.)
OnlyHandouts ==
    \A p \in DOMAIN public.tree : public.tree[p] \notin SolutionSide \cup {"secret"}

\* No file under the folder of a task is public while the task or its group was
\* disabled or not open yet.  (export_public and its list of what to skip.)
OnlyReleased ==
    \A p \in DOMAIN public.tree : \A t \in Range(Tasks) :
      Under(p, t) => /\ t \in EnabledTasks(public.conf)
                     /\ Schedule[GroupOf(t)].start <= public.at

\* A task that was handed out can be graded: unless its group opened only after
\* the testing image was built, the image has it.  (export_public and
\* export_private leave out the same tasks, at different times.)
HandedOutIsGradable ==
    \A t \in EnabledTasks(image.conf) :
      Present(public.tree, t) /\ Schedule[GroupOf(t)].start <= image.at
        => Present(image.tree, t)

=============================================================================
