------------------------------ MODULE Exporter ------------------------------
(***************************************************************************)
(* The checker's Exporter: which files of a repository are copied where,   *)
(* by `checker export`, `checker export-private` and before every test.    *)
(*                                                                         *)
(* A repository is a function from paths to contents, a path a sequence of *)
(* names; a directory is a proper prefix of a path.  A structure config    *)
(* names, for each of "ignore", "public" and "private", the names its      *)
(* patterns match: patterns match the last component of a path, one        *)
(* directory level at a time.  The recursion over directories is a fold    *)
(* over the levels of one path, because what happens to a file depends on  *)
(* its own ancestors only.                                                 *)
(***************************************************************************)
EXTENDS Integers, FiniteSets, SequencesExt

CONSTANTS
    Original,       \* Original[n]: the name that the template name n stands for
    Groups,         \* the groups of .manytask.yml, in its order
    TasksOf,        \* TasksOf[g]: the tasks of a group, in the order of .manytask.yml
    DirOf,          \* DirOf[x]: the directory of a group or a task
    Schedule        \* Schedule[g]: the dates of a group, see Deadlines

ASSUME RepositoryAssumption ==
    /\ Groups \in Seq(Range(Groups))
    /\ DOMAIN TasksOf = Range(Groups)
    /\ \A g \in Range(Groups) : TasksOf[g] \in Seq(Range(TasksOf[g]))
    /\ \A g \in Range(Groups) : {g} \cup Range(TasksOf[g]) \subseteq DOMAIN DirOf
    /\ \A x \in DOMAIN DirOf : DirOf[x] \in Seq(Range(DirOf[x]))
    /\ DOMAIN Schedule = Range(Groups)
    /\ DOMAIN Original \cap Range(Original) = {}

Tasks == FlattenSeq([i \in DOMAIN Groups |-> TasksOf[Groups[i]]])

GroupOf(t) == CHOOSE g \in Range(Groups) : t \in Range(TasksOf[g])

------------------------------------------------------------------------------
(* What .manytask.yml says of groups and tasks; c is the configuration.     *)

GroupsWhere(c, enabled) == {g \in Range(Groups) : (g \in c.enabled) = enabled}

EnabledTasks(c) == {t \in Range(Tasks) : {t, GroupOf(t)} \subseteq c.enabled}

NotStarted(now) == {g \in Range(Groups) : Schedule[g].start > now}

\* A group or task is known to the course when its folder holds the config file.
Meta == "meta"
Present(repo, x) == Append(DirOf[x], Meta) \in DOMAIN repo

------------------------------------------------------------------------------
(* The directory tree.                                                      *)

Below(repo, dir) ==
    {p \in DOMAIN repo : Len(p) > Len(dir) /\ SubSeq(p, 1, Len(dir)) = dir}

IsDir(repo, dir) == Below(repo, dir) # {}

Entries(repo, dir) == {p[Len(dir) + 1] : p \in Below(repo, dir)}

Searching == {"search", "search_or_create"}
Creating == {"create", "search_or_create"}

\* Contents that matter to the templates: a file with pairs of comments around
\* the solution, one that is nothing but such a pair, one whose pairs are broken.
Commented == {"marked", "wholly"}

\* With templates to fill the originals are left out, else the templates are;
\* a file that would be empty without its solution is left out either way.
Excluded(repo, dir, opt) ==
    LET templates == IF opt.mode \in Searching
                     THEN Entries(repo, dir) \cap DOMAIN Original ELSE {}
        emptied == IF opt.mode \in Creating
                   THEN {n \in Entries(repo, dir) :
                           /\ Append(dir, n) \in DOMAIN repo
                           /\ repo[Append(dir, n)] = "wholly"}
                   ELSE {}
    IN {IF opt.fill THEN Original[n] ELSE n : n \in templates} \cup emptied

\* An empty template file removes its original.  A template folder is taken for
\* empty when none of its entries exists under the destination joined with the
\* entry's path: an absolute path wins the join and is there, a relative one is
\* looked for where nothing was copied yet.
EmptyTemplate(repo, path, opt) ==
    IF IsDir(repo, path) THEN opt.relative ELSE repo[path] = "empty"

------------------------------------------------------------------------------
(* One path through the directories.                                        *)

Inherit == {"inherit"}

Effective(config, sub) ==
    [f \in DOMAIN config |-> IF sub[f] = Inherit THEN config[f] ELSE sub[f]]

All == [public |-> TRUE, private |-> TRUE, other |-> TRUE]

\* The k-th component of path, reached with walk state w: what the loop over a
\* directory's entries does with it.
Enter(repo, path, opt, w, k) ==
    LET name == path[k]
        here == SubSeq(path, 1, k)
        isDir == k < Len(path)
        isTemplate == opt.mode \in Searching /\ name \in DOMAIN Original
        public == name \in w.config.public
        private == ~public /\ name \in w.config.private
        skipped == \/ SubSeq(path, 1, k - 1) \in opt.skip
                   \/ name \in Excluded(repo, SubSeq(path, 1, k - 1), opt)
                   \/ name \in w.config.ignore
                   \/ public /\ ~w.copy.public
                   \/ private /\ ~w.copy.private
                   \/ ~public /\ ~private /\ ~isDir /\ ~w.copy.other
                   \/ opt.fill /\ isTemplate /\ EmptyTemplate(repo, here, opt)
        whole == isDir /\ (public \/ private)
    IN [kept   |-> w.kept /\ ~skipped,
        dest   |-> Append(w.dest, IF opt.fill /\ isTemplate /\ ~whole
                                  THEN Original[name] ELSE name),
        config |-> IF isDir /\ ~whole /\ here \in DOMAIN opt.sub
                   THEN Effective(w.config, opt.sub[here]) ELSE w.config,
        copy   |-> IF whole THEN All ELSE w.copy]

\* (The bound v makes TLC evaluate the state once per level.)
Walk(repo, path, opt) ==
    FoldLeft(LAMBDA w, k : CHOOSE e \in {Enter(repo, path, opt, v, k) : v \in {w}} : TRUE,
             [kept |-> TRUE, dest |-> <<>>, config |-> opt.config, copy |-> opt.copy],
             [k \in 1..Len(path) |-> k])

(* A mutant of Filled: only the strategy that searches no templates creates them. *)
FilledCreating(content, opt) ==
    IF opt.fill /\ opt.mode = "create" /\ content \in Commented THEN "todo" ELSE content

\* The comments are replaced in the files that are copied with templates filled.
Filled(content, opt) ==
    IF opt.fill /\ opt.mode \in Creating /\ content \in Commented
    THEN "todo" ELSE content

\* Two copies to one place: what is in both is the first one's.
Both(f, g) == [p \in DOMAIN f \cup DOMAIN g |-> IF p \in DOMAIN f THEN f[p] ELSE g[p]]

CopyOf(repo, opt) ==
    LET walk == [p \in DOMAIN repo |-> Walk(repo, p, opt)]
        kept == {p \in DOMAIN repo : walk[p].kept}
    IN [d \in {walk[p].dest : p \in kept} |->
           Filled(repo[CHOOSE p \in kept : walk[p].dest = d], opt)]

------------------------------------------------------------------------------
(* The exports.  c also holds the structure section (structure), the        *)
(* template strategy (mode), the sub-configs of folders (sub) and whether   *)
(* `checker export` is run with a relative path, its default (relative);    *)
(* the other commands are given the absolute path of the testing image.     *)

\* Only the sub-configs of enabled groups and tasks are read.
SubConfigs(repo, c) ==
    LET dirs == {DirOf[x] : x \in {x \in GroupsWhere(c, TRUE) \cup EnabledTasks(c) :
                                     Present(repo, x)}}
    IN [d \in dirs \cap DOMAIN c.sub |-> c.sub[d]]

Options(ref, c, copy, fill, skip) ==
    [copy |-> copy, fill |-> fill, skip |-> skip, config |-> c.structure,
     mode |-> c.mode, sub |-> SubConfigs(ref, c), relative |-> FALSE]

(* A mutant of Unreleased: groups that have not started are handed out. *)
UnreleasedEarly(ref, c, now) ==
    {DirOf[x] : x \in {x \in GroupsWhere(c, FALSE) \cup (Range(Tasks) \ EnabledTasks(c)) :
                         Present(ref, x)}}

Unreleased(ref, c, now) ==
    LET groups == GroupsWhere(c, FALSE) \cup NotStarted(now)
        tasks == (Range(Tasks) \ EnabledTasks(c))
                   \cup {t \in Range(Tasks) : GroupOf(t) \in NotStarted(now)}
    IN {DirOf[x] : x \in {x \in groups \cup tasks : Present(ref, x)}}

Handed == [public |-> TRUE, private |-> FALSE, other |-> TRUE]
Others == [public |-> FALSE, private |-> FALSE, other |-> TRUE]
Teachers == [public |-> TRUE, private |-> TRUE, other |-> FALSE]

ExportPublic(ref, c, now) ==
    CopyOf(ref, [Options(ref, c, Handed, TRUE, Unreleased(ref, c, now))
                   EXCEPT !.relative = c.relative])

(* A mutant of ExportPrivate: a group that starts now is not in the image. *)
ExportPrivateLate(ref, c, now) ==
    LET skip == Unreleased(ref, c, now - 1)
    IN Both(CopyOf(ref, Options(ref, c, Teachers, FALSE, skip)),
            CopyOf(ref, Options(ref, c, Others, TRUE, skip)))

ExportPrivate(ref, c, now) ==
    LET skip == Unreleased(ref, c, now)
    IN Both(CopyOf(ref, Options(ref, c, Teachers, FALSE, skip)),
            CopyOf(ref, Options(ref, c, Others, TRUE, skip)))

(* A mutant of ExportForTesting: all of the student's files are taken. *)
ExportForTestingOver(root, ref, c) ==
    Both(CopyOf(root, Options(ref, c, All, FALSE, {})),
         CopyOf(ref, Options(ref, c, Teachers, FALSE, {})))

ExportForTesting(root, ref, c) ==
    Both(CopyOf(ref, Options(ref, c, Teachers, FALSE, {})),
         CopyOf(root, Options(ref, c, Others, FALSE, {})))

------------------------------------------------------------------------------
(* `checker validate`: every enabled task is there and has its templates.   *)

ValidTask(ref, c, t) ==
    LET files == Below(ref, DirOf[t])
        places == UNION {{SubSeq(p, 1, k) : k \in (Len(DirOf[t]) + 1)..Len(p)} : p \in files}
        templates == {p \in places : Last(p) \in DOMAIN Original}
        sibling(p) == Append(Front(p), Original[Last(p)])
        comments == \E p \in files : ref[p] \in Commented
    IN /\ \A p \in templates : sibling(p) \in places
       /\ \A p \in files : ref[p] # "unpaired"
       /\ CASE c.mode = "search" -> ~comments /\ templates # {}
            [] c.mode = "create" -> comments /\ templates = {}
            [] OTHER -> comments # (templates # {})

ValidCourse(ref, c) ==
    \A t \in EnabledTasks(c) : Present(ref, t) /\ ValidTask(ref, c, t)
=============================================================================
