---------------------------- MODULE ExportProofs ----------------------------
(***************************************************************************)
(* Proofs of what is published: only tasks that have opened, only tasks    *)
(* the testing image can grade, only tasks that were checked, and nothing  *)
(* that is to be kept back; and of whose tests a job runs.                 *)
(*                                                                         *)
(* A path is followed through an export one level after the other; what    *)
(* the public export keeps on the way to a task's config file, one of the  *)
(* two copies that make the image keeps too.                               *)
(***************************************************************************)
EXTENDS GradingProofs

\* Where a walk begins.

Setting(opt) == [kept |-> TRUE, dest |-> <<>>, config |-> opt.config, copy |-> opt.copy]

(* h walks: on the first levels of a path, as on every set of levels.       *)
Walks(h, repo, path, opt, n) ==
    /\ h = [S \in SUBSET (1..n) |-> h[S]]
    /\ \A S \in SUBSET (1..n) :
         h[S] = IF S = {} THEN Setting(opt)
                ELSE Enter(repo, path, opt, h[S \ {Max(S)}], Max(S))

LEMMA WithoutMax ==
  ASSUME NEW k \in Nat, NEW S, S \subseteq 1..(k + 1), S # {}
  PROVE  Max(S) \in 1..(k + 1) /\ S \ {Max(S)} \in SUBSET (1..k)
<1>1. k + 1 \in Nat
  OBVIOUS
<1>2. PICK m : m = Max(S)
  OBVIOUS
<1>3. m \in S /\ \A y \in S : y <= m
  BY <1>1, <1>2, MaxIs
<1>4. S \ {m} \subseteq 1..k
  BY <1>3
<1> QED  BY <1>2, <1>3, <1>4

(* The walk along a path, one level after the other.                        *)
LEMMA WalkExists ==
  ASSUME NEW repo, NEW path, NEW opt, NEW n \in Nat
  PROVE  \E h : Walks(h, repo, path, opt, n)
<1> DEFINE Rec(h, k) == /\ h = [S \in SUBSET (1..k) |-> h[S]]
                        /\ \A S \in SUBSET (1..k) :
                             h[S] = IF S = {} THEN Setting(opt)
                                    ELSE Enter(repo, path, opt, h[S \ {Max(S)}], Max(S))
           T == {k \in Nat : \E h : Rec(h, k)}
<1>1. 0 \in T
  <2>1. SUBSET (1..0) = {{}}
    OBVIOUS
  <2> DEFINE h == [S \in SUBSET (1..0) |-> Setting(opt)]
  <2>2. Rec(h, 0)
    BY <2>1
  <2> QED  BY <2>2
<1>2. ASSUME NEW k \in Nat, NEW g, Rec(g, k) PROVE \E h : Rec(h, k + 1)
  <2> DEFINE At(S) == IF S = {} THEN Setting(opt)
                      ELSE Enter(repo, path, opt, g[S \ {Max(S)}], Max(S))
             h == [S \in SUBSET (1..(k + 1)) |-> At(S)]
  <2>1. ASSUME NEW S \in SUBSET (1..k) PROVE g[S] = At(S)
    <3>1. g[S] = IF S = {} THEN Setting(opt)
                 ELSE Enter(repo, path, opt, g[S \ {Max(S)}], Max(S))
      BY <1>2
    <3> QED  BY <3>1
  <2>2. \A S \in SUBSET (1..(k + 1)) : h[S] = At(S)
    OBVIOUS
  <2>3. ASSUME NEW S \in SUBSET (1..(k + 1)), S # {} PROVE S \ {Max(S)} \in SUBSET (1..k)
    BY <2>3, WithoutMax
  <2>4. ASSUME NEW S \in SUBSET (1..(k + 1)), S # {}
        PROVE  h[S \ {Max(S)}] = g[S \ {Max(S)}]
    <3>1. S \ {Max(S)} \in SUBSET (1..k) /\ S \ {Max(S)} \in SUBSET (1..(k + 1))
      BY <2>3, <2>4
    <3> HIDE DEF At, h
    <3> QED  BY <2>1, <2>2, <3>1
  <2>5. ASSUME NEW S \in SUBSET (1..(k + 1))
        PROVE  h[S] = IF S = {} THEN Setting(opt)
                      ELSE Enter(repo, path, opt, h[S \ {Max(S)}], Max(S))
    <3>1. CASE S = {}
      BY <2>2, <3>1
    <3>2. CASE S # {}
      <4>1. h[S] = Enter(repo, path, opt, g[S \ {Max(S)}], Max(S))
        BY <2>2, <3>2
      <4> HIDE DEF h
      <4> QED  BY <2>4, <3>2, <4>1
    <3> QED  BY <3>1, <3>2
  <2>6. h = [S \in SUBSET (1..(k + 1)) |-> h[S]]
    OBVIOUS
  <2> HIDE DEF h
  <2> QED  BY <2>5, <2>6
<1>3. \A k \in Nat : k \in T => k + 1 \in T
  <2> SUFFICES ASSUME NEW k \in Nat, k \in T PROVE \E h : Rec(h, k + 1)
    <3> HIDE DEF Rec
    <3> QED  OBVIOUS
  <2>1. PICK g : Rec(g, k)
    <3> HIDE DEF Rec
    <3> QED  OBVIOUS
  <2> HIDE DEF Rec
  <2> QED  BY <1>2, <2>1
<1>4. Nat \subseteq T
  <2> HIDE DEF T
  <2> QED  BY <1>1, <1>3, SetInduction
<1> QED  BY <1>4 DEF Walks

LEMMA WalkIs ==
  ASSUME NEW repo, NEW path, NEW opt, Len(path) \in Nat
  PROVE  \E W : /\ W[0] = Setting(opt)
                /\ \A k \in 1..Len(path) : W[k] = Enter(repo, path, opt, W[k - 1], k)
                /\ Walk(repo, path, opt) = W[Len(path)]
<1> DEFINE n == Len(path)
           s == [k \in 1..n |-> k]
           Rec(g) == [S \in SUBSET DOMAIN s |->
                        IF S = {} THEN [kept |-> TRUE, dest |-> <<>>, config |-> opt.config, copy |-> opt.copy]
                        ELSE CHOOSE e \in {Enter(repo, path, opt, v, s[Max(S)]) : v \in {g[S \ {Max(S)}]}} : TRUE]
           G == CHOOSE g : g = Rec(g)
<1>1. Walk(repo, path, opt) = G[DOMAIN s]
  BY DEF Walk, FoldLeft, MapThenFoldSet
<1>2. \E g : g = Rec(g)
  <2>0. n \in Nat
    OBVIOUS
  <2>9. PICK h : Walks(h, repo, path, opt, n)
    <3> HIDE DEF n
    <3> QED  BY <2>0, WalkExists
  <2>1. /\ h = [S \in SUBSET (1..n) |-> h[S]]
        /\ \A S \in SUBSET (1..n) :
             h[S] = IF S = {} THEN Setting(opt)
                    ELSE Enter(repo, path, opt, h[S \ {Max(S)}], Max(S))
    BY <2>9 DEF Walks
  <2> DEFINE Once(S) == IF S = {} THEN [kept |-> TRUE, dest |-> <<>>, config |-> opt.config, copy |-> opt.copy]
                        ELSE CHOOSE e \in {Enter(repo, path, opt, v, s[Max(S)]) : v \in {h[S \ {Max(S)}]}} : TRUE
  <2>2. ASSUME NEW S \in SUBSET (1..n) PROVE h[S] = Once(S)
    <3>1. CASE S = {}
      BY <2>1, <3>1 DEF Setting
    <3>2. CASE S # {}
      <4>1. Max(S) \in 1..n
        BY <3>2, MaxIs
      <4>2. s[Max(S)] = Max(S)
        BY <4>1
      <4> DEFINE last == Max(S)
                 before == h[S \ {Max(S)}]
      <4>3. h[S] = Enter(repo, path, opt, before, last)
        BY <2>1, <3>2
      <4>4. Once(S) = CHOOSE e \in {Enter(repo, path, opt, v, last) : v \in {before}} : TRUE
        BY <3>2, <4>2
      <4> HIDE DEF last, before, Once
      <4>5. {Enter(repo, path, opt, v, last) : v \in {before}} = {h[S]}
        BY <4>3
      <4> QED  BY <4>4, <4>5
    <3> QED  BY <3>1, <3>2
  <2>3. DOMAIN s = 1..n
    OBVIOUS
  <2>4. Rec(h) = [S \in SUBSET (1..n) |-> Once(S)]
    BY <2>3
  <2> HIDE DEF Once, Rec
  <2>5. h = Rec(h)
    <3>1. h = [S \in SUBSET (1..n) |-> h[S]]
      BY <2>1
    <3> QED  BY <2>2, <2>4, <3>1
  <2> QED  BY <2>5
<1>3. G = Rec(G)
  BY <1>2
<1> HIDE DEF G
<1> DEFINE W == [k \in 0..n |-> G[1..k]]
<1>4. W[0] = Setting(opt) /\ W[n] = G[DOMAIN s]
  <2>1. 1..0 = {} /\ {} \in SUBSET DOMAIN s
    OBVIOUS
  <2>2. G[{}] = Setting(opt)
    BY <1>3, <2>1 DEF Setting
  <2>3. W[0] = G[1..0] /\ W[n] = G[1..n] /\ DOMAIN s = 1..n
    OBVIOUS
  <2> QED  BY <2>1, <2>2, <2>3
<1>5. ASSUME NEW k \in 1..n PROVE W[k] = Enter(repo, path, opt, W[k - 1], k)
  <2>1. Max(1..k) = k /\ (1..k) \ {k} = 1..(k - 1)
    <3>1. k - 1 \in Nat /\ (k - 1) + 1 = k
      OBVIOUS
    <3> QED  BY <3>1, MaxOfPrefix
  <2>2. 1..k \in SUBSET DOMAIN s /\ 1..k # {} /\ s[k] = k
    OBVIOUS
  <2> DEFINE before == G[1..(k - 1)]
             S == 1..k
  <2>7. s[Max(S)] = k /\ S \ {Max(S)} = 1..(k - 1) /\ S # {} /\ S \in SUBSET DOMAIN s
    BY <2>1, <2>2
  <2>8. G[S] = CHOOSE e \in {Enter(repo, path, opt, v, s[Max(S)]) : v \in {G[S \ {Max(S)}]}} : TRUE
    <3> HIDE DEF S, s
    <3> QED  BY <1>3, <2>7
  <2>3. G[1..k] = CHOOSE e \in {Enter(repo, path, opt, v, k) : v \in {before}} : TRUE
    BY <2>7, <2>8
  <2> HIDE DEF before, S
  <2>4. {Enter(repo, path, opt, v, k) : v \in {before}} = {Enter(repo, path, opt, before, k)}
    OBVIOUS
  <2>5. G[1..k] = Enter(repo, path, opt, before, k)
    BY <2>3, <2>4
  <2>6. W[k] = G[1..k] /\ W[k - 1] = before
    BY DEF before
  <2> QED  BY <2>5, <2>6
<1> QED  BY <1>1, <1>4, <1>5

(* What a level of the walk leaves: a path that was kept so far, and a place *)
(* with its name or the one of a template.                                  *)
LEMMA EnterIs ==
  ASSUME NEW repo, NEW path, NEW opt, NEW w, NEW k
  PROVE  /\ Enter(repo, path, opt, w, k).kept =>
              /\ w.kept /\ SubSeq(path, 1, k - 1) \notin opt.skip
         /\ \E x : /\ Enter(repo, path, opt, w, k).dest = Append(w.dest, x)
                   /\ x = path[k] \/ x \in Range(Original)
<1>1. Enter(repo, path, opt, w, k).kept =>
              /\ w.kept /\ SubSeq(path, 1, k - 1) \notin opt.skip
  BY DEF Enter
<1>2. \/ Enter(repo, path, opt, w, k).dest = Append(w.dest, path[k])
      \/ /\ Enter(repo, path, opt, w, k).dest = Append(w.dest, Original[path[k]])
         /\ path[k] \in DOMAIN Original
  BY DEF Enter
<1>3. path[k] \in DOMAIN Original => Original[path[k]] \in Range(Original)
  BY DEF Range
<1> HIDE DEF Enter
<1> QED  BY <1>1, <1>2, <1>3

(* How far a walk has come.                                                 *)
Walked(w, path, opt, k) ==
    /\ w.dest \in Seq(Range(path) \cup Range(Original)) /\ Len(w.dest) = k
    /\ \A j \in 1..k : w.dest[j] = path[j] \/ w.dest[j] \in Range(Original)
    /\ w.kept => \A j \in 1..k : SubSeq(path, 1, j - 1) \notin opt.skip

LEMMA WalkedOn ==
  ASSUME NEW repo, NEW path, NEW opt, NEW w, NEW k \in Nat, k + 1 \in DOMAIN path, Walked(w, path, opt, k)
  PROVE  Walked(Enter(repo, path, opt, w, k + 1), path, opt, k + 1)
<1> DEFINE e == Enter(repo, path, opt, w, k + 1)
           D == Range(path) \cup Range(Original)
<1>1. PICK x : e.dest = Append(w.dest, x) /\ (x = path[k + 1] \/ x \in Range(Original))
  BY EnterIs
<1>2. e.kept => w.kept /\ SubSeq(path, 1, k) \notin opt.skip
  <2>1. (k + 1) - 1 = k
    OBVIOUS
  <2> QED  BY <2>1, EnterIs
<1>3. x \in D
  BY <1>1 DEF Range
<1> HIDE DEF e, D
<1>4. w.dest \in Seq(D) /\ Len(w.dest) = k
  BY DEF Walked, D
<1>5. e.dest \in Seq(D) /\ Len(e.dest) = k + 1 /\ e.dest[k + 1] = x /\ \A j \in 1..k : e.dest[j] = w.dest[j]
  BY <1>1, <1>3, <1>4
<1>6. ASSUME NEW j \in 1..(k + 1) PROVE e.dest[j] = path[j] \/ e.dest[j] \in Range(Original)
  <2>1. j = k + 1 \/ j \in 1..k
    OBVIOUS
  <2> QED  BY <1>1, <1>5, <2>1 DEF Walked
<1>7. ASSUME e.kept, NEW j \in 1..(k + 1) PROVE SubSeq(path, 1, j - 1) \notin opt.skip
  <2>1. CASE j = k + 1
    BY <1>2, <1>7, <2>1
  <2>2. CASE j \in 1..k
    BY <1>2, <1>7, <2>2 DEF Walked
  <2> QED  BY <2>1, <2>2
<1>8. Walked(e, path, opt, k + 1)
  BY <1>5, <1>6, <1>7 DEF Walked, D
<1> QED  BY <1>8 DEF e

LEMMA WalkedThrough ==
  ASSUME NEW repo, NEW path, path \in Seq(Range(path)), NEW opt
  PROVE  Walked(Walk(repo, path, opt), path, opt, Len(path))
<1> DEFINE n == Len(path)
<1>0. n \in Nat /\ DOMAIN path = 1..n
  OBVIOUS
<1>1. PICK W : /\ W[0] = Setting(opt)
               /\ \A k \in 1..n : W[k] = Enter(repo, path, opt, W[k - 1], k)
               /\ Walk(repo, path, opt) = W[n]
  BY <1>0, WalkIs
<1> HIDE DEF n
<1> DEFINE Is(k) == Walked(W[k], path, opt, k)
           T == {k \in Nat : k <= n => Is(k)}
<1>2. 0 \in T
  <2>1. Walked(Setting(opt), path, opt, 0)
    BY DEF Walked, Setting
  <2> QED  BY <1>1, <2>1
<1>3. \A k \in Nat : k \in T => k + 1 \in T
  <2>5. ASSUME NEW k \in Nat, k \in T, k + 1 <= n PROVE Is(k + 1)
    <3>1. k <= n /\ k + 1 \in 1..n /\ (k + 1) - 1 = k
      BY <1>0, <2>5
    <3>2. Walked(W[k], path, opt, k) /\ k + 1 \in DOMAIN path
      BY <1>0, <2>5, <3>1
    <3>3. Walked(Enter(repo, path, opt, W[k], k + 1), path, opt, k + 1)
      BY <3>2, WalkedOn
    <3>4. W[k + 1] = Enter(repo, path, opt, W[k], k + 1)
      BY <1>1, <3>1
    <3> QED  BY <3>3, <3>4
  <2> HIDE DEF Is
  <2> QED  BY <2>5
<1>4. Nat \subseteq T
  <2> HIDE DEF T
  <2> QED  BY <1>2, <1>3, SetInduction
<1>5. Walked(W[n], path, opt, n)
  BY <1>0, <1>4
<1> QED  BY <1>1, <1>5 DEF n

------------------------------------------------------------------------------
(* Only tasks that have opened are handed out.                              *)

LEMMA GroupIs ==
  ASSUME NEW t \in Range(Tasks)
  PROVE  GroupOf(t) \in Range(Groups) /\ t \in Range(TasksOf[GroupOf(t)])
<1> DEFINE E == UNION {Range(TasksOf[g]) : g \in Range(Groups)}
<1>1. Tasks \in Seq(E)
  BY TasksOfGroups
<1> HIDE DEF E
<1>2. t \in E
  BY <1>1 DEF Range
<1>3. \E g \in Range(Groups) : t \in Range(TasksOf[g])
  BY <1>2 DEF E
<1> QED  BY <1>3 DEF GroupOf

LEMMA DirIs ==
  ASSUME NEW t \in Range(Tasks)
  PROVE  DirOf[t] \in Seq(Range(DirOf[t])) /\ Len(DirOf[t]) \in Nat
<1>1. DirOf[t] \in Seq(Range(DirOf[t]))
  BY GroupIs, RepositoryAssumption
<1> QED  BY <1>1

LEMMA CopyHolds ==
  ASSUME NEW repo, NEW opt, NEW d \in DOMAIN CopyOf(repo, opt)
  PROVE  \E p \in DOMAIN repo : Walk(repo, p, opt).kept /\ d = Walk(repo, p, opt).dest
<1> DEFINE walk == [p \in DOMAIN repo |-> Walk(repo, p, opt)]
           kept == {p \in DOMAIN repo : walk[p].kept}
<1>1. DOMAIN CopyOf(repo, opt) = {walk[p].dest : p \in kept}
  BY DEF CopyOf
<1>2. PICK p \in kept : d = walk[p].dest
  BY <1>1
<1> QED  BY <1>2

(* A copied file under the folder of a task: the folder was not skipped.    *)
LEMMA NotSkipped ==
  ASSUME NEW tree, IsTree(tree), NEW t \in Range(Tasks), Present(tree, t), PlainFolders,
         NEW opt, NEW d \in DOMAIN CopyOf(tree, opt), Under(d, t)
  PROVE  DirOf[t] \notin opt.skip
<1> DEFINE D == DirOf[t]
           m == Len(D)
<1>1. D \in Seq(Range(D)) /\ m \in Nat
  BY DirIs
<1>2. PICK p \in DOMAIN tree : Walk(tree, p, opt).kept /\ d = Walk(tree, p, opt).dest
  BY CopyHolds
<1>3. p \in Seq(Range(p))
  BY DEF IsTree
<1> DEFINE n == Len(p)
<1>4. Walked(Walk(tree, p, opt), p, opt, n)
  BY <1>3, WalkedThrough
<1>5. /\ d \in Seq(Range(p) \cup Range(Original)) /\ Len(d) = n
      /\ \A j \in 1..n : d[j] = p[j] \/ d[j] \in Range(Original)
      /\ \A j \in 1..n : SubSeq(p, 1, j - 1) \notin opt.skip
  BY <1>2, <1>4 DEF Walked
<1>6. m <= n /\ SubSeq(d, 1, m) = D
  BY <1>5 DEF Under
<1>7. n \in Nat
  BY <1>3
<1>8. ASSUME NEW j \in 1..m PROVE p[j] = D[j]
  <2>1. D[j] \notin Range(Original)
    <3>1. D[j] \in Range(D)
      BY <1>1 DEF Range
    <3> QED  BY <3>1 DEF PlainFolders
  <2>2. d[j] = D[j]
    <3>1. SubSeq(d, 1, m)[j] = d[j]
      BY <1>1, <1>5, <1>6, <1>7
    <3> QED  BY <1>6, <3>1
  <2>3. j \in 1..n
    BY <1>1, <1>6, <1>7
  <2> QED  BY <1>5, <2>1, <2>2, <2>3
<1> HIDE DEF D, m, n
<1>9. SubSeq(p, 1, m) = D
  <2>1. SubSeq(p, 1, m) \in Seq(Range(p)) /\ Len(SubSeq(p, 1, m)) = m /\ \A j \in 1..m : SubSeq(p, 1, m)[j] = p[j]
    BY <1>1, <1>3, <1>6, <1>7 DEF n
  <2>2. DOMAIN D = 1..m /\ DOMAIN SubSeq(p, 1, m) = 1..m
    BY <1>1, <2>1 DEF m
  <2> QED  BY <1>1, <1>8, <2>1, <2>2
<1>10. m < n
  <2>1. Append(D, Meta) \in DOMAIN tree
    BY DEF Present, D
  <2>2. Len(Append(D, Meta)) = m + 1 /\ SubSeq(Append(D, Meta), 1, m) = D
    BY <1>1 DEF m
  <2>3. n = m => SubSeq(p, 1, n) = p
    BY <1>3 DEF n
  <2>4. n < Len(Append(D, Meta)) => SubSeq(Append(D, Meta), 1, n) # p
    BY <2>1 DEF IsTree, n
  <2> QED  BY <1>1, <1>6, <1>7, <1>9, <2>2, <2>3, <2>4
<1>11. m + 1 \in 1..n /\ (m + 1) - 1 = m
  BY <1>1, <1>7, <1>10
<1> QED  BY <1>5, <1>9, <1>11 DEF D

LEMMA ReleasedOnly ==
  ASSUME NEW tree, IsTree(tree), \A t \in Range(Tasks) : Present(tree, t), PlainFolders,
         NEW c, NEW now \in Int,
         NEW d \in DOMAIN ExportPublic(tree, c, now), NEW t \in Range(Tasks), Under(d, t)
  PROVE  t \in EnabledTasks(c) /\ Schedule[GroupOf(t)].start <= now
<1> DEFINE opt == [Options(tree, c, Handed, TRUE, Unreleased(tree, c, now)) EXCEPT !.relative = c.relative]
<1>1. opt.skip = Unreleased(tree, c, now)
  BY DEF Options
<1>2. d \in DOMAIN CopyOf(tree, opt)
  BY DEF ExportPublic
<1> HIDE DEF opt
<1>3. DirOf[t] \notin Unreleased(tree, c, now)
  BY <1>1, <1>2, NotSkipped
<1>4. GroupOf(t) \in Range(Groups)
  BY GroupIs
<1>5. t \in EnabledTasks(c) /\ GroupOf(t) \notin NotStarted(now)
  BY <1>3 DEF Unreleased
<1>6. Schedule[GroupOf(t)].start \in Int
  BY <1>4, ScheduleAssumption DEF IsSchedule
<1>7. ~(Schedule[GroupOf(t)].start > now)
  BY <1>4, <1>5 DEF NotStarted
<1> QED  BY <1>5, <1>6, <1>7

\* A repository in which every task has its config file.
IsSource(tree) == IsTree(tree) /\ \A t \in Range(Tasks) : Present(tree, t)

------------------------------------------------------------------------------
(* The two exports side by side: a path without template names that one     *)
(* keeps, the other one keeps too.                                          *)

Emptied(repo, path, mode, k) ==
    LET dir == SubSeq(path, 1, k - 1) IN
    /\ mode \in Creating
    /\ path[k] \in Entries(repo, dir) /\ Append(dir, path[k]) \in DOMAIN repo
    /\ repo[Append(dir, path[k])] = "wholly"

IsWhole(w, path, k) ==
    k < Len(path) /\ (path[k] \in w.config.public \/ path[k] \in w.config.private)

Admits(w, path, k) ==
    /\ path[k] \notin w.config.ignore
    /\ path[k] \in w.config.public => w.copy.public
    /\ path[k] \notin w.config.public /\ path[k] \in w.config.private => w.copy.private
    /\ path[k] \notin w.config.public /\ path[k] \notin w.config.private /\ ~(k < Len(path)) => w.copy.other

Onward(w, path, sub, k) ==
    IF k < Len(path) /\ ~IsWhole(w, path, k) /\ SubSeq(path, 1, k) \in DOMAIN sub
    THEN Effective(w.config, sub[SubSeq(path, 1, k)]) ELSE w.config

LEMMA PlainExcluded ==
  ASSUME NEW repo, NEW path, NEW opt, NEW k, path[k] \notin DOMAIN Original \cup Range(Original)
  PROVE  path[k] \in Excluded(repo, SubSeq(path, 1, k - 1), opt) <=> Emptied(repo, path, opt.mode, k)
<1> DEFINE dir == SubSeq(path, 1, k - 1)
           name == path[k]
           templates == IF opt.mode \in Searching THEN Entries(repo, dir) \cap DOMAIN Original ELSE {}
           named == {IF opt.fill THEN Original[n] ELSE n : n \in templates}
           emptied == IF opt.mode \in Creating
                      THEN {n \in Entries(repo, dir) :
                              /\ Append(dir, n) \in DOMAIN repo
                              /\ repo[Append(dir, n)] = "wholly"}
                      ELSE {}
<1>1. name \notin named
  <2>1. \A n \in templates : n \in DOMAIN Original /\ Original[n] \in Range(Original)
    BY DEF Range
  <2> HIDE DEF templates
  <2> QED  BY <2>1
<1>2. Excluded(repo, dir, opt) = named \cup emptied
  BY DEF Excluded
<1>3. name \in emptied <=> Emptied(repo, path, opt.mode, k)
  BY DEF Emptied
<1> HIDE DEF named, emptied
<1> QED  BY <1>1, <1>2, <1>3

LEMMA EnterPlain ==
  ASSUME NEW repo, NEW path, NEW opt, NEW w, NEW k, path[k] \notin DOMAIN Original \cup Range(Original)
  PROVE  /\ Enter(repo, path, opt, w, k).kept <=>
              /\ w.kept /\ SubSeq(path, 1, k - 1) \notin opt.skip
              /\ ~Emptied(repo, path, opt.mode, k) /\ Admits(w, path, k)
         /\ Enter(repo, path, opt, w, k).dest = Append(w.dest, path[k])
         /\ Enter(repo, path, opt, w, k).config = Onward(w, path, opt.sub, k)
         /\ Enter(repo, path, opt, w, k).copy = IF IsWhole(w, path, k) THEN All ELSE w.copy
<1> DEFINE name == path[k]
           out == name \in Excluded(repo, SubSeq(path, 1, k - 1), opt)
           skip == SubSeq(path, 1, k - 1) \in opt.skip
<1>1. out <=> Emptied(repo, path, opt.mode, k)
  BY PlainExcluded
<1>2. Enter(repo, path, opt, w, k).dest = Append(w.dest, name)
  BY DEF Enter
<1>3. Enter(repo, path, opt, w, k).config = Onward(w, path, opt.sub, k)
  BY DEF Enter, Onward, IsWhole
<1>4. Enter(repo, path, opt, w, k).copy = IF IsWhole(w, path, k) THEN All ELSE w.copy
  BY DEF Enter, IsWhole
<1>5. Enter(repo, path, opt, w, k).kept <=> w.kept /\ ~skip /\ ~out /\ Admits(w, path, k)
  BY DEF Enter, Admits
<1> QED  BY <1>1, <1>2, <1>3, <1>4, <1>5

(* w, a walk of what is handed out; a and b, of what the image takes from   *)
(* the teachers' files and from the others.                                 *)
Twins(w, a, b) ==
    w.kept => /\ a.kept /\ a.config = w.config
              /\ \/ w.copy = All /\ a.copy = All
                 \/ /\ w.copy = Handed /\ a.copy = Teachers /\ b.copy = Others
                    /\ b.kept /\ b.config = w.config

SameSub(sub, other, here) ==
    /\ here \in DOMAIN sub <=> here \in DOMAIN other
    /\ here \in DOMAIN sub => sub[here] = other[here]

(* Where the image's export leaves out no more than the public one.         *)
Follows(repo, opt, later, other, path) ==
    /\ other.mode = opt.mode
    /\ \A k \in 1..Len(path) : /\ SubSeq(path, 1, k - 1) \notin other.skip
                               /\ Emptied(later, path, other.mode, k) => Emptied(repo, path, opt.mode, k)
    /\ \A k \in 1..(Len(path) - 1) : SameSub(opt.sub, other.sub, SubSeq(path, 1, k))

LEMMA SameOnward ==
  ASSUME NEW w, NEW a, NEW path, NEW sub, NEW other, NEW k, a.config = w.config,
         k < Len(path) => SameSub(sub, other, SubSeq(path, 1, k))
  PROVE  /\ Onward(a, path, other, k) = Onward(w, path, sub, k)
         /\ IsWhole(a, path, k) <=> IsWhole(w, path, k)
BY DEF Onward, IsWhole, SameSub

LEMMA TwinsOn ==
  ASSUME NEW repo, NEW later, NEW path, NEW opt, NEW first, NEW second, NEW w, NEW a, NEW b, NEW k,
         path[k] \notin DOMAIN Original \cup Range(Original), k \in 1..Len(path), Len(path) \in Nat,
         Follows(repo, opt, later, first, path), Follows(repo, opt, later, second, path),
         Twins(w, a, b)
  PROVE  /\ k < Len(path) => Twins(Enter(repo, path, opt, w, k), Enter(later, path, first, a, k),
                                   Enter(later, path, second, b, k))
         /\ Enter(repo, path, opt, w, k).kept => \/ Enter(later, path, first, a, k).kept
                                                 \/ Enter(later, path, second, b, k).kept
<1> DEFINE ew == Enter(repo, path, opt, w, k)
           ea == Enter(later, path, first, a, k)
           eb == Enter(later, path, second, b, k)
<1>1. /\ ew.kept => w.kept /\ ~Emptied(repo, path, opt.mode, k) /\ Admits(w, path, k)
      /\ ew.config = Onward(w, path, opt.sub, k)
      /\ ew.copy = IF IsWhole(w, path, k) THEN All ELSE w.copy
  BY EnterPlain
<1>2. /\ ea.kept <=> /\ a.kept /\ SubSeq(path, 1, k - 1) \notin first.skip
                     /\ ~Emptied(later, path, first.mode, k) /\ Admits(a, path, k)
      /\ ea.config = Onward(a, path, first.sub, k)
      /\ ea.copy = IF IsWhole(a, path, k) THEN All ELSE a.copy
  BY EnterPlain
<1>3. /\ eb.kept <=> /\ b.kept /\ SubSeq(path, 1, k - 1) \notin second.skip
                     /\ ~Emptied(later, path, second.mode, k) /\ Admits(b, path, k)
      /\ eb.config = Onward(b, path, second.sub, k)
      /\ eb.copy = IF IsWhole(b, path, k) THEN All ELSE b.copy
  BY EnterPlain
<1> HIDE DEF ew, ea, eb
<1> SUFFICES ASSUME ew.kept
             PROVE  /\ k < Len(path) => Twins(ew, ea, eb)
                    /\ ea.kept \/ eb.kept
  BY DEF Twins, ew, ea, eb
<1>4. w.kept /\ Admits(w, path, k) /\ ~Emptied(repo, path, opt.mode, k)
  BY <1>1
<1>5. /\ SubSeq(path, 1, k - 1) \notin first.skip /\ ~Emptied(later, path, first.mode, k)
      /\ SubSeq(path, 1, k - 1) \notin second.skip /\ ~Emptied(later, path, second.mode, k)
  BY <1>4 DEF Follows
<1>6. k < Len(path) => /\ SameSub(opt.sub, first.sub, SubSeq(path, 1, k))
                       /\ SameSub(opt.sub, second.sub, SubSeq(path, 1, k))
  <2>1. k < Len(path) => k \in 1..(Len(path) - 1)
    OBVIOUS
  <2> QED  BY <2>1 DEF Follows
<1>7. a.kept /\ a.config = w.config
  BY <1>4 DEF Twins
<1>8. Onward(a, path, first.sub, k) = Onward(w, path, opt.sub, k) /\ (IsWhole(a, path, k) <=> IsWhole(w, path, k))
  BY <1>6, <1>7, SameOnward
<1>9. CASE w.copy = All /\ a.copy = All
  <2>1. Admits(a, path, k)
    BY <1>4, <1>7, <1>9 DEF Admits
  <2>2. ea.kept /\ ea.config = ew.config /\ ew.copy = All /\ ea.copy = All
    BY <1>1, <1>2, <1>5, <1>7, <1>8, <1>9, <2>1
  <2> QED  BY <2>2 DEF Twins
<1>10. CASE /\ w.copy = Handed /\ a.copy = Teachers /\ b.copy = Others
            /\ b.kept /\ b.config = w.config
  <2>0. /\ w.copy.public /\ ~w.copy.private /\ w.copy.other
        /\ a.copy.public /\ a.copy.private /\ ~a.copy.other
        /\ ~b.copy.public /\ ~b.copy.private /\ b.copy.other
    BY <1>10 DEF Handed, Teachers, Others
  <2>1. CASE path[k] \in w.config.public
    <3>1. Admits(a, path, k)
      BY <1>4, <1>7, <2>0, <2>1 DEF Admits
    <3>2. ea.kept /\ ea.config = ew.config
      BY <1>1, <1>2, <1>5, <1>7, <1>8, <3>1
    <3>3. k < Len(path) => ew.copy = All /\ ea.copy = All
      BY <1>1, <1>2, <1>8, <2>1 DEF IsWhole
    <3> QED  BY <3>2, <3>3 DEF Twins
  <2>2. CASE path[k] \notin w.config.public
    <3>1. path[k] \notin w.config.private
      BY <1>4, <2>0, <2>2 DEF Admits
    <3>2. Admits(b, path, k)
      BY <1>4, <1>10, <2>0, <2>2, <3>1 DEF Admits
    <3>3. ~IsWhole(w, path, k)
      BY <2>2, <3>1 DEF IsWhole
    <3>4. Onward(b, path, second.sub, k) = Onward(w, path, opt.sub, k) /\ ~IsWhole(b, path, k)
      BY <1>6, <1>10, <3>3, SameOnward
    <3>5. eb.kept /\ eb.config = ew.config /\ eb.copy = Others /\ ew.copy = Handed /\ ea.copy = Teachers
      BY <1>1, <1>2, <1>3, <1>5, <1>8, <1>10, <3>2, <3>3, <3>4
    <3>6. k < Len(path) => Admits(a, path, k)
      BY <1>4, <1>7, <2>2, <3>1 DEF Admits
    <3>7. k < Len(path) => ea.kept /\ ea.config = ew.config
      BY <1>1, <1>2, <1>5, <1>7, <1>8, <3>6
    <3> QED  BY <3>5, <3>7 DEF Twins
  <2> QED  BY <2>1, <2>2
<1> QED  BY <1>4, <1>9, <1>10 DEF Twins

IsPlain(path) == \A k \in 1..Len(path) : path[k] \notin DOMAIN Original \cup Range(Original)

(* A path is copied to its own place, but for the names of templates that   *)
(* are filled.                                                              *)
LEMMA StaysInPlace ==
  ASSUME NEW repo, NEW path, path \in Seq(Range(path)), NEW opt,
         opt.fill => \A k \in 1..Len(path) : path[k] \notin DOMAIN Original
  PROVE  Walk(repo, path, opt).dest = path
<1> DEFINE n == Len(path)
<1>0. n \in Nat
  OBVIOUS
<1>1. PICK W : /\ W[0] = Setting(opt)
               /\ \A k \in 1..n : W[k] = Enter(repo, path, opt, W[k - 1], k)
               /\ Walk(repo, path, opt) = W[n]
  BY <1>0, WalkIs
<1>a. DOMAIN path = 1..n
  OBVIOUS
<1>b. \A k \in 1..n : path[k] \in Range(path)
  BY <1>a DEF Range
<1> HIDE DEF n
<1> DEFINE Is(k) == /\ W[k].dest \in Seq(Range(path)) /\ Len(W[k].dest) = k
                    /\ \A j \in 1..k : W[k].dest[j] = path[j]
           T == {k \in Nat : k <= n => Is(k)}
<1>2. 0 \in T
  <2>1. W[0].dest = <<>>
    BY <1>1 DEF Setting
  <2>2. <<>> \in Seq(Range(path)) /\ Len(<<>>) = 0 /\ 1..0 = {}
    OBVIOUS
  <2>3. Is(0)
    BY <2>1, <2>2
  <2> HIDE DEF Is
  <2> QED  BY <2>3
<1>3. ASSUME NEW k \in Nat, k \in T, k + 1 <= n PROVE Is(k + 1)
  <2>1. k + 1 \in 1..n /\ (k + 1) - 1 = k /\ Is(k)
    BY <1>0, <1>3
  <2>2. W[k + 1] = Enter(repo, path, opt, W[k], k + 1)
    BY <1>1, <2>1
  <2>3. opt.fill => path[k + 1] \notin DOMAIN Original
    BY <2>1 DEF n
  <2>4. W[k + 1].dest = Append(W[k].dest, path[k + 1])
    BY <2>2, <2>3 DEF Enter
  <2>5. path[k + 1] \in Range(path)
    BY <1>b, <2>1
  <2> DEFINE d == W[k].dest
             e == W[k + 1].dest
             D == Range(path)
  <2>6. d \in Seq(D) /\ Len(d) = k /\ e = Append(d, path[k + 1]) /\ \A j \in 1..k : d[j] = path[j]
    BY <2>1, <2>4
  <2> HIDE DEF d, e, D
  <2>7. e \in Seq(D) /\ Len(e) = k + 1 /\ e[k + 1] = path[k + 1] /\ \A j \in 1..k : e[j] = d[j]
    BY <2>5, <2>6 DEF D
  <2>8. \A j \in 1..(k + 1) : j \in 1..k \/ j = k + 1
    OBVIOUS
  <2>9. \A j \in 1..(k + 1) : e[j] = path[j]
    BY <2>6, <2>7, <2>8
  <2> QED  BY <2>7, <2>9 DEF e, D
<1>4. \A k \in Nat : k \in T => k + 1 \in T
  <2> HIDE DEF Is
  <2> QED  BY <1>3
<1>5. Nat \subseteq T
  <2> HIDE DEF T
  <2> QED  BY <1>2, <1>4, SetInduction
<1>6. Is(n)
  <2> HIDE DEF Is
  <2> QED  BY <1>0, <1>5
<1> DEFINE d == Walk(repo, path, opt).dest
<1>7. d \in Seq(Range(path)) /\ Len(d) = n /\ \A j \in 1..n : d[j] = path[j]
  BY <1>1, <1>6
<1> HIDE DEF d
<1>8. d = path
  <2>1. DOMAIN d = 1..n /\ d = [j \in 1..n |-> d[j]] /\ path = [j \in 1..n |-> path[j]]
    BY <1>0, <1>a, <1>b, <1>7 DEF n
  <2> QED  BY <1>7, <2>1
<1> QED  BY <1>8 DEF d

LEMMA Travels ==
  ASSUME NEW repo, NEW later, NEW path, path \in Seq(Range(path)), path # <<>>, IsPlain(path),
         NEW opt, NEW first, NEW second,
         opt.copy = Handed, first.copy = Teachers, second.copy = Others,
         first.config = opt.config, second.config = opt.config,
         Follows(repo, opt, later, first, path), Follows(repo, opt, later, second, path),
         Walk(repo, path, opt).kept
  PROVE  Walk(later, path, first).kept \/ Walk(later, path, second).kept
<1> DEFINE n == Len(path)
<1>0. n \in Nat /\ n # 0
  OBVIOUS
<1>1. PICK W : /\ W[0] = Setting(opt)
               /\ \A k \in 1..n : W[k] = Enter(repo, path, opt, W[k - 1], k)
               /\ Walk(repo, path, opt) = W[n]
  BY <1>0, WalkIs
<1>2. PICK A : /\ A[0] = Setting(first)
               /\ \A k \in 1..n : A[k] = Enter(later, path, first, A[k - 1], k)
               /\ Walk(later, path, first) = A[n]
  BY <1>0, WalkIs
<1>3. PICK B : /\ B[0] = Setting(second)
               /\ \A k \in 1..n : B[k] = Enter(later, path, second, B[k - 1], k)
               /\ Walk(later, path, second) = B[n]
  BY <1>0, WalkIs
<1> DEFINE Is(k) == Twins(W[k], A[k], B[k])
           T == {k \in Nat : k < n => Is(k)}
<1>4. 0 \in T
  <2>1. Twins(Setting(opt), Setting(first), Setting(second))
    BY DEF Twins, Setting
  <2> QED  BY <1>1, <1>2, <1>3, <2>1
<1>5. ASSUME NEW k \in Nat, k + 1 <= n, Is(k)
      PROVE  /\ k + 1 < n => Is(k + 1)
             /\ W[k + 1].kept => A[k + 1].kept \/ B[k + 1].kept
  <2>1. k + 1 \in 1..n /\ (k + 1) - 1 = k
    BY <1>0, <1>5
  <2>2. /\ W[k + 1] = Enter(repo, path, opt, W[k], k + 1)
        /\ A[k + 1] = Enter(later, path, first, A[k], k + 1)
        /\ B[k + 1] = Enter(later, path, second, B[k], k + 1)
    BY <1>1, <1>2, <1>3, <2>1
  <2>3. path[k + 1] \notin DOMAIN Original \cup Range(Original)
    BY <2>1 DEF IsPlain
  <2> DEFINE l == k + 1
  <2>4. /\ l < Len(path) => Twins(Enter(repo, path, opt, W[k], l), Enter(later, path, first, A[k], l),
                                  Enter(later, path, second, B[k], l))
        /\ Enter(repo, path, opt, W[k], l).kept => \/ Enter(later, path, first, A[k], l).kept
                                                   \/ Enter(later, path, second, B[k], l).kept
    <3>1. Twins(W[k], A[k], B[k])
      BY <1>5
    <3>2. l \in 1..Len(path) /\ Len(path) \in Nat /\ path[l] \notin DOMAIN Original \cup Range(Original)
      BY <1>0, <2>1, <2>3
    <3> HIDE DEF l
    <3> QED  BY <3>1, <3>2, TwinsOn
  <2> QED  BY <2>2, <2>4
<1> HIDE DEF Is
<1>6. \A k \in Nat : k \in T => k + 1 \in T
  <2>1. \A k \in Nat : k + 1 \in Nat /\ (k + 1 < n => k < n /\ k + 1 <= n)
    BY <1>0
  <2> QED  BY <1>5, <2>1
<1>7. Nat \subseteq T
  <2> HIDE DEF T
  <2> QED  BY <1>4, <1>6, SetInduction
<1>8. n - 1 \in Nat /\ n - 1 < n /\ (n - 1) + 1 = n /\ n <= n
  BY <1>0
<1>9. Is(n - 1)
  <2> HIDE DEF n
  <2> QED  BY <1>7, <1>8
<1>10. W[n].kept => A[n].kept \/ B[n].kept
  <2> HIDE DEF n
  <2> QED  BY <1>5, <1>8, <1>9
<1> QED  BY <1>1, <1>2, <1>3, <1>10

LEMMA CopyHas ==
  ASSUME NEW repo, NEW opt, NEW p \in DOMAIN repo, Walk(repo, p, opt).kept
  PROVE  Walk(repo, p, opt).dest \in DOMAIN CopyOf(repo, opt)
<1> DEFINE walk == [q \in DOMAIN repo |-> Walk(repo, q, opt)]
           kept == {q \in DOMAIN repo : walk[q].kept}
<1>1. DOMAIN CopyOf(repo, opt) = {walk[q].dest : q \in kept}
  BY DEF CopyOf
<1> QED  BY <1>1

LEMMA OwnRange ==
  ASSUME NEW E, NEW s \in Seq(E)
  PROVE  s \in Seq(Range(s))
<1>1. Len(s) \in Nat /\ DOMAIN s = 1..Len(s) /\ s = [i \in 1..Len(s) |-> s[i]]
  OBVIOUS
<1>2. \A i \in 1..Len(s) : s[i] \in Range(s)
  BY <1>1 DEF Range
<1>3. s \in [1..Len(s) -> Range(s)]
  BY <1>1, <1>2
<1> QED  BY <1>1, <1>3

(* The config file of a task: on no level of its path is a template.        *)
LEMMA MetaPath ==
  ASSUME PlainFolders, NEW t \in Range(Tasks)
  PROVE  /\ Append(DirOf[t], Meta) \in Seq(Range(Append(DirOf[t], Meta)))
         /\ Len(Append(DirOf[t], Meta)) = Len(DirOf[t]) + 1
         /\ IsPlain(Append(DirOf[t], Meta))
         /\ Under(Append(DirOf[t], Meta), t)
         /\ \A k \in 0..Len(DirOf[t]) :
              SubSeq(Append(DirOf[t], Meta), 1, k) = SubSeq(DirOf[t], 1, k)
<1> DEFINE D == DirOf[t]
           m == Len(D)
           P == Append(D, Meta)
<1>1. D \in Seq(Range(D)) /\ m \in Nat
  BY DirIs
<1>2. \A k \in 1..m : D[k] \in Range(D)
  BY <1>1 DEF Range
<1>3. (Range(D) \cup {Meta}) \cap (DOMAIN Original \cup Range(Original)) = {}
  BY DEF PlainFolders
<1> HIDE DEF D
<1>4. Len(P) = m + 1 /\ P[m + 1] = Meta /\ \A k \in 1..m : P[k] = D[k]
  BY <1>1
<1>5. P \in Seq(Range(P))
  <2>1. P \in Seq(Range(D) \cup {Meta})
    BY <1>1
  <2> HIDE DEF P
  <2> QED  BY <2>1, OwnRange
<1>6. IsPlain(P)
  <2>1. \A k \in 1..(m + 1) : k = m + 1 \/ k \in 1..m
    BY <1>1
  <2>2. \A k \in 1..(m + 1) : P[k] \in Range(D) \cup {Meta}
    BY <1>2, <1>4, <2>1
  <2> QED  BY <1>3, <1>4, <2>2 DEF IsPlain
<1>7. \A k \in 0..m : SubSeq(P, 1, k) = SubSeq(D, 1, k)
  BY <1>1, <1>4
<1>8. Under(P, t)
  <2>1. SubSeq(P, 1, m) = D
    BY <1>1
  <2> QED  BY <1>1, <1>4, <2>1 DEF Under, D
<1> QED  BY <1>4, <1>5, <1>6, <1>7, <1>8 DEF D

(* A folder on the way to a task's config file is its own or its group's.   *)
LEMMA OnTheWay ==
  ASSUME FoldersApart, NEW t \in Range(Tasks), NEW x \in Range(Groups) \cup Range(Tasks),
         NEW k \in 0..Len(DirOf[t]), SubSeq(DirOf[t], 1, k) = DirOf[x]
  PROVE  x \in {t, GroupOf(t)}
<1> DEFINE D == DirOf[t]
<1>1. D \in Seq(Range(D)) /\ Len(D) \in Nat
  BY DirIs
<1>2. Len(SubSeq(D, 1, k)) = k
  BY <1>1
<1>3. Under(D, x)
  BY <1>1, <1>2 DEF Under
<1> QED  BY <1>3 DEF FoldersApart

LEMMA EnabledIs ==
  ASSUME NEW c, NEW t \in EnabledTasks(c)
  PROVE  t \in c.enabled /\ GroupOf(t) \in c.enabled /\ GroupOf(t) \in GroupsWhere(c, TRUE)
BY GroupIs DEF EnabledTasks, GroupsWhere

(* The sub-configs read on the way: those of the task and of its group.     *)
LEMMA SubOnTheWay ==
  ASSUME FoldersApart, NEW tree, NEW c, NEW t \in EnabledTasks(c), NEW k \in 0..Len(DirOf[t])
  PROVE  /\ SubSeq(DirOf[t], 1, k) \in DOMAIN SubConfigs(tree, c)
              <=> /\ SubSeq(DirOf[t], 1, k) \in DOMAIN c.sub
                  /\ \E x \in {t, GroupOf(t)} : Present(tree, x) /\ DirOf[x] = SubSeq(DirOf[t], 1, k)
         /\ SubSeq(DirOf[t], 1, k) \in DOMAIN SubConfigs(tree, c)
              => SubConfigs(tree, c)[SubSeq(DirOf[t], 1, k)] = c.sub[SubSeq(DirOf[t], 1, k)]
<1> DEFINE here == SubSeq(DirOf[t], 1, k)
           X == GroupsWhere(c, TRUE) \cup EnabledTasks(c)
<1>1. t \in Range(Tasks) /\ X \subseteq Range(Groups) \cup Range(Tasks) /\ {t, GroupOf(t)} \subseteq X
  <2>1. t \in Range(Tasks) /\ X \subseteq Range(Groups) \cup Range(Tasks)
    BY DEF EnabledTasks, GroupsWhere
  <2>2. GroupOf(t) \in GroupsWhere(c, TRUE)
    BY EnabledIs
  <2> QED  BY <2>1, <2>2
<1>2. ASSUME NEW x \in X, DirOf[x] = here PROVE x \in {t, GroupOf(t)}
  BY <1>1, <1>2, OnTheWay
<1>3. /\ here \in DOMAIN SubConfigs(tree, c)
           <=> here \in DOMAIN c.sub /\ \E x \in X : Present(tree, x) /\ DirOf[x] = here
      /\ here \in DOMAIN SubConfigs(tree, c) => SubConfigs(tree, c)[here] = c.sub[here]
  BY DEF SubConfigs
<1> HIDE DEF here, X
<1>4. (\E x \in X : Present(tree, x) /\ DirOf[x] = here)
        <=> \E x \in {t, GroupOf(t)} : Present(tree, x) /\ DirOf[x] = here
  BY <1>1, <1>2
<1> QED  BY <1>3, <1>4 DEF here

(* The same files, but for what teachers write into them.                   *)
Resembles(other, tree) ==
    /\ DOMAIN other = DOMAIN tree
    /\ \A p \in DOMAIN tree : other[p] = "wholly" <=> tree[p] = "wholly"

LEMMA SameEmptied ==
  ASSUME NEW tree, NEW other, Resembles(other, tree), NEW path, NEW mode, NEW k
  PROVE  Emptied(other, path, mode, k) => Emptied(tree, path, mode, k)
BY DEF Resembles, Emptied, Entries, Below

(* What an export that starts later, or with other tasks enabled, leaves in *)
(* the way of a task that it has.                                           *)
LEMMA TaskFollows ==
  ASSUME PlainFolders, FoldersApart, NEW tree, NEW other, Resembles(other, tree), NEW c, NEW d, NEW at \in Int,
         c.mode = d.mode, c.sub = d.sub,
         NEW t \in Range(Tasks), t \in EnabledTasks(c), t \in EnabledTasks(d), Schedule[GroupOf(t)].start <= at,
         NEW opt, opt.mode = c.mode, opt.sub = SubConfigs(tree, c),
         NEW later, later.mode = d.mode, later.sub = SubConfigs(other, d), later.skip = Unreleased(other, d, at)
  PROVE  Follows(tree, opt, other, later, Append(DirOf[t], Meta))
<1> DEFINE D == DirOf[t]
           P == Append(D, Meta)
           m == Len(D)
<1>1. m \in Nat /\ Len(P) = m + 1 /\ \A k \in 0..m : SubSeq(P, 1, k) = SubSeq(D, 1, k)
  BY DirIs, MetaPath
<1>2. ASSUME NEW k \in 1..(m + 1), SubSeq(P, 1, k - 1) \in later.skip PROVE FALSE
  <2>1. k - 1 \in 0..m
    BY <1>1
  <2>2. PICK x : /\ DirOf[x] = SubSeq(D, 1, k - 1)
                 /\ \/ x \in GroupsWhere(d, FALSE) \cup NotStarted(at)
                    \/ x \in Range(Tasks) \ EnabledTasks(d)
                    \/ x \in {u \in Range(Tasks) : GroupOf(u) \in NotStarted(at)}
    BY <1>1, <1>2, <2>1 DEF Unreleased
  <2>3. x \in Range(Groups) \cup Range(Tasks)
    BY <2>2 DEF GroupsWhere, NotStarted
  <2>4. x \in {t, GroupOf(t)}
    BY <2>1, <2>2, <2>3, OnTheWay
  <2>5. GroupOf(t) \in d.enabled /\ GroupOf(t) \in Range(Groups) /\ t \notin Range(Groups) /\ GroupOf(t) \notin Range(Tasks)
    BY EnabledIs, GroupIs DEF FoldersApart
  <2>6. GroupOf(t) \notin NotStarted(at)
    <3>1. Schedule[GroupOf(t)].start \in Int
      BY GroupIs, ScheduleAssumption DEF IsSchedule
    <3> QED  BY <3>1 DEF NotStarted
  <2>7. x \notin GroupsWhere(d, FALSE) \cup NotStarted(at)
    BY <2>4, <2>5, <2>6 DEF GroupsWhere, NotStarted
  <2>8. x = t
    BY <2>2, <2>4, <2>5, <2>7
  <2> QED  BY <2>2, <2>6, <2>7, <2>8
<1>3. ASSUME NEW k \in 1..m PROVE SameSub(opt.sub, later.sub, SubSeq(P, 1, k))
  <2> DEFINE here == SubSeq(D, 1, k)
  <2>1. k \in 0..m /\ SubSeq(P, 1, k) = here
    BY <1>1
  <2>2. \A x : Present(other, x) <=> Present(tree, x)
    BY DEF Present, Resembles
  <2>3. /\ here \in DOMAIN opt.sub
             <=> here \in DOMAIN c.sub /\ \E x \in {t, GroupOf(t)} : Present(tree, x) /\ DirOf[x] = here
        /\ here \in DOMAIN opt.sub => opt.sub[here] = c.sub[here]
    BY <2>1, SubOnTheWay
  <2>4. /\ here \in DOMAIN later.sub
             <=> here \in DOMAIN d.sub /\ \E x \in {t, GroupOf(t)} : Present(other, x) /\ DirOf[x] = here
        /\ here \in DOMAIN later.sub => later.sub[here] = d.sub[here]
    BY <2>1, SubOnTheWay
  <2> HIDE DEF here
  <2> QED  BY <2>1, <2>2, <2>3, <2>4 DEF SameSub
<1>4. \A k \in 1..(m + 1) : Emptied(other, P, later.mode, k) => Emptied(tree, P, opt.mode, k)
  BY SameEmptied
<1> HIDE DEF P, m
<1>5. (m + 1) - 1 = m
  BY <1>1
<1>6. Follows(tree, opt, other, later, P)
  BY <1>1, <1>2, <1>3, <1>4, <1>5 DEF Follows
<1> QED  BY <1>6 DEF P

(* The config file of a task that is handed out comes from its own place.   *)
LEMMA HandedFrom ==
  ASSUME NEW repo, NEW opt, \A p \in DOMAIN repo : p \in Seq(Range(p)),
         NEW path \in DOMAIN CopyOf(repo, opt), path \in Seq(Range(path)), IsPlain(path)
  PROVE  path \in DOMAIN repo /\ Walk(repo, path, opt).kept
<1>1. PICK p \in DOMAIN repo : Walk(repo, p, opt).kept /\ path = Walk(repo, p, opt).dest
  BY CopyHolds
<1> DEFINE n == Len(p)
<1>2. /\ p \in Seq(Range(p)) /\ n \in Nat /\ Len(path) = n
      /\ \A j \in 1..n : path[j] = p[j] \/ path[j] \in Range(Original)
  <2>1. p \in Seq(Range(p))
    OBVIOUS
  <2>2. Walked(Walk(repo, p, opt), p, opt, n)
    BY <2>1, WalkedThrough
  <2> DEFINE w == Walk(repo, p, opt)
  <2>3. Len(w.dest) = n /\ \A j \in 1..n : w.dest[j] = p[j] \/ w.dest[j] \in Range(Original)
    BY <2>2 DEF Walked
  <2>4. n \in Nat
    BY <2>1
  <2> QED  BY <1>1, <2>1, <2>3, <2>4
<1>3. \A j \in 1..n : path[j] = p[j]
  BY <1>2 DEF IsPlain
<1>4. path = p
  <2>1. p = [j \in 1..n |-> p[j]] /\ path = [j \in 1..n |-> path[j]]
    BY <1>2
  <2> HIDE DEF n
  <2> QED  BY <1>3, <2>1
<1> QED  BY <1>1, <1>4

LEMMA BothHave ==
  ASSUME NEW f, NEW g
  PROVE  DOMAIN Both(f, g) = DOMAIN f \cup DOMAIN g
BY DEF Both

LEMMA TaskTravels ==
  ASSUME PlainFolders, FoldersApart, NEW tree, IsSource(tree), NEW other, Resembles(other, tree),
         NEW c, NEW d, NEW now \in Int, NEW at \in Int,
         c.structure = d.structure, c.mode = d.mode, c.sub = d.sub,
         NEW t \in Range(Tasks), Present(ExportPublic(tree, c, now), t),
         t \in EnabledTasks(d), Schedule[GroupOf(t)].start <= at
  PROVE  t \in EnabledTasks(c) /\ Present(ExportPrivate(other, d, at), t)
<1> DEFINE P == Append(DirOf[t], Meta)
           opt == [Options(tree, c, Handed, TRUE, Unreleased(tree, c, now)) EXCEPT !.relative = c.relative]
           skip == Unreleased(other, d, at)
           first == Options(other, d, Teachers, FALSE, skip)
           second == Options(other, d, Others, TRUE, skip)
<1>1. P \in Seq(Range(P)) /\ IsPlain(P) /\ Under(P, t) /\ P # <<>>
  <2>1. Len(DirOf[t]) \in Nat /\ Len(P) = Len(DirOf[t]) + 1 /\ Len(<<>>) = 0
    BY DirIs, MetaPath
  <2>2. P # <<>>
    BY <2>1
  <2> QED  BY <2>2, MetaPath
<1>2. P \in DOMAIN ExportPublic(tree, c, now)
  BY DEF Present
<1>3. t \in EnabledTasks(c)
  BY <1>1, <1>2, ReleasedOnly DEF IsSource
<1>4. /\ opt.copy = Handed /\ opt.config = c.structure /\ opt.mode = c.mode
      /\ opt.sub = SubConfigs(tree, c)
  BY DEF Options
<1>5. /\ first.copy = Teachers /\ first.config = d.structure /\ first.mode = d.mode
      /\ first.sub = SubConfigs(other, d) /\ first.skip = skip
      /\ second.copy = Others /\ second.config = d.structure /\ second.mode = d.mode
      /\ second.sub = SubConfigs(other, d) /\ second.skip = skip
  BY DEF Options
<1>6. P \in DOMAIN CopyOf(tree, opt)
  BY <1>2 DEF ExportPublic
<1>7. ExportPrivate(other, d, at) = Both(CopyOf(other, first), CopyOf(other, second))
  BY DEF ExportPrivate
<1> HIDE DEF opt, first, second, skip
<1>8. P \in DOMAIN tree /\ Walk(tree, P, opt).kept
  <2>1. \A p \in DOMAIN tree : p \in Seq(Range(p))
    BY DEF IsSource, IsTree
  <2> HIDE DEF P
  <2> QED  BY <1>1, <1>6, <2>1, HandedFrom
<1>9. Follows(tree, opt, other, first, P) /\ Follows(tree, opt, other, second, P)
  BY <1>3, <1>4, <1>5, TaskFollows DEF skip
<1>10. Walk(other, P, first).kept \/ Walk(other, P, second).kept
  <2> HIDE DEF P
  <2> QED  BY <1>1, <1>4, <1>5, <1>8, <1>9, Travels
<1>11. Walk(other, P, first).dest = P /\ Walk(other, P, second).dest = P
  <2> HIDE DEF P
  <2> QED  BY <1>1, StaysInPlace DEF IsPlain
<1>12. P \in DOMAIN other
  BY <1>8 DEF Resembles
<1>13. P \in DOMAIN CopyOf(other, first) \cup DOMAIN CopyOf(other, second)
  <2> HIDE DEF P
  <2>1. Walk(other, P, first).kept => P \in DOMAIN CopyOf(other, first)
    BY <1>11, <1>12, CopyHas
  <2>2. Walk(other, P, second).kept => P \in DOMAIN CopyOf(other, second)
    BY <1>11, <1>12, CopyHas
  <2> QED  BY <1>10, <2>1, <2>2
<1> QED  BY <1>3, <1>7, <1>13, BothHave DEF Present

------------------------------------------------------------------------------
(* Where the files come from: the private repository, the checkouts of the  *)
(* course's jobs, and what both exports were made of, hold the files of one *)
(* course, whatever teachers wrote into them, under its structure section.  *)

Setup(c, d) ==
    /\ {"enabled", "structure", "mode", "sub"} \subseteq DOMAIN d
    /\ d.structure = c.conf.structure /\ d.mode = c.conf.mode /\ d.sub = c.conf.sub

\* The same files, but for new tests and for solutions that were broken.
Revised(tree, files) ==
    /\ Resembles(tree, files)
    /\ \A p \in DOMAIN files : \/ tree[p] = files[p]
                               \/ files[p] = "v1" /\ tree[p] = "v2"
                               \/ files[p] = "gold" /\ tree[p] = "work"

ExportOf(c, e, tree, d, at) ==
    /\ at \in Int /\ Revised(tree, c.files) /\ Setup(c, d)
    /\ e.conf = d /\ e.at = at

Imaged(c, e) == \E tree, d, at : ExportOf(c, e, tree, d, at) /\ e.tree = ExportPrivate(tree, d, at)
Given(c, e) == \E tree, d, at : ExportOf(c, e, tree, d, at) /\ e.tree = ExportPublic(tree, d, at)

\* A job of the course: its image is the one it built, and its tasks that image's.
OfCourse(c, run) ==
    /\ Revised(run.root, c.files) /\ Setup(c, run.conf)
    /\ run.step \notin {"queued", "build"} =>
         /\ run.ref.at \in Int /\ run.ref.conf = run.conf
         /\ run.ref.tree = ExportPrivate(run.root, run.conf, run.ref.at)
    /\ run.step \notin {"queued", "build", "built"} => run.tasks = Range(Known(run.ref.tree, run.conf))
    /\ run.step = "deploy" => run.bad = {}

OriginOf(c) ==
    /\ Revised(reference, c.files) /\ Setup(c, conf)
    /\ Imaged(c, image) /\ Given(c, public)
    /\ \A r \in Runs : runs[r].kind = "course" /\ runs[r].step # "over" => OfCourse(c, runs[r])

OriginInv == \E c \in Courses : OriginOf(c)

LEMMA SourceOf ==
  ASSUME NEW tree, NEW other, Resembles(other, tree), IsSource(tree)
  PROVE  IsSource(other)
BY DEF Resembles, IsSource, IsTree, Present

LEMMA ResemblesOf ==
  ASSUME NEW tree, NEW other, NEW files, Resembles(tree, files), Resembles(other, files)
  PROVE  Resembles(other, tree)
BY DEF Resembles

LEMMA RevisionsRevise ==
  ASSUME NEW files, NEW tree, Revised(tree, files), NEW other \in Revisions(tree)
  PROVE  Revised(other, files)
<1>1. DOMAIN other = DOMAIN tree /\ DOMAIN tree = DOMAIN files
  BY DEF Revisions, Replaced, Revised, Resembles
<1>2. \A p \in DOMAIN tree : \/ other[p] = tree[p]
                             \/ tree[p] = "v1" /\ other[p] = "v2"
                             \/ tree[p] = "gold" /\ other[p] = "work"
  BY DEF Revisions, Replaced
<1>3. \A p \in DOMAIN files : \/ other[p] = files[p]
                              \/ files[p] = "v1" /\ other[p] = "v2"
                              \/ files[p] = "gold" /\ other[p] = "work"
  BY <1>1, <1>2 DEF Revised
<1>4. \A p \in DOMAIN files : other[p] = "wholly" <=> files[p] = "wholly"
  BY <1>3
<1> QED  BY <1>1, <1>3, <1>4 DEF Revised, Resembles

LEMMA EnablingSetup ==
  ASSUME NEW c, NEW d, Setup(c, d), NEW enabled
  PROVE  Setup(c, [d EXCEPT !.enabled = enabled])
<1> DEFINE e == [d EXCEPT !.enabled = enabled]
<1>1. DOMAIN e = DOMAIN d /\ \A f \in DOMAIN d : f # "enabled" => e[f] = d[f]
  OBVIOUS
<1>2. e.structure = d.structure /\ e.mode = d.mode /\ e.sub = d.sub
  BY <1>1 DEF Setup
<1> HIDE DEF e
<1>3. Setup(c, e)
  BY <1>1, <1>2 DEF Setup
<1> QED  BY <1>3 DEF e

(* What the steps do to the repositories.                                   *)
LEMMA MovesFiles ==
  ASSUME Next
  PROVE  \/ /\ \E r \in Runs, kind \in {"course", "grade"} : \E c, tree, last, named :
                 /\ Become(r, Queued(kind, c, tree, last, named))
                 /\ kind = "course" => tree = reference' /\ c = conf'
            /\ reference' = reference \/ reference' \in Revisions(reference)
            /\ conf' = conf \/ \E enabled : conf' = [conf EXCEPT !.enabled = enabled]
            /\ UNCHANGED <<image, public>>
         \/ UNCHANGED <<reference, conf, image, public, runs>>
         \/ \E r \in Runs :
              /\ Work(r) /\ UNCHANGED <<reference, conf>>
              /\ image' = image \/ (runs[r].step = "build" /\ BuildImage(runs[r].root, runs[r].conf))
              /\ public' = public \/ (runs[r].step = "deploy" /\ Publish(runs[r].root, runs[r].conf))
<1>1. CASE Submit
  <2>1. /\ Launch("grade", conf, work'.tree, work'.last, work'.named)
        /\ UNCHANGED <<reference, conf, image, public>>
    BY <1>1 DEF Submit, Edit, Pull
  <2>2. \E r \in Runs : Become(r, Queued("grade", conf, work'.tree, work'.last, work'.named))
    BY <2>1, LaunchIs
  <2> QED  BY <2>1, <2>2
<1>2. CASE TeacherPush
  <2>1. PICK tree \in Revisions(reference), enabled \in conf.plans :
               /\ Revise(tree, [conf EXCEPT !.enabled = enabled])
               /\ Launch("course", [conf EXCEPT !.enabled = enabled], tree, {}, {})
    BY <1>2 DEF TeacherPush
  <2> DEFINE c == [conf EXCEPT !.enabled = enabled]
  <2>2. reference' = tree /\ conf' = c /\ UNCHANGED <<image, public>>
    BY <1>2, <2>1 DEF TeacherPush, Revise
  <2>3. Launch("course", c, tree, {}, {})
    BY <2>1
  <2>4. \E e : conf' = [conf EXCEPT !.enabled = e]
    BY <2>2
  <2> HIDE DEF c
  <2>5. \E r \in Runs : Become(r, Queued("course", c, tree, {}, {}))
    BY <2>3, LaunchIs
  <2> QED  BY <2>1, <2>2, <2>4, <2>5
<1>3. CASE Pass
  BY <1>3 DEF Pass, Tick
<1>4. ASSUME NEW r \in Runs, Work(r)
      PROVE  /\ UNCHANGED <<reference, conf>>
             /\ image' = image \/ (runs[r].step = "build" /\ BuildImage(runs[r].root, runs[r].conf))
             /\ public' = public \/ (runs[r].step = "deploy" /\ Publish(runs[r].root, runs[r].conf))
  <2>1. CASE Deploy(r)
    BY <2>1 DEF Deploy
  <2>2. CASE Build(r)
    BY <2>2 DEF Build
  <2>3. CASE ~Deploy(r) /\ ~Build(r)
    BY <1>4, <2>3 DEF Work, Validate, Check, Grade, EndGlobal, NextTask, EndTask,
                EndReport, BreakStage, SkipStage, DryStage, RunStage, ReportStage, repositories
  <2> QED  BY <2>1, <2>2, <2>3
<1> QED  BY <1>1, <1>2, <1>3, <1>4 DEF Next

LEMMA QueuedFiles ==
  ASSUME NEW kind, NEW c, NEW tree, NEW last, NEW named
  PROVE  /\ Queued(kind, c, tree, last, named).root = tree
         /\ Queued(kind, c, tree, last, named).conf = c
         /\ Queued(kind, c, tree, last, named).kind = kind
         /\ Queued(kind, c, tree, last, named).step = "queued"
BY DEF Queued

\* The job keeps its checkout, its image, what it tests and its tasks.
Stays(run, y) ==
    /\ y.root = run.root /\ y.kind = run.kind /\ y.conf = run.conf
    /\ y.ref = run.ref /\ y.files = run.files /\ y.tasks = run.tasks

LEMMA StaysOf ==
  ASSUME NEW run, DOMAIN run = JobFields
  PROVE  /\ \A step : Stays(run, Goes(run, step))
         /\ \A bad, unsent : Stays(run, Dropped(run, bad, unsent))
         /\ Stays(run, Passed(run))
         /\ \A ok, percent : Stays(run, Settle(run, ok, percent))
         /\ \A t, output : Stays(run, Sends(Settle(run, TRUE, Full), t, output))
         /\ \A step, pipeline : Stays(run, Enters(run, step, pipeline))
<1>1. \A step : Stays(run, Goes(run, step))
  BY DEF Goes, JobFields, Stays
<1>2. \A bad, unsent : Stays(run, Dropped(run, bad, unsent))
  BY DEF Dropped, JobFields, Stays
<1>3. Stays(run, Passed(run))
  BY DEF Passed, JobFields, Stays
<1>4. \A ok, percent : Stays(run, Settle(run, ok, percent))
  BY DEF Settle, JobFields, Stays
<1>5. \A t, output : Stays(run, Sends(Settle(run, TRUE, Full), t, output))
  BY DEF Settle, Sends, JobFields, Stays
<1>6. \A step, pipeline : Stays(run, Enters(run, step, pipeline))
  BY DEF Enters, JobFields, Stays
<1> QED  BY <1>1, <1>2, <1>3, <1>4, <1>5, <1>6

LEMMA StartsIs ==
  ASSUME NEW run, NEW ref, NEW tasks, DOMAIN run = JobFields
  PROVE  /\ Begin(run, ref, tasks).root = run.root /\ Begin(run, ref, tasks).kind = run.kind
         /\ Begin(run, ref, tasks).conf = ref.conf /\ Begin(run, ref, tasks).ref = ref
         /\ Begin(run, ref, tasks).tasks = Range(tasks) /\ Begin(run, ref, tasks).step = "global"
         /\ Begin(run, ref, tasks).files = ExportForTesting(run.root, ref.tree, ref.conf)
BY DEF Begin, JobFields

LEMMA BuiltFrom ==
  ASSUME NEW run, NEW step, NEW ref, DOMAIN run = JobFields
  PROVE  /\ Built(run, step, ref).root = run.root /\ Built(run, step, ref).kind = run.kind
         /\ Built(run, step, ref).conf = run.conf /\ Built(run, step, ref).ref = ref
         /\ Built(run, step, ref).step = step
BY DEF Built, JobFields

(* A job is of the course or of a student from its push to its end.         *)
LEMMA KindStays ==
  ASSUME JobsInv, NEW r \in Runs, Work(r), NEW y, Become(r, y)
  PROVE  y.kind = runs[r].kind
<1> DEFINE run == runs[r]
<1>0. DOMAIN run = JobFields
  BY DEF JobsInv, JobOK
<1>1. \/ Prepares(run, y) \/ Starts(run, y) \/ Finishes(run, y) \/ GoesOn(run, y)
      \/ Opens(run, y) \/ Closes(run, y) \/ RunsStage(run, y) \/ Reports(run, y)
  BY WorkSteps
<1>2. \A exit : Over(run, exit).kind = run.kind
  BY <1>0, OverIs
<1>3. \A x : Stays(run, x) => x.kind = run.kind
  BY DEF Stays
<1>4. \A ref, tasks, step : Begin(run, ref, tasks).kind = run.kind /\ Built(run, step, ref).kind = run.kind
  BY <1>0, StartsIs, BuiltFrom
<1> SUFFICES y.kind = run.kind
  OBVIOUS
<1> HIDE DEF run
<1>5. CASE Prepares(run, y)
  BY <1>0, <1>3, <1>4, <1>5, StaysOf DEF Prepares
<1>6. CASE Starts(run, y)
  BY <1>4, <1>6 DEF Starts
<1>7. CASE Finishes(run, y)
  BY <1>2, <1>7 DEF Finishes
<1>8. CASE GoesOn(run, y)
  BY <1>0, <1>3, <1>8, StaysOf DEF GoesOn
<1>9. CASE Opens(run, y)
  BY <1>0, <1>3, <1>9, StaysOf DEF Opens
<1>10. CASE Closes(run, y)
  BY <1>0, <1>3, <1>10, StaysOf DEF Closes
<1>11. CASE RunsStage(run, y)
  BY <1>0, <1>3, <1>11, StaysOf DEF RunsStage
<1>12. CASE Reports(run, y)
  BY <1>0, <1>2, <1>3, <1>12, StaysOf DEF Reports
<1> QED  BY <1>1, <1>5, <1>6, <1>7, <1>8, <1>9, <1>10, <1>11, <1>12 DEF run

Middle == {"global", "next", "task", "report"}

(* A job that has begun goes on with the same files to its end.             *)
LEMMA StepsOn ==
  ASSUME NEW run, DOMAIN run = JobFields, NEW y,
         \/ Finishes(run, y) \/ GoesOn(run, y) \/ Opens(run, y) \/ Closes(run, y)
         \/ RunsStage(run, y) \/ Reports(run, y)
  PROVE  \/ y.step = "over"
         \/ run.kind = "course" /\ run.step = "next" /\ y = Goes(run, "deploy")
         \/ run.step \in Middle /\ y.step \in Middle /\ Stays(run, y)
<1>0. \A exit : Over(run, exit).step = "over"
  BY OverIs
<1>1. CASE Finishes(run, y)
  BY <1>0, <1>1 DEF Finishes
<1>2. CASE GoesOn(run, y)
  <2>1. CASE run.step = "global" /\ y = Goes(run, "next")
    <3>1. y.step = "next" /\ Stays(run, y)
      BY <2>1, GoesIs, StaysOf
    <3> QED  BY <2>1, <3>1 DEF Middle
  <2> QED  BY <1>2, <2>1 DEF GoesOn
<1>3. CASE Opens(run, y)
  <2>1. PICK step \in {"task", "report"} : \E pipeline :
          /\ y = Enters(run, step, pipeline)
          /\ step = "task" => run.step = "next"
          /\ step = "report" => run.step = "task"
    BY <1>3 DEF Opens
  <2>2. y.step = step
    BY <2>1 DEF Enters, JobFields
  <2>3. Stays(run, y)
    BY <2>1, StaysOf
  <2> QED  BY <2>1, <2>2, <2>3 DEF Middle
<1>4. CASE Closes(run, y)
  <2>1. PICK bad, unsent : run.step \in {"task", "report"} /\ y = Dropped(run, bad, unsent)
    BY <1>4 DEF Closes
  <2>2. Dropped(run, bad, unsent).step = "next"
    BY DroppedIs
  <2> QED  BY <2>1, <2>2, StaysOf DEF Middle
<1>5. \A x, ok, percent : x = Passed(run) \/ x = Settle(run, ok, percent) => x.step = run.step
  BY PassedIs, SettleIs, FieldNames
<1>6. CASE RunsStage(run, y)
  <2>1. run.step \in Middle /\ y.step = run.step
    BY <1>5, <1>6 DEF RunsStage, AtStageOf, Middle
  <2>2. y = Passed(run) \/ \E ok, percent : y = Settle(run, ok, percent)
    BY <1>6 DEF RunsStage
  <2>3. Stays(run, y)
    BY <2>2, StaysOf
  <2> QED  BY <2>1, <2>3
<1>7. CASE Reports(run, y)
  <2>1. run.step \in Middle
    BY <1>7 DEF Reports, AtStageOf, Middle
  <2>2. \A t, output : Sends(Settle(run, TRUE, Full), t, output).step = run.step
    BY DEF Sends, Settle, JobFields
  <2>3. \/ y = Sends(Settle(run, TRUE, Full), Subject(run), Output(run))
        \/ y = Settle(run, FALSE, 0)
        \/ y = Over(run, "broken")
    BY <1>7 DEF Reports
  <2>4. y = Sends(Settle(run, TRUE, Full), Subject(run), Output(run)) => y.step = run.step /\ Stays(run, y)
    BY <2>2, StaysOf
  <2>5. y = Settle(run, FALSE, 0) => y.step = run.step /\ Stays(run, y)
    BY <1>5, StaysOf
  <2> QED  BY <1>0, <2>1, <2>3, <2>4, <2>5
<1> QED  BY <1>1, <1>2, <1>3, <1>4, <1>5, <1>6, <1>7

(* What becomes of a job of the course.                                     *)
LEMMA CourseSteps ==
  ASSUME JobsInv, NEW r \in Runs, Work(r), NEW y, Become(r, y), runs[r].kind = "course"
  PROVE  \/ y.step = "over"
         \/ runs[r].step = "queued" /\ y = Goes(runs[r], "build")
         \/ /\ runs[r].step = "build" /\ BuildImage(runs[r].root, runs[r].conf)
            /\ y = Built(runs[r], "built", image')
         \/ /\ runs[r].step = "built"
            /\ y = Begin(runs[r], runs[r].ref, Known(runs[r].ref.tree, runs[r].conf))
         \/ runs[r].step = "next" /\ runs[r].bad = {} /\ y = Goes(runs[r], "deploy")
         \/ runs[r].step \in Middle /\ y.step \in Middle /\ Stays(runs[r], y)
<1> DEFINE run == runs[r]
<1>0. DOMAIN run = JobFields /\ DOMAIN runs = Runs
  BY DEF JobsInv, JobOK
<1>1. runs'[r] = y
  BY <1>0, BecomeIs
<1>a. ASSUME NEW x, Become(r, x) PROVE x = y
  <2>1. runs'[r] = x
    BY <1>0, <1>a, BecomeIs
  <2> QED  BY <1>1, <2>1
<1>b. \A exit : Over(run, exit).step = "over"
  BY <1>0, OverIs
<1>2. CASE run.step = "build"
  <2>1. Build(r)
    BY <1>2 DEF Work, Validate, Check, Grade, Deploy, EndGlobal, NextTask, EndTask,
                EndReport, BreakStage, SkipStage, DryStage, RunStage, ReportStage, Runnable, AtStage
  <2>2. BuildImage(run.root, run.conf) /\ Become(r, Built(run, "built", image'))
    BY <2>1 DEF Build, Built
  <2>3. PICK ref : ref = image'
    OBVIOUS
  <2>4. Become(r, Built(run, "built", ref))
    BY <2>2, <2>3
  <2>5. y = Built(run, "built", ref)
    BY <1>a, <2>4
  <2> QED  BY <1>2, <2>2, <2>3, <2>5
<1>3. CASE run.step = "built"
  <2>1. Check(r)
    BY <1>3 DEF Work, Validate, Build, Grade, Deploy, EndGlobal, NextTask, EndTask,
                EndReport, BreakStage, SkipStage, DryStage, RunStage, ReportStage, Runnable, AtStage
  <2>2. Become(r, Begin(run, run.ref, Known(run.ref.tree, run.conf)))
    BY <2>1 DEF Check
  <2> QED  BY <1>a, <1>3, <2>2
<1>4. CASE run.step = "next"
  <2>1. NextTask(r)
    BY <1>4 DEF Work, Validate, Build, Check, Grade, Deploy, EndGlobal, EndTask,
                EndReport, BreakStage, SkipStage, DryStage, RunStage, ReportStage, Runnable, AtStage
  <2> DEFINE opened == Enters(run, "task", PipelineOf(run.ref.tree, run.conf, Head(run.todo), "task"))
  <2>2. y \in {Conclude(run), Over(run, "broken"), opened}
    <3>1. \E x \in {Conclude(run), Over(run, "broken"), opened} : Become(r, x)
      BY <2>1 DEF NextTask
    <3> QED  BY <1>a, <3>1
  <2>3. CASE y = Conclude(run)
    <3>1. \/ y = Over(run, "failed") \/ y = Over(run, "passed")
          \/ run.bad \cup run.unsent = {} /\ y = Goes(run, "deploy")
      BY <2>3 DEF Conclude, Goes
    <3> QED  BY <1>b, <1>4, <3>1
  <2>4. CASE y = opened
    <3>1. opened.step = "task"
      BY <1>0 DEF Enters, JobFields
    <3>2. Stays(run, opened)
      BY <1>0, StaysOf
    <3> HIDE DEF opened, run
    <3> QED  BY <1>4, <2>4, <3>1, <3>2 DEF Middle, run
  <2> QED  BY <1>b, <2>2, <2>3, <2>4
<1>5. CASE run.step \notin {"build", "built", "next"}
  <2>1. \/ Prepares(run, y) \/ Starts(run, y) \/ Finishes(run, y) \/ GoesOn(run, y)
        \/ Opens(run, y) \/ Closes(run, y) \/ RunsStage(run, y) \/ Reports(run, y)
    BY WorkSteps
  <2>0. run.kind = "course"
    OBVIOUS
  <2>2. CASE Prepares(run, y)
    BY <1>5, <2>2 DEF Prepares
  <2>3. CASE Starts(run, y)
    BY <1>5, <2>0, <2>3 DEF Starts
  <2>4. CASE ~Prepares(run, y) /\ ~Starts(run, y)
    <3>1. \/ y.step = "over" \/ run.step = "next"
          \/ run.step \in Middle /\ y.step \in Middle /\ Stays(run, y)
      <4> HIDE DEF run
      <4> QED  BY <1>0, <2>1, <2>4, StepsOn
    <3> QED  BY <1>5, <3>1
  <2> QED  BY <2>1, <2>2, <2>3, <2>4
<1> QED  BY <1>2, <1>3, <1>4, <1>5

LEMMA OfCourseNext ==
  ASSUME JobsInv, TimeCounts, NEW r \in Runs, Work(r), NEW y, Become(r, y), runs[r].kind = "course",
         NEW c, OfCourse(c, runs[r]), y.step # "over"
  PROVE  OfCourse(c, y)
<1> DEFINE run == runs[r]
<1>0. DOMAIN run = JobFields
  BY DEF JobsInv, JobOK
<1>1. \A step : /\ Goes(run, step).step = step /\ Goes(run, step).bad = run.bad
                /\ Stays(run, Goes(run, step))
  <2>1. \A step : Goes(run, step).step = step /\ Goes(run, step).bad = run.bad
    BY <1>0 DEF Goes, JobFields
  <2> QED  BY <1>0, <2>1, StaysOf
<1>2. \A x : Stays(run, x) => /\ x.root = run.root /\ x.conf = run.conf /\ x.ref = run.ref
                              /\ x.tasks = run.tasks
  BY DEF Stays
<1>3. CASE run.step = "queued" /\ y = Goes(run, "build")
  <2>1. y.step = "build" /\ y.root = run.root /\ y.conf = run.conf
    BY <1>1, <1>2, <1>3
  <2> QED  BY <2>1 DEF OfCourse
<1>4. CASE /\ run.step = "build" /\ BuildImage(run.root, run.conf)
           /\ y = Built(run, "built", image')
  <2>1. PICK ref : ref = image'
    OBVIOUS
  <2>2. y.root = run.root /\ y.conf = run.conf /\ y.ref = ref /\ y.step = "built"
    <3>1. y = Built(run, "built", ref)
      BY <1>4, <2>1
    <3> QED  BY <1>0, <3>1, BuiltFrom
  <2>3. /\ ref.tree = ExportPrivate(run.root, run.conf, clock)
        /\ ref.conf = run.conf /\ ref.at = clock
    <3>1. ref = Export(ExportPrivate(run.root, run.conf, clock), run.conf, clock)
      BY <1>4, <2>1 DEF BuildImage
    <3> QED  BY <3>1 DEF Export
  <2>4. clock \in Int
    BY DEF TimeCounts
  <2> HIDE DEF run
  <2> QED  BY <2>2, <2>3, <2>4 DEF OfCourse, run
<1>5. CASE run.step = "built" /\ y = Begin(run, run.ref, Known(run.ref.tree, run.conf))
  <2>1. /\ y.root = run.root /\ y.conf = run.ref.conf /\ y.ref = run.ref
        /\ y.tasks = Range(Known(run.ref.tree, run.conf)) /\ y.step = "global"
    BY <1>0, <1>5, StartsIs
  <2>2. /\ run.ref.at \in Int /\ run.ref.conf = run.conf
        /\ run.ref.tree = ExportPrivate(run.root, run.conf, run.ref.at)
    BY <1>5 DEF OfCourse
  <2> QED  BY <2>1, <2>2 DEF OfCourse
<1>6. CASE run.step = "next" /\ run.bad = {} /\ y = Goes(run, "deploy")
  <2>1. /\ y.step = "deploy" /\ y.bad = {}
        /\ y.root = run.root /\ y.conf = run.conf /\ y.ref = run.ref /\ y.tasks = run.tasks
    BY <1>1, <1>2, <1>6
  <2> QED  BY <1>6, <2>1 DEF OfCourse
<1>7. CASE run.step \in Middle /\ y.step \in Middle /\ Stays(run, y)
  <2>1. y.root = run.root /\ y.conf = run.conf /\ y.ref = run.ref /\ y.tasks = run.tasks
    BY <1>2, <1>7
  <2> QED  BY <1>7, <2>1 DEF OfCourse, Middle
<1> QED  BY <1>3, <1>4, <1>5, <1>6, <1>7, CourseSteps

(* The files of a course stay its own.                                      *)
LEMMA OriginStays ==
  ASSUME JobsInv, TimeCounts, NEW c \in Courses, OriginOf(c), [Next]_vars
  PROVE  OriginOf(c)'
<1>0. OriginOf(c)
  OBVIOUS
<1>a. DOMAIN runs = Runs
  BY DEF JobsInv
<1> DEFINE Fine(run) == run.kind = "course" /\ run.step # "over" => OfCourse(c, run)
<1>1. ASSUME NEW r \in Runs, NEW y, Become(r, y), Fine(y),
             Revised(reference', c.files), Setup(c, conf'), Imaged(c, image'), Given(c, public')
      PROVE  OriginOf(c)'
  <2>1. runs'[r] = y /\ \A q \in Runs : q # r => runs'[q] = runs[q]
    BY <1>a, <1>1, BecomeIs
  <2>2. \A q \in Runs : Fine(runs[q])
    BY <1>0 DEF OriginOf
  <2>3. \A q \in Runs : Fine(runs'[q])
    <3> HIDE DEF Fine
    <3> QED  BY <1>1, <2>1, <2>2
  <2>4. OriginOf(c)'
    BY <1>1, <2>3 DEF OriginOf
  <2> QED  BY <2>4
<1>2. CASE UNCHANGED <<reference, conf, image, public, runs>>
  BY <1>0, <1>2 DEF OriginOf
<1>3. ASSUME NEW r \in Runs, NEW kind, NEW d, NEW tree, NEW last, NEW named,
             Become(r, Queued(kind, d, tree, last, named)),
             kind = "course" => tree = reference' /\ d = conf',
             reference' = reference \/ reference' \in Revisions(reference),
             conf' = conf \/ \E enabled : conf' = [conf EXCEPT !.enabled = enabled],
             UNCHANGED <<image, public>>
      PROVE  OriginOf(c)'
  <2>1. Revised(reference', c.files) /\ Setup(c, conf')
    <3>1. PICK files : files = reference'
      OBVIOUS
    <3>2. Revised(files, c.files)
      BY <1>0, <1>3, <3>1, RevisionsRevise DEF OriginOf
    <3>3. Setup(c, conf')
      BY <1>0, <1>3, EnablingSetup DEF OriginOf
    <3> QED  BY <3>1, <3>2, <3>3
  <2> DEFINE y == Queued(kind, d, tree, last, named)
  <2>2. y.root = tree /\ y.conf = d /\ y.kind = kind /\ y.step = "queued" /\ Become(r, y)
    BY <1>3, QueuedFiles
  <2> HIDE DEF y
  <2>3. Fine(y)
    BY <1>3, <2>1, <2>2 DEF OfCourse
  <2>4. Imaged(c, image') /\ Given(c, public')
    BY <1>0, <1>3 DEF OriginOf
  <2> QED  BY <1>1, <2>1, <2>2, <2>3, <2>4
<1>4. ASSUME NEW r \in Runs, Work(r), UNCHANGED <<reference, conf>>,
             image' = image \/ (runs[r].step = "build" /\ BuildImage(runs[r].root, runs[r].conf)),
             public' = public \/ (runs[r].step = "deploy" /\ Publish(runs[r].root, runs[r].conf))
      PROVE  OriginOf(c)'
  <2> DEFINE run == runs[r]
  <2>1. PICK y : Become(r, y)
    BY <1>4, WorkIs
  <2>2. Fine(run) /\ JobOK(run)
    BY <1>0 DEF OriginOf, JobsInv
  <2>3. run.step \in {"build", "deploy"} => OfCourse(c, run)
    BY <2>2 DEF JobOK
  <2>4. clock \in Int
    BY DEF TimeCounts
  <2>5. run.step \in {"build", "deploy"} => Revised(run.root, c.files) /\ Setup(c, run.conf)
    BY <2>3 DEF OfCourse
  <2>6. Imaged(c, image')
    <3>1. CASE image' = image
      BY <1>0, <3>1 DEF OriginOf
    <3>2. CASE run.step = "build" /\ BuildImage(run.root, run.conf)
      <4>1. /\ image'.tree = ExportPrivate(run.root, run.conf, clock)
            /\ image'.conf = run.conf /\ image'.at = clock
        BY <3>2 DEF BuildImage, Export
      <4> HIDE DEF run
      <4>2. ExportOf(c, image', run.root, run.conf, clock)
        BY <2>4, <2>5, <3>2, <4>1 DEF ExportOf
      <4> QED  BY <4>1, <4>2 DEF Imaged
    <3> QED  BY <1>4, <3>1, <3>2
  <2>7. Given(c, public')
    <3>1. CASE public' = public
      BY <1>0, <3>1 DEF OriginOf
    <3>2. CASE run.step = "deploy" /\ Publish(run.root, run.conf)
      <4>1. /\ public'.tree = ExportPublic(run.root, run.conf, clock)
            /\ public'.conf = run.conf /\ public'.at = clock
        BY <3>2 DEF Publish, Export
      <4> HIDE DEF run
      <4>2. ExportOf(c, public', run.root, run.conf, clock)
        BY <2>4, <2>5, <3>2, <4>1 DEF ExportOf
      <4> QED  BY <4>1, <4>2 DEF Given
    <3> QED  BY <1>4, <3>1, <3>2
  <2>8. Fine(y)
    <3>1. y.kind = run.kind
      BY <1>4, <2>1, KindStays
    <3>2. run.step # "over"
      BY <1>4 DEF Work, Validate, Build, Check, Grade, Deploy, EndGlobal, NextTask, EndTask,
                  EndReport, BreakStage, SkipStage, DryStage, RunStage, ReportStage, Runnable, AtStage
    <3> QED  BY <1>4, <2>1, <2>2, <3>1, <3>2, OfCourseNext
  <2>9. Revised(reference', c.files) /\ Setup(c, conf')
    BY <1>0, <1>4 DEF OriginOf
  <2> QED  BY <1>1, <2>1, <2>6, <2>7, <2>8, <2>9
<1>5. CASE UNCHANGED vars
  BY <1>2, <1>5 DEF vars, repositories
<1> QED  BY <1>2, <1>3, <1>4, <1>5, MovesFiles

LEMMA OriginNext ==
  ASSUME JobsInv, TimeCounts, OriginInv, [Next]_vars
  PROVE  OriginInv'
BY OriginStays DEF OriginInv

LEMMA OriginInit == Init => OriginInv
<1> SUFFICES ASSUME Init PROVE OriginInv
  OBVIOUS
<1>1. PICK c \in Courses : InitRepositories(c.files, c.conf)
  BY DEF Init
<1>2. Revised(c.files, c.files) /\ Setup(c, c.conf)
  BY CoursesAssumption DEF Revised, Resembles, Setup, IsConfig
<1>3. reference = c.files /\ conf = c.conf
  BY <1>1 DEF InitRepositories
<1>4. /\ image.tree = ExportPrivate(c.files, c.conf, 0) /\ image.conf = c.conf /\ image.at = 0
      /\ public.tree = ExportPublic(c.files, c.conf, 0) /\ public.conf = c.conf /\ public.at = 0
  BY <1>1 DEF InitRepositories, Export
<1>5. ExportOf(c, image, c.files, c.conf, 0) /\ ExportOf(c, public, c.files, c.conf, 0)
  BY <1>2, <1>4 DEF ExportOf
<1>6. Imaged(c, image) /\ Given(c, public)
  BY <1>4, <1>5 DEF Imaged, Given
<1>7. \A r \in Runs : runs[r].step = "over"
  BY DEF Init, InitGrading, Over, Queued
<1>8. OriginOf(c)
  BY <1>2, <1>3, <1>6, <1>7 DEF OriginOf
<1> QED  BY <1>8 DEF OriginInv

LEMMA FilesAre ==
  ASSUME AllPresent, NEW c \in Courses, NEW tree, Resembles(tree, c.files)
  PROVE  IsSource(tree)
<1>1. IsSource(c.files)
  BY CoursesAssumption DEF IsSource, AllPresent
<1> QED  BY <1>1, SourceOf

(* Nothing of a task that is disabled or has not opened is ever handed out, *)
(* of every course whose tasks all have a config file and whose folders are *)
(* not named like templates.  (Exporter.export_public, exporter.py.)        *)
THEOREM OnlyReleasedAlways ==
  ASSUME AllPresent, PlainFolders
  PROVE  Spec => []OnlyReleased
<1>1. Init => JobsInv /\ TimeCounts /\ OriginInv
  BY JobsInit, TimeInit, OriginInit
<1>2. JobsInv /\ TimeCounts /\ OriginInv /\ [Next]_vars => (JobsInv /\ TimeCounts /\ OriginInv)'
  BY JobsNext, TimeNext, OriginNext
<1>3. OriginInv => OnlyReleased
  <2> SUFFICES ASSUME OriginInv PROVE OnlyReleased
    OBVIOUS
  <2>1. PICK c \in Courses : Given(c, public)
    BY DEF OriginInv, OriginOf
  <2>2. PICK tree, d, at : ExportOf(c, public, tree, d, at) /\ public.tree = ExportPublic(tree, d, at)
    BY <2>1 DEF Given
  <2>3. IsSource(tree) /\ at \in Int /\ public.conf = d /\ public.at = at
    BY <2>2, FilesAre DEF ExportOf, Revised
  <2>4. \A p \in DOMAIN ExportPublic(tree, d, at) : \A t \in Range(Tasks) :
          Under(p, t) => t \in EnabledTasks(d) /\ Schedule[GroupOf(t)].start <= at
    BY <2>3, ReleasedOnly DEF IsSource
  <2> QED  BY <2>2, <2>3, <2>4 DEF OnlyReleased
<1> QED  BY <1>1, <1>2, <1>3, PTL DEF Spec

(* A task that was handed out is in the testing image, unless it opened     *)
(* after the image was built: of every course whose tasks all have a config *)
(* file and folders of their own that are not named like templates, however *)
(* its jobs interleave.  (Exporter.export_public, Exporter.export_private.) *)
THEOREM HandedOutIsGradableAlways ==
  ASSUME AllPresent, PlainFolders, FoldersApart
  PROVE  Spec => []HandedOutIsGradable
<1>1. Init => JobsInv /\ TimeCounts /\ OriginInv
  BY JobsInit, TimeInit, OriginInit
<1>2. JobsInv /\ TimeCounts /\ OriginInv /\ [Next]_vars => (JobsInv /\ TimeCounts /\ OriginInv)'
  BY JobsNext, TimeNext, OriginNext
<1>3. OriginInv => HandedOutIsGradable
  <2> SUFFICES ASSUME OriginInv PROVE HandedOutIsGradable
    OBVIOUS
  <2>1. PICK c \in Courses : Given(c, public) /\ Imaged(c, image)
    BY DEF OriginInv, OriginOf
  <2>2. PICK tree, d, now : ExportOf(c, public, tree, d, now) /\ public.tree = ExportPublic(tree, d, now)
    BY <2>1 DEF Given
  <2>3. PICK other, e, at : ExportOf(c, image, other, e, at) /\ image.tree = ExportPrivate(other, e, at)
    BY <2>1 DEF Imaged
  <2>4. IsSource(tree) /\ Resembles(other, tree) /\ now \in Int /\ at \in Int
    <3>1. IsSource(tree)
      BY <2>2, FilesAre DEF ExportOf, Revised
    <3>2. Resembles(other, tree)
      BY <2>2, <2>3, ResemblesOf DEF ExportOf, Revised
    <3> QED  BY <2>2, <2>3, <3>1, <3>2 DEF ExportOf
  <2>5. d.structure = e.structure /\ d.mode = e.mode /\ d.sub = e.sub /\ image.conf = e /\ image.at = at
    BY <2>2, <2>3 DEF ExportOf, Setup
  <2>6. ASSUME NEW t \in EnabledTasks(e), Present(ExportPublic(tree, d, now), t),
               Schedule[GroupOf(t)].start <= at
        PROVE  Present(ExportPrivate(other, e, at), t)
    <3>1. t \in Range(Tasks)
      BY DEF EnabledTasks
    <3> QED  BY <2>4, <2>5, <2>6, <3>1, TaskTravels
  <2> QED  BY <2>2, <2>3, <2>5, <2>6 DEF HandedOutIsGradable
<1> QED  BY <1>1, <1>2, <1>3, PTL DEF Spec

(* A job knows every enabled task that is there.                            *)
LEMMA KnownHas ==
  ASSUME NEW ref, NEW c, NEW t \in EnabledTasks(c), Present(ref, t)
  PROVE  t \in Range(Known(ref, c))
<1> DEFINE X == {u \in EnabledTasks(c) : Present(ref, u)}
           n == Len(Tasks)
<1>1. n \in Nat /\ Tasks \in [1..n -> Range(Tasks)] /\ DOMAIN Tasks = 1..n
  BY TasksAre
<1>2. PICK a \in 1..n : Tasks[a] = t
  BY <1>1 DEF EnabledTasks, Range
<1>3. Selects(Among(Tasks, X), Tasks, X, n)
  <2> HIDE DEF X, n
  <2> QED  BY <1>1, AmongIs
<1>4. t \in X
  OBVIOUS
<1> HIDE DEF X
<1>5. \E i \in DOMAIN Among(Tasks, X) : Among(Tasks, X)[i] = t
  BY <1>2, <1>3, <1>4 DEF Selects
<1>6. Known(ref, c) = Among(Tasks, X)
  BY DEF Known, X
<1> QED  BY <1>5, <1>6 DEF Range

(* Publishing is the last step of a job that has checked what it publishes. *)
LEMMA CheckedNext ==
  ASSUME AllPresent, PlainFolders, FoldersApart, ReportsLast,
         JobsInv, ReportsInv, TimeCounts, OriginInv, Next
  PROVE  PublishesChecked
<1> SUFFICES ASSUME NEW r \in Runs, runs[r].kind = "course", runs'[r] # runs[r]
             PROVE  /\ UNCHANGED scores
                    /\ public' # public /\ runs[r].step = "deploy" =>
                         \A t \in Range(Tasks) :
                           Present(public'.tree, t) /\ Schedule[GroupOf(t)].start <= runs[r].ref.at
                             => t \in runs[r].tasks \ runs[r].bad
  BY DEF PublishesChecked
<1> DEFINE run == runs[r]
<1>0. DOMAIN runs = Runs /\ JobOK(run) /\ InOrder(run)
  BY DEF JobsInv, ReportsInv
<1>1. ASSUME NEW q \in Runs, Work(q) PROVE q = r
  <2>1. PICK y : Become(q, y)
    BY <1>1, WorkIs
  <2> QED  BY <1>0, <2>1, BecomeIs
<1>2. UNCHANGED scores
  <2>1. CASE Work(r)
    <3>1. PICK y : Become(r, y)
      BY <2>1, WorkIs
    <3>2. ~Reports(run, y)
      BY <1>0, BeforeReports
    <3> QED  BY <2>1, <3>1, <3>2, WorkSteps
  <2>2. CASE ~Work(r)
    BY <1>1, <2>2, StepIs
  <2> QED  BY <2>1, <2>2
<1>3. ASSUME public' # public, run.step = "deploy",
             NEW t \in Range(Tasks), Present(public'.tree, t), Schedule[GroupOf(t)].start <= run.ref.at
      PROVE  t \in run.tasks \ run.bad
  <2>1. PICK q \in Runs : Work(q) /\ (runs[q].step = "deploy" /\ Publish(runs[q].root, runs[q].conf))
    BY <1>3, MovesFiles
  <2>2. Publish(run.root, run.conf)
    BY <1>1, <2>1
  <2>3. PICK c \in Courses : OfCourse(c, run)
    BY <1>3 DEF OriginInv, OriginOf
  <2>4. public'.tree = ExportPublic(run.root, run.conf, clock)
    BY <2>2 DEF Publish, Export
  <2>5. /\ Resembles(run.root, c.files) /\ run.bad = {}
        /\ run.ref.at \in Int /\ run.ref.tree = ExportPrivate(run.root, run.conf, run.ref.at)
        /\ run.tasks = Range(Known(run.ref.tree, run.conf))
    BY <1>3, <2>3 DEF OfCourse, Revised
  <2>6. IsSource(run.root) /\ Resembles(run.root, run.root) /\ clock \in Int
    <3>1. Resembles(run.root, run.root)
      BY DEF Resembles
    <3> HIDE DEF run
    <3> QED  BY <2>5, <3>1, FilesAre DEF TimeCounts
  <2> DEFINE tree == run.root
             d == run.conf
             at == run.ref.at
  <2>7. Present(ExportPublic(tree, d, clock), t) /\ Schedule[GroupOf(t)].start <= at
    BY <1>3, <2>4
  <2> HIDE DEF run
  <2>8. PICK now \in Int : now = clock
    BY <2>6
  <2>9. t \in EnabledTasks(d)
    <3>1. Under(Append(DirOf[t], Meta), t)
      BY MetaPath
    <3>2. Append(DirOf[t], Meta) \in DOMAIN ExportPublic(tree, d, now)
      BY <2>7, <2>8 DEF Present
    <3> QED  BY <2>6, <3>1, <3>2, ReleasedOnly DEF IsSource
  <2>10. Present(ExportPrivate(tree, d, at), t)
    <3> HIDE DEF tree, d, at
    <3> QED  BY <2>5, <2>6, <2>7, <2>8, <2>9, TaskTravels DEF tree, at
  <2>11. t \in Range(Known(run.ref.tree, d))
    BY <2>5, <2>9, <2>10, KnownHas
  <2> QED  BY <2>5, <2>11
<1> QED  BY <1>2, <1>3

(* A course's check never reaches manytask, and what it publishes it has    *)
(* checked, unless it opened after the image was built: of every course     *)
(* whose pipelines report last and whose tasks have folders of their own.   *)
(* (Tester.run, tester.py, and the order of the commands of the course's CI.) *)
THEOREM OnlyCheckedIsPublishedAlways ==
  ASSUME AllPresent, PlainFolders, FoldersApart, ReportsLast
  PROVE  Spec => OnlyCheckedIsPublished
<1>1. Init => JobsInv /\ ReportsInv /\ TimeCounts /\ OriginInv
  BY JobsInit, ReportsInit, TimeInit, OriginInit
<1>2. JobsInv /\ ReportsInv /\ TimeCounts /\ OriginInv /\ [Next]_vars
        => (JobsInv /\ ReportsInv /\ TimeCounts /\ OriginInv)'
  BY JobsNext, ReportsNext, TimeNext, OriginNext
<1>3. JobsInv /\ ReportsInv /\ TimeCounts /\ OriginInv /\ [Next]_vars => [PublishesChecked]_vars
  BY CheckedNext
<1> QED  BY <1>1, <1>2, <1>3, PTL DEF Spec, OnlyCheckedIsPublished

------------------------------------------------------------------------------
(* What an entry goes by: the structure sections along a walk.              *)

LEMMA RuleFirst ==
  ASSUME NEW files, NEW c, NEW path, NEW f
  PROVE  RuleAt(files, c, path, 1, f) = c.structure[f]
BY DEF RuleAt

LEMMA RuleNext ==
  ASSUME NEW files, NEW c, NEW path, NEW f, NEW k \in Nat \ {0}
  PROVE  RuleAt(files, c, path, k + 1, f) =
           IF SubSeq(path, 1, k) \in Homes(files, c) /\ c.sub[SubSeq(path, 1, k)][f] # Inherit
           THEN c.sub[SubSeq(path, 1, k)][f] ELSE RuleAt(files, c, path, k, f)
<1> DEFINE Above(n) == {j \in 1..(n - 1) : SubSeq(path, 1, j) \in Homes(files, c)
                                           /\ c.sub[SubSeq(path, 1, j)][f] # Inherit}
           Says(S) == IF S = {} THEN c.structure[f] ELSE c.sub[SubSeq(path, 1, Max(S))][f]
<1>1. \A n : RuleAt(files, c, path, n, f) = Says(Above(n))
  BY DEF RuleAt
<1>2. (k + 1) - 1 = k /\ 1..k = 1..(k - 1) \cup {k} /\ k \notin 1..(k - 1) /\ k \in Nat
  OBVIOUS
<1>3. CASE SubSeq(path, 1, k) \in Homes(files, c) /\ c.sub[SubSeq(path, 1, k)][f] # Inherit
  <2>1. k \in Above(k + 1) /\ Above(k + 1) \subseteq 1..k
    BY <1>2, <1>3
  <2>2. Max(Above(k + 1)) \in 1..k /\ k <= Max(Above(k + 1))
    <3> HIDE DEF Above
    <3> QED  BY <1>2, <2>1, MaxIs
  <2>3. Max(Above(k + 1)) = k
    <3> HIDE DEF Above
    <3> QED  BY <1>2, <2>2
  <2>4. Says(Above(k + 1)) = c.sub[SubSeq(path, 1, k)][f]
    <3> HIDE DEF Above
    <3> QED  BY <2>1, <2>3
  <2> QED  BY <1>1, <1>3, <2>4
<1>4. CASE ~(SubSeq(path, 1, k) \in Homes(files, c) /\ c.sub[SubSeq(path, 1, k)][f] # Inherit)
  <2>1. Above(k + 1) = Above(k)
    BY <1>2, <1>4
  <2> HIDE DEF Above, Says
  <2> QED  BY <1>1, <1>4, <2>1
<1> QED  BY <1>3, <1>4

IsWalk(W, repo, path, opt) ==
    /\ W[0] = Setting(opt)
    /\ \A k \in 1..Len(path) : W[k] = Enter(repo, path, opt, W[k - 1], k)

LEMMA WalkFrom ==
  ASSUME NEW repo, NEW path, NEW opt, path \in Seq(Range(path))
  PROVE  \E W : IsWalk(W, repo, path, opt) /\ Walk(repo, path, opt) = W[Len(path)]
<1>1. Len(path) \in Nat
  OBVIOUS
<1> QED  BY <1>1, WalkIs DEF IsWalk

(* What one level does.                                                     *)
LEMMA LevelIs ==
  ASSUME NEW repo, NEW path, NEW opt, NEW w, NEW k
  PROVE  /\ Enter(repo, path, opt, w, k).kept <=>
              /\ w.kept /\ SubSeq(path, 1, k - 1) \notin opt.skip
              /\ path[k] \notin Excluded(repo, SubSeq(path, 1, k - 1), opt)
              /\ Admits(w, path, k)
              /\ ~(/\ opt.fill /\ opt.mode \in Searching /\ path[k] \in DOMAIN Original
                   /\ EmptyTemplate(repo, SubSeq(path, 1, k), opt))
         /\ Enter(repo, path, opt, w, k).config = Onward(w, path, opt.sub, k)
         /\ Enter(repo, path, opt, w, k).copy = IF IsWhole(w, path, k) THEN All ELSE w.copy
         /\ ~opt.fill => Enter(repo, path, opt, w, k).dest = Append(w.dest, path[k])
<1>1. Enter(repo, path, opt, w, k).kept <=>
              /\ w.kept /\ SubSeq(path, 1, k - 1) \notin opt.skip
              /\ path[k] \notin Excluded(repo, SubSeq(path, 1, k - 1), opt)
              /\ Admits(w, path, k)
              /\ ~(/\ opt.fill /\ opt.mode \in Searching /\ path[k] \in DOMAIN Original
                   /\ EmptyTemplate(repo, SubSeq(path, 1, k), opt))
  BY DEF Enter, Admits
<1>2. Enter(repo, path, opt, w, k).config = Onward(w, path, opt.sub, k)
  BY DEF Enter, Onward, IsWhole
<1>3. Enter(repo, path, opt, w, k).copy = IF IsWhole(w, path, k) THEN All ELSE w.copy
  BY DEF Enter, IsWhole
<1>4. ~opt.fill => Enter(repo, path, opt, w, k).dest = Append(w.dest, path[k])
  BY DEF Enter
<1> QED  BY <1>1, <1>2, <1>3, <1>4

(* What a walk keeps to its end it keeps on every level.                    *)
LEMMA KeptBefore ==
  ASSUME NEW repo, NEW path, NEW opt, NEW W, IsWalk(W, repo, path, opt), Len(path) \in Nat, W[Len(path)].kept
  PROVE  \A k \in 0..Len(path) : W[k].kept
<1> DEFINE n == Len(path)
           T == {j \in Nat : j <= n => W[n - j].kept}
<1>1. 0 \in T
  OBVIOUS
<1>2. \A j \in Nat : j \in T => j + 1 \in T
  <2> SUFFICES ASSUME NEW j \in Nat, j \in T, j + 1 <= n PROVE W[n - (j + 1)].kept
    OBVIOUS
  <2> DEFINE k == n - j
  <2>1. k \in 1..n /\ k - 1 = n - (j + 1) /\ j <= n
    OBVIOUS
  <2>2. W[k].kept /\ W[k] = Enter(repo, path, opt, W[k - 1], k)
    BY <2>1 DEF IsWalk
  <2>3. W[k - 1].kept
    BY <2>2, LevelIs
  <2> QED  BY <2>1, <2>3
<1>3. Nat \subseteq T
  <2> HIDE DEF T
  <2> QED  BY <1>1, <1>2, SetInduction
<1>4. ASSUME NEW k \in 0..n PROVE W[k].kept
  <2>1. n - k \in Nat /\ n - k <= n /\ n - (n - k) = k
    OBVIOUS
  <2> DEFINE j == n - k
  <2>2. j \in T /\ j <= n
    <3> HIDE DEF T
    <3> QED  BY <1>3, <2>1
  <2>3. W[n - j].kept
    <3> HIDE DEF j
    <3> QED  BY <2>2
  <2> QED  BY <2>1, <2>3
<1> QED  BY <1>4

LEMMA LevelKept ==
  ASSUME NEW repo, NEW path, NEW opt, NEW W, IsWalk(W, repo, path, opt), Len(path) \in Nat, W[Len(path)].kept,
         NEW k \in 1..Len(path)
  PROVE  /\ SubSeq(path, 1, k - 1) \notin opt.skip
         /\ path[k] \notin Excluded(repo, SubSeq(path, 1, k - 1), opt)
         /\ Admits(W[k - 1], path, k)
<1>0. \A j \in 0..Len(path) : W[j].kept
  BY KeptBefore
<1>1. W[k].kept /\ W[k] = Enter(repo, path, opt, W[k - 1], k)
  BY <1>0 DEF IsWalk
<1> QED  BY <1>1, LevelIs

\* The state before level k has the rules that the entry goes by.
Going(w, files, c, path, k) ==
    /\ DOMAIN w.config = DOMAIN c.structure
    /\ \A f \in DOMAIN c.structure : w.config[f] = RuleAt(files, c, path, k, f)

HomeRead(sub, files, c, here) ==
    /\ here \in DOMAIN sub <=> here \in Homes(files, c)
    /\ here \in DOMAIN sub => sub[here] = c.sub[here]

LEMMA GoingOn ==
  ASSUME NEW files, NEW c, NEW path, NEW k \in Nat \ {0}, NEW w, Going(w, files, c, path, k),
         k < Len(path), ~IsWhole(w, path, k), NEW sub, HomeRead(sub, files, c, SubSeq(path, 1, k)),
         NEW x, x.config = Onward(w, path, sub, k)
  PROVE  Going(x, files, c, path, k + 1)
<1> DEFINE here == SubSeq(path, 1, k)
<1>1. CASE here \in DOMAIN sub
  <2>1. x.config = Effective(w.config, c.sub[here]) /\ here \in Homes(files, c)
    BY <1>1 DEF Onward, HomeRead
  <2>2. DOMAIN x.config = DOMAIN c.structure
    BY <2>1 DEF Effective, Going
  <2>3. ASSUME NEW f \in DOMAIN c.structure PROVE x.config[f] = RuleAt(files, c, path, k + 1, f)
    <3>1. x.config[f] = IF c.sub[here][f] = Inherit THEN w.config[f] ELSE c.sub[here][f]
      BY <2>1, <2>3 DEF Effective, Going
    <3> HIDE DEF here
    <3> QED  BY <2>1, <2>3, <3>1, RuleNext DEF Going, here
  <2> QED  BY <2>2, <2>3 DEF Going
<1>2. CASE here \notin DOMAIN sub
  <2>1. x.config = w.config /\ here \notin Homes(files, c)
    BY <1>2 DEF Onward, HomeRead
  <2>2. ASSUME NEW f \in DOMAIN c.structure PROVE x.config[f] = RuleAt(files, c, path, k + 1, f)
    <3> HIDE DEF here
    <3> QED  BY <2>1, <2>2, RuleNext DEF Going, here
  <2> QED  BY <2>1, <2>2 DEF Going
<1> QED  BY <1>1, <1>2

(* Up to the first folder that is copied whole, a walk goes by the rules.   *)
HomesRead(sub, files, c, path, m) ==
    \A k \in 1..(m - 1) : HomeRead(sub, files, c, SubSeq(path, 1, k))
NoneWhole(W, files, c, path, opt, m) ==
    \A k \in 1..(m - 1) : Going(W[k - 1], files, c, path, k) /\ W[k - 1].copy = opt.copy
                            => ~IsWhole(W[k - 1], path, k)

LEMMA GoesBy ==
  ASSUME NEW repo, NEW path, NEW opt, NEW W, IsWalk(W, repo, path, opt), Len(path) \in Nat,
         NEW files, NEW c, opt.config = c.structure, NEW m \in 1..Len(path),
         HomesRead(opt.sub, files, c, path, m), NoneWhole(W, files, c, path, opt, m)
  PROVE  Going(W[m - 1], files, c, path, m) /\ W[m - 1].copy = opt.copy
<1> DEFINE Is(k) == Going(W[k], files, c, path, k + 1) /\ W[k].copy = opt.copy
           T == {k \in Nat : k < m => Is(k)}
<1>1. 0 \in T
  <2>1. W[0].config = c.structure /\ W[0].copy = opt.copy
    BY DEF IsWalk, Setting
  <2>2. Going(W[0], files, c, path, 0 + 1)
    <3>1. 0 + 1 = 1
      OBVIOUS
    <3> QED  BY <2>1, <3>1, RuleFirst DEF Going
  <2> QED  BY <2>1, <2>2
<1>2. ASSUME NEW k \in Nat, Is(k), k + 1 < m PROVE Is(k + 1)
  <2> DEFINE l == k + 1
  <2>1. l \in 1..(m - 1) /\ l - 1 = k /\ l \in 1..Len(path) /\ l < Len(path) /\ l \in Nat \ {0}
    BY <1>2
  <2> HIDE DEF l
  <2>2. Going(W[k], files, c, path, l) /\ W[k].copy = opt.copy
    BY <1>2 DEF l
  <2>3. ~IsWhole(W[k], path, l)
    BY <2>1, <2>2 DEF NoneWhole
  <2>4. W[l] = Enter(repo, path, opt, W[k], l)
    BY <2>1 DEF IsWalk
  <2>5. W[l].config = Onward(W[k], path, opt.sub, l) /\ W[l].copy = opt.copy
    BY <2>2, <2>3, <2>4, LevelIs
  <2>6. HomeRead(opt.sub, files, c, SubSeq(path, 1, l))
    BY <2>1 DEF HomesRead
  <2>7. Going(W[l], files, c, path, l + 1)
    BY <2>1, <2>2, <2>3, <2>5, <2>6, GoingOn
  <2> QED  BY <2>5, <2>7 DEF l
<1> HIDE DEF Is
<1>3. \A k \in Nat : k \in T => k + 1 \in T
  <2>1. \A k \in Nat : k + 1 < m => k < m
    OBVIOUS
  <2> QED  BY <1>2, <2>1
<1>4. Nat \subseteq T
  <2> HIDE DEF T
  <2> QED  BY <1>1, <1>3, SetInduction
<1>5. m - 1 \in Nat /\ m - 1 < m /\ (m - 1) + 1 = m
  OBVIOUS
<1>6. Is(m - 1)
  BY <1>4, <1>5
<1> QED  BY <1>5, <1>6 DEF Is

(* The sections that an export reads on its way are those of the folders,   *)
(* since it leaves out those that it does not read.                         *)
LEMMA ReleasedHomes ==
  ASSUME NEW tree, NEW d, NEW now, NEW here, here \notin Unreleased(tree, d, now)
  PROVE  HomeRead(SubConfigs(tree, d), tree, d, here)
<1> DEFINE sub == SubConfigs(tree, d)
           read == {x \in GroupsWhere(d, TRUE) \cup EnabledTasks(d) : Present(tree, x)}
           dirs == {DirOf[x] : x \in read} \cap DOMAIN d.sub
<1>1. sub = [e \in dirs |-> d.sub[e]]
  BY DEF SubConfigs
<1>2. here \in dirs => here \in Homes(tree, d)
  BY DEF Homes, GroupsWhere, EnabledTasks
<1>3. ASSUME here \in Homes(tree, d) PROVE here \in dirs
  <2>1. PICK x \in Range(Groups) \cup Range(Tasks) : here = DirOf[x] /\ Present(tree, x) /\ here \in DOMAIN d.sub
    BY <1>3 DEF Homes
  <2>2. x \notin GroupsWhere(d, FALSE) /\ x \notin Range(Tasks) \ EnabledTasks(d)
    BY <2>1 DEF Unreleased
  <2>3. x \in Range(Groups) => x \in GroupsWhere(d, TRUE)
    BY <2>2 DEF GroupsWhere
  <2>4. x \in GroupsWhere(d, TRUE) \cup EnabledTasks(d)
    BY <2>2, <2>3
  <2> QED  BY <2>1, <2>4
<1>4. DOMAIN sub = dirs /\ \A e \in dirs : sub[e] = d.sub[e]
  BY <1>1
<1> HIDE DEF sub, dirs
<1>5. HomeRead(sub, tree, d, here)
  BY <1>2, <1>3, <1>4 DEF HomeRead
<1> QED  BY <1>5 DEF sub

LEMMA SameHomes ==
  ASSUME NEW tree, NEW files, DOMAIN tree = DOMAIN files, NEW c, NEW d, d.sub = c.sub, d.structure = c.structure
  PROVE  /\ Homes(tree, d) = Homes(files, c)
         /\ \A path, k, f : RuleAt(tree, d, path, k, f) = RuleAt(files, c, path, k, f)
         /\ \A path : Hidden(tree, d, path) => Hidden(files, c, path)
<1>1. Homes(tree, d) = Homes(files, c)
  BY DEF Homes, Present
<1>2. \A path, k, f : RuleAt(tree, d, path, k, f) = RuleAt(files, c, path, k, f)
  BY <1>1 DEF RuleAt
<1>3. \A path : Hidden(tree, d, path) => Hidden(files, c, path)
  BY <1>2 DEF Hidden
<1> QED  BY <1>1, <1>2, <1>3

(* What is private by the sections above it, no walk keeps that copies no   *)
(* private files.                                                           *)
LEMMA HiddenIsLeft ==
  ASSUME NEW repo, NEW path, path \in Seq(Range(path)), NEW opt, NEW files, NEW c,
         opt.config = c.structure, {"public", "private"} \subseteq DOMAIN c.structure,
         \A here : here \notin opt.skip => HomeRead(opt.sub, files, c, here),
         ~opt.copy.private, Hidden(files, c, path), Walk(repo, path, opt).kept
  PROVE  FALSE
<1>1. PICK W : IsWalk(W, repo, path, opt) /\ Walk(repo, path, opt) = W[Len(path)]
  BY WalkFrom
<1>2. Len(path) \in Nat
  OBVIOUS
<1>3. \A k \in 1..Len(path) : SubSeq(path, 1, k - 1) \notin opt.skip /\ Admits(W[k - 1], path, k)
  BY <1>1, <1>2, LevelKept
<1>4. PICK m \in 1..Len(path) :
        /\ path[m] \in RuleAt(files, c, path, m, "private") \ RuleAt(files, c, path, m, "public")
        /\ \A j \in 1..(m - 1) : path[j] \notin RuleAt(files, c, path, j, "public")
  BY DEF Hidden
<1>5. ASSUME NEW k \in 1..(m - 1) PROVE HomeRead(opt.sub, files, c, SubSeq(path, 1, k))
  <2>1. k + 1 \in 1..Len(path) /\ (k + 1) - 1 = k
    BY <1>2
  <2>2. SubSeq(path, 1, k) \notin opt.skip
    BY <1>3, <2>1
  <2> QED  BY <2>2
<1>6. ASSUME NEW k \in 1..(m - 1), Going(W[k - 1], files, c, path, k), W[k - 1].copy = opt.copy
      PROVE  ~IsWhole(W[k - 1], path, k)
  <2>1. k \in 1..Len(path)
    BY <1>2
  <2>2. path[k] \notin W[k - 1].config.public
    BY <1>4, <1>6 DEF Going
  <2>3. path[k] \notin W[k - 1].config.private
    BY <1>3, <1>6, <2>1, <2>2 DEF Admits
  <2> QED  BY <2>2, <2>3 DEF IsWhole
<1>7. Going(W[m - 1], files, c, path, m) /\ W[m - 1].copy = opt.copy
  <2>0. IsWalk(W, repo, path, opt) /\ Len(path) \in Nat /\ opt.config = c.structure /\ m \in 1..Len(path)
    BY <1>1, <1>2, <1>4
  <2>1. HomesRead(opt.sub, files, c, path, m)
    BY <1>5 DEF HomesRead
  <2>2. NoneWhole(W, files, c, path, opt, m)
    BY <1>6 DEF NoneWhole
  <2> QED  BY <2>0, <2>1, <2>2, GoesBy
<1>8. path[m] \in W[m - 1].config.private /\ path[m] \notin W[m - 1].config.public
  BY <1>4, <1>7 DEF Going
<1> QED  BY <1>3, <1>7, <1>8 DEF Admits

(* What has a template, no walk keeps that fills templates.                 *)
LEMMA TemplatedIsLeft ==
  ASSUME NEW repo, NEW path, path \in Seq(Range(path)), NEW opt, opt.fill, NEW c, c.mode = opt.mode,
         Templated(repo, c, path), Walk(repo, path, opt).kept
  PROVE  FALSE
<1>1. PICK W : IsWalk(W, repo, path, opt) /\ Walk(repo, path, opt) = W[Len(path)]
  BY WalkFrom
<1>2. Len(path) \in Nat
  OBVIOUS
<1>3. PICK k \in 1..Len(path) :
        \E n \in Entries(repo, SubSeq(path, 1, k - 1)) \cap DOMAIN Original : Original[n] = path[k]
  BY DEF Templated
<1>4. path[k] \in Excluded(repo, SubSeq(path, 1, k - 1), opt)
  BY <1>3 DEF Excluded, Templated
<1> QED  BY <1>1, <1>2, <1>4, LevelKept

LEMMA CopyContent ==
  ASSUME NEW repo, NEW opt, NEW d \in DOMAIN CopyOf(repo, opt)
  PROVE  \E p \in DOMAIN repo : /\ Walk(repo, p, opt).kept /\ d = Walk(repo, p, opt).dest
                                /\ CopyOf(repo, opt)[d] = Filled(repo[p], opt)
<1> DEFINE walk == [p \in DOMAIN repo |-> Walk(repo, p, opt)]
           kept == {p \in DOMAIN repo : walk[p].kept}
           p == CHOOSE p \in kept : walk[p].dest = d
<1>1. CopyOf(repo, opt) = [e \in {walk[q].dest : q \in kept} |-> Filled(repo[CHOOSE q \in kept : walk[q].dest = e], opt)]
  BY DEF CopyOf
<1>2. d \in {walk[q].dest : q \in kept} /\ CopyOf(repo, opt)[d] = Filled(repo[p], opt)
  BY <1>1
<1>3. \E q \in kept : walk[q].dest = d
  BY <1>2
<1>4. p \in kept /\ walk[p].dest = d
  BY <1>3
<1> HIDE DEF p
<1> QED  BY <1>2, <1>4

Handing(tree, d, now) ==
    [Options(tree, d, Handed, TRUE, Unreleased(tree, d, now)) EXCEPT !.relative = d.relative]

(* What is left of a file in the public export.                             *)
HandedAs(c, tree, d, now, p, at) ==
    /\ ~Hidden(c.files, c.conf, p) /\ ~Templated(c.files, c.conf, p)
    /\ ExportPublic(tree, d, now)[at] =
         IF c.conf.mode \in Creating /\ tree[p] \in Commented THEN "todo" ELSE tree[p]
    /\ at = Walk(tree, p, Handing(tree, d, now)).dest

LEMMA HandedContent ==
  ASSUME NEW c \in Courses, NEW tree, Revised(tree, c.files), NEW d, Setup(c, d), NEW now,
         NEW at \in DOMAIN ExportPublic(tree, d, now)
  PROVE  \E p \in DOMAIN c.files : HandedAs(c, tree, d, now, p, at)
<1> DEFINE opt == Handing(tree, d, now)
<1>1. /\ opt.skip = Unreleased(tree, d, now) /\ opt.sub = SubConfigs(tree, d) /\ opt.copy = Handed
      /\ opt.fill /\ opt.mode = d.mode /\ opt.config = d.structure
  BY DEF Options, Handing
<1>2. ExportPublic(tree, d, now) = CopyOf(tree, opt)
  BY DEF ExportPublic, Handing
<1> HIDE DEF opt
<1>3. PICK p \in DOMAIN tree : /\ Walk(tree, p, opt).kept /\ at = Walk(tree, p, opt).dest
                               /\ CopyOf(tree, opt)[at] = Filled(tree[p], opt)
  BY <1>2, CopyContent
<1>4. /\ DOMAIN tree = DOMAIN c.files /\ d.sub = c.conf.sub /\ d.structure = c.conf.structure
      /\ d.mode = c.conf.mode
  BY DEF Revised, Resembles, Setup
<1>5. p \in Seq(Range(p)) /\ p \in DOMAIN c.files
  BY <1>3, <1>4, CoursesAssumption DEF IsTree
<1>6. {"public", "private"} \subseteq DOMAIN c.conf.structure
  BY CoursesAssumption DEF IsConfig
<1>7. ~Hidden(c.files, c.conf, p)
  <2>1. \A here : here \notin opt.skip => HomeRead(opt.sub, c.files, c.conf, here)
    <3>1. Homes(tree, d) = Homes(c.files, c.conf)
      BY <1>4, SameHomes
    <3>2. \A here : here \notin opt.skip => HomeRead(opt.sub, tree, d, here)
      BY <1>1, ReleasedHomes
    <3> QED  BY <1>4, <3>1, <3>2 DEF HomeRead
  <2>2. opt.config = c.conf.structure /\ ~opt.copy.private
    BY <1>1, <1>4 DEF Handed
  <2> QED  BY <1>3, <1>5, <1>6, <2>1, <2>2, HiddenIsLeft
<1>8. ~Templated(c.files, c.conf, p)
  <2>1. Templated(c.files, c.conf, p) => Templated(tree, d, p)
    BY <1>4 DEF Templated, Entries, Below
  <2> QED  BY <1>1, <1>3, <1>5, <2>1, TemplatedIsLeft
<1>9. Filled(tree[p], opt) = IF c.conf.mode \in Creating /\ tree[p] \in Commented THEN "todo" ELSE tree[p]
  BY <1>1, <1>4 DEF Filled
<1>10. ExportPublic(tree, d, now)[at] =
          IF c.conf.mode \in Creating /\ tree[p] \in Commented THEN "todo" ELSE tree[p]
  BY <1>2, <1>3, <1>9
<1> QED  BY <1>3, <1>5, <1>7, <1>8, <1>10 DEF opt, HandedAs

LEMMA NothingHeldIsHanded ==
  ASSUME KeptBack, NEW c \in Courses, NEW tree, Revised(tree, c.files), NEW d, Setup(c, d), NEW now,
         NEW at \in DOMAIN ExportPublic(tree, d, now)
  PROVE  ExportPublic(tree, d, now)[at] \notin SolutionSide \cup {"secret"}
<1> DEFINE x == ExportPublic(tree, d, now)[at]
<1>0. PICK p \in DOMAIN c.files : HandedAs(c, tree, d, now, p, at)
  BY HandedContent
<1>1. /\ ~Hidden(c.files, c.conf, p) /\ ~Templated(c.files, c.conf, p)
      /\ x = IF c.conf.mode \in Creating /\ tree[p] \in Commented THEN "todo" ELSE tree[p]
  BY <1>0 DEF HandedAs
<1>2. \/ tree[p] = c.files[p]
      \/ c.files[p] = "v1" /\ tree[p] = "v2"
      \/ c.files[p] = "gold" /\ tree[p] = "work"
  BY DEF Revised
<1>3. c.files[p] # "secret" /\ (c.files[p] \in SolutionSide => c.files[p] \in Commented /\ c.conf.mode \in Creating)
  BY <1>1 DEF KeptBack
<1> HIDE DEF x
<1>4. x \notin SolutionSide \cup {"secret"}
  BY <1>1, <1>2, <1>3 DEF SolutionSide, Commented
<1> QED  BY <1>4 DEF x

(* No solution and nothing private is ever public, of every course in which *)
(* what students must not see is private, has a template, or is between     *)
(* comments that its strategy replaces; whatever is enabled, opens or is    *)
(* revised in between.  (Exporter.export_public, exporter.py.)              *)
THEOREM OnlyHandoutsAlways ==
  ASSUME KeptBack
  PROVE  Spec => []OnlyHandouts
<1>1. Init => JobsInv /\ TimeCounts /\ OriginInv
  BY JobsInit, TimeInit, OriginInit
<1>2. JobsInv /\ TimeCounts /\ OriginInv /\ [Next]_vars => (JobsInv /\ TimeCounts /\ OriginInv)'
  BY JobsNext, TimeNext, OriginNext
<1>3. OriginInv => OnlyHandouts
  <2> SUFFICES ASSUME OriginInv PROVE OnlyHandouts
    OBVIOUS
  <2>1. PICK c \in Courses : Given(c, public)
    BY DEF OriginInv, OriginOf
  <2>2. PICK tree, d, at : ExportOf(c, public, tree, d, at) /\ public.tree = ExportPublic(tree, d, at)
    BY <2>1 DEF Given
  <2>3. \A p \in DOMAIN ExportPublic(tree, d, at) : ExportPublic(tree, d, at)[p] \notin SolutionSide \cup {"secret"}
    BY <2>2, NothingHeldIsHanded DEF ExportOf
  <2> QED  BY <2>2, <2>3 DEF OnlyHandouts
<1> QED  BY <1>1, <1>2, <1>3, PTL DEF Spec

------------------------------------------------------------------------------
(* Whatever sections are read, a level goes by one that is above it.        *)
ReadsOf(opt, c) ==
    /\ opt.config = c.structure
    /\ DOMAIN opt.sub \subseteq DOMAIN c.sub /\ \A e \in DOMAIN opt.sub : opt.sub[e] = c.sub[e]

Ruled(w, c, path, k) ==
    /\ DOMAIN w.config = DOMAIN c.structure
    /\ \A f \in DOMAIN c.structure : w.config[f] \in RulesFor(c, path, k, f)

LEMMA RulesGrow ==
  ASSUME NEW c, NEW path, NEW k \in Nat \ {0}, NEW f
  PROVE  /\ RulesFor(c, path, k, f) \subseteq RulesFor(c, path, k + 1, f)
         /\ SubSeq(path, 1, k) \in DOMAIN c.sub /\ c.sub[SubSeq(path, 1, k)][f] # Inherit
              => c.sub[SubSeq(path, 1, k)][f] \in RulesFor(c, path, k + 1, f)
<1>1. (k + 1) - 1 = k /\ 1..(k - 1) \subseteq 1..k /\ k \in 1..k
  OBVIOUS
<1> DEFINE own(n) == {j \in 1..(n - 1) : SubSeq(path, 1, j) \in DOMAIN c.sub}
<1>2. own(k) \subseteq own(k + 1) /\ (SubSeq(path, 1, k) \in DOMAIN c.sub => k \in own(k + 1))
  BY <1>1
<1>3. \A n : RulesFor(c, path, n, f) = {c.structure[f]} \cup ({c.sub[SubSeq(path, 1, j)][f] : j \in own(n)} \ {Inherit})
  BY DEF RulesFor
<1> HIDE DEF own
<1> QED  BY <1>2, <1>3

LEMMA RuledFirst ==
  ASSUME NEW c, NEW path, NEW w, w.config = c.structure
  PROVE  Ruled(w, c, path, 1)
BY DEF Ruled, RulesFor

LEMMA RuledOn ==
  ASSUME NEW c, NEW path, NEW k \in Nat \ {0}, NEW w, Ruled(w, c, path, k),
         NEW opt, ReadsOf(opt, c), NEW x, x.config = Onward(w, path, opt.sub, k)
  PROVE  Ruled(x, c, path, k + 1)
<1> DEFINE here == SubSeq(path, 1, k)
<1>1. CASE x.config = w.config
  BY <1>1, RulesGrow DEF Ruled
<1>2. CASE x.config = Effective(w.config, opt.sub[here]) /\ here \in DOMAIN opt.sub
  <2>1. opt.sub[here] = c.sub[here] /\ here \in DOMAIN c.sub
    BY <1>2 DEF ReadsOf
  <2>2. DOMAIN x.config = DOMAIN c.structure
    BY <1>2 DEF Effective, Ruled
  <2>3. ASSUME NEW f \in DOMAIN c.structure PROVE x.config[f] \in RulesFor(c, path, k + 1, f)
    <3>1. x.config[f] = IF c.sub[here][f] = Inherit THEN w.config[f] ELSE c.sub[here][f]
      BY <1>2, <2>1, <2>3 DEF Effective, Ruled
    <3>2. w.config[f] \in RulesFor(c, path, k, f)
      BY <2>3 DEF Ruled
    <3> QED  BY <2>1, <3>1, <3>2, RulesGrow
  <2> QED  BY <2>2, <2>3 DEF Ruled
<1> QED  BY <1>1, <1>2 DEF Onward

LEMMA AllRuled ==
  ASSUME NEW repo, NEW path, NEW opt, NEW W, IsWalk(W, repo, path, opt), Len(path) \in Nat,
         NEW c, ReadsOf(opt, c)
  PROVE  \A k \in 1..Len(path) : Ruled(W[k - 1], c, path, k)
<1> DEFINE n == Len(path)
           Is(k) == Ruled(W[k], c, path, k + 1)
           T == {k \in Nat : k < n => Is(k)}
<1>1. 0 \in T
  <2>1. W[0].config = c.structure /\ 0 + 1 = 1
    BY DEF IsWalk, Setting, ReadsOf
  <2> QED  BY <2>1, RuledFirst
<1>2. ASSUME NEW k \in Nat, Is(k), k + 1 < n PROVE Is(k + 1)
  <2> DEFINE l == k + 1
  <2>1. l \in 1..n /\ l - 1 = k /\ l \in Nat \ {0}
    BY <1>2
  <2> HIDE DEF l
  <2>2. Ruled(W[k], c, path, l)
    BY <1>2 DEF l
  <2>3. W[l] = Enter(repo, path, opt, W[k], l)
    BY <2>1 DEF IsWalk
  <2>4. W[l].config = Onward(W[k], path, opt.sub, l)
    BY <2>3, LevelIs
  <2>5. Ruled(W[l], c, path, l + 1)
    BY <2>1, <2>2, <2>4, RuledOn
  <2> QED  BY <2>5 DEF l
<1> HIDE DEF Is
<1>3. \A k \in Nat : k \in T => k + 1 \in T
  <2>1. \A k \in Nat : k + 1 < n => k < n
    OBVIOUS
  <2> QED  BY <1>2, <2>1
<1>4. Nat \subseteq T
  <2> HIDE DEF T
  <2> QED  BY <1>1, <1>3, SetInduction
<1>5. ASSUME NEW k \in 1..n PROVE Ruled(W[k - 1], c, path, k)
  <2>1. k - 1 \in Nat /\ k - 1 < n /\ (k - 1) + 1 = k
    OBVIOUS
  <2>2. Is(k - 1)
    BY <1>4, <2>1
  <2> QED  BY <2>1, <2>2 DEF Is
<1> QED  BY <1>5

(* A walk on which no folder is copied whole takes what it takes at first.  *)
LEMMA CopyStays ==
  ASSUME NEW repo, NEW path, NEW opt, NEW W, IsWalk(W, repo, path, opt), Len(path) \in Nat,
         \A k \in 1..Len(path) : W[k - 1].copy = opt.copy => ~IsWhole(W[k - 1], path, k)
  PROVE  \A k \in 1..Len(path) : W[k - 1].copy = opt.copy
<1> DEFINE n == Len(path)
           T == {k \in Nat : k < n => W[k].copy = opt.copy}
<1>1. 0 \in T
  BY DEF IsWalk, Setting
<1>2. ASSUME NEW k \in Nat, W[k].copy = opt.copy, k + 1 < n PROVE W[k + 1].copy = opt.copy
  <2> DEFINE l == k + 1
  <2>1. l \in 1..n /\ l - 1 = k
    BY <1>2
  <2> HIDE DEF l
  <2>2. ~IsWhole(W[k], path, l)
    BY <1>2, <2>1
  <2>3. W[l] = Enter(repo, path, opt, W[k], l)
    BY <2>1 DEF IsWalk
  <2>4. W[l].copy = opt.copy
    BY <1>2, <2>2, <2>3, LevelIs
  <2> QED  BY <2>4 DEF l
<1>3. \A k \in Nat : k \in T => k + 1 \in T
  <2>1. \A k \in Nat : k + 1 < n => k < n
    OBVIOUS
  <2> QED  BY <1>2, <2>1
<1>4. Nat \subseteq T
  <2> HIDE DEF T
  <2> QED  BY <1>1, <1>3, SetInduction
<1>5. ASSUME NEW k \in 1..n PROVE W[k - 1].copy = opt.copy
  <2>1. k - 1 \in Nat /\ k - 1 < n
    OBVIOUS
  <2> QED  BY <1>4, <2>1
<1> QED  BY <1>5

(* What is public by all that it may go by, no walk keeps that copies       *)
(* neither public nor private files.                                        *)
LEMMA ShownIsLeft ==
  ASSUME NEW repo, NEW path, path \in Seq(Range(path)), NEW opt, NEW c, ReadsOf(opt, c),
         "public" \in DOMAIN c.structure, ~opt.copy.public, ~opt.copy.private,
         Shown(c, path), Walk(repo, path, opt).kept
  PROVE  FALSE
<1>1. PICK W : IsWalk(W, repo, path, opt) /\ Walk(repo, path, opt) = W[Len(path)]
  BY WalkFrom
<1>2. Len(path) \in Nat
  OBVIOUS
<1>3. \A k \in 1..Len(path) : Admits(W[k - 1], path, k)
  BY <1>1, <1>2, LevelKept
<1>4. \A k \in 1..Len(path) : Ruled(W[k - 1], c, path, k)
  BY <1>1, <1>2, AllRuled
<1>5. \A k \in 1..Len(path) : W[k - 1].copy = opt.copy => ~IsWhole(W[k - 1], path, k)
  BY <1>3 DEF Admits, IsWhole
<1>6. \A k \in 1..Len(path) : W[k - 1].copy = opt.copy
  BY <1>1, <1>2, <1>5, CopyStays
<1>7. PICK m \in 1..Len(path) : \A rule \in RulesFor(c, path, m, "public") : path[m] \in rule
  BY DEF Shown
<1>8. path[m] \in W[m - 1].config.public
  BY <1>4, <1>7 DEF Ruled
<1> QED  BY <1>3, <1>6, <1>8 DEF Admits

(* What is not listed at all, a walk keeps or leaves with the other files.  *)
LEMMA UnlistedIs ==
  ASSUME NEW repo, NEW path, path \in Seq(Range(path)), NEW opt, NEW c, ReadsOf(opt, c),
         {"ignore", "public", "private"} \subseteq DOMAIN c.structure, Unlisted(c, path),
         NEW W, IsWalk(W, repo, path, opt)
  PROVE  \A k \in 1..Len(path) :
           /\ path[k] \notin W[k - 1].config.ignore /\ path[k] \notin W[k - 1].config.public
           /\ path[k] \notin W[k - 1].config.private /\ W[k - 1].copy = opt.copy
<1>1. Len(path) \in Nat
  OBVIOUS
<1>2. \A k \in 1..Len(path) : Ruled(W[k - 1], c, path, k)
  BY <1>1, AllRuled
<1>3. ASSUME NEW k \in 1..Len(path), NEW f \in {"ignore", "public", "private"}
      PROVE  path[k] \notin W[k - 1].config[f]
  BY <1>2, <1>3 DEF Ruled, Unlisted
<1>4. \A k \in 1..Len(path) : path[k] \notin W[k - 1].config.public /\ path[k] \notin W[k - 1].config.private
  BY <1>3
<1>5. \A k \in 1..Len(path) : W[k - 1].copy = opt.copy => ~IsWhole(W[k - 1], path, k)
  BY <1>4 DEF IsWhole
<1>6. \A k \in 1..Len(path) : W[k - 1].copy = opt.copy
  BY <1>1, <1>5, CopyStays
<1> QED  BY <1>3, <1>6

LEMMA UnlistedIsLeft ==
  ASSUME NEW repo, NEW path, path \in Seq(Range(path)), path # <<>>, NEW opt, NEW c, ReadsOf(opt, c),
         {"ignore", "public", "private"} \subseteq DOMAIN c.structure, Unlisted(c, path),
         ~opt.copy.other, Walk(repo, path, opt).kept
  PROVE  FALSE
<1>1. PICK W : IsWalk(W, repo, path, opt) /\ Walk(repo, path, opt) = W[Len(path)]
  BY WalkFrom
<1> DEFINE n == Len(path)
<1>2. n \in Nat /\ n \in 1..n
  OBVIOUS
<1>3. Admits(W[n - 1], path, n)
  BY <1>1, <1>2, LevelKept
<1>4. /\ path[n] \notin W[n - 1].config.public
      /\ path[n] \notin W[n - 1].config.private /\ W[n - 1].copy = opt.copy
  <2> HIDE DEF n
  <2> QED BY <1>1, <1>2, UnlistedIs DEF n
<1> QED  BY <1>2, <1>3, <1>4 DEF Admits

NoWholly(repo) == \A p \in DOMAIN repo : repo[p] # "wholly"

LEMMA NotExcluded ==
  ASSUME NEW repo, NEW opt, ~opt.fill, opt.mode \in Creating => NoWholly(repo),
         NEW dir, NEW name, name \notin DOMAIN Original
  PROVE  name \notin Excluded(repo, dir, opt)
BY DEF Excluded, NoWholly

LEMMA UnlistedIsKept ==
  ASSUME NEW repo, NEW path, path \in Seq(Range(path)), NEW opt, NEW c, ReadsOf(opt, c),
         {"ignore", "public", "private"} \subseteq DOMAIN c.structure, Unlisted(c, path),
         opt.copy.other, opt.skip = {}, ~opt.fill, opt.mode \in Creating => NoWholly(repo),
         Range(path) \cap DOMAIN Original = {}
  PROVE  Walk(repo, path, opt).kept
<1>1. PICK W : IsWalk(W, repo, path, opt) /\ Walk(repo, path, opt) = W[Len(path)]
  BY WalkFrom
<1> DEFINE n == Len(path)
           T == {k \in Nat : k <= n => W[k].kept}
<1>2. n \in Nat /\ \A k \in 1..n : path[k] \in Range(path)
  BY DEF Range
<1>3. \A k \in 1..n :
           /\ path[k] \notin W[k - 1].config.ignore /\ path[k] \notin W[k - 1].config.public
           /\ path[k] \notin W[k - 1].config.private /\ W[k - 1].copy = opt.copy
  BY <1>1, UnlistedIs
<1>4. 0 \in T
  BY <1>1 DEF IsWalk, Setting
<1>5. ASSUME NEW k \in Nat, W[k].kept, k + 1 <= n PROVE W[k + 1].kept
  <2> DEFINE l == k + 1
  <2>1. l \in 1..n /\ l - 1 = k
    BY <1>2, <1>5
  <2> HIDE DEF l
  <2>2. Admits(W[k], path, l)
    BY <1>3, <2>1 DEF Admits
  <2>3. path[l] \notin Excluded(repo, SubSeq(path, 1, l - 1), opt)
    <3>1. path[l] \notin DOMAIN Original
      BY <1>2, <2>1
    <3> QED  BY <3>1, NotExcluded
  <2>4. W[l] = Enter(repo, path, opt, W[k], l)
    BY <1>1, <2>1 DEF IsWalk
  <2>5. W[l].kept
    BY <1>5, <2>2, <2>3, <2>4, LevelIs
  <2> QED  BY <2>5 DEF l
<1>6. \A k \in Nat : k \in T => k + 1 \in T
  <2>1. \A k \in Nat : k + 1 <= n => k <= n
    BY <1>2
  <2> QED  BY <1>5, <2>1
<1>7. Nat \subseteq T
  <2> HIDE DEF T
  <2> QED  BY <1>4, <1>6, SetInduction
<1> QED  BY <1>1, <1>2, <1>7

------------------------------------------------------------------------------
(* Copies that fill no templates.                                           *)
ArePaths(repo) == \A p \in DOMAIN repo : p \in Seq(Range(p))

LEMMA PlainCopy ==
  ASSUME NEW repo, ArePaths(repo), NEW opt, ~opt.fill, NEW p
  PROVE  /\ p \in DOMAIN CopyOf(repo, opt) <=> p \in DOMAIN repo /\ Walk(repo, p, opt).kept
         /\ p \in DOMAIN CopyOf(repo, opt) => CopyOf(repo, opt)[p] = repo[p]
<1>1. \A q \in DOMAIN repo : Walk(repo, q, opt).dest = q
  <2> SUFFICES ASSUME NEW q \in DOMAIN repo PROVE Walk(repo, q, opt).dest = q
    OBVIOUS
  <2>1. q \in Seq(Range(q))
    BY DEF ArePaths
  <2> QED  BY <2>1, StaysInPlace
<1>2. ASSUME p \in DOMAIN CopyOf(repo, opt)
      PROVE  p \in DOMAIN repo /\ Walk(repo, p, opt).kept /\ CopyOf(repo, opt)[p] = repo[p]
  <2>1. PICK q \in DOMAIN repo : /\ Walk(repo, q, opt).kept /\ p = Walk(repo, q, opt).dest
                                 /\ CopyOf(repo, opt)[p] = Filled(repo[q], opt)
    BY <1>2, CopyContent
  <2>2. p = q /\ Filled(repo[q], opt) = repo[q]
    BY <1>1, <2>1 DEF Filled
  <2> QED  BY <2>1, <2>2
<1>3. ASSUME p \in DOMAIN repo, Walk(repo, p, opt).kept PROVE p \in DOMAIN CopyOf(repo, opt)
  BY <1>1, <1>3, CopyHas
<1> QED  BY <1>2, <1>3

LEMMA LastOf ==
  ASSUME NEW p, p \in Seq(Range(p)), p # <<>>
  PROVE  /\ Len(p) \in Nat \ {0} /\ Len(p) \in 1..Len(p)
         /\ Append(SubSeq(p, 1, Len(p) - 1), p[Len(p)]) = p
         /\ Len(SubSeq(p, 1, Len(p) - 1)) = Len(p) - 1
<1> DEFINE n == Len(p)
           E == Range(p)
<1>1. n \in Nat \ {0} /\ n \in 1..n /\ \A k \in 1..n : p[k] \in E
  BY DEF Range
<1>0. p \in Seq(E)
  OBVIOUS
<1> HIDE DEF E
<1>2. SubSeq(p, 1, n - 1) \in Seq(E) /\ Len(SubSeq(p, 1, n - 1)) = n - 1
      /\ \A k \in 1..(n - 1) : SubSeq(p, 1, n - 1)[k] = p[k]
  <2> DEFINE m == n - 1
  <2>1. m \in 0..n /\ \A k \in 1..m : k \in 1..n /\ k \in Nat
    BY <1>1
  <2> HIDE DEF m
  <2>2. Len(SubSeq(p, 1, m)) = m /\ \A k \in 1..m : SubSeq(p, 1, m)[k] = p[k]
    BY <1>0, <2>1
  <2>3. SubSeq(p, 1, m) \in Seq(E)
    BY <1>0, <1>1, <2>1
  <2> QED  BY <2>2, <2>3 DEF m
<1> DEFINE q == Append(SubSeq(p, 1, n - 1), p[n])
<1>3. q \in Seq(E) /\ Len(q) = n /\ q[n] = p[n] /\ \A k \in 1..(n - 1) : q[k] = p[k]
  BY <1>0, <1>1, <1>2
<1>4. q = p
  <2>1. DOMAIN q = 1..n /\ q = [k \in 1..n |-> q[k]] /\ p = [k \in 1..n |-> p[k]]
    BY <1>3
  <2>2. \A k \in 1..n : k = n \/ k \in 1..(n - 1)
    BY <1>1
  <2> HIDE DEF q
  <2>3. \A k \in 1..n : q[k] = p[k]
    BY <1>3, <2>2
  <2> HIDE DEF n
  <2> QED  BY <2>1, <2>3
<1> QED  BY <1>1, <1>2, <1>4

(* No file that is nothing but a solution is copied by any strategy that    *)
(* replaces solutions.                                                      *)
LEMMA NoneIsWholly ==
  ASSUME NEW repo, \A p \in DOMAIN repo : p \in Seq(Range(p)) /\ p # <<>>,
         NEW opt, opt.mode \in Creating
  PROVE  NoWholly(CopyOf(repo, opt))
<1> SUFFICES ASSUME NEW d \in DOMAIN CopyOf(repo, opt), CopyOf(repo, opt)[d] = "wholly" PROVE FALSE
  BY DEF NoWholly
<1>1. PICK p \in DOMAIN repo : Walk(repo, p, opt).kept /\ CopyOf(repo, opt)[d] = Filled(repo[p], opt)
  BY CopyContent
<1>2. repo[p] = "wholly"
  BY <1>1 DEF Filled
<1>3. p \in Seq(Range(p)) /\ p # <<>>
  OBVIOUS
<1> DEFINE n == Len(p)
           dir == SubSeq(p, 1, n - 1)
<1>4. n \in Nat \ {0} /\ n \in 1..n /\ Append(dir, p[n]) = p /\ Len(dir) = n - 1
  BY <1>3, LastOf
<1>5. PICK W : IsWalk(W, repo, p, opt) /\ Walk(repo, p, opt) = W[n]
  BY <1>3, WalkFrom
<1>6. p[n] \notin Excluded(repo, dir, opt)
  BY <1>1, <1>4, <1>5, LevelKept
<1>7. p[n] \in Entries(repo, dir)
  <2>1. n > n - 1 /\ (n - 1) + 1 = n
    BY <1>4
  <2>2. SubSeq(p, 1, Len(dir)) = dir
    BY <1>4
  <2> HIDE DEF dir
  <2>3. p \in Below(repo, dir)
    BY <1>4, <2>1, <2>2 DEF Below
  <2> QED  BY <1>4, <2>1, <2>3 DEF Entries
<1> HIDE DEF dir, n
<1> QED  BY <1>2, <1>4, <1>6, <1>7 DEF Excluded

------------------------------------------------------------------------------
(* Paths with a folder in common.                                           *)
LEMMA EnterSame ==
  ASSUME NEW repo, NEW p, NEW q, NEW opt, NEW w, NEW k, k < Len(p), k < Len(q),
         p[k] = q[k], SubSeq(p, 1, k) = SubSeq(q, 1, k), SubSeq(p, 1, k - 1) = SubSeq(q, 1, k - 1)
  PROVE  Enter(repo, p, opt, w, k) = Enter(repo, q, opt, w, k)
BY DEF Enter

LEMMA SharedWalk ==
  ASSUME NEW repo, NEW p, p \in Seq(Range(p)), NEW q, q \in Seq(Range(q)), NEW m \in Nat,
         m < Len(p), m < Len(q), \A k \in 1..m : p[k] = q[k], NEW opt,
         NEW V, IsWalk(V, repo, p, opt), NEW W, IsWalk(W, repo, q, opt)
  PROVE  V[m] = W[m]
<1> DEFINE T == {k \in Nat : k <= m => V[k] = W[k]}
<1>1. 0 \in T
  BY DEF IsWalk
<1>2. ASSUME NEW k \in Nat, V[k] = W[k], k + 1 <= m PROVE V[k + 1] = W[k + 1]
  <2> DEFINE l == k + 1
  <2>1. l \in 1..Len(p) /\ l \in 1..Len(q) /\ l - 1 = k /\ l < Len(p) /\ l < Len(q) /\ l \in 1..m
    BY <1>2
  <2>2. p[l] = q[l] /\ SubSeq(p, 1, l) = SubSeq(q, 1, l) /\ SubSeq(p, 1, l - 1) = SubSeq(q, 1, l - 1)
    <3>1. \A j \in 1..l : p[j] = q[j]
      BY <1>2
    <3>2. SubSeq(p, 1, l) = [j \in 1..l |-> p[j]] /\ SubSeq(q, 1, l) = [j \in 1..l |-> q[j]]
      BY <2>1
    <3>3. SubSeq(p, 1, l - 1) = [j \in 1..(l - 1) |-> p[j]] /\ SubSeq(q, 1, l - 1) = [j \in 1..(l - 1) |-> q[j]]
      BY <2>1
    <3>4. l \in 1..l /\ 1..(l - 1) \subseteq 1..l
      OBVIOUS
    <3> HIDE DEF l
    <3> QED  BY <3>1, <3>2, <3>3, <3>4
  <2> HIDE DEF l
  <2>3. V[l] = Enter(repo, p, opt, V[k], l) /\ W[l] = Enter(repo, q, opt, W[k], l)
    BY <2>1 DEF IsWalk
  <2>4. Enter(repo, p, opt, V[k], l) = Enter(repo, q, opt, V[k], l)
    BY <2>1, <2>2, EnterSame
  <2>5. V[l] = W[l]
    BY <1>2, <2>3, <2>4
  <2> QED  BY <2>5 DEF l
<1>3. \A k \in Nat : k \in T => k + 1 \in T
  <2>1. \A k \in Nat : k + 1 <= m => k <= m
    OBVIOUS
  <2> QED  BY <1>2, <2>1
<1>4. Nat \subseteq T
  <2> HIDE DEF T
  <2> QED  BY <1>1, <1>3, SetInduction
<1> QED  BY <1>4

(* a, a walk of the teachers' files, and b, one of the others.              *)
Pair(a, b) ==
    a.kept => \/ a.copy = All
              \/ a.copy = Teachers /\ b.copy = Others /\ b.kept /\ b.config = a.config

Paired(one, two) ==
    /\ one.copy = Teachers /\ two.copy = Others
    /\ two.config = one.config /\ two.mode = one.mode /\ two.sub = one.sub /\ two.skip = one.skip

LEMMA PairOn ==
  ASSUME NEW repo, NEW path, NEW one, NEW two, Paired(one, two), NEW a, NEW b, NEW k,
         path[k] \notin DOMAIN Original \cup Range(Original), k < Len(path), Pair(a, b)
  PROVE  Pair(Enter(repo, path, one, a, k), Enter(repo, path, two, b, k))
<1> DEFINE ea == Enter(repo, path, one, a, k)
           eb == Enter(repo, path, two, b, k)
<1>1. /\ ea.kept <=> /\ a.kept /\ SubSeq(path, 1, k - 1) \notin one.skip
                     /\ ~Emptied(repo, path, one.mode, k) /\ Admits(a, path, k)
      /\ ea.config = Onward(a, path, one.sub, k)
      /\ ea.copy = IF IsWhole(a, path, k) THEN All ELSE a.copy
  BY EnterPlain
<1>2. /\ eb.kept <=> /\ b.kept /\ SubSeq(path, 1, k - 1) \notin two.skip
                     /\ ~Emptied(repo, path, two.mode, k) /\ Admits(b, path, k)
      /\ eb.config = Onward(b, path, two.sub, k)
      /\ eb.copy = IF IsWhole(b, path, k) THEN All ELSE b.copy
  BY EnterPlain
<1> HIDE DEF ea, eb
<1> SUFFICES ASSUME ea.kept, ~(ea.copy = All)
             PROVE  ea.copy = Teachers /\ eb.copy = Others /\ eb.kept /\ eb.config = ea.config
  BY DEF Pair, ea, eb
<1>3. a.kept /\ ~IsWhole(a, path, k) /\ a.copy # All /\ ea.copy = a.copy
  BY <1>1
<1>4. a.copy = Teachers /\ b.copy = Others /\ b.kept /\ b.config = a.config
  BY <1>3 DEF Pair
<1>5. ~IsWhole(b, path, k) /\ Onward(b, path, two.sub, k) = Onward(a, path, one.sub, k)
  BY <1>3, <1>4 DEF IsWhole, Onward, Paired
<1>6. Admits(b, path, k)
  BY <1>1, <1>3, <1>4 DEF Admits, IsWhole
<1> QED  BY <1>1, <1>2, <1>3, <1>4, <1>5, <1>6 DEF Paired

LEMMA PairAlong ==
  ASSUME NEW repo, NEW path, path \in Seq(Range(path)), path # <<>>, IsPlain(path),
         NEW one, NEW two, Paired(one, two),
         NEW A, IsWalk(A, repo, path, one), NEW B, IsWalk(B, repo, path, two)
  PROVE  Pair(A[Len(path) - 1], B[Len(path) - 1])
<1> DEFINE n == Len(path)
           Is(k) == Pair(A[k], B[k])
           T == {k \in Nat : k < n => Is(k)}
<1>1. 0 \in T
  BY DEF IsWalk, Setting, Pair, Paired
<1>2. ASSUME NEW k \in Nat, Is(k), k + 1 < n PROVE Is(k + 1)
  <2> DEFINE l == k + 1
  <2>1. l \in 1..Len(path) /\ l - 1 = k /\ l < Len(path)
    BY <1>2
  <2> HIDE DEF l
  <2>2. path[l] \notin DOMAIN Original \cup Range(Original)
    BY <2>1 DEF IsPlain
  <2>3. A[l] = Enter(repo, path, one, A[k], l) /\ B[l] = Enter(repo, path, two, B[k], l)
    BY <2>1 DEF IsWalk
  <2>4. Pair(A[l], B[l])
    BY <1>2, <2>1, <2>2, <2>3, PairOn
  <2> QED  BY <2>4 DEF l
<1> HIDE DEF Is
<1>3. \A k \in Nat : k \in T => k + 1 \in T
  <2>1. \A k \in Nat : k + 1 < n => k < n
    OBVIOUS
  <2> QED  BY <1>2, <2>1
<1>4. Nat \subseteq T
  <2> HIDE DEF T
  <2> QED  BY <1>1, <1>3, SetInduction
<1>5. n - 1 \in Nat /\ n - 1 < n
  OBVIOUS
<1> QED  BY <1>4, <1>5 DEF Is

(* A file in a folder that the first walk reaches is taken by one of the    *)
(* two, when nothing ignores it.                                            *)
LEMMA TakenByOne ==
  ASSUME NEW repo, NEW path, path \in Seq(Range(path)), path # <<>>, IsPlain(path),
         path \in DOMAIN repo, repo[path] # "wholly",
         NEW one, NEW two, Paired(one, two),
         NEW A, IsWalk(A, repo, path, one), A[Len(path) - 1].kept,
         SubSeq(path, 1, Len(path) - 1) \notin one.skip,
         path[Len(path)] \notin A[Len(path) - 1].config.ignore
  PROVE  A[Len(path)].kept \/ Walk(repo, path, two).kept
<1> DEFINE n == Len(path)
<1>1. PICK B : IsWalk(B, repo, path, two) /\ Walk(repo, path, two) = B[n]
  BY WalkFrom
<1>2. Pair(A[n - 1], B[n - 1])
  BY <1>1, PairAlong
<1>3. n \in 1..n /\ path[n] \notin DOMAIN Original \cup Range(Original)
      /\ Append(SubSeq(path, 1, n - 1), path[n]) = path
  <2>1. n \in 1..n /\ Append(SubSeq(path, 1, n - 1), path[n]) = path
    BY LastOf
  <2> QED  BY <2>1 DEF IsPlain
<1> HIDE DEF n
<1>4. A[n] = Enter(repo, path, one, A[n - 1], n) /\ B[n] = Enter(repo, path, two, B[n - 1], n)
  BY <1>1, <1>3 DEF IsWalk, n
<1>5. \A mode : ~Emptied(repo, path, mode, n)
  BY <1>3 DEF Emptied
<1>6. CASE A[n - 1].copy = All \/ path[n] \in A[n - 1].config.public \cup A[n - 1].config.private
  <2>1. Admits(A[n - 1], path, n)
    <3>1. A[n - 1].copy = All \/ A[n - 1].copy = Teachers
      BY <1>2 DEF Pair, n
    <3> QED  BY <1>6, <3>1 DEF Admits, All, Teachers, n
  <2> QED  BY <1>3, <1>4, <1>5, <2>1, EnterPlain DEF n
<1>7. CASE /\ A[n - 1].copy = Teachers /\ B[n - 1].copy = Others /\ B[n - 1].kept
           /\ B[n - 1].config = A[n - 1].config
           /\ path[n] \notin A[n - 1].config.public \cup A[n - 1].config.private
  <2>1. Admits(B[n - 1], path, n)
    BY <1>7 DEF Admits, Others, n
  <2>2. SubSeq(path, 1, n - 1) \notin two.skip
    BY DEF Paired, n
  <2> QED  BY <1>1, <1>3, <1>4, <1>5, <1>7, <2>1, <2>2, EnterPlain
<1> QED  BY <1>2, <1>6, <1>7 DEF Pair, n

------------------------------------------------------------------------------
(* The image of a course: what its two copies go by.                        *)
Mine(tree, d, at) == Options(tree, d, Teachers, FALSE, Unreleased(tree, d, at))
Rest(tree, d, at) == Options(tree, d, Others, TRUE, Unreleased(tree, d, at))

LEMMA ImageOptions ==
  ASSUME NEW tree, NEW d, NEW at
  PROVE  /\ Paired(Mine(tree, d, at), Rest(tree, d, at))
         /\ Mine(tree, d, at).config = d.structure /\ Mine(tree, d, at).sub = SubConfigs(tree, d)
         /\ Mine(tree, d, at).mode = d.mode /\ ~Mine(tree, d, at).fill
         /\ Rest(tree, d, at).config = d.structure /\ Rest(tree, d, at).sub = SubConfigs(tree, d)
         /\ Rest(tree, d, at).mode = d.mode /\ Rest(tree, d, at).skip = Unreleased(tree, d, at)
         /\ Rest(tree, d, at).copy = Others
         /\ ExportPrivate(tree, d, at) = Both(CopyOf(tree, Mine(tree, d, at)), CopyOf(tree, Rest(tree, d, at)))
<1>1. /\ Mine(tree, d, at).config = d.structure /\ Mine(tree, d, at).sub = SubConfigs(tree, d)
      /\ Mine(tree, d, at).mode = d.mode /\ ~Mine(tree, d, at).fill
      /\ Mine(tree, d, at).skip = Unreleased(tree, d, at) /\ Mine(tree, d, at).copy = Teachers
  BY DEF Mine, Options
<1>2. /\ Rest(tree, d, at).config = d.structure /\ Rest(tree, d, at).sub = SubConfigs(tree, d)
      /\ Rest(tree, d, at).mode = d.mode
      /\ Rest(tree, d, at).skip = Unreleased(tree, d, at) /\ Rest(tree, d, at).copy = Others
  BY DEF Rest, Options
<1>3. ExportPrivate(tree, d, at) = Both(CopyOf(tree, Mine(tree, d, at)), CopyOf(tree, Rest(tree, d, at)))
  BY DEF ExportPrivate, Mine, Rest
<1> QED  BY <1>1, <1>2, <1>3 DEF Paired

LEMMA CourseIs ==
  ASSUME NEW c \in Courses, NEW tree, Revised(tree, c.files), NEW d, Setup(c, d)
  PROVE  /\ DOMAIN tree = DOMAIN c.files
         /\ \A p \in DOMAIN tree : p \in Seq(Range(p)) /\ p # <<>>
         /\ \A p \in DOMAIN tree : tree[p] = "wholly" <=> c.files[p] = "wholly"
         /\ \A p \in DOMAIN tree : tree[p] \in TeacherSide => c.files[p] \in TeacherSide
         /\ \A p \in DOMAIN tree : tree[p] \in SolutionSide => c.files[p] \in SolutionSide
         /\ d.sub = c.conf.sub /\ d.structure = c.conf.structure /\ d.mode = c.conf.mode
         /\ {"ignore", "public", "private"} \subseteq DOMAIN c.conf.structure
<1>1. DOMAIN tree = DOMAIN c.files /\ \A p \in DOMAIN tree : tree[p] = "wholly" <=> c.files[p] = "wholly"
  BY DEF Revised, Resembles
<1>2. \A p \in DOMAIN tree : p \in Seq(Range(p)) /\ p # <<>>
  BY <1>1, CoursesAssumption DEF IsTree
<1>3. \A p \in DOMAIN tree : \/ tree[p] = c.files[p]
                             \/ c.files[p] = "v1" /\ tree[p] = "v2"
                             \/ c.files[p] = "gold" /\ tree[p] = "work"
  BY <1>1 DEF Revised
<1>4. \A p \in DOMAIN tree : /\ tree[p] \in TeacherSide => c.files[p] \in TeacherSide
                             /\ tree[p] \in SolutionSide => c.files[p] \in SolutionSide
  BY <1>3 DEF TeacherSide, SolutionSide
<1>5. {"ignore", "public", "private"} \subseteq DOMAIN c.conf.structure
  BY CoursesAssumption DEF IsConfig
<1>6. d.sub = c.conf.sub /\ d.structure = c.conf.structure /\ d.mode = c.conf.mode
  BY DEF Setup
<1> QED  BY <1>1, <1>2, <1>4, <1>5, <1>6

LEMMA ReadsSections ==
  ASSUME NEW tree, NEW d, NEW c, d.sub = c.sub, d.structure = c.structure,
         NEW opt, opt.config = d.structure, opt.sub = SubConfigs(tree, d)
  PROVE  ReadsOf(opt, c)
BY DEF ReadsOf, SubConfigs

(* The config file of a folder that the image reaches goes into it.         *)
LEMMA ConfigStays ==
  ASSUME ConfigsTravel, NEW c \in Courses, NEW tree, Revised(tree, c.files), NEW d, Setup(c, d), NEW at,
         NEW p, p \in Seq(Range(p)), Walk(tree, p, Mine(tree, d, at)).kept, NEW k \in 1..(Len(p) - 1),
         NEW x \in Range(Groups) \cup Range(Tasks), DirOf[x] = SubSeq(p, 1, k), DirOf[x] \in DOMAIN d.sub
  PROVE  Present(ExportPrivate(tree, d, at), x) <=> Present(tree, x)
<1> DEFINE here == SubSeq(p, 1, k)
           P == Append(here, Meta)
           R == ExportPrivate(tree, d, at)
           one == Mine(tree, d, at)
           two == Rest(tree, d, at)
<1>0. k \in Nat \ {0} /\ k < Len(p) /\ k + 1 \in 1..Len(p) /\ (k + 1) - 1 = k /\ k + 1 \in 1..(k + 1)
      /\ Len(p) \in Nat /\ k \in 0..Len(p)
  OBVIOUS
<1>1. /\ P \in Seq(Range(P)) /\ P # <<>> /\ Len(P) = k + 1 /\ P[k + 1] = Meta
      /\ SubSeq(P, 1, k) = here /\ \A j \in 1..k : P[j] = p[j]
  <2> DEFINE D == Range(p)
  <2>1. p \in Seq(D)
    OBVIOUS
  <2> HIDE DEF D
  <2>2. here \in Seq(D) /\ Len(here) = k /\ \A j \in 1..k : here[j] = p[j]
    BY <1>0, <2>1
  <2>3. P \in Seq(D \cup {Meta}) /\ Len(P) = k + 1 /\ P[k + 1] = Meta
        /\ (\A j \in 1..k : P[j] = here[j]) /\ SubSeq(P, 1, k) = here
    <3> HIDE DEF here
    <3>1. here \in Seq(D \cup {Meta}) /\ k \in Nat
      BY <1>0, <2>2
    <3> QED  BY <2>2, <3>1
  <2> HIDE DEF P, here
  <2>4. P \in Seq(Range(P))
    BY <2>3, OwnRange
  <2>5. P # <<>>
    BY <1>0, <2>3
  <2> QED  BY <2>2, <2>3, <2>4, <2>5
<1>2. d.sub = c.conf.sub /\ DOMAIN tree = DOMAIN c.files /\ d.structure = c.conf.structure
      /\ {"ignore", "public", "private"} \subseteq DOMAIN c.conf.structure
      /\ \A q \in DOMAIN tree : /\ q \in Seq(Range(q))
                                /\ tree[q] = "wholly" <=> c.files[q] = "wholly"
  BY CourseIs
<1>3. /\ Range(P) \cap (DOMAIN Original \cup Range(Original)) = {}
      /\ P \in DOMAIN c.files => /\ c.files[P] # "wholly"
                                 /\ \A rule \in RulesFor(c.conf, P, Len(P), "ignore") : Meta \notin rule
  BY <1>2 DEF ConfigsTravel
<1>4. IsPlain(P)
  <2>1. \A j \in 1..Len(P) : P[j] \in Range(P)
    BY <1>1 DEF Range
  <2> QED  BY <1>3, <2>1 DEF IsPlain
<1>5. /\ Paired(one, two) /\ one.config = d.structure /\ one.sub = SubConfigs(tree, d)
      /\ R = Both(CopyOf(tree, one), CopyOf(tree, two))
  BY ImageOptions
<1> HIDE DEF here, P, R, one, two
<1>6. DOMAIN R = DOMAIN CopyOf(tree, one) \cup DOMAIN CopyOf(tree, two)
  BY <1>5, BothHave
<1>7. ASSUME P \in DOMAIN R PROVE P \in DOMAIN tree
  BY <1>1, <1>2, <1>4, <1>6, <1>7, HandedFrom
<1>8. ASSUME P \in DOMAIN tree PROVE P \in DOMAIN R
  <2>1. PICK W : IsWalk(W, tree, p, one) /\ Walk(tree, p, one) = W[Len(p)]
    BY WalkFrom
  <2>2. PICK A : IsWalk(A, tree, P, one) /\ Walk(tree, P, one) = A[Len(P)]
    BY <1>1, WalkFrom
  <2>3. A[k] = W[k]
    <3>1. k < Len(P) /\ k < Len(p) /\ k \in Nat /\ \A j \in 1..k : P[j] = p[j]
      BY <1>0, <1>1
    <3> QED  BY <1>1, <2>1, <2>2, <3>1, SharedWalk
  <2>4. W[k].kept /\ here \notin one.skip
    <3>0. W[Len(p)].kept
      BY <2>1 DEF one
    <3>1. \A j \in 0..Len(p) : W[j].kept
      BY <1>0, <2>1, <3>0, KeptBefore
    <3>2. SubSeq(p, 1, (k + 1) - 1) \notin one.skip
      BY <1>0, <2>1, <3>0, LevelKept
    <3> QED  BY <1>0, <3>1, <3>2 DEF here
  <2>5. Meta \notin A[k].config.ignore
    <3>1. ReadsOf(one, c.conf)
      BY <1>2, <1>5, ReadsSections
    <3>2. \A j \in 1..Len(P) : Ruled(A[j - 1], c.conf, P, j)
      <4>1. Len(P) \in Nat
        BY <1>0, <1>1
      <4> QED  BY <2>2, <3>1, <4>1, AllRuled
    <3>3. Ruled(A[k], c.conf, P, k + 1)
      BY <1>0, <1>1, <3>2
    <3>4. A[k].config.ignore \in RulesFor(c.conf, P, Len(P), "ignore")
      BY <1>1, <1>2, <3>3 DEF Ruled
    <3> QED  BY <1>2, <1>3, <1>8, <3>4
  <2>6. A[Len(P)].kept \/ Walk(tree, P, two).kept
    <3>1. Len(P) - 1 = k
      BY <1>0, <1>1
    <3>2. tree[P] # "wholly"
      BY <1>2, <1>3, <1>8
    <3>3. A[Len(P) - 1].kept /\ SubSeq(P, 1, Len(P) - 1) \notin one.skip
          /\ P[Len(P)] \notin A[Len(P) - 1].config.ignore
      BY <1>1, <2>3, <2>4, <2>5, <3>1
    <3> QED  BY <1>1, <1>4, <1>5, <1>8, <2>2, <3>2, <3>3, TakenByOne
  <2>7. Walk(tree, P, one).dest = P /\ Walk(tree, P, two).dest = P
    BY <1>1, <1>4, StaysInPlace DEF IsPlain
  <2>8. Walk(tree, P, one).kept => P \in DOMAIN CopyOf(tree, one)
    BY <1>8, <2>7, CopyHas
  <2>9. Walk(tree, P, two).kept => P \in DOMAIN CopyOf(tree, two)
    BY <1>8, <2>7, CopyHas
  <2> QED  BY <1>6, <2>2, <2>6, <2>8, <2>9
<1> QED  BY <1>7, <1>8 DEF Present, P, R, here

LEMMA SectionsTravel ==
  ASSUME ConfigsTravel, NEW c \in Courses, NEW tree, Revised(tree, c.files), NEW d, Setup(c, d), NEW at,
         NEW p, p \in Seq(Range(p)), Walk(tree, p, Mine(tree, d, at)).kept, NEW k \in 1..(Len(p) - 1)
  PROVE  SameSub(SubConfigs(tree, d), SubConfigs(ExportPrivate(tree, d, at), d), SubSeq(p, 1, k))
<1> DEFINE here == SubSeq(p, 1, k)
           X == GroupsWhere(d, TRUE) \cup EnabledTasks(d)
           R == ExportPrivate(tree, d, at)
<1>1. X \subseteq Range(Groups) \cup Range(Tasks)
  BY DEF EnabledTasks, GroupsWhere
<1>2. \A repo :
        /\ here \in DOMAIN SubConfigs(repo, d)
             <=> here \in DOMAIN d.sub /\ \E x \in X : Present(repo, x) /\ DirOf[x] = here
        /\ here \in DOMAIN SubConfigs(repo, d) => SubConfigs(repo, d)[here] = d.sub[here]
  BY DEF SubConfigs
<1>3. ASSUME here \in DOMAIN d.sub, NEW x \in X, DirOf[x] = here
      PROVE  Present(R, x) <=> Present(tree, x)
  BY <1>1, <1>3, ConfigStays
<1> HIDE DEF here, X, R
<1>4. SameSub(SubConfigs(tree, d), SubConfigs(R, d), here)
  BY <1>2, <1>3 DEF SameSub
<1> QED  BY <1>4 DEF here, R

------------------------------------------------------------------------------
(* What the image has of the teachers' files, and what of them the tests.   *)
Again(ref, d) == Options(ref, d, Teachers, FALSE, {})
Theirs(ref, d) == Options(ref, d, Others, FALSE, {})

LEMMA TestingOptions ==
  ASSUME NEW ref, NEW d, NEW root
  PROVE  /\ Again(ref, d).config = d.structure /\ Again(ref, d).sub = SubConfigs(ref, d)
         /\ Again(ref, d).mode = d.mode /\ ~Again(ref, d).fill /\ Again(ref, d).skip = {}
         /\ Again(ref, d).copy = Teachers
         /\ Theirs(ref, d).config = d.structure /\ Theirs(ref, d).sub = SubConfigs(ref, d)
         /\ Theirs(ref, d).mode = d.mode /\ ~Theirs(ref, d).fill /\ Theirs(ref, d).skip = {}
         /\ Theirs(ref, d).copy = Others
         /\ ExportForTesting(root, ref, d) = Both(CopyOf(ref, Again(ref, d)), CopyOf(root, Theirs(ref, d)))
BY DEF Again, Theirs, Options, ExportForTesting

LEMMA CopyPaths ==
  ASSUME NEW repo, ArePaths(repo), NEW opt
  PROVE  ArePaths(CopyOf(repo, opt))
<1> SUFFICES ASSUME NEW d \in DOMAIN CopyOf(repo, opt) PROVE d \in Seq(Range(d))
  BY DEF ArePaths
<1>1. PICK p \in DOMAIN repo : d = Walk(repo, p, opt).dest
  BY CopyHolds
<1>2. p \in Seq(Range(p))
  BY DEF ArePaths
<1>3. d \in Seq(Range(p) \cup Range(Original))
  BY <1>1, <1>2, WalkedThrough DEF Walked
<1> QED  BY <1>3, OwnRange

LEMMA BothIs ==
  ASSUME NEW f, NEW g, NEW p \in DOMAIN Both(f, g)
  PROVE  \/ p \in DOMAIN f /\ Both(f, g)[p] = f[p]
         \/ p \notin DOMAIN f /\ p \in DOMAIN g /\ Both(f, g)[p] = g[p]
BY DEF Both

LEMMA ImageIsClean ==
  ASSUME NEW c \in Courses, NEW tree, Revised(tree, c.files), NEW d, Setup(c, d), NEW at
  PROVE  /\ ArePaths(ExportPrivate(tree, d, at))
         /\ d.mode \in Creating => NoWholly(ExportPrivate(tree, d, at))
<1> DEFINE R == ExportPrivate(tree, d, at)
           f == CopyOf(tree, Mine(tree, d, at))
           g == CopyOf(tree, Rest(tree, d, at))
<1>1. R = Both(f, g)
  BY ImageOptions
<1>2. \A p \in DOMAIN tree : p \in Seq(Range(p)) /\ p # <<>>
  BY CourseIs
<1>3. ArePaths(f) /\ ArePaths(g)
  BY <1>2, CopyPaths DEF ArePaths
<1>4. d.mode \in Creating => NoWholly(f) /\ NoWholly(g)
  <2>1. Mine(tree, d, at).mode = d.mode /\ Rest(tree, d, at).mode = d.mode
    BY ImageOptions
  <2> QED  BY <1>2, <2>1, NoneIsWholly
<1> HIDE DEF R, f, g
<1>5. ArePaths(R)
  BY <1>1, <1>3, BothIs DEF ArePaths
<1>6. d.mode \in Creating => NoWholly(R)
  BY <1>1, <1>4, BothIs DEF NoWholly
<1> QED  BY <1>5, <1>6 DEF R

LEMMA SameLevel ==
  ASSUME NEW repo, NEW later, NEW path, NEW opt, NEW other, NEW w, NEW v, NEW k,
         v.kept, v.config = w.config, v.copy = w.copy, Enter(repo, path, opt, w, k).kept,
         other.skip = {}, ~other.fill, path[k] \notin Excluded(later, SubSeq(path, 1, k - 1), other),
         k < Len(path) => SameSub(opt.sub, other.sub, SubSeq(path, 1, k))
  PROVE  /\ Enter(later, path, other, v, k).kept
         /\ Enter(later, path, other, v, k).config = Enter(repo, path, opt, w, k).config
         /\ Enter(later, path, other, v, k).copy = Enter(repo, path, opt, w, k).copy
<1>1. /\ Admits(w, path, k)
      /\ Enter(repo, path, opt, w, k).config = Onward(w, path, opt.sub, k)
      /\ Enter(repo, path, opt, w, k).copy = IF IsWhole(w, path, k) THEN All ELSE w.copy
  BY LevelIs
<1>2. Admits(v, path, k)
  BY <1>1 DEF Admits
<1>3. Onward(v, path, other.sub, k) = Onward(w, path, opt.sub, k) /\ (IsWhole(v, path, k) <=> IsWhole(w, path, k))
  BY SameOnward
<1>4. Enter(later, path, other, v, k).kept
  BY <1>2, LevelIs
<1>5. /\ Enter(later, path, other, v, k).config = Onward(v, path, other.sub, k)
      /\ Enter(later, path, other, v, k).copy = IF IsWhole(v, path, k) THEN All ELSE v.copy
  BY LevelIs
<1> QED  BY <1>1, <1>3, <1>4, <1>5

(* A file of the teachers' in the image is among the teachers' files again. *)
LEMMA KeptAgain ==
  ASSUME ConfigsTravel, NEW c \in Courses, NEW tree, Revised(tree, c.files), NEW d, Setup(c, d), NEW at,
         NEW p, p \in Seq(Range(p)), Range(p) \cap DOMAIN Original = {},
         Walk(tree, p, Mine(tree, d, at)).kept
  PROVE  Walk(ExportPrivate(tree, d, at), p, Again(ExportPrivate(tree, d, at), d)).kept
<1> DEFINE R == ExportPrivate(tree, d, at)
           one == Mine(tree, d, at)
           two == Again(R, d)
           n == Len(p)
<1>1. one.sub = SubConfigs(tree, d) /\ one.config = d.structure /\ one.copy = Teachers
  BY ImageOptions DEF Paired
<1>2. /\ two.sub = SubConfigs(R, d) /\ two.config = d.structure /\ two.copy = Teachers
      /\ two.skip = {} /\ ~two.fill /\ two.mode = d.mode
  BY TestingOptions
<1>3. d.mode \in Creating => NoWholly(R)
  BY ImageIsClean
<1>4. \A k \in 1..(n - 1) : SameSub(one.sub, two.sub, SubSeq(p, 1, k))
  <2> SUFFICES ASSUME NEW k \in 1..(n - 1) PROVE SameSub(one.sub, two.sub, SubSeq(p, 1, k))
    OBVIOUS
  <2>1. SameSub(SubConfigs(tree, d), SubConfigs(R, d), SubSeq(p, 1, k))
    BY SectionsTravel
  <2> QED  BY <1>1, <1>2, <2>1
<1>5. n \in Nat /\ \A k \in 1..n : p[k] \notin DOMAIN Original
  BY DEF Range
<1>6. Walk(tree, p, one).kept
  OBVIOUS
<1> HIDE DEF one, two, R
<1>7. PICK W : IsWalk(W, tree, p, one) /\ Walk(tree, p, one) = W[n]
  BY WalkFrom
<1>8. PICK V : IsWalk(V, R, p, two) /\ Walk(R, p, two) = V[n]
  BY WalkFrom
<1>9. \A k \in 0..n : W[k].kept
  BY <1>5, <1>6, <1>7, KeptBefore
<1> HIDE DEF n
<1> DEFINE Is(k) == V[k].kept /\ V[k].config = W[k].config /\ V[k].copy = W[k].copy
           T == {k \in Nat : k <= n => Is(k)}
<1>10. 0 \in T
  BY <1>1, <1>2, <1>7, <1>8 DEF IsWalk, Setting
<1>11. ASSUME NEW k \in Nat, Is(k), k + 1 <= n PROVE Is(k + 1)
  <2> DEFINE l == k + 1
  <2>1. l \in 1..n /\ l \in 0..n /\ l - 1 = k /\ (l < n => l \in 1..(n - 1))
    BY <1>5, <1>11
  <2> HIDE DEF l
  <2>2. W[l] = Enter(tree, p, one, W[k], l) /\ V[l] = Enter(R, p, two, V[k], l)
    BY <1>7, <1>8, <2>1 DEF IsWalk, n
  <2>3. Enter(tree, p, one, W[k], l).kept
    BY <1>9, <2>1, <2>2
  <2>4. p[l] \notin Excluded(R, SubSeq(p, 1, l - 1), two)
    <3>1. p[l] \notin DOMAIN Original
      BY <1>5, <2>1
    <3>2. two.mode \in Creating => NoWholly(R)
      BY <1>2, <1>3
    <3> QED  BY <1>2, <3>1, <3>2, NotExcluded
  <2>5. l < Len(p) => SameSub(one.sub, two.sub, SubSeq(p, 1, l))
    BY <1>4, <2>1 DEF n
  <2>6. Is(l)
    BY <1>2, <1>11, <2>2, <2>3, <2>4, <2>5, SameLevel
  <2> QED  BY <2>6 DEF l
<1> HIDE DEF Is
<1>12. \A k \in Nat : k \in T => k + 1 \in T
  <2>1. \A k \in Nat : k + 1 <= n => k <= n
    BY <1>5
  <2> QED  BY <1>11, <2>1
<1>13. Nat \subseteq T
  <2> HIDE DEF T
  <2> QED  BY <1>10, <1>12, SetInduction
<1>14. Is(n)
  BY <1>5, <1>13
<1> QED  BY <1>8, <1>14 DEF Is, R, two

(* The sections that an export goes by are those of the course's folders.   *)
LEMMA HomesAsRead ==
  ASSUME NEW c \in Courses, NEW tree, Revised(tree, c.files), NEW d, Setup(c, d), NEW now
  PROVE  \A here : here \notin Unreleased(tree, d, now) => HomeRead(SubConfigs(tree, d), c.files, c.conf, here)
<1>1. DOMAIN tree = DOMAIN c.files /\ d.sub = c.conf.sub /\ d.structure = c.conf.structure
  BY CourseIs
<1>2. Homes(tree, d) = Homes(c.files, c.conf)
  BY <1>1, SameHomes
<1>3. \A here : here \notin Unreleased(tree, d, now) => HomeRead(SubConfigs(tree, d), tree, d, here)
  BY ReleasedHomes
<1> QED  BY <1>1, <1>2, <1>3 DEF HomeRead

(* Tests are in the image with the teachers' files only.                    *)
LEMMA TestsCome ==
  ASSUME TestsAreListed, NEW c \in Courses, NEW tree, Revised(tree, c.files), NEW d, Setup(c, d), NEW at,
         NEW p \in DOMAIN ExportPrivate(tree, d, at), ExportPrivate(tree, d, at)[p] \in TeacherSide
  PROVE  p \in Seq(Range(p)) /\ Range(p) \cap DOMAIN Original = {} /\ Walk(tree, p, Mine(tree, d, at)).kept
<1> DEFINE R == ExportPrivate(tree, d, at)
           one == Mine(tree, d, at)
           two == Rest(tree, d, at)
<1>1. R = Both(CopyOf(tree, one), CopyOf(tree, two))
  BY ImageOptions
<1>2. /\ \A q \in DOMAIN tree : q \in Seq(Range(q)) /\ q \in DOMAIN c.files
      /\ \A q \in DOMAIN tree : tree[q] \in TeacherSide => c.files[q] \in TeacherSide
      /\ d.sub = c.conf.sub /\ d.structure = c.conf.structure
      /\ {"ignore", "public", "private"} \subseteq DOMAIN c.conf.structure
  BY CourseIs
<1>3. \A q \in DOMAIN tree : tree[q] \in TeacherSide =>
           Range(q) \cap DOMAIN Original = {} /\ (Hidden(c.files, c.conf, q) \/ Shown(c.conf, q))
  BY <1>2 DEF TestsAreListed
<1>4. ~one.fill /\ two.config = d.structure /\ two.sub = SubConfigs(tree, d) /\ two.copy = Others
      /\ two.skip = Unreleased(tree, d, at)
  BY ImageOptions
<1> HIDE DEF R, one, two
<1>5. p \in DOMAIN R /\ R[p] \in TeacherSide
  BY DEF R
<1>6. CASE p \in DOMAIN CopyOf(tree, one) /\ R[p] = CopyOf(tree, one)[p]
  <2>1. ArePaths(tree)
    BY <1>2 DEF ArePaths
  <2>2. p \in DOMAIN tree /\ Walk(tree, p, one).kept /\ R[p] = tree[p]
    BY <1>4, <1>6, <2>1, PlainCopy
  <2> QED  BY <1>2, <1>3, <1>5, <2>2 DEF one
<1>7. CASE p \in DOMAIN CopyOf(tree, two) /\ R[p] = CopyOf(tree, two)[p]
  <2>1. PICK q \in DOMAIN tree : Walk(tree, q, two).kept /\ R[p] = Filled(tree[q], two)
    BY <1>7, CopyContent
  <2>2. tree[q] \in TeacherSide
    BY <1>5, <2>1 DEF Filled, TeacherSide
  <2>3. q \in Seq(Range(q)) /\ ~two.copy.public /\ ~two.copy.private
    BY <1>2, <1>4 DEF Others
  <2>4. CASE Hidden(c.files, c.conf, q)
    <3>1. \A here : here \notin two.skip => HomeRead(two.sub, c.files, c.conf, here)
      BY <1>4, HomesAsRead
    <3>2. two.config = c.conf.structure /\ {"public", "private"} \subseteq DOMAIN c.conf.structure
      BY <1>2, <1>4
    <3> QED  BY <2>1, <2>3, <2>4, <3>1, <3>2, HiddenIsLeft
  <2>5. CASE Shown(c.conf, q)
    <3>1. ReadsOf(two, c.conf) /\ "public" \in DOMAIN c.conf.structure
      BY <1>2, <1>4, ReadsSections
    <3> QED  BY <2>1, <2>3, <2>5, <3>1, ShownIsLeft
  <2> QED  BY <1>3, <2>2, <2>4, <2>5
<1> QED  BY <1>1, <1>5, <1>6, <1>7, BothIs

\* What a student may have: nothing of the teachers', but what is public.
Fair(c, tree) ==
    \A p \in DOMAIN tree :
        /\ p \in Seq(Range(p))
        /\ tree[p] \in TeacherSide => Shown(c.conf, p)
        /\ c.conf.mode \in Creating => tree[p] # "wholly"

LEMMA PublicIsFair ==
  ASSUME TestsAreListed, NEW c \in Courses, NEW e, Given(c, e)
  PROVE  Fair(c, e.tree)
<1>1. PICK tree, d, at : ExportOf(c, e, tree, d, at) /\ e.tree = ExportPublic(tree, d, at)
  BY DEF Given
<1>2. Revised(tree, c.files) /\ Setup(c, d)
  BY <1>1 DEF ExportOf
<1>3. /\ \A q \in DOMAIN tree : q \in Seq(Range(q)) /\ q \in DOMAIN c.files
      /\ \A q \in DOMAIN tree : tree[q] \in TeacherSide => c.files[q] \in TeacherSide
      /\ DOMAIN tree = DOMAIN c.files
  BY <1>2, CourseIs
<1> DEFINE P == ExportPublic(tree, d, at)
<1>4. ASSUME NEW p \in DOMAIN P
      PROVE  /\ p \in Seq(Range(p))
             /\ P[p] \in TeacherSide => Shown(c.conf, p)
             /\ c.conf.mode \in Creating => P[p] # "wholly"
  <2>0. PICK q \in DOMAIN c.files : HandedAs(c, tree, d, at, q, p)
    BY <1>2, HandedContent
  <2>1. /\ ~Hidden(c.files, c.conf, q)
        /\ P[p] = IF c.conf.mode \in Creating /\ tree[q] \in Commented THEN "todo" ELSE tree[q]
        /\ p = Walk(tree, q, Handing(tree, d, at)).dest
    BY <2>0 DEF HandedAs
  <2>2. q \in Seq(Range(q)) /\ q \in DOMAIN tree
    BY <1>3
  <2>3. p \in Seq(Range(p))
    <3>1. Walked(Walk(tree, q, Handing(tree, d, at)), q, Handing(tree, d, at), Len(q))
      BY <2>2, WalkedThrough
    <3>2. p \in Seq(Range(q) \cup Range(Original))
      BY <2>1, <3>1 DEF Walked
    <3> QED  BY <3>2, OwnRange
  <2>4. ASSUME P[p] \in TeacherSide PROVE Shown(c.conf, p)
    <3>1. tree[q] \in TeacherSide
      BY <2>1, <2>4 DEF TeacherSide
    <3>2. Range(q) \cap DOMAIN Original = {} /\ Shown(c.conf, q)
      BY <1>3, <2>1, <2>2, <3>1 DEF TestsAreListed
    <3>3. \A k \in 1..Len(q) : q[k] \notin DOMAIN Original
      BY <2>2, <3>2 DEF Range
    <3>4. p = q
      BY <2>1, <2>2, <3>3, StaysInPlace
    <3> QED  BY <3>2, <3>4
  <2>5. c.conf.mode \in Creating => P[p] # "wholly"
    BY <2>1 DEF Commented
  <2> QED  BY <2>3, <2>4, <2>5
<1> HIDE DEF P
<1>5. e.tree = P
  BY <1>1 DEF P
<1> QED  BY <1>4, <1>5 DEF Fair

(* The tests of a job are the image's, and the solutions the student's.     *)
\* The files a job tests, of a testing image R and a repository root, are the
\* teachers' tests and the student's own solutions.
TestedBy(c, files, R, root) ==
    /\ \A p \in DOMAIN R : R[p] \in TeacherSide => p \in DOMAIN files /\ files[p] = R[p]
    /\ \A p \in DOMAIN files : files[p] \in TeacherSide => p \in DOMAIN R /\ R[p] \in TeacherSide
    /\ \A p \in DOMAIN c.files : c.files[p] \in SolutionSide =>
         /\ p \in DOMAIN files <=> p \in DOMAIN root
         /\ p \in DOMAIN root => files[p] = root[p]

LEMMA TestedWith ==
  ASSUME TestsAreListed, SolutionsAreOpen, ConfigsTravel,
         NEW c \in Courses, NEW tree, Revised(tree, c.files), NEW d, Setup(c, d), NEW at,
         NEW R, R = ExportPrivate(tree, d, at), NEW root, Fair(c, root),
         NEW files, files = ExportForTesting(root, R, d)
  PROVE  TestedBy(c, files, R, root)
<1> DEFINE one == Again(R, d)
           two == Theirs(R, d)
           f == CopyOf(R, one)
           g == CopyOf(root, two)
<1>1. files = Both(f, g)
  BY TestingOptions
<1>2. /\ one.config = d.structure /\ one.sub = SubConfigs(R, d) /\ ~one.fill /\ one.copy = Teachers
      /\ two.config = d.structure /\ two.sub = SubConfigs(R, d) /\ ~two.fill /\ two.copy = Others
      /\ two.skip = {} /\ two.mode = d.mode
  BY TestingOptions
<1>3. /\ d.sub = c.conf.sub /\ d.structure = c.conf.structure /\ d.mode = c.conf.mode
      /\ DOMAIN tree = DOMAIN c.files /\ \A p \in DOMAIN tree : p \in Seq(Range(p)) /\ p # <<>>
      /\ {"ignore", "public", "private"} \subseteq DOMAIN c.conf.structure
  BY CourseIs
<1>4. ReadsOf(one, c.conf) /\ ReadsOf(two, c.conf)
  BY <1>2, <1>3, ReadsSections
<1>5. ArePaths(R) /\ ArePaths(root)
  BY ImageIsClean DEF Fair, ArePaths
<1> HIDE DEF one, two
<1>6. \A p : /\ p \in DOMAIN f <=> p \in DOMAIN R /\ Walk(R, p, one).kept
             /\ p \in DOMAIN f => f[p] = R[p]
  BY <1>2, <1>5, PlainCopy
<1>7. \A p : /\ p \in DOMAIN g <=> p \in DOMAIN root /\ Walk(root, p, two).kept
             /\ p \in DOMAIN g => g[p] = root[p]
  BY <1>2, <1>5, PlainCopy
<1>8. \A p : /\ p \in DOMAIN files <=> p \in DOMAIN f \/ p \in DOMAIN g
             /\ p \in DOMAIN f => files[p] = f[p]
             /\ p \in DOMAIN g /\ p \notin DOMAIN f => files[p] = g[p]
  BY <1>1 DEF Both
<1> HIDE DEF f, g
<1>9. ASSUME NEW p \in DOMAIN R, R[p] \in TeacherSide
      PROVE  p \in DOMAIN files /\ files[p] = R[p]
  <2>1. p \in Seq(Range(p)) /\ Range(p) \cap DOMAIN Original = {} /\ Walk(tree, p, Mine(tree, d, at)).kept
    BY <1>9, TestsCome
  <2>2. Walk(R, p, one).kept
    BY <2>1, KeptAgain DEF one
  <2> QED  BY <1>6, <1>8, <2>2
<1>10. ASSUME NEW p \in DOMAIN files, files[p] \in TeacherSide
       PROVE  p \in DOMAIN R /\ R[p] \in TeacherSide
  <2>1. CASE p \in DOMAIN f
    BY <1>6, <1>8, <1>10, <2>1
  <2>2. CASE p \notin DOMAIN f
    <3>1. p \in DOMAIN root /\ Walk(root, p, two).kept /\ root[p] \in TeacherSide
      BY <1>7, <1>8, <1>10, <2>2
    <3>2. p \in Seq(Range(p)) /\ Shown(c.conf, p)
      BY <3>1 DEF Fair
    <3>3. ~two.copy.public /\ ~two.copy.private /\ "public" \in DOMAIN c.conf.structure
      BY <1>2, <1>3 DEF Others
    <3> QED  BY <1>4, <3>1, <3>2, <3>3, ShownIsLeft
  <2> QED  BY <2>1, <2>2
<1>11. ASSUME NEW p \in DOMAIN c.files, c.files[p] \in SolutionSide
       PROVE  /\ p \in DOMAIN files <=> p \in DOMAIN root
              /\ p \in DOMAIN root => files[p] = root[p]
  <2>1. p \in Seq(Range(p)) /\ p # <<>>
    BY <1>3
  <2>2. Range(p) \cap DOMAIN Original = {} /\ Unlisted(c.conf, p)
    BY <1>11 DEF SolutionsAreOpen
  <2>3. p \notin DOMAIN f
    <3>1. ~one.copy.other
      BY <1>2 DEF Teachers
    <3>2. Walk(R, p, one).kept => FALSE
      BY <1>3, <1>4, <2>1, <2>2, <3>1, UnlistedIsLeft
    <3> QED  BY <1>6, <3>2
  <2>4. p \in DOMAIN root => p \in DOMAIN g
    <3>1. two.copy.other /\ (two.mode \in Creating => NoWholly(root))
      BY <1>2, <1>3 DEF Others, Fair, NoWholly
    <3>2. Walk(root, p, two).kept
      BY <1>2, <1>3, <1>4, <2>1, <2>2, <3>1, UnlistedIsKept
    <3> QED  BY <1>7, <3>2
  <2> QED  BY <1>7, <1>8, <2>3, <2>4
<1> QED  BY <1>9, <1>10, <1>11 DEF TestedBy

------------------------------------------------------------------------------
(* What becomes of a student's job.                                         *)
LEMMA GradeSteps ==
  ASSUME JobsInv, NEW r \in Runs, Work(r), NEW y, Become(r, y), runs[r].kind = "grade"
  PROVE  \/ y.step = "over"
         \/ runs[r].step = "queued" /\ \E tasks : y = Begin(runs[r], image, tasks)
         \/ runs[r].step \in Middle /\ y.step \in Middle /\ Stays(runs[r], y)
<1> DEFINE run == runs[r]
<1>0. JobOK(run) /\ DOMAIN run = JobFields /\ DOMAIN runs = Runs
  BY DEF JobsInv, JobOK
<1>1. CASE run.step = "queued"
  <2>1. Grade(r)
    BY <1>1 DEF Work, Validate, Build, Check, Deploy, EndGlobal, NextTask, EndTask,
                EndReport, BreakStage, SkipStage, DryStage, RunStage, ReportStage, Runnable, AtStage
  <2>2. PICK x : Become(r, x) /\ (x \in {Over(run, "failed"), Over(run, "nothing")} \/ \E tasks : x = Begin(run, image, tasks))
    BY <2>1 DEF Grade
  <2>3. y = x
    BY <1>0, <2>2, BecomeIs
  <2>4. \A exit : Over(run, exit).step = "over"
    BY <1>0, OverIs
  <2> QED  BY <1>1, <2>2, <2>3, <2>4
<1>2. CASE run.step # "queued"
  <2>1. run.kind = "grade" /\ run.step # "built"
    BY <1>0 DEF JobOK
  <2>2. \/ Prepares(run, y) \/ Starts(run, y) \/ Finishes(run, y) \/ GoesOn(run, y)
        \/ Opens(run, y) \/ Closes(run, y) \/ RunsStage(run, y) \/ Reports(run, y)
    BY WorkSteps
  <2>3. ~Prepares(run, y) /\ ~Starts(run, y)
    BY <1>2, <2>1 DEF Prepares, Starts
  <2>4. \/ y.step = "over"
        \/ run.kind = "course" /\ run.step = "next" /\ y = Goes(run, "deploy")
        \/ run.step \in Middle /\ y.step \in Middle /\ Stays(run, y)
    <3> HIDE DEF run
    <3> QED  BY <1>0, <2>2, <2>3, StepsOn
  <2> QED  BY <2>1, <2>4
<1> QED  BY <1>1, <1>2

\* A student's job has what the student pushed, and tests it with an image.
OfStudent(c, run) ==
    /\ Fair(c, run.root)
    /\ run.step \in Middle => /\ Imaged(c, run.ref) /\ run.conf = run.ref.conf
                              /\ run.files = ExportForTesting(run.root, run.ref.tree, run.conf)

StudentOf(c) ==
    /\ "tree" \in DOMAIN work /\ Fair(c, work.tree)
    /\ \A r \in Runs : runs[r].kind = "grade" /\ runs[r].step # "over" => OfStudent(c, runs[r])

LEMMA FairPatch ==
  ASSUME NEW c, NEW tree, Fair(c, tree), NEW p, p \in Seq(Range(p)), NEW x \in {"work", "edited"}
  PROVE  Fair(c, Both([q \in {p} |-> x], tree)) /\ Fair(c, [q \in DOMAIN tree \ {p} |-> tree[q]])
<1>1. x \notin TeacherSide /\ x # "wholly"
  BY DEF TeacherSide
<1>2. Fair(c, [q \in DOMAIN tree \ {p} |-> tree[q]])
  BY DEF Fair
<1> DEFINE f == Both([q \in {p} |-> x], tree)
<1>3. /\ DOMAIN f = {p} \cup DOMAIN tree
      /\ \A q \in DOMAIN f : (q = p /\ f[q] = x) \/ (q \in DOMAIN tree /\ f[q] = tree[q])
  BY DEF Both
<1> HIDE DEF f
<1>4. Fair(c, f)
  BY <1>1, <1>3 DEF Fair
<1> QED  BY <1>2, <1>4 DEF f

(* What a student pushes is written by students, or handed out.             *)
LEMMA PushedIsFair ==
  ASSUME TestsAreListed, NEW c \in Courses, OriginOf(c), "tree" \in DOMAIN work, Fair(c, work.tree), Edit \/ Pull
  PROVE  "tree" \in DOMAIN work' /\ Fair(c, work'.tree)
<1>1. CASE Edit
  <2>1. PICK p \in DOMAIN work.tree \cup DOMAIN reference, write \in BOOLEAN, named \in conf.messages :
           work' = [work EXCEPT
                !.last = {p},
                !.named = named,
                !.tree = IF write
                         THEN Both([q \in {p} |-> IF p \in Solutions(reference)
                                                   THEN "work" ELSE "edited"], @)
                         ELSE [q \in DOMAIN @ \ {p} |-> @[q]]]
    BY <1>1 DEF Edit
  <2> DEFINE x == IF p \in Solutions(reference) THEN "work" ELSE "edited"
  <2>2. /\ "tree" \in DOMAIN work'
        /\ \/ work'.tree = Both([q \in {p} |-> x], work.tree)
           \/ work'.tree = [q \in DOMAIN work.tree \ {p} |-> work.tree[q]]
    BY <2>1
  <2>3. p \in Seq(Range(p))
    <3>1. \A q \in DOMAIN reference : q \in Seq(Range(q))
      BY CourseIs DEF OriginOf
    <3> QED  BY <3>1 DEF Fair
  <2>4. x \in {"work", "edited"}
    OBVIOUS
  <2> HIDE DEF x
  <2>5. Fair(c, Both([q \in {p} |-> x], work.tree)) /\ Fair(c, [q \in DOMAIN work.tree \ {p} |-> work.tree[q]])
    BY <2>3, <2>4, FairPatch
  <2> QED  BY <2>2, <2>5
<1>2. CASE Pull
  <2> DEFINE mine == {p \in DOMAIN work.tree :
                        p \notin DOMAIN work.base \/ work.tree[p] # work.base[p]}
             removed == DOMAIN work.base \ DOMAIN work.tree
             merged == [p \in mine \cup (DOMAIN public.tree \ removed) |->
                          IF p \in mine THEN work.tree[p] ELSE public.tree[p]]
  <2>1. "tree" \in DOMAIN work' /\ work'.tree = merged
    BY <1>2 DEF Pull
  <2>2. Fair(c, public.tree)
    BY PublicIsFair DEF OriginOf
  <2>3. /\ \A p \in DOMAIN merged : \/ p \in DOMAIN work.tree /\ merged[p] = work.tree[p]
                                    \/ p \in DOMAIN public.tree /\ merged[p] = public.tree[p]
    OBVIOUS
  <2> HIDE DEF merged
  <2>4. Fair(c, merged)
    BY <2>2, <2>3 DEF Fair
  <2> QED  BY <2>1, <2>4
<1> QED  BY <1>1, <1>2

LEMMA StudentStays ==
  ASSUME TestsAreListed, JobsInv, NEW c \in Courses, OriginOf(c), StudentOf(c), [Next]_vars
  PROVE  StudentOf(c)'
<1>0. DOMAIN runs = Runs /\ "tree" \in DOMAIN work /\ Fair(c, work.tree)
  BY DEF JobsInv, StudentOf
<1> DEFINE Fine(run) == run.kind = "grade" /\ run.step # "over" => OfStudent(c, run)
<1>1. ASSUME NEW r \in Runs, NEW y, Become(r, y), Fine(y), "tree" \in DOMAIN work', Fair(c, work'.tree)
      PROVE  StudentOf(c)'
  <2>1. runs'[r] = y /\ \A q \in Runs : q # r => runs'[q] = runs[q]
    BY <1>0, <1>1, BecomeIs
  <2>2. \A q \in Runs : Fine(runs[q])
    BY DEF StudentOf
  <2>3. \A q \in Runs : Fine(runs'[q])
    <3> HIDE DEF Fine
    <3> QED  BY <1>1, <2>1, <2>2
  <2> QED  BY <1>1, <2>3 DEF StudentOf
<1>2. CASE UNCHANGED <<work, runs>>
  BY <1>2 DEF StudentOf
<1>3. CASE Submit
  <2>1. Edit \/ Pull
    BY <1>3 DEF Submit
  <2>2. "tree" \in DOMAIN work' /\ Fair(c, work'.tree)
    BY <1>0, <2>1, PushedIsFair
  <2>3. PICK r \in Runs : Become(r, Queued("grade", conf, work'.tree, work'.last, work'.named))
    BY <1>3, LaunchIs DEF Submit
  <2>4. PICK tree, last, named : tree = work'.tree /\ last = work'.last /\ named = work'.named
    OBVIOUS
  <2> DEFINE y == Queued("grade", conf, tree, last, named)
  <2>5. Become(r, y)
    BY <2>3, <2>4
  <2>6. y.root = tree /\ y.step = "queued"
    BY QueuedFiles
  <2> HIDE DEF y
  <2>7. Fine(y)
    BY <2>2, <2>4, <2>6 DEF OfStudent, Middle
  <2> HIDE DEF Fine
  <2> QED  BY <1>1, <2>2, <2>5, <2>7
<1>4. CASE TeacherPush
  <2>1. work' = work
    BY <1>4 DEF TeacherPush
  <2>2. \E r \in Runs : \E d, tree, last, named : Become(r, Queued("course", d, tree, last, named))
    BY <1>4, LaunchIs DEF TeacherPush
  <2>a. PICK r \in Runs : \E d, tree, last, named : Become(r, Queued("course", d, tree, last, named))
    BY <2>2
  <2>3. PICK d, tree, last, named : Become(r, Queued("course", d, tree, last, named))
    BY <2>a
  <2> DEFINE y == Queued("course", d, tree, last, named)
  <2>4. y.kind = "course" /\ Become(r, y)
    BY <2>3, QueuedFiles
  <2> HIDE DEF y
  <2>5. Fine(y)
    BY <2>4
  <2> HIDE DEF Fine
  <2> QED  BY <1>0, <1>1, <2>1, <2>4, <2>5
<1>5. CASE Pass
  BY <1>2, <1>5 DEF Pass, Tick
<1>6. ASSUME NEW r \in Runs, Work(r) PROVE StudentOf(c)'
  <2> DEFINE run == runs[r]
  <2>1. PICK y : Become(r, y)
    BY <1>6, WorkIs
  <2>2. work' = work
    BY <1>6 DEF Work, Validate, Build, Check, Grade, Deploy, EndGlobal, NextTask, EndTask,
                EndReport, BreakStage, SkipStage, DryStage, RunStage, ReportStage, repositories
  <2>3. ASSUME y.kind = "grade", y.step # "over" PROVE OfStudent(c, y)
    <3>1. run.kind = "grade"
      BY <1>6, <2>1, <2>3, KindStays
    <3>2. run.step # "over"
      BY <1>6 DEF Work, Validate, Build, Check, Grade, Deploy, EndGlobal, NextTask, EndTask,
                  EndReport, BreakStage, SkipStage, DryStage, RunStage, ReportStage, Runnable, AtStage
    <3>3. OfStudent(c, run) /\ DOMAIN run = JobFields
      BY <3>1, <3>2 DEF StudentOf, JobsInv, JobOK
    <3>4. \/ run.step = "queued" /\ \E tasks : y = Begin(run, image, tasks)
          \/ run.step \in Middle /\ y.step \in Middle /\ Stays(run, y)
      BY <1>6, <2>1, <2>3, <3>1, GradeSteps
    <3>5. CASE \E tasks : y = Begin(run, image, tasks)
      <4>1. /\ y.root = run.root /\ y.ref = image /\ y.conf = image.conf
            /\ y.files = ExportForTesting(run.root, image.tree, image.conf)
        BY <3>3, <3>5, StartsIs
      <4>2. Imaged(c, image)
        BY DEF OriginOf
      <4> HIDE DEF run
      <4> QED  BY <3>3, <4>1, <4>2 DEF OfStudent
    <3>6. CASE run.step \in Middle /\ Stays(run, y)
      <4> HIDE DEF run
      <4> QED  BY <3>3, <3>6 DEF OfStudent, Stays
    <3> QED  BY <3>4, <3>5, <3>6
  <2> HIDE DEF run
  <2>4. Fine(y)
    BY <2>3
  <2> HIDE DEF Fine
  <2> QED  BY <1>0, <1>1, <2>1, <2>2, <2>4
<1> QED  BY <1>2, <1>3, <1>4, <1>5, <1>6 DEF Next, vars, repositories

TestedInv == \E c \in Courses : OriginOf(c) /\ StudentOf(c)

LEMMA TestedInit ==
  ASSUME TestsAreListed, Init
  PROVE  TestedInv
<1>1. PICK c \in Courses : OriginOf(c)
  BY OriginInit DEF OriginInv
<1>2. Fair(c, public.tree)
  BY <1>1, PublicIsFair DEF OriginOf
<1>3. "tree" \in DOMAIN work /\ work.tree = public.tree
  BY DEF Init, InitRepositories
<1>4. \A r \in Runs : runs[r].step = "over"
  BY DEF Init, InitGrading, Over, Queued
<1>5. StudentOf(c)
  BY <1>2, <1>3, <1>4 DEF StudentOf
<1> QED  BY <1>1, <1>5 DEF TestedInv

LEMMA TestedNext ==
  ASSUME TestsAreListed, JobsInv, TimeCounts, TestedInv, [Next]_vars
  PROVE  TestedInv'
BY OriginStays, StudentStays DEF TestedInv

LEMMA TestedIsEnough ==
  ASSUME TestsAreListed, SolutionsAreOpen, ConfigsTravel, TestedInv
  PROVE  TestsAreTheTeachers
<1>1. PICK c \in Courses : OriginOf(c) /\ StudentOf(c)
  BY DEF TestedInv
<1>2. ASSUME NEW r \in Runs, Grades(r)
      PROVE  /\ \A p \in {p \in DOMAIN runs[r].ref.tree : runs[r].ref.tree[p] \in TeacherSide} :
                  p \in DOMAIN runs[r].files /\ runs[r].files[p] = runs[r].ref.tree[p]
             /\ \A p \in DOMAIN runs[r].files : runs[r].files[p] \in TeacherSide =>
                  p \in {q \in DOMAIN runs[r].ref.tree : runs[r].ref.tree[q] \in TeacherSide}
             /\ \A p \in Solutions(reference) :
                  /\ p \in DOMAIN runs[r].files <=> p \in DOMAIN runs[r].root
                  /\ p \in DOMAIN runs[r].root => runs[r].files[p] = runs[r].root[p]
  <2> DEFINE run == runs[r]
  <2>1. OfStudent(c, run) /\ run.step \in Middle
    BY <1>1, <1>2 DEF StudentOf, Grades, Middle
  <2> HIDE DEF run
  <2>2. PICK tree, d, at : ExportOf(c, run.ref, tree, d, at) /\ run.ref.tree = ExportPrivate(tree, d, at)
    BY <2>1 DEF OfStudent, Imaged
  <2>3. Revised(tree, c.files) /\ Setup(c, d) /\ run.conf = d
    BY <2>1, <2>2 DEF ExportOf, OfStudent
  <2>4. Fair(c, run.root) /\ run.files = ExportForTesting(run.root, run.ref.tree, d)
    BY <2>1, <2>3 DEF OfStudent
  <2>5. /\ \A p \in DOMAIN run.ref.tree : run.ref.tree[p] \in TeacherSide
                => p \in DOMAIN run.files /\ run.files[p] = run.ref.tree[p]
        /\ \A p \in DOMAIN run.files : run.files[p] \in TeacherSide
                => p \in DOMAIN run.ref.tree /\ run.ref.tree[p] \in TeacherSide
        /\ \A p \in DOMAIN c.files : c.files[p] \in SolutionSide =>
              /\ p \in DOMAIN run.files <=> p \in DOMAIN run.root
              /\ p \in DOMAIN run.root => run.files[p] = run.root[p]
    <3> DEFINE R == run.ref.tree
               root == run.root
               tested == run.files
    <3>1. R = ExportPrivate(tree, d, at)
      BY <2>2
    <3>2. Fair(c, root) /\ tested = ExportForTesting(root, R, d)
      BY <2>4
    <3>3. Revised(tree, c.files) /\ Setup(c, d)
      BY <2>3
    <3> HIDE DEF R, root, tested
    <3>4. TestedBy(c, tested, R, root)
      BY <3>1, <3>2, <3>3, TestedWith
    <3> QED  BY <3>4 DEF R, root, tested, TestedBy
  <2>6. \A p \in Solutions(reference) : p \in DOMAIN c.files /\ c.files[p] \in SolutionSide
    <3>1. Revised(reference, c.files) /\ Setup(c, conf)
      BY <1>1 DEF OriginOf
    <3> QED  BY <3>1, CourseIs DEF Solutions
  <2> QED  BY <2>5, <2>6 DEF run
<1> QED  BY <1>2 DEF TestsAreTheTeachers

(* Whatever students push and whenever the image is built anew, every job   *)
(* tests with the tests of its image, with no others, and on the student's  *)
(* own solution: of every course whose tests are listed and whose solutions *)
(* are not.  (Exporter.export_for_testing, exporter.py.)                    *)
THEOREM TestsAreTheTeachersAlways ==
  ASSUME TestsAreListed, SolutionsAreOpen, ConfigsTravel
  PROVE  Spec => []TestsAreTheTeachers
<1>1. Init => JobsInv /\ TimeCounts /\ TestedInv
  BY JobsInit, TimeInit, TestedInit
<1>2. JobsInv /\ TimeCounts /\ TestedInv /\ [Next]_vars => (JobsInv /\ TimeCounts /\ TestedInv)'
  BY JobsNext, TimeNext, TestedNext
<1>3. TestedInv => TestsAreTheTeachers
  BY TestedIsEnough
<1> QED  BY <1>1, <1>2, <1>3, PTL DEF Spec

=============================================================================
