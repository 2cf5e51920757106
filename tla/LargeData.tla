------------------------------ MODULE LargeData ------------------------------
(* What of a component is large data, and what little of it is restored with *)
(* the core all the same (S/discovery/large_data.py). A listing is a set of  *)
(* files [path, size, mtime, healthy]; a path is the sequence of the names   *)
(* below the component's root.                                               *)
EXTENDS Integers, FiniteSets, Sequences, SequencesExt

CONSTANTS
    DumpNames, CodeDirs,       \* names of database dumps, of code directories
    ConfigRoots,               \* paths below `backup` that hold configuration
    MinRootSize, MinRootFiles, Dominance, DescendShare,   \* HeuristicSettings
    Plumbing,                  \* PLUMBING_DIR_NAMES, sorted
    Hidden,                    \* names with a leading dot
    KeepFileMax, KeepDirMax, KeepDirFiles, KeepPerRoot, MarkerMax, MarkerFiles

ASSUME LargeDataAssumption ==
    /\ {MinRootSize, MinRootFiles, Dominance, DescendShare, KeepFileMax, KeepDirMax,
        KeepDirFiles, KeepPerRoot, MarkerMax, MarkerFiles} \subseteq Nat
    /\ MinRootSize > 0 /\ DescendShare <= 100
    /\ Plumbing \in Seq(STRING)
    /\ \A i, j \in DOMAIN Plumbing : i # j => Plumbing[i] # Plumbing[j]

BackupDir == <<"backup">>

-----------------------------------------------------------------------------
(* DirectoryAggregates.                                                    *)

Under(L, p) == {i \in L : IsPrefix(p, i.path)}

(* The sum of the values of a function.                                      *)
Total(f) == MapThenSumSet(LAMBDA x : f[x], DOMAIN f)
Size(S) == Total([i \in S |-> i.size])
Dirs(L) == UNION {{SubSeq(i.path, 1, k) : k \in 0 .. Len(i.path) - 1} : i \in L}
Children(L, p) == {d \in Dirs(L) : Len(d) = Len(p) + 1 /\ IsPrefix(p, d)}

-----------------------------------------------------------------------------
(* Discovery.                                                              *)

LargestChild(L, p) ==
    CHOOSE d \in Children(L, p) :
        \A e \in Children(L, p) : Size(Under(L, e)) <= Size(Under(L, d))

(* One round of the descent into the directory that dominates; `on` says     *)
(* whether there is another. The last comparison is one of a directory with  *)
(* itself, as the code has it.                                               *)
Descend(L, s) ==
    LET d == LargestChild(L, s.at)
    IN IF \/ ~s.on \/ Children(L, s.at) = {}
          \/ Size(Under(L, d)) * 100 < Dominance * Size(Under(L, BackupDir))
          \/ Last(d) \in CodeDirs \cup DumpNames
       THEN [s EXCEPT !.on = FALSE]
       ELSE [at |-> d, on |-> Size(Under(L, d)) * 100 >= DescendShare * Size(Under(L, d))]

Content(L) ==
    LET round[n \in 0 .. 12] ==
            IF n = 0 THEN [at |-> BackupDir, on |-> TRUE] ELSE Descend(L, round[n - 1])
    IN round[12].at

Enough(S) == Size(S) >= MinRootSize /\ Cardinality(S) >= MinRootFiles

HeuristicRoot(L) ==
    LET node == Content(L)
        config == \E h \in ConfigRoots : IsStrictPrefix(BackupDir \o h, node)
    IN {p \in {node} :
          /\ Enough(Under(L, BackupDir)) /\ node # BackupDir
          /\ ~(config /\ Cardinality(Under(L, node)) < 4 * MinRootFiles)
          /\ Enough(Under(L, node))}

(* Bug: only equal roots are dropped. *)
DedupeEqual(P) == P

(* _dedupe_roots                                                             *)
Dedupe(P) == {p \in P : ~ \E q \in P : IsStrictPrefix(q, p)}

(* discover: `declared` are the directories of the archive that settings,    *)
(* manifest and profile of an application name.                              *)
LargeRoots(L, kind, declared) ==
    CASE kind = "system_data" -> {<<>>}
      [] kind = "app" -> Dedupe(IF declared # {} THEN declared ELSE HeuristicRoot(L))
      [] OTHER -> {}

IsLarge(R, path) == \E r \in R : IsPrefix(r, path)

LargeSize(L, R) == Total([r \in R |-> Size(Under(L, r))])
CoreSize(L, R) == Max({Size(L) - LargeSize(L, R), 0})

(* The dumps that a restore imports. *)
Dumps(L, R) ==
    {i \in Under(L, BackupDir) :
        Last(i.path) \in DumpNames /\ Len(i.path) <= 3 /\ ~IsLarge(R, i.path)}

-----------------------------------------------------------------------------
(* keep_app_plumbing: `dirs` are kept whole, `big` are plumbing directories  *)
(* too big for that.                                                         *)

(* Bug: every directory has the whole budget. *)
KeepsEach(S, left) ==
    Size(S) <= KeepDirMax /\ Cardinality(S) <= KeepDirFiles /\ Size(S) <= KeepPerRoot

(* What is small enough, and within what is left of the budget.              *)
KeepsWhole(S, left) ==
    Size(S) <= KeepDirMax /\ Cardinality(S) <= KeepDirFiles /\ Size(S) <= left

NothingKept == [dirs |-> {}, big |-> {}, files |-> {}, bytes |-> 0, markers |-> 0]

(* The next plumbing directory of a root, if there is one of that name.      *)
KeepDir(L, k, d) ==
    LET S == Under(L, d)
    IN IF d \notin Dirs(L) THEN k
       ELSE IF KeepsWhole(S, KeepPerRoot - k.bytes)
       THEN [k EXCEPT !.dirs = @ \cup {d}, !.bytes = @ + Size(S)]
       ELSE [k EXCEPT !.big = @ \cup {d}]

KeepDirs(L, r) ==
    LET kept[n \in 0 .. Len(Plumbing)] ==
            IF n = 0 THEN NothingKept
            ELSE KeepDir(L, kept[n - 1], Append(r, Plumbing[n]))
    IN kept[Len(Plumbing)]

(* The next file of the listing: kept itself when it is small and lies in    *)
(* the root or in a plumbing directory too big to be kept, or marks a folder *)
(* as mounted.                                                               *)
KeptFile(keep, i) ==
    LET parent == Front(i.path)
        near == {r \in DOMAIN keep : parent = r \/ parent \in keep[r].big}
        marked == {r \in DOMAIN keep :
                      /\ IsPrefix(r, i.path) /\ Len(i.path) - Len(r) <= 2
                      /\ Last(i.path) \in Hidden /\ i.size <= MarkerMax}
        Add(k) == IF k.bytes + i.size > KeepPerRoot THEN k
                  ELSE [k EXCEPT !.files = @ \cup {i.path}, !.bytes = @ + i.size]
    IN [r \in DOMAIN keep |->
          IF r \in near
          THEN IF i.size <= KeepFileMax THEN Add(keep[r]) ELSE keep[r]
          ELSE IF near = {} /\ r \in marked /\ keep[r].markers < MarkerFiles
          THEN Add([keep[r] EXCEPT !.markers = @ + 1])
          ELSE keep[r]]
=============================================================================
