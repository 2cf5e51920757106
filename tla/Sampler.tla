------------------------------- MODULE Sampler -------------------------------
(* How the newest objects of a large root are found in one pass over the     *)
(* listing (S/sampling/sampler.py): a bounded heap for every group, a group  *)
(* being a directory of the root, and a round robin over the groups. Files   *)
(* are those of LargeData. An entry is [item, repo, seq]: a file, whether it *)
(* stands for the Git repository it is the HEAD of, the order in which it    *)
(* was seen.                                                                 *)
EXTENDS Integers, FiniteSets, Sequences, SequencesExt

CONSTANTS
    SampleSize, MaxObject,         \* sample_size, max_size
    ExcludeDirs, ExcludeFiles,     \* names, those with a leading dot included
    Files                          \* group of what lies in the root itself

ASSUME SamplerAssumption == SampleSize \in Nat \ {0} /\ MaxObject \in Nat

Rel(r, path) == SubSeq(path, Len(r) + 1, Len(path))

InGit(rel) == \E k \in DOMAIN rel : rel[k] = ".git"

(* The directory whose .git/HEAD this is. *)
IsHead(rel) ==
    /\ Len(rel) >= 2 /\ Last(rel) = "HEAD" /\ rel[Len(rel) - 1] = ".git"
    /\ ~InGit(SubSeq(rel, 1, Len(rel) - 2))
Repo(rel) == SubSeq(rel, 1, Len(rel) - 2)

(* _passes *)
Passes(rel, i) ==
    /\ i.size \in 1 .. MaxObject /\ i.healthy
    /\ \A k \in 1 .. Len(rel) - 1 : rel[k] \notin ExcludeDirs
    /\ Last(rel) \notin ExcludeFiles

(* _candidate and _passes: a repository is recognised once, and all that is  *)
(* in its .git with it.                                                      *)
Candidate(rel, i, seenGit) ==
    IF InGit(rel) THEN IsHead(rel) /\ Repo(rel) \notin seenGit ELSE Passes(rel, i)

Group(rel) == IF Len(rel) > 1 THEN Head(rel) ELSE Files

Newer(e, f) ==
    \/ e.item.mtime > f.item.mtime
    \/ e.item.mtime = f.item.mtime /\ e.seq > f.seq

Oldest(heap) == CHOOSE e \in heap : \A f \in heap \ {e} : Newer(f, e)

(* Bug: the heap is full when it is too full. *)
PushedLate(heap, e) ==
    IF Cardinality(heap) <= SampleSize THEN heap \cup {e}
    ELSE IF Newer(e, Oldest(heap)) THEN (heap \ {Oldest(heap)}) \cup {e}
    ELSE heap

(* heappush, heapreplace                                                     *)
Pushed(heap, e) ==
    IF Cardinality(heap) < SampleSize THEN heap \cup {e}
    ELSE IF Newer(e, Oldest(heap)) THEN (heap \ {Oldest(heap)}) \cup {e}
    ELSE heap

(* Of a heap: the time of its newest entry, how many come before an entry.   *)
Lead(heap) == Max({e.item.mtime : e \in heap})
Round(heap, e) == Cardinality({f \in heap : Newer(f, e)})

(* Bug: the newest come first, whatever their groups. *)
EarlierAnyGroup(g, e, h, f) == Newer(e, f)

(* What of heap g comes before what of heap h: rounds over the groups, those *)
(* with the newest objects first, newest first within a group.               *)
Earlier(g, e, h, f) ==
    \/ Round(g, e) < Round(h, f)
    \/ Round(g, e) = Round(h, f) /\ Lead(g) > Lead(h)

(* _merge: the samples there may be, for groups that are equally new come in *)
(* the order in which they were seen.                                        *)
Merges(heaps) ==
    LET all == UNION {heaps[g] : g \in DOMAIN heaps}
    IN {S \in SUBSET all :
          /\ Cardinality(S) = Min({SampleSize, Cardinality(all)})
          /\ \A g, h \in DOMAIN heaps : \A e \in heaps[g] \cap S, f \in heaps[h] \ S :
               ~Earlier(heaps[h], f, heaps[g], e)}
=============================================================================
