------------------------------ MODULE Selection ------------------------------
(* What a check restores of one component: the large roots, the sample, what *)
(* is kept of the roots (S/run/orchestrator.py, _stage_inspect and           *)
(* _select_samples). The sampler and keep_app_plumbing each read the cached  *)
(* listing file by file, in the order in which the archive was made.         *)
EXTENDS LargeData, Sampler

CONSTANTS
    Components      \* [files, kind, declared]

ASSUME SelectionAssumption ==
    \A c \in Components :
        /\ c.kind \in {"app", "system_conf", "system_data"}
        /\ c.declared \subseteq Dirs(c.files)
        /\ IsFiniteSet(c.files)
        /\ \A i \in c.files : i.path \in Seq(STRING) /\ i.size \in Nat /\ i.mtime \in Int
        /\ \A i, j \in c.files : i.path = j.path => i = j

VARIABLES
    comp,           \* the component
    listing,        \* the cached listing of its archive
    pc,
    roots,          \* component.large_roots
    todo,           \* what is still to be read of the listing
    heaps,          \* of every root: a heap for every group
    seenGit, seq,   \* local variables of `select`
    samples,        \* of every root: the objects chosen
    keep            \* of every root: keep_dirs, keep_files, keep_bytes

passVars == <<todo, heaps, seenGit, seq>>
selectionVars == <<comp, pc, roots, passVars, samples, keep>>

SelectionInit ==
    /\ comp \in Components
    /\ pc = "listed" /\ roots = {} /\ todo = {}
    /\ heaps = <<>> /\ seenGit = {} /\ seq = 0
    /\ samples = <<>> /\ keep = <<>>

Discover ==
    /\ pc = "listed"
    /\ roots' = LargeRoots(listing, comp.kind, comp.declared)
    /\ pc' = "sampling"
    /\ todo' = IF roots' = {} THEN {} ELSE listing
    /\ heaps' = [r \in roots' |-> <<>>]
    /\ UNCHANGED <<comp, seenGit, seq, samples, keep>>

Insert(groups, g, e) ==
    IF g \in DOMAIN groups THEN [groups EXCEPT ![g] = Pushed(@, e)]
    ELSE [h \in DOMAIN groups \cup {g} |-> IF h = g THEN Pushed({}, e) ELSE groups[h]]

Sample(i) ==
    /\ pc = "sampling"
    /\ todo' = todo \ {i}
    /\ \/ /\ ~ \E r \in roots : IsPrefix(r, i.path) /\ Candidate(Rel(r, i.path), i, seenGit)
          /\ UNCHANGED <<heaps, seenGit, seq>>
       \/ \E r \in roots :
            LET rel == Rel(r, i.path)
                repo == InGit(rel)
                entry == [item |-> i, repo |-> repo, seq |-> seq + 1]
            IN /\ IsPrefix(r, i.path) /\ Candidate(rel, i, seenGit)
               /\ seenGit' = IF repo THEN seenGit \cup {Repo(rel)} ELSE seenGit
               /\ seq' = seq + 1
               /\ heaps' = [heaps EXCEPT ![r] = Insert(@, Group(rel), entry)]
    /\ UNCHANGED <<comp, pc, roots, samples, keep>>

(* The end of the first pass; only applications have plumbing.               *)
Merge ==
    /\ pc = "sampling" /\ todo = {}
    /\ \E chosen \in [roots -> UNION {Merges(heaps[r]) : r \in roots}] :
         /\ \A r \in roots : chosen[r] \in Merges(heaps[r])
         /\ samples' = chosen
    /\ keep' = [r \in roots |-> IF comp.kind = "app" THEN KeepDirs(listing, r)
                                ELSE NothingKept]
    /\ pc' = "keeping"
    /\ todo' = IF comp.kind = "app" /\ roots # {} THEN listing ELSE {}
    /\ heaps' = <<>> /\ seenGit' = {} /\ seq' = 0
    /\ UNCHANGED <<comp, roots>>

Keep(i) ==
    /\ pc = "keeping"
    /\ todo' = todo \ {i}
    /\ keep' = KeptFile(keep, i)
    /\ UNCHANGED <<comp, pc, roots, heaps, seenGit, seq, samples>>

(* Discovery, then the two passes.                                           *)
SelectionStep ==
    \/ Discover \/ Merge
    \/ \E i \in todo : Sample(i) \/ Keep(i)

Selected == pc = "keeping" /\ todo = {}

-----------------------------------------------------------------------------
(* Correctness.                                                            *)

Heaped == UNION {UNION {heaps[r][g] : g \in DOMAIN heaps[r]} : r \in DOMAIN heaps}

(* What the archive holds, whatever became of its listing. *)
Archive == comp.files

(* Every variable keeps its type; no heap is larger than the sample.         *)
SelectionType ==
    /\ comp \in Components /\ pc \in {"listed", "sampling", "keeping"}
    /\ roots \subseteq Dirs(listing) \cup {<<>>} /\ todo \subseteq listing
    /\ \A r \in DOMAIN heaps : \A g \in DOMAIN heaps[r] :
         Cardinality(heaps[r][g]) \in 1 .. SampleSize
    /\ \A e \in Heaped : e.seq \in 1 .. seq
    /\ \A r \in DOMAIN samples : Cardinality(samples[r]) <= SampleSize

(* Every file is counted once, in the core or in one large root, whatever    *)
(* nested directories the settings, the manifest and a profile name          *)
(* (large_data.py:245-253, 271-278).                                         *)
CountedOnce ==
    roots # {} =>
        LET large == {i \in Archive : IsLarge(roots, i.path)}
        IN /\ LargeSize(listing, roots) = Size(large)
           /\ CoreSize(listing, roots) = Size(Archive \ large)

(* The objects of a root: its files and, for its repositories, their HEADs.  *)
Objects(r) ==
    {i \in Under(Archive, r) :
        LET rel == Rel(r, i.path) IN IF InGit(rel) THEN IsHead(rel) ELSE Passes(rel, i)}
Place(r, i) == Repo(Rel(r, i.path))
Heads(r) == {i \in Objects(r) : InGit(Rel(r, i.path))}

(* Of repositories at the same place in several roots all but one are lost.  *)
LostTwins(lost) ==
    \A r \in roots : \A i \in Heads(r) :
        i \in lost <=> \E s \in roots \ {r} : \E j \in Heads(s) \ lost : Place(s, j) = Place(r, i)

Newest(S) == Max({i.mtime : i \in S})

(* What is chosen of the objects of a root: as many as there may be, of each *)
(* group the newest, of the groups alike, with the newest groups favoured.   *)
WellChosen(r, objects, taken) ==
    LET InGroup(S, g) == {i \in S : Group(Rel(r, i.path)) = g}
        Share(g) == Cardinality(InGroup(taken, g))
    IN /\ taken \subseteq objects
       /\ Cardinality(taken) = Min({SampleSize, Cardinality(objects)})
       /\ \A t \in taken, u \in objects \ taken :
            LET g == Group(Rel(r, t.path))
                h == Group(Rel(r, u.path))
            IN /\ g = h => u.mtime <= t.mtime
               /\ Share(g) <= Share(h) + 1
               /\ Share(g) = Share(h) + 1 =>
                    Newest(InGroup(objects, g)) >= Newest(InGroup(objects, h))

(* In whatever order the listing comes, the sample of a root is full unless  *)
(* the root is exhausted, has the newest objects of every group, takes from  *)
(* the groups alike, and favours the group with the newest object; only a    *)
(* repository with a twin in another root may be lost (sampler.py:1-8,       *)
(* 178-209, 284-313).                                                        *)
SampleRight ==
    Selected =>
        \E lost \in SUBSET UNION {Heads(r) : r \in roots} :
            /\ LostTwins(lost)
            /\ \A r \in roots : WellChosen(r, Objects(r) \ lost, {o.item : o \in samples[r]})

(* What is kept of a root is accounted for and within its budget, whatever   *)
(* the two passes keep of it (large_data.py:286-298).                        *)
KeptIsCosted ==
    \A r \in DOMAIN keep :
        /\ Size({i \in Archive : i.path \in keep[r].files \/ IsLarge(keep[r].dirs, i.path)})
             <= keep[r].bytes
        /\ keep[r].bytes <= KeepPerRoot
=============================================================================
