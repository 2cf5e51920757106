------------------------------ MODULE Inspection ------------------------------
(* The first stage of a check run (S/run/orchestrator.py, _stage_inspect):   *)
(* it lists the repository, takes the newest backup generation, compares its *)
(* manifest with the history (S/manifest/history.py), saves it, prunes the   *)
(* history and, hours later, reports. Meanwhile production makes backups and *)
(* `borg prune` removes archives.                                            *)
EXTENDS Generations, Comparison

CONSTANTS
    Comps,          \* components of the production server
    Data,           \* what a component may contain: [size, files, dump]
    Initial,        \* what one contains at first
    Scopes,         \* sets of components a run may be restricted to
    Retention,      \* history_retention_days
    MaxTime, MaxEvents   \* bounds

ASSUME InspectionAssumption ==
    /\ "total" \notin Comps
    /\ Data \subseteq [size : Nat, files : Nat, dump : Nat]
    /\ Initial \subseteq Data /\ Scopes \subseteq SUBSET Comps
    /\ Retention \in Nat /\ MaxTime \in Nat
    /\ MaxEvents \in Nat

VARIABLES
    now,
    live,       \* what every component contains on the production server
    repo,       \* the archives
    events,     \* changes and removals so far
    history,    \* the manifests on disk
    pc, gen, scope, found,   \* the run
    said,       \* the reports delivered: none or the last one
    died        \* history: a run died between saving and reporting since then

production == <<live, repo, events>>
run == <<gen, scope, found>>
vars == <<now, production, history, pc, run, said, died>>

Archives == [comp : Comps, time : 0 .. MaxTime, data : Data]

Nothing == [anomalies |-> {}, than |-> {}]

-----------------------------------------------------------------------------
(* Manifests.                                                              *)

DataOf(g, c) == (CHOOSE a \in g : a.comp = c).data

(* component_metrics: an application out of scope is not listed, and `borg   *)
(* info` knows nothing of its database dumps.                                *)
Metrics(g, c, listed) ==
    IF c \in listed THEN DataOf(g, c) ELSE [DataOf(g, c) EXCEPT !.dump = 0]

(* build, build_stats_only *)
Manifest(g, listed, stats) ==
    [time |-> LatestTime(g),
     of |-> [c \in CompsOf(g) |-> Metrics(g, c, listed)],
     stats |-> stats]

(* Bug: the manifest of the same generation is an earlier one, too. *)
PreviousOrSame(H, t) ==
    {h \in H : h.time <= t /\ \A k \in H : k.time <= t => k.time <= h.time}

(* previous_to: the manifest of the most recent earlier generation.          *)
PreviousTo(H, t) ==
    {h \in H : h.time < t /\ \A k \in H : k.time < t => k.time <= h.time}

(* The first run compares with the generation before in the repository.      *)
Baseline(H, R, t) ==
    IF PreviousTo(H, t) # {} THEN PreviousTo(H, t)
    ELSE IF ClusterBefore(R, t) = {} THEN {}
    ELSE {Manifest(ClusterBefore(R, t), {}, TRUE)}

(* Bug: a file for every run. *)
SavedAgain(H, m) == H \cup {m}

(* save: one file for every generation.                                      *)
Saved(H, m) == {h \in H : h.time # m.time} \cup {m}

(* Bug: the retention is taken for hours. *)
KeptHours(H, t) == {h \in H : h.time >= t - Retention \div 24}

(* prune *)
Kept(H, t) == {h \in H : h.time >= t - Retention}

-----------------------------------------------------------------------------
Init ==
    /\ now = 0
    /\ live \in [Comps -> Initial]
    /\ repo = {} /\ events = 0
    /\ history = {}
    /\ pc = "idle" /\ gen = {} /\ scope = {} /\ found = Nothing
    /\ said = {} /\ died = FALSE

Tick ==
    /\ now < MaxTime
    /\ now' = now + 1
    /\ UNCHANGED <<production, history, pc, run, said, died>>

Change(c) ==
    /\ events < MaxEvents /\ events' = events + 1
    /\ \E d \in Data \ {live[c]} : live' = [live EXCEPT ![c] = d]
    /\ UNCHANGED <<now, repo, history, pc, run, said, died>>

(* One component after another; any of them may fail to be backed up. *)
Backup(c) ==
    /\ ~ \E a \in repo : a.comp = c /\ a.time = now
    /\ repo' = repo \cup {[comp |-> c, time |-> now, data |-> live[c]]}
    /\ UNCHANGED <<now, live, events, history, pc, run, said, died>>

(* `borg prune`, or the removal of what an uninstalled application left;     *)
(* nobody removes the newest generation.                                     *)
Remove(a) ==
    /\ events < MaxEvents /\ events' = events + 1
    /\ a \in repo \ Cluster(repo)
    /\ repo' = repo \ {a}
    /\ UNCHANGED <<now, live, history, pc, run, said, died>>

(* The listing of the archives; an empty repository ends the run.            *)
Inspect ==
    /\ pc = "idle" /\ repo # {}
    /\ pc' = "inspected"
    /\ gen' = Cluster(repo)
    /\ scope' \in Scopes
    /\ UNCHANGED <<now, production, history, found, said, died>>

Idle == pc' = "idle" /\ gen' = {} /\ scope' = {} /\ found' = Nothing

(* An archive was removed before it was read: the run fails.                 *)
ReadFails ==
    /\ pc = "inspected" /\ ~ gen \subseteq repo
    /\ Idle
    /\ UNCHANGED <<now, production, history, said, died>>

(* _build_manifest_and_compare: the repository is read a second time if      *)
(* there is no history; the history is saved and pruned at once, long before *)
(* the report.                                                               *)
Compare ==
    /\ pc = "inspected"
    /\ pc' = "compared"
    /\ LET m == Manifest(gen, scope, FALSE)
           P == Baseline(history, repo, m.time)
       IN /\ found' = [anomalies |-> Anomalies(m, P, history, now),
                       than |-> {p.time : p \in P}]
          /\ history' = Kept(Saved(history, m), now)
    /\ UNCHANGED <<now, production, gen, scope, said, died>>

(* _stage_report: the end of the run, with or without a restore.             *)
Report ==
    /\ pc = "compared"
    /\ said' = {[gen |-> gen, scope |-> scope, found |-> found]}
    /\ died' = FALSE
    /\ Idle
    /\ UNCHANGED <<now, production, history>>

(* SIGKILL, power loss; before the comparison also any error of the run. *)
Die ==
    /\ pc # "idle"
    /\ died' = (died \/ pc = "compared")
    /\ Idle
    /\ UNCHANGED <<now, production, history, said>>

Check == Inspect \/ ReadFails \/ Compare \/ Report \/ Die

Next ==
    \/ Tick
    \/ \E c \in Comps : Change(c) \/ Backup(c)
    \/ \E a \in repo : Remove(a)
    \/ Check

Spec == Init /\ [][Next]_vars

-----------------------------------------------------------------------------
(* Correctness.                                                            *)

(* Every variable keeps its type; the history has one manifest for every     *)
(* generation (history.py:20-21).                                            *)
TypeOK ==
    /\ now \in 0 .. MaxTime
    /\ live \in [Comps -> Data]
    /\ repo \subseteq Archives /\ gen \subseteq Archives
    /\ events \in 0 .. MaxEvents
    /\ \A h \in history :
         /\ h.time \in 0 .. MaxTime /\ h.stats = FALSE /\ DOMAIN h.of \subseteq Comps
         /\ \A c \in DOMAIN h.of : h.of[c] \in [size : Nat, files : Nat, dump : Nat]
         /\ \A g \in history : g.time = h.time => g = h
    /\ pc \in {"idle", "inspected", "compared"}
    /\ scope \in Scopes \cup {{}}
    /\ Cardinality(said) <= 1 /\ died \in BOOLEAN

(* The generations of a repository share no archive and leave none out; each *)
(* has one archive of a component, made within the window; and the           *)
(* generation a first run compares with is older in every component          *)
(* (archives.py:116-137, 158-164).                                           *)
GenerationsSound ==
    LET all == Clusters(repo)
        newest == Cluster(repo)
        before == ClusterBefore(repo, LatestTime(newest))
    IN repo # {} =>
        /\ UNION all = repo
        /\ \A g, h \in all : g # h => g \cap h = {}
        /\ \A g \in all : \A a, b \in g :
             (a.comp = b.comp => a = b) /\ a.time - b.time <= Window
        /\ \A a \in before, b \in newest : a.comp = b.comp => a.time < b.time

(* A change between two generations that were reported on is reported: a     *)
(* component that is gone is called missing, one that grew or shrank beyond  *)
(* the thresholds has its anomaly. Removed archives, partial                 *)
(* generations and runs that failed in between make no difference; a run     *)
(* that died after it had saved its manifest does, and so does a backup too  *)
(* old, of which the report warns (orchestrator.py:293-336).                 *)
ChangesTold ==
    [][\A r \in said, s \in said' :
         /\ LatestTime(s.gen) > LatestTime(r.gen)
         /\ ~died /\ <<"total", "age">> \notin r.found.anomalies
         => \A c \in CompsOf(r.gen) :
              IF c \notin CompsOf(s.gen)
              THEN <<c, "missing">> \in s.found.anomalies
              ELSE Flagged(DataOf(s.gen, c).size, DataOf(r.gen, c).size, MinBytes)
                   => <<c, "size">> \in s.found.anomalies]_said

(* A check that is repeated says the same: what the first one saved and      *)
(* pruned does not change what the second compares with, as long as that is  *)
(* younger than the retention (history.py:50-53, 65-76). A first run, which  *)
(* compares with the repository, is left out: that may change meanwhile.     *)
RepeatTellsTheSame ==
    [][\A r \in said, s \in said' :
         /\ r.gen = s.gen /\ r.scope = s.scope
         /\ now - LatestTime(r.gen) <= MaxAge
         /\ \E h \in history : r.found.than = {h.time}
         /\ \A days \in RollingWindows : LatestTime(r.gen) - days >= now - Retention
         => r.found.anomalies = s.found.anomalies]_said

(* A change that happened once is not reported for ever: when the last few   *)
(* backups agree with this one, nothing is said of the size of a component   *)
(* (compare.py:30-34).                                                       *)
SettledIsSilent ==
    [][\A c \in CompsOf(gen) :
         LET last == Recent({h \in history : h.time < LatestTime(gen)})
         IN /\ pc' = "compared"
            /\ Cardinality(last) = SettledRuns
            /\ \A h \in last : c \in DOMAIN h.of /\ h.of[c].size = DataOf(gen, c).size
            => found'.anomalies \cap {<<c, "size">>, <<c, "baseline">>} = {}]_pc

(* The error "database dump is missing or empty" is about a dump that is     *)
(* (compare.py:1-7).                                                         *)
DumpAlarmTrue ==
    \A r \in said : \A c \in CompsOf(r.gen) :
        <<c, "dump">> \in r.found.anomalies => DataOf(r.gen, c).dump = 0
=============================================================================
