------------------------------ MODULE Comparison ------------------------------
(* How the manifest of a backup generation is compared with earlier ones     *)
(* (S/manifest/compare.py). A manifest is a record [time, of, stats]: the    *)
(* time of the generation, what each of its components contains (`size`,     *)
(* `files` and `dump`, the size of its database dumps), and whether it is a  *)
(* cheap one built from `borg info` alone. An anomaly is a pair of a         *)
(* component, or "total", and a metric. Percentages are compared in whole    *)
(* numbers.                                                                  *)
EXTENDS Integers, FiniteSets, FiniteSetsExt

CONSTANTS
    GrowthPct, ShrinkPct,      \* thresholds in percent
    MinBytes, MinFiles,        \* components below are not looked at
    DumpShrinkPct, MinDump,
    SettledPct, SettledRuns,
    RollingWindows,            \* 7 and 30 days
    MaxAge                     \* backup_max_age_hours

ASSUME ThresholdAssumption ==
    /\ {MinBytes, MinFiles, DumpShrinkPct, MinDump, SettledPct, MaxAge} \subseteq Nat
    /\ {GrowthPct, ShrinkPct, SettledRuns} \subseteq Nat \ {0}
    /\ RollingWindows \subseteq Nat

When(condition, anomaly) == IF condition THEN {anomaly} ELSE {}

(* At least three backups make a median. *)
MinSamples == 3

(* pct_change(new, old) >= pct, and <= -pct; nothing is said of an old value *)
(* of zero.                                                                  *)
Grew(new, old, pct) == old > 0 /\ (new - old) * 100 >= pct * old
Shrank(new, old, pct) == old > 0 /\ (old - new) * 100 >= pct * old

(* _flag *)
Flagged(new, old, min) ==
    old >= min /\ (Grew(new, old, GrowthPct) \/ Shrank(new, old, ShrinkPct))

TotalSize(m) == MapThenSumSet(LAMBDA c : m.of[c].size, DOMAIN m.of)
TotalFiles(m) == MapThenSumSet(LAMBDA c : m.of[c].files, DOMAIN m.of)

(* _compare_totals and the rows of _compare_components; a new component has  *)
(* nothing to be compared with, and a total of zero is not compared with a   *)
(* cheap manifest.                                                           *)
RowAnomalies(m, p) ==
    LET both == DOMAIN m.of \cap DOMAIN p.of
        Total(new, old, min) == (p.stats => new > 0) /\ Flagged(new, old, min)
    IN {<<c, "size">> : c \in
            {d \in both : Flagged(m.of[d].size, p.of[d].size, MinBytes)}}
       \cup {<<c, "count">> : c \in
            {d \in both : Flagged(m.of[d].files, p.of[d].files, MinFiles)}}
       \cup When(Total(TotalSize(m), TotalSize(p), MinBytes), <<"total", "size">>)
       \cup When(Total(TotalFiles(m), TotalFiles(p), MinFiles), <<"total", "count">>)

(* _compare_db_dump *)
DumpLost(new, old) == old.dump > 0 /\ new.dump = 0
DumpShrank(new, old) ==
    /\ new.dump > 0 /\ old.dump > MinDump
    /\ Shrank(new.dump, old.dump, DumpShrinkPct)

DumpAnomalies(m, p) ==
    LET both == IF p.stats \/ m.stats THEN {} ELSE DOMAIN m.of \cap DOMAIN p.of
    IN {<<c, "dump">> : c \in {d \in both : DumpLost(m.of[d], p.of[d])}}
       \cup {<<c, "dump-size">> : c \in
            {d \in both : DumpShrank(m.of[d], p.of[d])}}

(* _compare_missing *)
MissingAnomalies(m, p) == {<<c, "missing">> : c \in DOMAIN p.of \ DOMAIN m.of}

-----------------------------------------------------------------------------
(* The rolling baselines: W is the set of manifests of the window.         *)

InWindow(m, H, days) ==
    {h \in H : ~h.stats /\ h.time < m.time /\ h.time >= m.time - days}

With(c, W) == {h \in W : c \in DOMAIN h.of}

(* The element of rank k, from 0, among the sizes of c. *)
Ranked(c, W, k) ==
    CHOOSE s \in {h.of[c].size : h \in W} :
        /\ Cardinality({h \in W : h.of[c].size < s}) <= k
        /\ k < Cardinality({h \in W : h.of[c].size <= s})

(* Twice the median. *)
Median2(c, W) ==
    LET n == Cardinality(W)
    IN Ranked(c, W, (n - 1) \div 2) + Ranked(c, W, n \div 2)

(* The last few backups of the window. *)
Recent(W) == {h \in W : Cardinality({g \in W : g.time > h.time}) < SettledRuns}

(* Bug: the whole window must agree. *)
SettledWhole(c, size, W) == \A h \in With(c, W) : h.of[c].size = size

(* _has_settled *)
Settled(c, size, W) ==
    LET R == With(c, Recent(W))
    IN /\ Cardinality(R) = SettledRuns
       /\ \A h \in R :
            LET old == h.of[c].size
                gap == IF size > old THEN size - old ELSE old - size
            IN gap * 100 <= SettledPct * old \/ old = 0

(* _rolling *)
Drifted(c, m, W) ==
    /\ Cardinality(W) >= MinSamples /\ ~m.stats
    /\ Cardinality(With(c, W)) >= MinSamples
    /\ LET base2 == Median2(c, With(c, W))
       IN /\ ~Settled(c, m.of[c].size, W)
          /\ Flagged(2 * m.of[c].size, base2, 2 * MinBytes)

RollingAnomalies(m, H) ==
    {<<c, "baseline">> : c \in
        {d \in DOMAIN m.of :
            \E days \in RollingWindows : Drifted(d, m, InWindow(m, H, days))}}

-----------------------------------------------------------------------------
AgeAnomalies(m, now) == When(now - m.time > MaxAge, <<"total", "age">>)

(* compare: P is the previous manifest, in a set, or empty.                *)
Anomalies(m, P, H, now) ==
    AgeAnomalies(m, now)
    \cup UNION {RowAnomalies(m, p) \cup DumpAnomalies(m, p)
                \cup MissingAnomalies(m, p) \cup RollingAnomalies(m, H) : p \in P}
=============================================================================
