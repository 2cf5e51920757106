----------------------------- MODULE Generations -----------------------------
(* How the archives of a Borg repository form backup generations             *)
(* (S/borg/archives.py). An archive is a record [comp, time, data]: the      *)
(* component its name says, when it was made and what it contains. Archives  *)
(* of one component have different times.                                    *)
EXTENDS Integers, FiniteSets

CONSTANT Window   \* generation_window_hours

ASSUME WindowAssumption == Window \in Nat

CompsOf(R) == {a.comp : a \in R}

LatestTime(R) == CHOOSE t \in {a.time : a \in R} : \A a \in R : a.time <= t

(* The newest archive of every component. *)
NewestOf(R) == {a \in R : \A b \in R : b.comp = a.comp => b.time <= a.time}

(* Bug: every archive within the window, also two of one component. *)
ClusterAll(R) ==
    LET latest == LatestTime(R)
    IN {a \in R : latest - a.time <= Window}

(* The generation that starts from the newest archive.                       *)
Cluster(R) ==
    LET latest == LatestTime(R)
    IN {a \in NewestOf(R) : latest - a.time <= Window}

(* All generations: each takes its archives away from the next.              *)
Clusters(R) ==
    LET rest[S \in SUBSET R] ==
            IF S = {} THEN {}
            ELSE LET g == Cluster(S) IN {g} \cup rest[S \ g]
    IN rest[R]

(* The first generation, newest first, that started before the time t.       *)
ClusterBefore(R, t) ==
    LET G == {g \in Clusters(R) : LatestTime(g) < t}
    IN IF G = {} THEN {}
       ELSE CHOOSE g \in G : \A h \in G : LatestTime(h) <= LatestTime(g)
=============================================================================
