-------------------------- MODULE InspectionProofs ---------------------------
(* Proofs about the inspection: the history never runs ahead of the          *)
(* repository, so what a run compares with is what an earlier one saved;     *)
(* pruning takes away only what no later comparison reads.                   *)
EXTENDS Inspection, FiniteInduction, TLAPS

-----------------------------------------------------------------------------
(* Archives and their generations.                                         *)

(* Archives of a component have different times.                             *)
Sound(R) ==
    /\ IsFiniteSet(R) /\ \A a \in R : a.time \in Nat
    /\ \A a, b \in R : a.comp = b.comp /\ a.time = b.time => a = b

LEMMA SoundParts ==
    ASSUME NEW R, Sound(R), NEW S, S \subseteq R
    PROVE  Sound(S)
BY FS_Subset DEF Sound

LEMMA Latest ==
    ASSUME NEW R, Sound(R), R # {}
    PROVE  /\ LatestTime(R) \in Nat
           /\ \E a \in R : a.time = LatestTime(R)
           /\ \A a \in R : a.time <= LatestTime(R)
<1> DEFINE T == {a.time : a \in R}
           f == [a \in R |-> a.time]
<1>1. (\A t \in T : t \in Nat) /\ T # {}
  BY DEF Sound
<1>2. f \in Surjection(R, T)
  BY DEF Surjection
<1>3. IsFiniteSet(R)
  BY DEF Sound
<1>4. LatestTime(R) = CHOOSE t \in T : \A n \in T : n <= t
  BY DEF LatestTime
<1>5. IsFiniteSet(T)
  <2> HIDE DEF f, T
  <2>1. QED
    BY <1>2, <1>3, FS_Surjection
<1>6. \E t \in T : \A n \in T : n <= t
  <2> HIDE DEF T
  <2>1. QED
    BY <1>1, <1>5, LargestNumber
<1>7. LatestTime(R) \in T /\ \A n \in T : n <= LatestTime(R)
  <2> HIDE DEF T
  <2>1. QED
    BY <1>4, <1>6
<1>8. QED
  BY <1>1, <1>7

(* There is one latest time.                                                 *)
LEMMA LatestIs ==
    ASSUME NEW R, Sound(R), NEW a \in R, \A b \in R : b.time <= a.time
    PROVE  LatestTime(R) = a.time
<1>1. LatestTime(R) \in Nat /\ a.time \in Nat /\ a.time <= LatestTime(R)
  BY Latest DEF Sound
<1>2. PICK b \in R : b.time = LatestTime(R)
  BY Latest
<1>3. QED
  BY <1>1, <1>2

(* The generation that starts from the newest archive.                       *)
LEMMA ClusterSound ==
    ASSUME NEW R, Sound(R), R # {}
    PROVE  /\ Cluster(R) \subseteq R /\ Cluster(R) # {}
           /\ LatestTime(Cluster(R)) = LatestTime(R)
           /\ \A a, b \in Cluster(R) :
                (a.comp = b.comp => a = b) /\ a.time - b.time <= Window
<1>1. PICK a \in R : a.time = LatestTime(R)
  BY Latest
<1>2. a \in Cluster(R) /\ Cluster(R) \subseteq R
  BY <1>1, Latest, WindowAssumption DEF Cluster, NewestOf, Sound
<1>3. Sound(Cluster(R)) /\ \A b \in Cluster(R) : b.time <= a.time
  BY <1>1, <1>2, Latest, SoundParts
<1>4. LatestTime(Cluster(R)) = LatestTime(R)
  BY <1>1, <1>2, <1>3, LatestIs
<1>5. ASSUME NEW b \in Cluster(R), NEW c \in Cluster(R)
      PROVE  (b.comp = c.comp => b = c) /\ b.time - c.time <= Window
  <2>1. b \in NewestOf(R) /\ c \in NewestOf(R) /\ LatestTime(R) - c.time <= Window
    BY DEF Cluster
  <2>2. /\ b \in R /\ c \in R /\ b.time \in Nat /\ c.time \in Nat /\ LatestTime(R) \in Nat
        /\ b.time <= LatestTime(R) /\ Window \in Nat
    BY <1>2, Latest, WindowAssumption DEF Sound
  <2>3. b.comp = c.comp => b.time = c.time
    BY <2>1, <2>2 DEF NewestOf
  <2>4. QED
    BY <2>1, <2>2, <2>3 DEF Sound
<1>6. QED
  BY <1>2, <1>4, <1>5

(* The equation of the recursive function in Clusters, for all that is left  *)
(* of R.                                                                     *)
Splits(f, R) ==
    f = [S \in SUBSET R |-> IF S = {} THEN {} ELSE {Cluster(S)} \cup f[S \ Cluster(S)]]

(* Where two solutions both are one they agree.                              *)
LEMMA SplitsOnce ==
    ASSUME NEW R, Sound(R), NEW Q, Q \subseteq R, NEW f, Splits(f, R), NEW g, Splits(g, Q)
    PROVE  \A S \in SUBSET Q : f[S] = g[S]
<1> DEFINE Wrong == {S \in SUBSET Q : f[S] # g[S]}
<1>1. Wrong = {}
  <2>1. SUFFICES ASSUME Wrong # {} PROVE FALSE
    OBVIOUS
  <2>2. PICK A \in Wrong : \A B \in Wrong : B \subseteq A => B = A
    <3>1. Wrong \subseteq SUBSET Q /\ IsFiniteSet(Q)
      BY FS_Subset DEF Sound
    <3> HIDE DEF Wrong
    <3>2. QED
      BY <2>1, <3>1, SmallestSubset
  <2>3. /\ A \subseteq Q /\ A \subseteq R /\ f[A] # g[A]
        /\ f[A] = IF A = {} THEN {} ELSE {Cluster(A)} \cup f[A \ Cluster(A)]
        /\ g[A] = IF A = {} THEN {} ELSE {Cluster(A)} \cup g[A \ Cluster(A)]
    BY DEF Splits
  <2>4. A # {}
    BY <2>3
  <2>5. Cluster(A) \subseteq A /\ Cluster(A) # {}
    BY <2>3, <2>4, SoundParts, ClusterSound
  <2>6. A \ Cluster(A) \notin Wrong /\ A \ Cluster(A) \subseteq Q
    BY <2>2, <2>3, <2>5
  <2>7. QED
    BY <2>3, <2>4, <2>6
<1>2. QED
  BY <1>1

(* There is a solution.                                                      *)
LEMMA SplitsDefined ==
    ASSUME NEW R, Sound(R)
    PROVE  \E f : Splits(f, R)
<1> DEFINE Wrong == {S \in SUBSET R : ~ \E f : Splits(f, S)}
           F(S) == CHOOSE f : Splits(f, S)
<1>1. Wrong = {}
  <2>1. SUFFICES ASSUME Wrong # {} PROVE FALSE
    OBVIOUS
  <2>2. PICK A \in Wrong : \A B \in Wrong : B \subseteq A => B = A
    <3>1. Wrong \subseteq SUBSET R /\ IsFiniteSet(R)
      BY DEF Sound
    <3> HIDE DEF Wrong
    <3>2. QED
      BY <2>1, <3>1, SmallestSubset
  <2>3. A \subseteq R /\ ~ \E f : Splits(f, A)
    OBVIOUS
  <2>4. ASSUME NEW S, S \subseteq A, S # A PROVE Splits(F(S), S)
    <3>1. S \notin Wrong
      BY <2>2, <2>4
    <3>2. \E f : Splits(f, S)
      BY <2>3, <2>4, <3>1
    <3>3. QED
      BY <3>2
  <2> DEFINE Rest(S) == S \ Cluster(S)
             h == [S \in SUBSET A |-> IF S = {} THEN {} ELSE {Cluster(S)} \cup F(Rest(S))[Rest(S)]]
  <2>5. ASSUME NEW S \in SUBSET A, S # {}
        PROVE  /\ Rest(S) \subseteq S /\ Rest(S) # S /\ Rest(S) \subseteq A /\ Rest(S) # A
               /\ Sound(Rest(S)) /\ Sound(S)
    <3>1. Sound(S)
      BY <2>3, SoundParts
    <3>2. Cluster(S) \subseteq S /\ Cluster(S) # {}
      BY <2>5, <3>1, ClusterSound
    <3>3. QED
      BY <3>1, <3>2, SoundParts
  <2> HIDE DEF F
  <2>6. ASSUME NEW S \in SUBSET A, S # A PROVE h[S] = F(S)[S]
    <3>1. Splits(F(S), S) /\ S \in SUBSET S
      BY <2>4, <2>6
    <3>2. F(S)[S] = IF S = {} THEN {} ELSE {Cluster(S)} \cup F(S)[Rest(S)]
      BY <3>1 DEF Splits
    <3>3. S # {} => F(S)[Rest(S)] = F(Rest(S))[Rest(S)]
      <4>1. SUFFICES ASSUME S # {} PROVE F(S)[Rest(S)] = F(Rest(S))[Rest(S)]
        OBVIOUS
      <4>2. Splits(F(Rest(S)), Rest(S)) /\ Rest(S) \subseteq S /\ Sound(S)
        BY <2>4, <2>5, <4>1
      <4> HIDE DEF Rest
      <4>3. QED
        BY <3>1, <4>2, SplitsOnce
    <3>4. h[S] = IF S = {} THEN {} ELSE {Cluster(S)} \cup F(Rest(S))[Rest(S)]
      OBVIOUS
    <3>5. QED
      BY <3>2, <3>3, <3>4
  <2>7. Splits(h, A)
    <3>1. ASSUME NEW S \in SUBSET A
          PROVE  h[S] = IF S = {} THEN {} ELSE {Cluster(S)} \cup h[Rest(S)]
      <4>1. S # {} => Rest(S) \in SUBSET A /\ Rest(S) # A
        BY <2>5
      <4>2. S # {} => h[Rest(S)] = F(Rest(S))[Rest(S)]
        <5> HIDE DEF Rest, h
        <5>1. QED
          BY <4>1, <2>6
      <4>3. h[S] = IF S = {} THEN {} ELSE {Cluster(S)} \cup F(Rest(S))[Rest(S)]
        OBVIOUS
      <4>4. QED
        BY <4>2, <4>3
    <3>2. h = [S \in SUBSET A |-> h[S]]
      OBVIOUS
    <3>3. [S \in SUBSET A |-> h[S]]
            = [S \in SUBSET A |-> IF S = {} THEN {} ELSE {Cluster(S)} \cup h[S \ Cluster(S)]]
      <4>1. ASSUME NEW S \in SUBSET A
            PROVE  h[S] = IF S = {} THEN {} ELSE {Cluster(S)} \cup h[S \ Cluster(S)]
        BY <3>1
      <4> HIDE DEF h
      <4>2. QED
        BY <4>1
    <3> HIDE DEF h
    <3>4. QED
      BY <3>2, <3>3 DEF Splits
  <2>8. QED
    BY <2>3, <2>7
<1>2. QED
  BY <1>1

(* The generations of archives: all in one of them, none in two; each is the *)
(* newest of some of the archives.                                           *)
LEMMA ClustersSound ==
    ASSUME NEW R, Sound(R)
    PROVE  /\ UNION Clusters(R) = R
           /\ \A g, h \in Clusters(R) : g # h => g \cap h = {}
           /\ \A g \in Clusters(R) : \E S \in SUBSET R : S # {} /\ g = Cluster(S)
           /\ R # {} => Cluster(R) \in Clusters(R)
<1> DEFINE rest == CHOOSE f : Splits(f, R)
           Right(S) ==
               /\ UNION rest[S] = S
               /\ \A g, h \in rest[S] : g # h => g \cap h = {}
               /\ \A g \in rest[S] : \E T \in SUBSET R : T # {} /\ g = Cluster(T)
           Wrong == {S \in SUBSET R : ~ Right(S)}
<1>1. Clusters(R) = rest[R]
  BY DEF Clusters, Splits
<1>2. Splits(rest, R)
  BY SplitsDefined
<1> HIDE DEF rest
<1>3. \A S \in SUBSET R : rest[S] = IF S = {} THEN {} ELSE {Cluster(S)} \cup rest[S \ Cluster(S)]
  BY <1>2 DEF Splits
<1>4. Wrong = {}
  <2>1. SUFFICES ASSUME Wrong # {} PROVE FALSE
    OBVIOUS
  <2>2. PICK A \in Wrong : \A B \in Wrong : B \subseteq A => B = A
    <3>1. Wrong \subseteq SUBSET R /\ IsFiniteSet(R)
      BY DEF Sound
    <3> HIDE DEF Wrong
    <3>2. QED
      BY <2>1, <3>1, SmallestSubset
  <2>3. A \subseteq R /\ ~ Right(A)
    OBVIOUS
  <2>4. A # {}
    <3>1. A = {} => rest[A] = {}
      BY <1>3, <2>3
    <3>2. QED
      BY <2>3, <3>1
  <2>5. rest[A] = {Cluster(A)} \cup rest[A \ Cluster(A)] /\ Cluster(A) \subseteq A /\ Cluster(A) # {}
    BY <1>3, <2>3, <2>4, SoundParts, ClusterSound
  <2>6. Right(A \ Cluster(A))
    <3> DEFINE left == A \ Cluster(A)
    <3>1. left \in SUBSET R /\ left \subseteq A /\ left # A
      BY <2>3, <2>5
    <3> HIDE DEF left, Right
    <3>2. left \notin Wrong
      <4> HIDE DEF Wrong
      <4>1. QED
        BY <2>2, <3>1
    <3>3. Right(left)
      BY <3>1, <3>2
    <3>4. QED
      BY <3>3 DEF left
  <2>7. UNION rest[A] = A
    <3>1. UNION rest[A \ Cluster(A)] = A \ Cluster(A)
      BY <2>6
    <3>2. QED
      BY <2>5, <3>1
  <2>8. ASSUME NEW g \in rest[A], NEW h \in rest[A], g # h PROVE g \cap h = {}
    <3>1. \A k \in rest[A \ Cluster(A)] : k \cap Cluster(A) = {}
      BY <2>6
    <3>2. \A k, l \in rest[A \ Cluster(A)] : k # l => k \cap l = {}
      BY <2>6
    <3>3. QED
      BY <2>5, <2>8, <3>1, <3>2
  <2>9. \A g \in rest[A] : \E T \in SUBSET R : T # {} /\ g = Cluster(T)
    <3>1. \A g \in rest[A \ Cluster(A)] : \E T \in SUBSET R : T # {} /\ g = Cluster(T)
      BY <2>6
    <3>2. QED
      BY <2>3, <2>4, <2>5, <3>1
  <2>10. QED
    BY <2>3, <2>7, <2>8, <2>9
<1>5. Right(R)
  BY <1>4, Zenon
<1>6. R # {} => Cluster(R) \in rest[R]
  <2>1. R \in SUBSET R
    OBVIOUS
  <2>2. rest[R] = IF R = {} THEN {} ELSE {Cluster(R)} \cup rest[R \ Cluster(R)]
    BY <1>3, <2>1, Zenon
  <2>3. QED
    BY <2>2
<1>7. QED
  BY <1>1, <1>5, <1>6

(* The generation before a time started before it.                           *)
LEMMA BeforeSound ==
    ASSUME NEW R, Sound(R), NEW t, ClusterBefore(R, t) # {}
    PROVE  ClusterBefore(R, t) \in Clusters(R) /\ LatestTime(ClusterBefore(R, t)) < t
<1> DEFINE G == {g \in Clusters(R) : LatestTime(g) < t}
           Ages == {LatestTime(g) : g \in G}
<1>1. ClusterBefore(R, t) = CHOOSE g \in G : \A h \in G : LatestTime(h) <= LatestTime(g)
      /\ G # {}
  BY DEF ClusterBefore
<1>2. ASSUME NEW g \in G
      PROVE  \E a \in R : a.time = LatestTime(g)
  <2>1. g \in Clusters(R)
    OBVIOUS
  <2>2. PICK S \in SUBSET R : S # {} /\ g = Cluster(S)
    BY <2>1, ClustersSound
  <2>3. Sound(S)
    BY SoundParts
  <2>4. LatestTime(g) = LatestTime(S)
    BY <2>2, <2>3, ClusterSound
  <2>5. QED
    BY <2>2, <2>3, <2>4, Latest
<1>3. IsFiniteSet(Ages) /\ (\A n \in Ages : n \in Nat) /\ Ages # {}
  <2> DEFINE Times == {a.time : a \in R}
             f == [a \in R |-> a.time]
  <2>1. f \in Surjection(R, Times)
    BY DEF Surjection
  <2>6. Ages \subseteq Times
    BY <1>2
  <2>2. (\A n \in Times : n \in Nat) /\ IsFiniteSet(R)
    BY DEF Sound
  <2>3. Ages # {}
    <3> HIDE DEF G
    <3>1. PICK g \in G : TRUE
      BY <1>1
    <3>2. QED
      BY <3>1
  <2> HIDE DEF f, Times, Ages
  <2>4. IsFiniteSet(Times)
    BY <2>1, <2>2, FS_Surjection
  <2>5. QED
    BY <2>6, <2>2, <2>3, <2>4, FS_Subset
<1>4. \E n \in Ages : \A m \in Ages : m <= n
  <2> HIDE DEF Ages
  <2>1. QED
    BY <1>3, LargestNumber
<1>5. \E g \in G : \A h \in G : LatestTime(h) <= LatestTime(g)
  BY <1>4
<1>6. ClusterBefore(R, t) \in G
  <2> HIDE DEF G
  <2>1. QED
    BY <1>1, <1>5
<1>7. QED
  BY <1>6

-----------------------------------------------------------------------------
(* The repository and the run.                                             *)

(* A generation: archives of which no two are of one component.              *)
Generation(g) ==
    /\ g \subseteq Archives /\ g # {} /\ Sound(g)
    /\ \A a, b \in g : a.comp = b.comp => a = b

RepoInv ==
    /\ now \in 0 .. MaxTime /\ live \in [Comps -> Data] /\ events \in 0 .. MaxEvents
    /\ repo \subseteq Archives /\ Sound(repo)

(* The newest archive of the repository is nobody's to remove: a run, and    *)
(* what was said and saved, is never ahead of it.                            *)
RunInv ==
    /\ pc \in {"idle", "inspected", "compared"} /\ died \in BOOLEAN
    /\ pc = "idle" => gen = {} /\ scope = {}
    /\ pc # "idle" => /\ Generation(gen) /\ scope \in Scopes
                      /\ repo # {} /\ LatestTime(gen) <= LatestTime(repo)
                      /\ \A r \in said : LatestTime(r.gen) <= LatestTime(gen)
    /\ said = {} \/ \E r : said = {r}
    /\ \A r \in said : Generation(r.gen) /\ repo # {} /\ LatestTime(r.gen) <= LatestTime(repo)

Measured == [size : Nat, files : Nat, dump : Nat]

(* A manifest that is saved.                                                 *)
Written(h) ==
    /\ h.time \in 0 .. MaxTime /\ h.stats = FALSE /\ DOMAIN h.of \subseteq Comps
    /\ \A c \in DOMAIN h.of : h.of[c] \in Measured

HistoryInv ==
    /\ IsFiniteSet(history)
    /\ \A h \in history : Written(h) /\ repo # {} /\ h.time <= LatestTime(repo)
    /\ \A h, k \in history : h.time = k.time => h = k
    /\ pc = "inspected" => \A h \in history : h.time <= LatestTime(gen)

InspectInv == RepoInv /\ RunInv /\ HistoryInv

(* What the report of a generation is about.                                 *)
LEMMA DataIs ==
    ASSUME NEW g, Generation(g), NEW a \in g
    PROVE  DataOf(g, a.comp) = a.data /\ a.comp \in CompsOf(g)
<1>1. \A b \in g : b.comp = a.comp => b = a
  BY DEF Generation
<1>2. (CHOOSE b \in g : b.comp = a.comp) = a
  BY <1>1
<1>3. QED
  BY <1>2 DEF DataOf, CompsOf

LEMMA ManifestWritten ==
    ASSUME NEW g, Generation(g), NEW listed
    PROVE  LET m == Manifest(g, listed, FALSE)
           IN /\ Written(m) /\ m.time = LatestTime(g) /\ DOMAIN m.of = CompsOf(g)
              /\ \A c \in CompsOf(g) : /\ m.of[c].size = DataOf(g, c).size
                                       /\ m.of[c].size \in Nat
<1> DEFINE m == Manifest(g, listed, FALSE)
<1>1. m.time = LatestTime(g) /\ m.stats = FALSE /\ DOMAIN m.of = CompsOf(g)
      /\ \A c \in CompsOf(g) : m.of[c] = Metrics(g, c, listed)
  BY DEF Manifest
<1>2. ASSUME NEW c \in CompsOf(g)
      PROVE  /\ c \in Comps /\ Metrics(g, c, listed) \in Measured
             /\ Metrics(g, c, listed).size = DataOf(g, c).size
             /\ DataOf(g, c).size \in Nat
  <2>1. PICK a \in g : a.comp = c
    BY DEF CompsOf
  <2>2. a \in Archives
    BY DEF Generation
  <2>3. DataOf(g, c) = a.data /\ a.data \in Data /\ c \in Comps
    BY <2>1, <2>2, DataIs DEF Archives
  <2>4. DataOf(g, c) \in Measured
    BY <2>3, InspectionAssumption DEF Measured
  <2>5. QED
    BY <2>3, <2>4 DEF Metrics, Measured
<1>3. LatestTime(g) \in 0 .. MaxTime
  <2>1. PICK a \in g : a.time = LatestTime(g)
    BY Latest DEF Generation
  <2>2. a \in Archives
    BY DEF Generation
  <2>3. QED
    BY <2>1, <2>2 DEF Archives
<1>4. QED
  BY <1>1, <1>2, <1>3 DEF Written

LEMMA ClusterIsGeneration ==
    ASSUME NEW R, R \subseteq Archives, Sound(R), R # {}
    PROVE  Generation(Cluster(R)) /\ LatestTime(Cluster(R)) = LatestTime(R)
<1>1. /\ Cluster(R) \subseteq R /\ Cluster(R) # {}
      /\ LatestTime(Cluster(R)) = LatestTime(R)
      /\ \A a, b \in Cluster(R) : a.comp = b.comp => a = b
  BY ClusterSound
<1>2. Sound(Cluster(R))
  BY <1>1, SoundParts
<1>3. QED
  BY <1>1, <1>2 DEF Generation

(* With more archives there is no earlier latest time.                       *)
LEMMA LatestGrows ==
    ASSUME NEW R, Sound(R), NEW S, Sound(S), NEW a \in R \cap S, a.time = LatestTime(R)
    PROVE  LatestTime(R) <= LatestTime(S)
BY Latest

-----------------------------------------------------------------------------
LEMMA InspectInit == Init => InspectInv
<1> SUFFICES ASSUME Init PROVE InspectInv
  OBVIOUS
<1>1. RepoInv
  <2>1. Sound({})
    BY FS_EmptySet DEF Sound
  <2>2. live \in [Comps -> Data]
    BY InspectionAssumption DEF Init
  <2>3. QED
    BY <2>1, <2>2, InspectionAssumption DEF Init, RepoInv
<1>2. RunInv
  BY DEF Init, RunInv
<1>3. HistoryInv
  BY FS_EmptySet DEF Init, HistoryInv
<1>4. QED
  BY <1>1, <1>2, <1>3 DEF InspectInv

(* Production goes on; its newest archive stays.                             *)
LEMMA RepoNext ==
    ASSUME RepoInv, [Next]_vars
    PROVE  /\ RepoInv'
           /\ repo # {} => repo' # {} /\ LatestTime(repo) <= LatestTime(repo')
<1>1. CASE Tick
  <2>1. now' = now + 1 /\ now < MaxTime /\ UNCHANGED <<live, repo, events>>
    BY <1>1 DEF Tick, production
  <2>2. RepoInv'
    BY <2>1, InspectionAssumption DEF RepoInv, Archives
  <2>3. repo # {} => LatestTime(repo) \in Nat
    BY Latest DEF RepoInv
  <2>4. QED
    BY <2>1, <2>2, <2>3
<1>2. ASSUME NEW c \in Comps, Change(c) PROVE RepoInv' /\ repo' = repo
  <2>1. /\ events' = events + 1 /\ events < MaxEvents /\ UNCHANGED <<now, repo>>
        /\ \E d \in Data : live' = [live EXCEPT ![c] = d]
    BY <1>2 DEF Change
  <2>2. live' \in [Comps -> Data]
    BY <2>1 DEF RepoInv
  <2>3. QED
    BY <2>1, <2>2, InspectionAssumption DEF RepoInv, Archives
<1>3. ASSUME NEW c \in Comps, Backup(c)
      PROVE  RepoInv' /\ repo \subseteq repo'
  <2> DEFINE a == [comp |-> c, time |-> now, data |-> live[c]]
  <2>1. /\ repo' = repo \cup {a} /\ UNCHANGED <<now, live, events>>
        /\ \A b \in repo : ~ (b.comp = c /\ b.time = now)
    BY <1>3 DEF Backup
  <2>2. a \in Archives /\ a.comp = c /\ a.time = now /\ now \in Nat
    BY DEF RepoInv, Archives
  <2>3. Sound(repo \cup {a})
    <3>1. IsFiniteSet(repo \cup {a})
      BY FS_AddElement DEF RepoInv, Sound
    <3> HIDE DEF a
    <3>2. QED
      BY <2>1, <2>2, <3>1 DEF RepoInv, Sound
  <2>4. QED
    BY <2>1, <2>2, <2>3 DEF RepoInv, Archives
<1>4. ASSUME NEW a \in repo, Remove(a)
      PROVE  /\ RepoInv' /\ repo # {}
             /\ \E b \in repo \cap repo' : b.time = LatestTime(repo)
  <2>1. /\ events' = events + 1 /\ events < MaxEvents /\ UNCHANGED <<now, live>>
        /\ a \notin Cluster(repo) /\ repo' = repo \ {a}
    BY <1>4 DEF Remove
  <2>2. Sound(repo) /\ repo # {} /\ Sound(repo')
    BY <2>1, SoundParts DEF RepoInv
  <2>3. PICK b \in Cluster(repo) : b.time = LatestTime(Cluster(repo))
    <3>1. Cluster(repo) # {} /\ Sound(Cluster(repo))
      BY <2>2, ClusterSound, SoundParts
    <3>2. QED
      BY <3>1, Latest
  <2>4. b \in repo \cap repo' /\ b.time = LatestTime(repo)
    BY <2>1, <2>2, <2>3, ClusterSound
  <2>5. RepoInv'
    BY <2>1, <2>2, InspectionAssumption DEF RepoInv, Archives
  <2>6. QED
    BY <2>2, <2>4, <2>5
<1>5. CASE Check \/ UNCHANGED vars
  <2>1. UNCHANGED <<now, live, repo, events>>
    BY <1>5 DEF Check, Inspect, ReadFails, Compare, Report, Die, vars, production
  <2>2. QED
    BY <2>1, Latest DEF RepoInv, Archives
<1>6. ASSUME RepoInv', repo # {}, \E b \in repo \cap repo' : b.time = LatestTime(repo)
      PROVE  repo' # {} /\ LatestTime(repo) <= LatestTime(repo')
  <2>1. Sound(repo) /\ Sound(repo')
    BY <1>6 DEF RepoInv
  <2>2. QED
    BY <1>6, <2>1, LatestGrows
<1>7. repo # {} => \E b \in repo : b.time = LatestTime(repo)
  BY Latest DEF RepoInv
<1>8. CASE \E c \in Comps : Change(c) \/ Backup(c)
  BY <1>2, <1>3, <1>6, <1>7, <1>8
<1>9. CASE \E a \in repo : Remove(a)
  BY <1>4, <1>6, <1>9
<1>10. QED
  BY <1>1, <1>5, <1>8, <1>9 DEF Next

(* What is not later than the repository stays so.                           *)
LEMMA NotAhead ==
    ASSUME InspectInv, [Next]_vars, NEW t \in Nat, repo # {}, t <= LatestTime(repo)
    PROVE  t <= LatestTime(repo')
<1>1. repo' # {} /\ LatestTime(repo) <= LatestTime(repo') /\ Sound(repo) /\ Sound(repo')
  BY RepoNext DEF InspectInv, RepoInv
<1>2. LatestTime(repo) \in Nat /\ LatestTime(repo') \in Nat
  BY <1>1, Latest
<1>3. QED
  BY <1>1, <1>2

LEMMA GenerationTime ==
    ASSUME NEW g, Generation(g)
    PROVE  LatestTime(g) \in Nat
BY Latest DEF Generation

(* Production changes nothing of the run and of the history.                 *)
LEMMA ProductionFrame ==
    ASSUME [Next]_vars, ~ Check
    PROVE  UNCHANGED <<history, pc, run, said, died>>
BY DEF Next, Tick, Change, Backup, Remove, vars

(* A run that ends leaves nothing behind.                                    *)
LEMMA EndsClean ==
    ASSUME InspectInv, [Next]_vars, Idle, died' \in BOOLEAN,
           said' = {} \/ \E r : said' = {r},
           \A r \in said' : Generation(r.gen) /\ repo # {} /\ LatestTime(r.gen) <= LatestTime(repo)
    PROVE  RunInv'
<1>1. \A r \in said' : repo' # {} /\ LatestTime(r.gen) <= LatestTime(repo')
  BY RepoNext, NotAhead, GenerationTime DEF InspectInv
<1>2. QED
  BY <1>1 DEF RunInv, Idle, Generation, Archives

LEMMA RunNext == InspectInv /\ [Next]_vars => RunInv'
<1> SUFFICES ASSUME InspectInv, [Next]_vars PROVE RunInv'
  OBVIOUS
<1>1. ASSUME UNCHANGED <<history, pc, run, said, died>> PROVE RunInv'
  <2>1. \A r \in said : repo' # {} /\ LatestTime(r.gen) <= LatestTime(repo')
    BY RepoNext, NotAhead, GenerationTime DEF InspectInv, RunInv
  <2>2. pc # "idle" => repo' # {} /\ LatestTime(gen) <= LatestTime(repo')
    BY RepoNext, NotAhead, GenerationTime DEF InspectInv, RunInv
  <2>3. QED
    BY <1>1, <2>1, <2>2 DEF InspectInv, RunInv, run, Generation, Archives
<1>2. CASE Inspect
  <2>1. /\ repo # {} /\ pc' = "inspected" /\ gen' = Cluster(repo) /\ scope' \in Scopes
        /\ UNCHANGED <<repo, said, died>>
    BY <1>2 DEF Inspect, production
  <2>2. Generation(gen') /\ LatestTime(gen') = LatestTime(repo)
    BY <2>1, ClusterIsGeneration DEF InspectInv, RepoInv
  <2>3. LatestTime(repo) \in Nat
    BY <2>1, Latest DEF InspectInv, RepoInv
  <2>4. \A r \in said : Generation(r.gen) /\ LatestTime(r.gen) <= LatestTime(repo)
    BY DEF InspectInv, RunInv
  <2>5. Generation(gen)'
    BY <2>2 DEF Generation, Archives
  <2>6. (\A r \in said : Generation(r.gen))'
    BY <2>1, <2>4 DEF Generation, Archives
  <2>7. (said = {} \/ \E r : said = {r}) /\ died \in BOOLEAN
    BY DEF InspectInv, RunInv
  <2>8. /\ repo' # {} /\ LatestTime(gen') <= LatestTime(repo')
        /\ \A r \in said' : LatestTime(r.gen) <= LatestTime(gen')
                           /\ LatestTime(r.gen) <= LatestTime(repo')
    BY <2>1, <2>2, <2>3, <2>4
  <2>9. QED
    BY <2>1, <2>5, <2>6, <2>7, <2>8 DEF RunInv
<1>3. CASE ReadFails \/ Die
  <2>1. Idle /\ said' = said /\ died' \in BOOLEAN
    BY <1>3 DEF ReadFails, Die, InspectInv, RunInv
  <2>2. QED
    BY <2>1, EndsClean DEF InspectInv, RunInv
<1>4. CASE Compare
  <2>1. pc = "inspected" /\ pc' = "compared" /\ UNCHANGED <<repo, gen, scope, said, died>>
    BY <1>4 DEF Compare, production
  <2>2. QED
    BY <2>1 DEF InspectInv, RunInv, Generation, Archives
<1>5. CASE Report
  <2> DEFINE s == [gen |-> gen, scope |-> scope, found |-> found]
  <2>1. pc = "compared" /\ said' = {s} /\ died' = FALSE /\ Idle
    BY <1>5 DEF Report
  <2>2. s.gen = gen /\ Generation(gen) /\ repo # {} /\ LatestTime(gen) <= LatestTime(repo)
    BY <2>1 DEF InspectInv, RunInv
  <2> HIDE DEF s
  <2>3. QED
    BY <2>1, <2>2, EndsClean
<1>6. QED
  BY <1>1, <1>2, <1>3, <1>4, <1>5, ProductionFrame DEF Check

LEMMA HistoryNext == InspectInv /\ [Next]_vars => HistoryInv'
<1> SUFFICES ASSUME InspectInv, [Next]_vars PROVE HistoryInv'
  OBVIOUS
<1>1. \A h \in history : repo' # {} /\ h.time <= LatestTime(repo')
  <2>1. SUFFICES ASSUME NEW h \in history PROVE repo' # {} /\ h.time <= LatestTime(repo')
    OBVIOUS
  <2>2. h.time \in Nat /\ repo # {} /\ h.time <= LatestTime(repo)
    BY DEF InspectInv, HistoryInv, Written
  <2>3. QED
    BY <2>2, RepoNext, NotAhead DEF InspectInv
<1>2. ASSUME history' = history, pc' = "inspected" => pc = "inspected" /\ gen' = gen
      PROVE  HistoryInv'
  BY <1>1, <1>2 DEF InspectInv, HistoryInv, Written, Measured
<1>3. CASE Inspect
  <2>1. /\ repo # {} /\ pc' = "inspected" /\ gen' = Cluster(repo) /\ UNCHANGED <<repo, history>>
    BY <1>3 DEF Inspect, production
  <2>2. LatestTime(gen') = LatestTime(repo)
    BY <2>1, ClusterIsGeneration DEF InspectInv, RepoInv
  <2>3. QED
    BY <2>1, <2>2 DEF InspectInv, HistoryInv, Written, Measured
<1>4. CASE Compare
  <2> DEFINE m == Manifest(gen, scope, FALSE)
  <2>1. /\ pc = "inspected" /\ pc' = "compared" /\ UNCHANGED <<repo, gen>>
        /\ history' = Kept(Saved(history, m), now)
    BY <1>4 DEF Compare, production
  <2>2. /\ Generation(gen) /\ repo # {} /\ LatestTime(gen) <= LatestTime(repo)
        /\ IsFiniteSet(history)
    BY <2>1 DEF InspectInv, RunInv, HistoryInv
  <2>3. Written(m) /\ m.time = LatestTime(gen)
    BY <2>2, ManifestWritten
  <2> HIDE DEF m
  <2>4. history' \subseteq history \cup {m} /\ \A h \in history' : h = m \/ h.time # m.time
    BY <2>1 DEF Kept, Saved
  <2>5. IsFiniteSet(history')
    <3>1. IsFiniteSet(history \cup {m})
      BY <2>2, FS_AddElement
    <3>2. QED
      BY <2>4, <3>1, FS_Subset
  <2>6. \A h \in history' : Written(h) /\ repo' # {} /\ h.time <= LatestTime(repo')
    BY <2>1, <2>2, <2>3, <2>4 DEF InspectInv, HistoryInv
  <2>7. \A h, k \in history' : h.time = k.time => h = k
    BY <2>4 DEF InspectInv, HistoryInv
  <2>8. QED
    BY <2>1, <2>5, <2>6, <2>7 DEF HistoryInv, Written, Measured
<1>5. CASE ReadFails \/ Die \/ Report
  BY <1>2, <1>5 DEF ReadFails, Die, Report, Idle
<1>6. QED
  BY <1>2, <1>3, <1>4, <1>5, ProductionFrame DEF Check, run

(* The repository, the run and the history stay in step.                     *)
THEOREM InspectInvariant == Spec => []InspectInv
<1>1. InspectInv /\ [Next]_vars => InspectInv'
  <2>1. InspectInv /\ [Next]_vars => RepoInv'
    BY RepoNext DEF InspectInv
  <2>2. QED
    BY <2>1, RunNext, HistoryNext DEF InspectInv
<1>2. QED
  BY <1>1, InspectInit, PTL DEF Spec

(* Every variable keeps its type; the history has one manifest for every     *)
(* generation (history.py:20-21).                                            *)
THEOREM InspectionTypes == Spec => []TypeOK
<1>1. InspectInv => TypeOK
  <2>1. SUFFICES ASSUME InspectInv PROVE TypeOK
    OBVIOUS
  <2>2. Cardinality(said) <= 1
    <3>1. CASE said = {}
      BY <3>1, FS_EmptySet
    <3>2. CASE \E r : said = {r}
      BY <3>2, FS_Singleton
    <3>3. QED
      BY <2>1, <3>1, <3>2 DEF InspectInv, RunInv
  <2>3. gen \subseteq Archives /\ scope \in Scopes \cup {{}}
    BY <2>1 DEF InspectInv, RunInv, Generation
  <2>4. QED
    BY <2>1, <2>2, <2>3 DEF TypeOK, InspectInv, RepoInv, RunInv, HistoryInv, Written, Measured
<1>2. QED
  BY <1>1, InspectInvariant, PTL

(* The generations of a repository share no archive and leave none out; each *)
(* has one archive of a component, made within the window; and the           *)
(* generation a first run compares with is older in every component          *)
(* (archives.py:116-137, 158-164).                                           *)
THEOREM GenerationsRight == Spec => []GenerationsSound
<1>1. RepoInv => GenerationsSound
  <2>1. SUFFICES ASSUME RepoInv, repo # {}
                 PROVE  LET all == Clusters(repo)
                            newest == Cluster(repo)
                            before == ClusterBefore(repo, LatestTime(newest))
                        IN /\ UNION all = repo
                           /\ \A g, h \in all : g # h => g \cap h = {}
                           /\ \A g \in all : \A a, b \in g :
                                (a.comp = b.comp => a = b) /\ a.time - b.time <= Window
                           /\ \A a \in before, b \in newest : a.comp = b.comp => a.time < b.time
    BY DEF GenerationsSound
  <2>2. Sound(repo)
    BY <2>1 DEF RepoInv
  <2>3. /\ UNION Clusters(repo) = repo
        /\ \A g, h \in Clusters(repo) : g # h => g \cap h = {}
        /\ Cluster(repo) \in Clusters(repo)
    BY <2>1, <2>2, ClustersSound
  <2>4. ASSUME NEW g \in Clusters(repo), NEW a \in g, NEW b \in g
        PROVE  (a.comp = b.comp => a = b) /\ a.time - b.time <= Window
    <3>1. PICK S \in SUBSET repo : S # {} /\ g = Cluster(S)
      BY <2>2, ClustersSound
    <3>2. Sound(S)
      BY <2>2, SoundParts
    <3>3. QED
      BY <3>1, <3>2, ClusterSound
  <2> DEFINE newest == Cluster(repo)
             before == ClusterBefore(repo, LatestTime(newest))
  <2>5. ASSUME NEW a \in before, NEW b \in newest, a.comp = b.comp
        PROVE  a.time < b.time
    <3>1. before \in Clusters(repo) /\ LatestTime(before) < LatestTime(newest)
      BY <2>2, BeforeSound
    <3>2. before # newest
      <4>1. newest # {} /\ Sound(newest)
        BY <2>1, <2>2, ClusterSound, SoundParts
      <4>2. LatestTime(newest) \in Nat
        BY <4>1, Latest
      <4>3. QED
        BY <3>1, <4>2
    <3>3. a \notin newest /\ a \in repo /\ b \in repo
      BY <2>3, <3>1, <3>2
    <3>4. a.time <= b.time
      BY <2>5, <3>3 DEF Cluster, NewestOf
    <3>5. a.time # b.time
      BY <2>2, <2>5, <3>3 DEF Sound
    <3>6. a.time \in Nat /\ b.time \in Nat
      BY <2>2, <3>3 DEF Sound
    <3>7. QED
      BY <3>4, <3>5, <3>6
  <2>6. QED
    BY <2>3, <2>4, <2>5
<1>2. QED
  BY <1>1, InspectInvariant, PTL DEF InspectInv

-----------------------------------------------------------------------------
(* Comparisons.                                                            *)

(* What is said of the size of a component comes from its own row or from a  *)
(* rolling baseline.                                                         *)
LEMMA SizeSaid ==
    ASSUME NEW m, NEW P, NEW H, NEW n, NEW c, c # "total",
           <<c, "size">> \in Anomalies(m, P, H, n)
    PROVE  \E p \in P : c \in DOMAIN m.of /\ c \in DOMAIN p.of
                        /\ Flagged(m.of[c].size, p.of[c].size, MinBytes)
<1>1. <<c, "size">> \notin AgeAnomalies(m, n)
  BY DEF AgeAnomalies, When
<1>2. PICK p \in P : <<c, "size">> \in RowAnomalies(m, p) \cup DumpAnomalies(m, p)
                          \cup MissingAnomalies(m, p) \cup RollingAnomalies(m, H)
  BY <1>1 DEF Anomalies
<1>3. <<c, "size">> \notin DumpAnomalies(m, p)
  BY DEF DumpAnomalies
<1>4. <<c, "size">> \notin MissingAnomalies(m, p)
  BY DEF MissingAnomalies
<1>5. <<c, "size">> \notin RollingAnomalies(m, H)
  BY DEF RollingAnomalies
<1>6. <<c, "size">> \in RowAnomalies(m, p)
  BY <1>2, <1>3, <1>4, <1>5
<1>7. QED
  BY <1>6 DEF RowAnomalies, When

LEMMA BaselineSaid ==
    ASSUME NEW m, NEW P, NEW H, NEW n, NEW c, c # "total",
           <<c, "baseline">> \in Anomalies(m, P, H, n)
    PROVE  \E days \in RollingWindows : Drifted(c, m, InWindow(m, H, days))
<1>1. <<c, "baseline">> \notin AgeAnomalies(m, n)
  BY DEF AgeAnomalies, When
<1>2. PICK p \in P : <<c, "baseline">> \in RowAnomalies(m, p) \cup DumpAnomalies(m, p)
                          \cup MissingAnomalies(m, p) \cup RollingAnomalies(m, H)
  BY <1>1 DEF Anomalies
<1>3. <<c, "baseline">> \notin DumpAnomalies(m, p)
  BY DEF DumpAnomalies
<1>4. <<c, "baseline">> \notin MissingAnomalies(m, p)
  BY DEF MissingAnomalies
<1>5. <<c, "baseline">> \notin RowAnomalies(m, p)
  BY DEF RowAnomalies, When
<1>6. <<c, "baseline">> \in RollingAnomalies(m, H)
  BY <1>2, <1>3, <1>4, <1>5
<1>7. QED
  BY <1>6 DEF RollingAnomalies

(* Nothing is said of what stays as it was.                                  *)
LEMMA NothingFlagged ==
    ASSUME NEW n \in Nat, NEW min
    PROVE  ~ Flagged(n, n, min)
<1>1. GrowthPct \in Nat /\ GrowthPct > 0 /\ ShrinkPct \in Nat /\ ShrinkPct > 0
  BY ThresholdAssumption
<1>2. ASSUME NEW k \in Nat, k > 0, n > 0 PROVE ~ (n - n) * 100 >= k * n
  <2>1. k * n > 0 /\ (n - n) * 100 = 0
    BY <1>2
  <2>2. k * n \in Nat
    BY <1>2
  <2>3. QED
    BY <2>1, <2>2
<1>3. QED
  BY <1>1, <1>2 DEF Flagged, Grew, Shrank

(* Manifests of the history: finitely many, of known sizes.                  *)
Listed(H) ==
    /\ IsFiniteSet(H)
    /\ \A h \in H : /\ h.time \in Nat /\ h.stats = FALSE
                    /\ \A c \in DOMAIN h.of : h.of[c].size \in Nat

LEMMA ListedPart ==
    ASSUME NEW H, Listed(H), NEW W, W \subseteq H
    PROVE  Listed(W)
BY FS_Subset DEF Listed

(* The median of equal sizes.                                                *)
LEMMA MedianOfSame ==
    ASSUME NEW W, IsFiniteSet(W), W # {}, NEW c, NEW n \in Nat, \A h \in W : h.of[c].size = n
    PROVE  Median2(c, W) = 2 * n
<1>1. {h.of[c].size : h \in W} = {n}
  OBVIOUS
<1>2. {h \in W : h.of[c].size < n} = {} /\ {h \in W : h.of[c].size <= n} = W
  OBVIOUS
<1>3. Cardinality(W) \in Nat /\ Cardinality(W) # 0
  BY FS_CardinalityType, FS_EmptySet
<1>4. ASSUME NEW k \in Nat, k < Cardinality(W) PROVE Ranked(c, W, k) = n
  <2>1. Cardinality({h \in W : h.of[c].size < n}) = 0
    BY <1>2, FS_EmptySet
  <2>2. \E s \in {h.of[c].size : h \in W} :
            /\ Cardinality({h \in W : h.of[c].size < s}) <= k
            /\ k < Cardinality({h \in W : h.of[c].size <= s})
    <3>1. 0 <= k /\ k < Cardinality({h \in W : h.of[c].size <= n})
      <4> DEFINE U == {h \in W : h.of[c].size <= n}
      <4>1. U = W
        BY <1>2
      <4> HIDE DEF U
      <4>2. 0 <= k /\ k < Cardinality(U)
        BY <1>4, <4>1
      <4>3. QED
        BY <4>2 DEF U
    <3>2. n \in {h.of[c].size : h \in W}
      BY <1>1
    <3>3. Cardinality({h \in W : h.of[c].size < n}) <= k
      BY <2>1, <3>1
    <3>4. QED
      BY <3>1, <3>2, <3>3, Zenon
  <2>3. Ranked(c, W, k) \in {h.of[c].size : h \in W}
    BY <2>2 DEF Ranked
  <2>4. QED
    BY <1>1, <2>3
<1>5. QED
  <2> DEFINE N == Cardinality(W)
  <2>1. /\ (N - 1) \div 2 \in Nat /\ (N - 1) \div 2 < N
        /\ N \div 2 \in Nat /\ N \div 2 < N
    BY <1>3
  <2>2. QED
    BY <1>4, <2>1 DEF Median2

(* What is newest is recent.                                                 *)
LEMMA NewestIsRecent ==
    ASSUME NEW W, NEW p \in W, \A g \in W : ~ g.time > p.time
    PROVE  p \in Recent(W)
<1>1. {g \in W : g.time > p.time} = {}
  OBVIOUS
<1>2. Cardinality({g \in W : g.time > p.time}) = 0 /\ SettledRuns \in Nat \ {0}
  BY <1>1, FS_EmptySet, ThresholdAssumption
<1>3. QED
  BY <1>2 DEF Recent

(* A component of which the last few manifests agree with this one has not   *)
(* drifted: either they all are in the window, or the window holds nothing   *)
(* but them.                                                                 *)
LEMMA SettledStays ==
    ASSUME NEW H, Listed(H), NEW m, m.time \in Nat, NEW c, c \in DOMAIN m.of,
           m.of[c].size \in Nat, NEW days \in RollingWindows,
           NEW E, E = {h \in H : h.time < m.time},
           Cardinality(Recent(E)) = SettledRuns,
           \A h \in Recent(E) : c \in DOMAIN h.of /\ h.of[c].size = m.of[c].size
    PROVE  ~ Drifted(c, m, InWindow(m, H, days))
<1> DEFINE W == InWindow(m, H, days)
           s == m.of[c].size
<1>1. /\ W = {h \in E : h.time >= m.time - days} /\ days \in Nat
      /\ E \subseteq H /\ Recent(E) \subseteq E /\ W \subseteq E
  BY ThresholdAssumption DEF InWindow, Listed, Recent
<1>2. Listed(E) /\ Listed(W)
  BY <1>1, ListedPart
<1>3. \A h \in E, g \in E : h \in W /\ g.time > h.time => g \in W
  BY <1>1, <1>2 DEF Listed
<1>4. SettledRuns \in Nat \ {0} /\ SettledPct \in Nat
  BY ThresholdAssumption
<1> HIDE DEF W
<1>5. CASE Recent(E) \subseteq W
  <2>1. \A h \in W : {g \in W : g.time > h.time} = {g \in E : g.time > h.time}
    BY <1>1, <1>3
  <2>2. Recent(W) = Recent(E)
    <3>1. Recent(W) = {h \in W : Cardinality({g \in E : g.time > h.time}) < SettledRuns}
      BY <2>1 DEF Recent
    <3>2. QED
      BY <1>1, <1>5, <3>1 DEF Recent
  <2>3. With(c, Recent(W)) = Recent(E)
    BY <2>2 DEF With
  <2>4. Settled(c, s, W)
    <3>1. \A h \in Recent(E) : h.of[c].size = s /\ 0 * 100 <= SettledPct * s
      BY <1>4
    <3>2. QED
      BY <2>3, <3>1 DEF Settled
  <2>5. QED
    BY <2>4 DEF Drifted, W
<1>6. CASE ~ Recent(E) \subseteq W
  <2>1. PICK h \in Recent(E) : h \notin W
    BY <1>6
  <2>2. W \subseteq Recent(E)
    <3>1. SUFFICES ASSUME NEW g \in W PROVE g \in Recent(E)
      OBVIOUS
    <3> DEFINE A == {k \in E : k.time > g.time}
               B == {k \in E : k.time > h.time}
    <3>2. h \in E /\ g \in E /\ ~ h.time > g.time
      BY <1>1, <1>3, <2>1
    <3>3. A \subseteq B /\ IsFiniteSet(B)
      <4>1. h.time \in Nat /\ g.time \in Nat /\ \A k \in E : k.time \in Nat
        BY <1>2, <3>2 DEF Listed
      <4>2. IsFiniteSet(E) /\ B \subseteq E
        BY <1>2 DEF Listed
      <4>3. A \subseteq B
        BY <3>2, <4>1
      <4>4. QED
        BY <4>2, <4>3, FS_Subset
    <3>4. Cardinality(B) < SettledRuns
      BY <2>1 DEF Recent
    <3> HIDE DEF A, B
    <3>5. Cardinality(A) <= Cardinality(B) /\ Cardinality(A) \in Nat /\ Cardinality(B) \in Nat
      BY <3>3, FS_Subset, FS_CardinalityType
    <3>6. Cardinality(A) < SettledRuns
      BY <1>4, <3>4, <3>5
    <3>7. QED
      BY <3>2, <3>6 DEF Recent, A
  <2>3. With(c, W) = W /\ \A k \in W : k.of[c].size = s
    BY <2>2 DEF With
  <2>4. ASSUME Cardinality(W) >= MinSamples PROVE ~ Flagged(2 * s, Median2(c, W), 2 * MinBytes)
    <3>1. W # {} /\ IsFiniteSet(W)
      BY <1>2, <2>4, FS_EmptySet DEF Listed, MinSamples
    <3>2. Median2(c, W) = 2 * s
      BY <2>3, <3>1, MedianOfSame
    <3>3. 2 * s \in Nat
      OBVIOUS
    <3>4. QED
      BY <3>2, <3>3, NothingFlagged
  <2>5. QED
    BY <2>3, <2>4 DEF Drifted, W
<1>7. QED
  BY <1>5, <1>6

(* The most recent earlier manifest.                                         *)
LEMMA PreviousExists ==
    ASSUME NEW H, Listed(H), NEW t \in Nat, NEW h \in H, h.time < t
    PROVE  \E p \in PreviousTo(H, t) : h.time <= p.time
<1> DEFINE E == {k \in H : k.time < t}
           Times == {k.time : k \in E}
           f == [k \in E |-> k.time]
<1>1. f \in Surjection(E, Times) /\ Listed(E)
  BY ListedPart DEF Surjection
<1>2. Times # {} /\ \A n \in Times : n \in Nat
  BY <1>1 DEF Listed
<1>3. IsFiniteSet(Times)
  <2> HIDE DEF f, Times, E
  <2>1. QED
    BY <1>1, FS_Surjection DEF Listed
<1>4. \E n \in Times : \A k \in Times : k <= n
  <2> HIDE DEF Times
  <2>1. QED
    BY <1>2, <1>3, LargestNumber
<1>5. PICK p \in E : \A k \in E : k.time <= p.time
  BY <1>4
<1>6. QED
  BY <1>5 DEF PreviousTo

LEMMA HistoryListed == HistoryInv => Listed(history)
<1> SUFFICES ASSUME HistoryInv PROVE Listed(history)
  OBVIOUS
<1>1. \A h \in history : h.time \in Nat
  BY DEF HistoryInv, Written
<1>2. QED
  BY <1>1 DEF HistoryInv, Written, Measured, Listed

(* A change that happened once is not reported for ever: when the last few   *)
(* backups agree with this one, nothing is said of the size of a component   *)
(* (compare.py:30-34).                                                       *)
THEOREM SettledIsNotSaid == Spec => SettledIsSilent
<1>1. ASSUME InspectInv, Compare, NEW c \in CompsOf(gen),
             NEW E, E = {h \in history : h.time < LatestTime(gen)},
             Cardinality(Recent(E)) = SettledRuns,
             \A h \in Recent(E) : c \in DOMAIN h.of /\ h.of[c].size = DataOf(gen, c).size
      PROVE  found'.anomalies \cap {<<c, "size">>, <<c, "baseline">>} = {}
  <2> DEFINE m == Manifest(gen, scope, FALSE)
             P == Baseline(history, repo, m.time)
  <2>1. found'.anomalies = Anomalies(m, P, history, now)
    BY <1>1 DEF Compare
  <2>2. Generation(gen) /\ Listed(history)
    BY <1>1, HistoryListed DEF InspectInv, RunInv, Compare
  <2>3. /\ m.time = LatestTime(gen) /\ m.time \in Nat /\ c \in DOMAIN m.of
        /\ m.of[c].size = DataOf(gen, c).size /\ m.of[c].size \in Nat
    BY <1>1, <2>2, ManifestWritten, GenerationTime
  <2>4. c # "total"
    BY <1>1, <2>2, InspectionAssumption DEF Generation, Archives, CompsOf
  <2> HIDE DEF m
  <2>5. <<c, "size">> \notin found'.anomalies
    <3>1. SUFFICES ASSUME <<c, "size">> \in Anomalies(m, P, history, now) PROVE FALSE
      BY <2>1
    <3>2. PICK p \in P : c \in DOMAIN p.of /\ Flagged(m.of[c].size, p.of[c].size, MinBytes)
      BY <2>4, <3>1, SizeSaid
    <3>3. \E h : h \in Recent(E)
      <4>1. Recent(E) # {}
        <5>1. Recent(E) = {} => Cardinality(Recent(E)) = 0
          BY FS_EmptySet
        <5>2. QED
          BY <1>1, <5>1, ThresholdAssumption
      <4>2. QED
        BY <4>1
    <3>4. PreviousTo(history, m.time) # {}
      BY <1>1, <2>2, <2>3, <3>3, PreviousExists DEF Recent
    <3>5. p \in PreviousTo(history, m.time)
      BY <3>2, <3>4 DEF Baseline
    <3>6. p \in E /\ \A g \in E : ~ g.time > p.time
      BY <1>1, <2>2, <2>3, <3>5 DEF PreviousTo, Listed
    <3>7. p.of[c].size = m.of[c].size
      BY <1>1, <2>3, <3>6, NewestIsRecent
    <3>8. QED
      BY <2>3, <3>2, <3>7, NothingFlagged
  <2>6. <<c, "baseline">> \notin found'.anomalies
    <3>1. SUFFICES ASSUME <<c, "baseline">> \in Anomalies(m, P, history, now) PROVE FALSE
      BY <2>1
    <3>2. PICK days \in RollingWindows : Drifted(c, m, InWindow(m, history, days))
      BY <2>4, <3>1, BaselineSaid
    <3>3. /\ E = {h \in history : h.time < m.time}
          /\ \A h \in Recent(E) : c \in DOMAIN h.of /\ h.of[c].size = m.of[c].size
      BY <1>1, <2>3
    <3>4. ~ Drifted(c, m, InWindow(m, history, days))
      BY <1>1, <2>2, <2>3, <3>3, SettledStays
    <3>5. QED
      BY <3>2, <3>4
  <2>7. QED
    BY <2>5, <2>6
<1> DEFINE Silent ==
        \A c \in CompsOf(gen) :
          LET last == Recent({h \in history : h.time < LatestTime(gen)})
          IN /\ pc' = "compared"
             /\ Cardinality(last) = SettledRuns
             /\ \A h \in last : c \in DOMAIN h.of /\ h.of[c].size = DataOf(gen, c).size
             => found'.anomalies \cap {<<c, "size">>, <<c, "baseline">>} = {}
<1>2. InspectInv /\ [Next]_vars => [Silent]_pc
  <2>1. SUFFICES ASSUME InspectInv, [Next]_vars, pc' # pc, pc' = "compared" PROVE Silent
    OBVIOUS
  <2>2. Compare
    BY <2>1, ProductionFrame DEF Check, Inspect, ReadFails, Report, Die, Idle
  <2>3. QED
    BY <1>1, <2>1, <2>2
<1>3. QED
  BY <1>2, InspectInvariant, PTL DEF Spec, SettledIsSilent

-----------------------------------------------------------------------------
(* Changes between reports.                                                *)

(* What a comparison with a generation has to say of a later one.            *)
Says(anomalies, g, h) ==
    \A c \in CompsOf(g) :
        IF c \notin CompsOf(h) THEN <<c, "missing">> \in anomalies
        ELSE Flagged(DataOf(h, c).size, DataOf(g, c).size, MinBytes)
             => <<c, "size">> \in anomalies

Newest(m) == m \in history /\ \A h \in history : h.time <= m.time

InTime(anomalies) == <<"total", "age">> \notin anomalies

(* A run that was reported left its manifest as the newest one, until the    *)
(* next has saved its own; that one has then told every change.              *)
ToldInv ==
    /\ \A r \in said :
         ~died /\ InTime(r.found.anomalies) =>
            IF pc = "compared"
            THEN LatestTime(gen) > LatestTime(r.gen) => Says(found.anomalies, r.gen, gen)
            ELSE Newest(Manifest(r.gen, r.scope, FALSE))
    /\ pc = "compared" /\ InTime(found.anomalies) => Newest(Manifest(gen, scope, FALSE))

LEMMA RowsSaid ==
    ASSUME NEW m, NEW P, NEW p \in P, NEW H, NEW n
    PROVE  RowAnomalies(m, p) \cup MissingAnomalies(m, p) \subseteq Anomalies(m, P, H, n)
BY DEF Anomalies

(* A comparison with the manifest of a generation says what it has to.       *)
LEMMA ComparisonSays ==
    ASSUME NEW g, Generation(g), NEW h, Generation(h), NEW listed, NEW scoped,
           NEW P, Manifest(g, listed, FALSE) \in P, NEW H, NEW n
    PROVE  Says(Anomalies(Manifest(h, scoped, FALSE), P, H, n), g, h)
<1> DEFINE p == Manifest(g, listed, FALSE)
           m == Manifest(h, scoped, FALSE)
<1>1. RowAnomalies(m, p) \cup MissingAnomalies(m, p) \subseteq Anomalies(m, P, H, n)
  BY RowsSaid
<1>2. /\ DOMAIN p.of = CompsOf(g) /\ DOMAIN m.of = CompsOf(h)
      /\ \A c \in CompsOf(g) : p.of[c].size = DataOf(g, c).size
      /\ \A c \in CompsOf(h) : m.of[c].size = DataOf(h, c).size
  BY ManifestWritten
<1> HIDE DEF p, m
<1>3. ASSUME NEW c \in CompsOf(g), c \notin CompsOf(h)
      PROVE  <<c, "missing">> \in MissingAnomalies(m, p)
  BY <1>2, <1>3 DEF MissingAnomalies
<1>4. ASSUME NEW c \in CompsOf(g), c \in CompsOf(h),
             Flagged(DataOf(h, c).size, DataOf(g, c).size, MinBytes)
      PROVE  <<c, "size">> \in RowAnomalies(m, p)
  <2>1. c \in DOMAIN m.of \cap DOMAIN p.of /\ Flagged(m.of[c].size, p.of[c].size, MinBytes)
    BY <1>2, <1>4
  <2>2. QED
    BY <2>1 DEF RowAnomalies
<1>5. QED
  BY <1>1, <1>3, <1>4 DEF Says, m

(* The comparison that follows the one of a reported run.                    *)
LEMMA CompareSays ==
    ASSUME InspectInv, Compare, NEW r \in said, Newest(Manifest(r.gen, r.scope, FALSE)),
           LatestTime(gen) > LatestTime(r.gen)
    PROVE  Says(found'.anomalies, r.gen, gen)
<1> DEFINE p == Manifest(r.gen, r.scope, FALSE)
           m == Manifest(gen, scope, FALSE)
<1>1. Generation(gen) /\ Generation(r.gen) /\ Listed(history)
  BY HistoryListed DEF InspectInv, RunInv, Compare
<1>2. p.time = LatestTime(r.gen) /\ m.time = LatestTime(gen) /\ p \in history
      /\ m.time \in Nat
  BY <1>1, ManifestWritten, GenerationTime DEF Newest
<1>3. p \in PreviousTo(history, m.time)
  BY <1>2 DEF PreviousTo, Newest
<1>4. p \in Baseline(history, repo, m.time)
  BY <1>3 DEF Baseline
<1>5. found'.anomalies = Anomalies(m, Baseline(history, repo, m.time), history, now)
  BY DEF Compare
<1> HIDE DEF p, m
<1>6. Says(Anomalies(m, Baseline(history, repo, m.time), history, now), r.gen, gen)
  BY <1>1, <1>4, ComparisonSays DEF p, m
<1>7. QED
  BY <1>5, <1>6

(* The comparison saves its manifest, and keeps it unless it says that the   *)
(* backup is too old.                                                        *)
LEMMA CompareSaves ==
    ASSUME MaxAge <= Retention, InspectInv, Compare, InTime(found'.anomalies)
    PROVE  Newest(Manifest(gen, scope, FALSE))'
<1> DEFINE m == Manifest(gen, scope, FALSE)
<1>1. found'.anomalies = Anomalies(m, Baseline(history, repo, m.time), history, now)
      /\ history' = Kept(Saved(history, m), now) /\ gen' = gen /\ scope' = scope
      /\ pc = "inspected"
  BY DEF Compare
<1>2. m.time = LatestTime(gen) /\ m.time \in Nat
  BY <1>1, ManifestWritten, GenerationTime DEF InspectInv, RunInv
<1>3. m' = m
  BY <1>1
<1> HIDE DEF m
<1>4. ~ now - m.time > MaxAge
  BY <1>1 DEF Anomalies, AgeAnomalies, When, InTime
<1>5. m \in history'
  <2>1. now \in Nat /\ MaxAge \in Nat /\ Retention \in Nat
    BY InspectionAssumption, ThresholdAssumption DEF InspectInv, RepoInv
  <2>2. m.time >= now - Retention
    BY <1>2, <1>4, <2>1
  <2>3. QED
    BY <1>1, <2>2 DEF Saved, Kept
<1>6. \A h \in history' : h.time <= m.time
  BY <1>1, <1>2 DEF Saved, Kept, InspectInv, HistoryInv
<1>7. QED
  BY <1>3, <1>5, <1>6 DEF Newest, m

LEMMA ToldNext ==
    ASSUME MaxAge <= Retention, InspectInv, ToldInv, [Next]_vars
    PROVE  ToldInv'
<1>1. CASE UNCHANGED <<history, pc, run, said, died>>
  BY <1>1 DEF ToldInv, Newest, run
<1>2. CASE Inspect
  <2>1. pc = "idle" /\ pc' = "inspected" /\ UNCHANGED <<history, said, died>>
    BY <1>2 DEF Inspect
  <2>2. QED
    BY <2>1 DEF ToldInv, Newest
<1>3. CASE ReadFails
  <2>1. pc = "inspected" /\ pc' = "idle" /\ UNCHANGED <<history, said, died>>
    BY <1>3 DEF ReadFails, Idle
  <2>2. QED
    BY <2>1 DEF ToldInv, Newest
<1>4. CASE Compare
  <2>1. pc = "inspected" /\ pc' = "compared" /\ UNCHANGED <<gen, scope, said, died>>
    BY <1>4 DEF Compare
  <2>2. ASSUME NEW r \in said, ~died, InTime(r.found.anomalies), LatestTime(gen) > LatestTime(r.gen)
        PROVE  Says(found'.anomalies, r.gen, gen)
    <3>1. Newest(Manifest(r.gen, r.scope, FALSE))
      BY <2>1, <2>2 DEF ToldInv
    <3>2. QED
      BY <1>4, <2>2, <3>1, CompareSays
  <2>3. InTime(found'.anomalies) => Newest(Manifest(gen, scope, FALSE))'
    BY <1>4, CompareSaves
  <2>4. QED
    BY <2>1, <2>2, <2>3 DEF ToldInv
<1>5. CASE Report
  <2> DEFINE s == [gen |-> gen, scope |-> scope, found |-> found]
  <2>1. pc = "compared" /\ pc' = "idle" /\ said' = {s} /\ UNCHANGED history
    BY <1>5 DEF Report, Idle
  <2>2. s.gen = gen /\ s.scope = scope /\ s.found = found
    OBVIOUS
  <2> HIDE DEF s
  <2>3. InTime(s.found.anomalies) => Newest(Manifest(s.gen, s.scope, FALSE))
    BY <2>1, <2>2 DEF ToldInv
  <2>4. QED
    BY <2>1, <2>3 DEF ToldInv, Newest
<1>6. CASE Die
  <2>1. pc # "idle" /\ pc' = "idle" /\ UNCHANGED <<history, said>>
        /\ died' = (died \/ pc = "compared")
    BY <1>6 DEF Die, Idle
  <2>2. CASE pc = "compared"
    <3>1. died'
      BY <2>1, <2>2
    <3>2. QED
      BY <2>1, <3>1 DEF ToldInv
  <2>3. CASE pc # "compared"
    <3>1. died' = died
      BY <2>1, <2>3 DEF InspectInv, RunInv
    <3>2. QED
      BY <2>1, <2>3, <3>1 DEF ToldInv, Newest
  <2>4. QED
    BY <2>2, <2>3
<1>7. QED
  BY <1>1, <1>2, <1>3, <1>4, <1>5, <1>6, ProductionFrame DEF Check

(* A change between two generations that were reported on is reported        *)
(* (ChangesTold). The retention must be as long as the age at which a backup *)
(* is called too old: a manifest that is pruned as it is saved is missed by  *)
(* the next run, and no report warns of it.                                  *)
THEOREM ChangesAreTold ==
    ASSUME MaxAge <= Retention
    PROVE  Spec => ChangesTold
<1> DEFINE Tells ==
        \A r \in said, s \in said' :
         /\ LatestTime(s.gen) > LatestTime(r.gen)
         /\ ~died /\ <<"total", "age">> \notin r.found.anomalies
         => \A c \in CompsOf(r.gen) :
              IF c \notin CompsOf(s.gen)
              THEN <<c, "missing">> \in s.found.anomalies
              ELSE Flagged(DataOf(s.gen, c).size, DataOf(r.gen, c).size, MinBytes)
                   => <<c, "size">> \in s.found.anomalies
<1>1. Init => ToldInv
  BY DEF Init, ToldInv
<1>2. InspectInv /\ ToldInv /\ [Next]_vars => ToldInv'
  BY ToldNext
<1>3. InspectInv /\ ToldInv /\ [Next]_vars => [Tells]_said
  <2>1. SUFFICES ASSUME InspectInv, ToldInv, [Next]_vars, said' # said PROVE Tells
    OBVIOUS
  <2>2. Report
    BY <2>1, ProductionFrame DEF Check, Inspect, ReadFails, Compare, Die
  <2> DEFINE s == [gen |-> gen, scope |-> scope, found |-> found]
  <2>3. said' = {s} /\ pc = "compared" /\ s.gen = gen /\ s.found = found
    BY <2>2 DEF Report
  <2> HIDE DEF s
  <2>4. ASSUME NEW r \in said, LatestTime(s.gen) > LatestTime(r.gen), ~died, InTime(r.found.anomalies)
        PROVE  Says(s.found.anomalies, r.gen, s.gen)
    BY <2>1, <2>3, <2>4 DEF ToldInv
  <2>5. QED
    BY <2>3, <2>4 DEF Says, InTime
<1>4. QED
  BY <1>1, <1>2, <1>3, InspectInvariant, PTL DEF Spec, ChangesTold

-----------------------------------------------------------------------------
(* A check that is repeated.                                               *)

(* What is compared with a generation of time t is still there.              *)
Remembered(t, H, n) ==
    /\ n - t <= MaxAge
    /\ \A days \in RollingWindows : t - days >= n - Retention
    /\ PreviousTo(H, t) # {}

(* What a run x found is what the history tells of its generation.           *)
Repeats(x, H, n) ==
    Remembered(LatestTime(x.gen), H, n) =>
        LET m == Manifest(x.gen, x.scope, FALSE)
        IN x.found.anomalies = Anomalies(m, PreviousTo(H, m.time), H, n)

Earlier(x) == \A t \in x.found.than : t < LatestTime(x.gen)

RepeatInv ==
    /\ \A r \in said : Repeats(r, history, now) /\ Earlier(r)
    /\ pc = "compared" =>
         LET x == [gen |-> gen, scope |-> scope, found |-> found]
         IN Repeats(x, history, now) /\ Earlier(x)

(* Neither the manifest of a generation that is not earlier nor the pruning  *)
(* disturbs the past of t, as long as some of it is left.                    *)
LEMMA SavingHarmless ==
    ASSUME NEW H, Listed(H), NEW m, NEW t \in Nat, m.time \in Nat, t <= m.time,
           NEW n \in Nat, NEW K, K = Kept(Saved(H, m), n), Remembered(t, K, n)
    PROVE  /\ PreviousTo(K, t) = PreviousTo(H, t)
           /\ \A w : w.time = t =>
                \A days \in RollingWindows : InWindow(w, K, days) = InWindow(w, H, days)
<1> DEFINE Past == {h \in H : h.time < t}
           Left == {h \in K : h.time < t}
           first == n - Retention
<1>1. Retention \in Nat /\ first \in Int /\ \A h \in H : h.time \in Nat
  BY InspectionAssumption DEF Listed
<1>2. K = {h \in {k \in H : k.time # m.time} \cup {m} : h.time >= first}
  BY DEF Kept, Saved
<1> HIDE DEF first
<1>3. Left = {h \in Past : h.time >= first}
  BY <1>1, <1>2
<1>4. PreviousTo(K, t) = {h \in Left : \A k \in Left : k.time <= h.time}
  BY DEF PreviousTo
<1>5. PreviousTo(H, t) = {h \in Past : \A k \in Past : k.time <= h.time}
  BY DEF PreviousTo
<1>6. \E p \in Left : \A k \in Left : k.time <= p.time
  BY <1>4 DEF Remembered
<1>7. \A h \in Past : h.time \in Nat
  BY <1>1
<1>8. ASSUME NEW w, w.time = t, NEW days \in RollingWindows
      PROVE  InWindow(w, K, days) = InWindow(w, H, days)
  <2>1. t - days >= first /\ days \in Nat
    BY ThresholdAssumption DEF Remembered, first
  <2>2. InWindow(w, K, days) = {h \in Left : ~h.stats /\ h.time >= t - days}
    BY <1>8 DEF InWindow
  <2>3. InWindow(w, H, days) = {h \in Past : ~h.stats /\ h.time >= t - days}
    BY <1>8 DEF InWindow
  <2> HIDE DEF Left, Past
  <2>4. QED
    BY <1>1, <1>3, <1>7, <2>1, <2>2, <2>3
<1> HIDE DEF Left, Past
<1>9. {h \in Left : \A k \in Left : k.time <= h.time}
        = {h \in Past : \A k \in Past : k.time <= h.time}
  <2>1. PICK p \in Left : \A k \in Left : k.time <= p.time
    BY <1>6
  <2>2. p \in Past /\ p.time >= first /\ \A k \in Past : k.time <= p.time
    BY <1>1, <1>3, <1>7, <2>1
  <2>3. \A h \in Past : h.time >= p.time => h \in Left
    BY <1>1, <1>3, <1>7, <2>2
  <2>4. QED
    BY <1>3, <1>7, <2>1, <2>2, <2>3
<1>10. QED
  BY <1>4, <1>5, <1>8, <1>9

(* A comparison is determined by the manifests of the windows.               *)
LEMMA SameWindows ==
    ASSUME NEW m, NEW P, NEW H, NEW K, NEW n,
           \A days \in RollingWindows : InWindow(m, K, days) = InWindow(m, H, days)
    PROVE  Anomalies(m, P, K, n) = Anomalies(m, P, H, n)
<1>1. RollingAnomalies(m, K) = RollingAnomalies(m, H)
  BY DEF RollingAnomalies
<1>2. QED
  BY <1>1 DEF Anomalies

LEMMA CompareFacts ==
    ASSUME InspectInv, Compare
    PROVE  /\ Listed(history) /\ now \in Nat /\ Generation(gen)
           /\ LatestTime(gen) \in Nat /\ Manifest(gen, scope, FALSE).time = LatestTime(gen)
           /\ history' = Kept(Saved(history, Manifest(gen, scope, FALSE)), now)
<1>1. Generation(gen)
  BY DEF InspectInv, RunInv, Compare
<1>2. LatestTime(gen) \in Nat /\ Manifest(gen, scope, FALSE).time = LatestTime(gen)
  BY <1>1, GenerationTime, ManifestWritten
<1>3. Listed(history)
  BY HistoryListed DEF InspectInv
<1>4. now \in Nat
  BY InspectionAssumption DEF InspectInv, RepoInv
<1>5. history' = Kept(Saved(history, Manifest(gen, scope, FALSE)), now)
  BY DEF Compare
<1>6. QED
  BY <1>1, <1>2, <1>3, <1>4, <1>5

LEMMA RepeatsKept ==
    ASSUME NEW x, Generation(x.gen), Repeats(x, history, now), InspectInv, Compare,
           LatestTime(x.gen) <= LatestTime(gen)
    PROVE  Repeats(x, history', now)
<1> DEFINE t == LatestTime(x.gen)
           w == Manifest(x.gen, x.scope, FALSE)
           m == Manifest(gen, scope, FALSE)
<1>1. SUFFICES ASSUME Remembered(t, history', now)
               PROVE  x.found.anomalies = Anomalies(w, PreviousTo(history', t), history', now)
  <2>1. w.time = t
    BY ManifestWritten
  <2>2. QED
    BY <2>1 DEF Repeats
<1>2. /\ Listed(history) /\ now \in Nat /\ w.time = t /\ t \in Nat
      /\ m.time = LatestTime(gen) /\ m.time \in Nat /\ history' = Kept(Saved(history, m), now)
  BY CompareFacts, ManifestWritten, GenerationTime
<1> HIDE DEF t, w, m
<1>3. t <= m.time
  BY <1>2 DEF t
<1>4. /\ PreviousTo(history', t) = PreviousTo(history, t)
      /\ \A days \in RollingWindows : InWindow(w, history', days) = InWindow(w, history, days)
  BY <1>1, <1>2, <1>3, SavingHarmless
<1>5. Remembered(t, history, now)
  BY <1>1, <1>4 DEF Remembered
<1>6. x.found.anomalies = Anomalies(w, PreviousTo(history, t), history, now)
  BY <1>2, <1>5 DEF Repeats, t, w
<1>7. QED
  BY <1>4, <1>6, SameWindows

LEMMA RepeatsNew ==
    ASSUME InspectInv, Compare
    PROVE  LET x == [gen |-> gen, scope |-> scope, found |-> found']
           IN Repeats(x, history', now) /\ Earlier(x)
<1> DEFINE t == LatestTime(gen)
           m == Manifest(gen, scope, FALSE)
           P == Baseline(history, repo, t)
           x == [gen |-> gen, scope |-> scope, found |-> found']
<1>1. /\ Listed(history) /\ now \in Nat /\ m.time = t /\ t \in Nat /\ Generation(gen)
      /\ history' = Kept(Saved(history, m), now)
  BY CompareFacts
<1>2. /\ found'.anomalies = Anomalies(m, P, history, now)
      /\ found'.than = {p.time : p \in P}
  BY <1>1 DEF Compare
<1>3. x.gen = gen /\ x.scope = scope /\ x.found = found'
  OBVIOUS
<1>4. \A p \in P : p.time < t
  <2>1. CASE PreviousTo(history, t) # {}
    BY <2>1 DEF Baseline, PreviousTo
  <2>2. CASE PreviousTo(history, t) = {}
    <3>1. SUFFICES ASSUME NEW p \in P PROVE p.time < t
      OBVIOUS
    <3>2. ClusterBefore(repo, t) # {} /\ p = Manifest(ClusterBefore(repo, t), {}, TRUE)
      BY <2>2, <3>1 DEF Baseline
    <3>3. LatestTime(ClusterBefore(repo, t)) < t
      BY <3>2, BeforeSound DEF InspectInv, RepoInv
    <3>4. QED
      BY <3>2, <3>3 DEF Manifest
  <2>3. QED
    BY <2>1, <2>2
<1>5. Earlier(x)
  BY <1>2, <1>3, <1>4 DEF Earlier
<1>6. Repeats(x, history', now)
  <2>1. SUFFICES ASSUME Remembered(t, history', now)
                 PROVE  found'.anomalies = Anomalies(m, PreviousTo(history', t), history', now)
    <3> HIDE DEF x
    <3>1. QED
      BY <1>1, <1>3 DEF Repeats
  <2> HIDE DEF m, t
  <2>2. /\ PreviousTo(history', t) = PreviousTo(history, t)
        /\ \A days \in RollingWindows : InWindow(m, history', days) = InWindow(m, history, days)
    <3>1. t <= m.time
      BY <1>1
    <3>2. QED
      BY <1>1, <2>1, <3>1, SavingHarmless
  <2>3. P = PreviousTo(history, t)
    BY <2>1, <2>2 DEF Remembered, Baseline
  <2>4. QED
    BY <1>2, <2>2, <2>3, SameWindows
<1>7. QED
  BY <1>5, <1>6

(* As time goes by a comparison says the same, until the backup is too old.  *)
LEMMA RepeatsLater ==
    ASSUME NEW x, Generation(x.gen), NEW H, NEW n \in Nat, Repeats(x, H, n)
    PROVE  Repeats(x, H, n + 1)
<1> DEFINE t == LatestTime(x.gen)
           w == Manifest(x.gen, x.scope, FALSE)
<1>1. w.time = t /\ t \in Nat
  BY ManifestWritten, GenerationTime
<1>2. SUFFICES ASSUME Remembered(t, H, n + 1)
               PROVE  x.found.anomalies = Anomalies(w, PreviousTo(H, t), H, n + 1)
  BY <1>1 DEF Repeats
<1>3. MaxAge \in Nat /\ Retention \in Nat /\ RollingWindows \subseteq Nat
  BY ThresholdAssumption, InspectionAssumption
<1> HIDE DEF t, w
<1>4. Remembered(t, H, n)
  <2>1. n - t <= MaxAge
    BY <1>1, <1>2, <1>3 DEF Remembered
  <2>2. ASSUME NEW days \in RollingWindows PROVE t - days >= n - Retention
    <3>1. t - days >= n + 1 - Retention /\ days \in Nat
      BY <1>2, <1>3 DEF Remembered
    <3>2. QED
      BY <1>1, <1>3, <3>1
  <2>3. QED
    BY <1>2, <2>1, <2>2 DEF Remembered
<1>5. x.found.anomalies = Anomalies(w, PreviousTo(H, t), H, n)
  BY <1>1, <1>4 DEF Repeats, t, w
<1>6. AgeAnomalies(w, n) = {} /\ AgeAnomalies(w, n + 1) = {}
  BY <1>1, <1>2, <1>3, <1>4 DEF Remembered, AgeAnomalies, When
<1>7. QED
  BY <1>5, <1>6 DEF Anomalies

LEMMA RepeatNext == InspectInv /\ RepeatInv /\ [Next]_vars => RepeatInv'
<1> SUFFICES ASSUME InspectInv, RepeatInv, [Next]_vars PROVE RepeatInv'
  OBVIOUS
<1> DEFINE x == [gen |-> gen, scope |-> scope, found |-> found]
<1>1. x.gen = gen /\ x.scope = scope /\ x.found = found
  OBVIOUS
<1>2. (\A r \in said : Generation(r.gen)) /\ (pc = "compared" => Generation(x.gen))
      /\ now \in Nat
  BY <1>1, InspectionAssumption DEF InspectInv, RunInv, RepoInv
<1>3. /\ \A r \in said : Repeats(r, history, now) /\ Earlier(r)
      /\ pc = "compared" => Repeats(x, history, now) /\ Earlier(x)
  BY DEF RepeatInv
<1>4. CASE Tick
  <2>1. now' = now + 1 /\ UNCHANGED <<history, pc, gen, scope, found, said>>
    BY <1>4 DEF Tick, run
  <2>2. x' = x
    BY <2>1
  <2> HIDE DEF x
  <2>3. (\A r \in said : Repeats(r, history, now + 1))
        /\ (pc = "compared" => Repeats(x, history, now + 1))
    BY <1>2, <1>3, RepeatsLater
  <2>4. /\ \A r \in said : Repeats(r, history', now') /\ Earlier(r)
        /\ pc = "compared" => Repeats(x, history', now') /\ Earlier(x)
    BY <1>3, <2>1, <2>3
  <2>5. QED
    BY <2>1, <2>2, <2>4 DEF RepeatInv, x
<1>5. CASE ~ Tick /\ ~ Check
  <2>1. UNCHANGED <<now, history, pc, gen, scope, found, said>>
    BY <1>5 DEF Next, Change, Backup, Remove, vars, run
  <2>2. QED
    BY <2>1 DEF RepeatInv, Repeats, Remembered, Earlier
<1>6. CASE Inspect \/ ReadFails \/ Die
  <2>1. pc' # "compared" /\ UNCHANGED <<now, history, said>>
    BY <1>6 DEF Inspect, ReadFails, Die, Idle
  <2>2. QED
    BY <2>1 DEF RepeatInv, Repeats, Remembered, Earlier
<1>7. CASE Compare
  <2> DEFINE y == [gen |-> gen, scope |-> scope, found |-> found']
  <2>1. UNCHANGED <<now, gen, scope, said>>
    BY <1>7 DEF Compare
  <2>2. Repeats(y, history', now) /\ Earlier(y)
    BY <1>7, RepeatsNew
  <2>3. \A r \in said : Repeats(r, history', now) /\ Earlier(r)
    <3>1. \A r \in said : LatestTime(r.gen) <= LatestTime(gen)
      BY <1>7 DEF Compare, InspectInv, RunInv
    <3>2. QED
      BY <1>2, <1>3, <1>7, <3>1, RepeatsKept
  <2>4. x' = y
    BY <2>1
  <2>5. QED
    BY <2>1, <2>2, <2>3, <2>4 DEF RepeatInv, Repeats, Remembered, Earlier
<1>8. CASE Report
  <2>1. pc = "compared" /\ pc' = "idle" /\ said' = {x} /\ UNCHANGED <<now, history>>
    BY <1>8 DEF Report, Idle
  <2> HIDE DEF x
  <2>2. Repeats(x, history', now') /\ Earlier(x)
    BY <1>3, <2>1
  <2>3. QED
    BY <2>1, <2>2 DEF RepeatInv
<1>9. QED
  BY <1>4, <1>5, <1>6, <1>7, <1>8 DEF Check

(* A check that is repeated says the same (RepeatTellsTheSame).              *)
THEOREM RepeatsAreSame == Spec => RepeatTellsTheSame
<1> DEFINE Same ==
      \A r \in said, s \in said' :
         /\ r.gen = s.gen /\ r.scope = s.scope
         /\ now - LatestTime(r.gen) <= MaxAge
         /\ \E h \in history : r.found.than = {h.time}
         /\ \A days \in RollingWindows : LatestTime(r.gen) - days >= now - Retention
         => r.found.anomalies = s.found.anomalies
<1>1. Init => RepeatInv
  BY DEF Init, RepeatInv
<1>2. InspectInv /\ RepeatInv /\ [Next]_vars => [Same]_said
  <2>1. SUFFICES ASSUME InspectInv, RepeatInv, [Next]_vars, said' # said,
                        NEW r \in said, NEW s \in said',
                        r.gen = s.gen, r.scope = s.scope, now - LatestTime(r.gen) <= MaxAge,
                        \E h \in history : r.found.than = {h.time},
                        \A days \in RollingWindows : LatestTime(r.gen) - days >= now - Retention
                 PROVE  r.found.anomalies = s.found.anomalies
    OBVIOUS
  <2>2. Report
    BY <2>1, ProductionFrame DEF Check, Inspect, ReadFails, Compare, Die
  <2> DEFINE t == LatestTime(r.gen)
  <2>3. PreviousTo(history, t) # {}
    <3>1. PICK h \in history : r.found.than = {h.time}
      BY <2>1
    <3>2. h.time < t /\ t \in Nat /\ Listed(history)
      BY <2>1, <3>1, HistoryListed, GenerationTime DEF RepeatInv, Earlier, InspectInv, RunInv
    <3>3. QED
      BY <3>2, PreviousExists
  <2>4. Remembered(t, history, now)
    BY <2>1, <2>3 DEF Remembered
  <2>5. Repeats(r, history, now)
    BY <2>1 DEF RepeatInv
  <2>6. s = [gen |-> gen, scope |-> scope, found |-> found] /\ pc = "compared"
    BY <2>1, <2>2 DEF Report
  <2>7. Repeats(s, history, now)
    BY <2>1, <2>6 DEF RepeatInv
  <2>8. QED
    BY <2>1, <2>4, <2>5, <2>7 DEF Repeats
<1>3. QED
  BY <1>1, <1>2, RepeatNext, InspectInvariant, PTL DEF Spec, RepeatTellsTheSame
==============================================================================
