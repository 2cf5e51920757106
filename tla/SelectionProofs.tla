---------------------------- MODULE SelectionProofs ----------------------------
(* What the operators of Selection, LargeData and Sampler return, for every   *)
(* archive: how sizes add up, which large roots there are and what keeping    *)
(* them costs, and which entries the heaps of the sampler are left with.      *)
EXTENDS Selection, FiniteInduction, SequenceTheorems, TLAPS

-----------------------------------------------------------------------------
(* The size of a set of files.                                             *)

(* The sum that is computed element by element is the number of the units:   *)
(* these satisfy the recursive equation, and nothing else does.              *)
LEMMA TotalIsCount ==
    ASSUME NEW D, IsFiniteSet(D), NEW f \in [D -> Nat]
    PROVE  Total(f) = Cardinality(Units(f, D))
<1> DEFINE some(s) == CHOOSE x \in s : TRUE
           Sums(g) == g = [s \in SUBSET D |-> IF s = {} THEN 0 ELSE f[some(s)] + g[s \ {some(s)}]]
           iter == CHOOSE g : Sums(g)
           count == [s \in SUBSET D |-> Cardinality(Units(f, s))]
<1>1. Total(f) = iter[D]
  BY DEF Total, MapThenSumSet, MapThenFoldSet
<1>2. ASSUME NEW s \in SUBSET D, s # {} PROVE some(s) \in s
  BY <1>2
<1>3. Cardinality(Units(f, {})) = 0
  BY FS_EmptySet DEF Units
<1> HIDE DEF some
<1>4. Sums(count)
  <2>1. ASSUME NEW s \in SUBSET D
        PROVE  count[s] = IF s = {} THEN 0 ELSE f[some(s)] + count[s \ {some(s)}]
    <3>1. IsFiniteSet(s)
      BY FS_Subset
    <3>2. s # {} => Cardinality(Units(f, s)) = f[some(s)] + Cardinality(Units(f, s \ {some(s)}))
      BY <1>2, <3>1, UnitsWith
    <3>3. QED
      BY <1>3, <3>2
  <2>2. QED
    BY <2>1
<1>5. Sums(iter)
  BY <1>4
<1> HIDE DEF iter, count
<1> DEFINE Wrong == {s \in SUBSET D : iter[s] # Cardinality(Units(f, s))}
<1>6. Wrong = {}
  <2>1. SUFFICES ASSUME Wrong # {} PROVE FALSE
    OBVIOUS
  <2>2. PICK A \in Wrong : \A B \in Wrong : B \subseteq A => B = A
    <3>1. Wrong \subseteq SUBSET D
      OBVIOUS
    <3> HIDE DEF Wrong
    <3>2. QED
      BY <2>1, <3>1, SmallestSubset
  <2>3. A \in SUBSET D /\ IsFiniteSet(A)
    BY FS_Subset
  <2>4. iter[A] = IF A = {} THEN 0 ELSE f[some(A)] + iter[A \ {some(A)}]
    BY <1>5, <2>3
  <2>5. A # {}
    BY <1>3, <2>4
  <2>6. some(A) \in A
    BY <1>2, <2>3, <2>5
  <2>7. iter[A \ {some(A)}] = Cardinality(Units(f, A \ {some(A)}))
    BY <2>2, <2>3, <2>6
  <2>8. Cardinality(Units(f, A)) = f[some(A)] + Cardinality(Units(f, A \ {some(A)}))
    BY <2>3, <2>6, UnitsWith
  <2>9. QED
    BY <2>2, <2>4, <2>5, <2>7, <2>8
<1>7. QED
  BY <1>1, <1>6

Sized(S) == IsFiniteSet(S) /\ \A i \in S : i.size \in Nat
Weight(S) == UNION {{i} \X (1 .. i.size) : i \in S}

LEMMA SizeIsWeight ==
    ASSUME NEW S, Sized(S)
    PROVE  /\ IsFiniteSet(Weight(S)) /\ Size(S) = Cardinality(Weight(S))
           /\ Size(S) \in Nat
<1> DEFINE f == [i \in S |-> i.size]
<1>1. IsFiniteSet(S) /\ f \in [S -> Nat]
  BY DEF Sized
<1>2. Units(f, S) = Weight(S)
  BY DEF Units, Weight
<1>3. Size(S) = Total(f)
  BY DEF Size
<1> HIDE DEF f
<1>4. IsFiniteSet(Units(f, S)) /\ Cardinality(Units(f, S)) \in Nat
  BY <1>1, UnitsFinite
<1>5. Total(f) = Cardinality(Units(f, S))
  BY <1>1, TotalIsCount
<1>6. QED
  BY <1>2, <1>3, <1>4, <1>5

LEMMA SizedParts ==
    ASSUME NEW S, NEW T, T \subseteq S, Sized(S)
    PROVE  Sized(T)
BY FS_Subset DEF Sized

(* Two sets together are no larger than both, and as large if no file is in  *)
(* both.                                                                     *)
LEMMA SizeOfTwo ==
    ASSUME NEW S, NEW T, Sized(S), Sized(T)
    PROVE  /\ Sized(S \cup T)
           /\ Size(S \cup T) <= Size(S) + Size(T)
           /\ S \cap T = {} => Size(S \cup T) = Size(S) + Size(T)
<1>1. Sized(S \cup T)
  BY FS_Union DEF Sized
<1>2. Weight(S \cup T) = Weight(S) \cup Weight(T)
  BY DEF Weight
<1>3. S \cap T = {} => Weight(S) \cap Weight(T) = {}
  BY DEF Weight
<1>4. /\ IsFiniteSet(Weight(S)) /\ Size(S) = Cardinality(Weight(S)) /\ Size(S) \in Nat
      /\ IsFiniteSet(Weight(T)) /\ Size(T) = Cardinality(Weight(T)) /\ Size(T) \in Nat
      /\ Size(S \cup T) = Cardinality(Weight(S \cup T)) /\ Size(S \cup T) \in Nat
  BY <1>1, SizeIsWeight
<1>5. /\ Cardinality(Weight(S) \cup Weight(T))
           = Cardinality(Weight(S)) + Cardinality(Weight(T)) - Cardinality(Weight(S) \cap Weight(T))
  BY <1>4, FS_Union
<1>6. /\ Cardinality(Weight(S) \cap Weight(T)) \in Nat
      /\ Weight(S) \cap Weight(T) = {} => Cardinality(Weight(S) \cap Weight(T)) = 0
  <2>1. IsFiniteSet(Weight(S) \cap Weight(T))
    BY <1>4, FS_Subset
  <2>2. QED
    BY <2>1, FS_CardinalityType, FS_EmptySet
<1>7. QED
  BY <1>1, <1>2, <1>3, <1>4, <1>5, <1>6

LEMMA SizeOfPart ==
    ASSUME NEW S, NEW T, T \subseteq S, Sized(S)
    PROVE  Sized(T) /\ Size(T) \in Nat /\ Size(T) <= Size(S)
<1>1. Sized(T) /\ Sized(S \ T)
  BY SizedParts
<1>2. (T \cup (S \ T)) = S /\ T \cap (S \ T) = {}
  OBVIOUS
<1>3. Size(T \cup (S \ T)) = Size(T) + Size(S \ T)
  BY <1>1, <1>2, SizeOfTwo
<1>4. Size(S) = Size(T) + Size(S \ T)
  BY <1>2, <1>3
<1>5. Size(T) \in Nat /\ Size(S \ T) \in Nat
  BY <1>1, SizeIsWeight
<1>6. QED
  BY <1>1, <1>4, <1>5

LEMMA SizeOfNone == Sized({}) /\ Size({}) = 0
<1>1. Sized({})
  BY FS_EmptySet DEF Sized
<1>2. Weight({}) = {}
  BY DEF Weight
<1>3. QED
  BY <1>1, <1>2, SizeIsWeight, FS_EmptySet

LEMMA SizeOfOne ==
    ASSUME NEW i, i.size \in Nat
    PROVE  Sized({i}) /\ Size({i}) = i.size
<1>1. Sized({i})
  BY FS_Singleton DEF Sized
<1>2. Weight({i}) = {i} \X (1 .. i.size)
  BY DEF Weight
<1>3. Cardinality({i} \X (1 .. i.size)) = i.size
  BY UnitsOfOne
<1>4. QED
  BY <1>1, <1>2, <1>3, SizeIsWeight

(* The parts of a set that have nothing in common are as large, taken        *)
(* together, as all that is in one of them.                                  *)
LEMMA SizeOfParts ==
    ASSUME NEW F, Sized(F), NEW D, IsFiniteSet(D), NEW part \in [D -> SUBSET F],
           \A r, s \in D : r # s => part[r] \cap part[s] = {}
    PROVE  Total([r \in D |-> Size(part[r])]) = Size(UNION {part[r] : r \in D})
<1> DEFINE g == [r \in D |-> Size(part[r])]
           All(A) == UNION {part[r] : r \in A}
           Wrong == {A \in SUBSET D : Cardinality(Units(g, A)) # Size(All(A))}
<1>1. g \in [D -> Nat]
  <2>1. ASSUME NEW r \in D PROVE Size(part[r]) \in Nat
    BY SizeOfPart
  <2>2. QED
    BY <2>1
<1>2. Total(g) = Cardinality(Units(g, D))
  <2> HIDE DEF g
  <2>1. QED
    BY <1>1, TotalIsCount
<1>3. Wrong = {}
  <2>1. SUFFICES ASSUME Wrong # {} PROVE FALSE
    OBVIOUS
  <2>2. PICK A \in Wrong : \A B \in Wrong : B \subseteq A => B = A
    <3>1. Wrong \subseteq SUBSET D
      OBVIOUS
    <3> HIDE DEF Wrong
    <3>2. QED
      BY <2>1, <3>1, SmallestSubset
  <2>3. A \subseteq D /\ IsFiniteSet(A)
    BY FS_Subset
  <2>4. A # {}
    <3>1. Units(g, {}) = {} /\ All({}) = {}
      BY DEF Units
    <3>2. QED
      BY <3>1, SizeOfNone, FS_EmptySet
  <2>5. PICK r \in A : TRUE
    BY <2>4
  <2>6. A \ {r} \notin Wrong /\ A \ {r} \subseteq D /\ IsFiniteSet(A \ {r})
    <3>1. A \ {r} \subseteq A /\ A \ {r} # A
      BY <2>5
    <3>2. A \ {r} \notin Wrong
      BY <2>2, <3>1
    <3>3. QED
      BY <2>3, <3>1, <3>2, FS_Subset
  <2>7. Cardinality(Units(g, A \ {r})) = Size(All(A \ {r}))
    BY <2>6
  <2>8. Cardinality(Units(g, A)) = Size(part[r]) + Cardinality(Units(g, A \ {r}))
    <3>1. g[r] = Size(part[r])
      BY <2>3
    <3> HIDE DEF g
    <3>2. QED
      BY <1>1, <2>3, <2>5, <3>1, UnitsWith
  <2>9. Size(All(A)) = Size(part[r]) + Size(All(A \ {r}))
    <3>1. All(A) = part[r] \cup All(A \ {r}) /\ part[r] \cap All(A \ {r}) = {}
      BY <2>3
    <3>2. part[r] \subseteq F /\ All(A \ {r}) \subseteq F
      BY <2>3
    <3>3. Sized(part[r]) /\ Sized(All(A \ {r}))
      BY <3>2, SizedParts
    <3> HIDE DEF All
    <3>4. QED
      BY <3>1, <3>3, SizeOfTwo
  <2>10. QED
    BY <2>7, <2>8, <2>9
<1>4. QED
  BY <1>2, <1>3

(* A sum is not larger than the sum of what is not smaller.                  *)
LEMMA SizeOfCover ==
    ASSUME NEW F, Sized(F), NEW D, IsFiniteSet(D), NEW part \in [D -> SUBSET F],
           NEW n \in [D -> Nat], \A r \in D : Size(part[r]) <= n[r]
    PROVE  Size(UNION {part[r] : r \in D}) <= Total(n) /\ Total(n) \in Nat
<1> DEFINE All(A) == UNION {part[r] : r \in A}
           Wrong == {A \in SUBSET D : ~ Size(All(A)) <= Cardinality(Units(n, A))}
<1>1. Total(n) = Cardinality(Units(n, D)) /\ Cardinality(Units(n, D)) \in Nat
  BY TotalIsCount, UnitsFinite
<1>2. Wrong = {}
  <2>1. SUFFICES ASSUME Wrong # {} PROVE FALSE
    OBVIOUS
  <2>2. PICK A \in Wrong : \A B \in Wrong : B \subseteq A => B = A
    <3>1. Wrong \subseteq SUBSET D
      OBVIOUS
    <3> HIDE DEF Wrong
    <3>2. QED
      BY <2>1, <3>1, SmallestSubset
  <2>3. A \subseteq D /\ IsFiniteSet(A) /\ ~ Size(All(A)) <= Cardinality(Units(n, A))
    BY FS_Subset
  <2>4. A # {}
    <3>1. Units(n, {}) = {} /\ All({}) = {}
      BY DEF Units
    <3>2. Size(All({})) = 0 /\ Cardinality(Units(n, {})) = 0
      BY <3>1, SizeOfNone, FS_EmptySet
    <3> HIDE DEF All
    <3>3. QED
      BY <2>3, <3>2
  <2>5. PICK r \in A : TRUE
    BY <2>4
  <2> DEFINE B == A \ {r}
  <2>6. B \notin Wrong /\ B \subseteq D /\ IsFiniteSet(B)
    <3>1. B \subseteq A /\ B # A
      BY <2>5
    <3>2. B \notin Wrong
      BY <2>2, <3>1
    <3>3. QED
      BY <2>3, <3>1, <3>2, FS_Subset
  <2>7. Size(All(B)) <= Cardinality(Units(n, B))
    BY <2>6
  <2>8. Cardinality(Units(n, A)) = n[r] + Cardinality(Units(n, B)) /\ Cardinality(Units(n, B)) \in Nat
    BY <2>3, <2>5, <2>6, UnitsWith, UnitsFinite
  <2>9. /\ Size(All(A)) <= Size(part[r]) + Size(All(B))
        /\ Size(part[r]) \in Nat /\ Size(All(B)) \in Nat /\ Size(All(A)) \in Nat
    <3>1. All(A) = part[r] \cup All(B)
      BY <2>3
    <3>2. part[r] \subseteq F /\ All(B) \subseteq F
      BY <2>3
    <3>3. Sized(part[r]) /\ Sized(All(B))
      BY <3>2, SizedParts
    <3> HIDE DEF All, B
    <3>4. QED
      BY <3>1, <3>3, SizeOfTwo, SizeIsWeight
  <2>10. Size(part[r]) <= n[r] /\ n[r] \in Nat
    BY <2>3
  <2> HIDE DEF All, B
  <2>11. QED
    BY <2>3, <2>7, <2>8, <2>9, <2>10
<1>3. Size(All(D)) <= Cardinality(Units(n, D))
  <2>1. D \in SUBSET D /\ D \notin Wrong
    BY <1>2
  <2>2. QED
    BY <2>1
<1>4. QED
  BY <1>1, <1>3

-----------------------------------------------------------------------------
(* The large roots.                                                        *)

(* Of two directories on the way to one file, one lies in the other.         *)
LEMMA OneWay ==
    ASSUME NEW p \in Seq(STRING), NEW q \in Seq(STRING), NEW t \in Seq(STRING),
           IsPrefix(p, t), IsPrefix(q, t)
    PROVE  IsPrefix(p, q) \/ IsPrefix(q, p)
<1>1. ASSUME NEW a \in Seq(STRING), NEW b \in Seq(STRING), IsPrefix(a, t), IsPrefix(b, t),
             Len(a) <= Len(b)
      PROVE  IsPrefix(a, b)
  <2>1. Len(a) \in Nat /\ Len(b) \in Nat /\ Len(t) \in Nat /\ Len(a) <= Len(b) /\ Len(b) <= Len(t)
    BY <1>1, LenProperties DEF IsPrefix
  <2>2. SubSeq(a, 1, Len(a)) = SubSeq(t, 1, Len(a)) /\ SubSeq(b, 1, Len(b)) = SubSeq(t, 1, Len(b))
    BY <1>1 DEF IsPrefix
  <2>3. SubSeq(b, 1, Len(b)) = b
    BY SubSeqFull
  <2>4. Len(a) > 0 => SubSeq(SubSeq(t, 1, Len(b)), 1, Len(a)) = SubSeq(t, 1, Len(a))
    <3>1. SUFFICES ASSUME Len(a) > 0
                   PROVE  SubSeq(SubSeq(t, 1, Len(b)), 1, Len(a)) = SubSeq(t, 1, Len(a))
      OBVIOUS
    <3>2. /\ 1 \in 1 .. Len(t) /\ Len(b) \in 1 .. Len(t)
          /\ 1 \in 1 .. Len(b) - 1 + 1 /\ Len(a) \in 1 .. Len(b) - 1 + 1
          /\ 1 + 1 - 1 = 1 /\ 1 + Len(a) - 1 = Len(a)
      BY <2>1, <3>1
    <3>3. SubSeq(SubSeq(t, 1, Len(b)), 1, Len(a)) = SubSeq(t, 1 + 1 - 1, 1 + Len(a) - 1)
      BY <3>2, SubSeqOfSubSeq
    <3>4. QED
      BY <3>2, <3>3
  <2>5. Len(a) = 0 => SubSeq(b, 1, Len(a)) = <<>> /\ SubSeq(a, 1, Len(a)) = <<>>
    BY SubSeqEmpty
  <2>6. SubSeq(a, 1, Len(a)) = SubSeq(b, 1, Len(a))
    <3>1. CASE Len(a) = 0
      BY <2>5, <3>1
    <3>2. CASE Len(a) > 0
      <4>1. SubSeq(b, 1, Len(a)) = SubSeq(t, 1, Len(a))
        BY <2>2, <2>3, <2>4, <3>2
      <4>2. QED
        BY <2>2, <4>1
    <3>3. QED
      BY <2>1, <3>1, <3>2
  <2>7. QED
    BY <2>1, <2>6 DEF IsPrefix
<1>2. Len(p) <= Len(q) \/ Len(q) <= Len(p)
  BY LenProperties
<1>3. QED
  BY <1>1, <1>2

(* The directories of a listing.                                             *)
LEMMA DirsFinite ==
    ASSUME NEW L, IsFiniteSet(L), \A i \in L : i.path \in Seq(STRING)
    PROVE  IsFiniteSet(Dirs(L)) /\ Dirs(L) \subseteq Seq(STRING)
<1> DEFINE Above(i) == {SubSeq(i.path, 1, k) : k \in 0 .. Len(i.path) - 1}
           Parts == {Above(i) : i \in L}
           part == [i \in L |-> Above(i)]
<1>1. ASSUME NEW i \in L PROVE IsFiniteSet(Above(i)) /\ Above(i) \subseteq Seq(STRING)
  <2> DEFINE I == 0 .. Len(i.path) - 1
             f == [k \in I |-> SubSeq(i.path, 1, k)]
  <2>1. i.path \in Seq(STRING) /\ Len(i.path) \in Nat
    BY LenProperties
  <2>2. IsFiniteSet(I)
    BY <2>1, FS_Interval
  <2>3. f \in Surjection(I, Above(i))
    BY DEF Surjection
  <2>4. ASSUME NEW k \in I PROVE SubSeq(i.path, 1, k) \in Seq(STRING)
    <3>1. k \in Int /\ 1 \in Int /\ k < Len(i.path)
      BY <2>1
    <3>2. \A n \in 1 .. k : i.path[n] \in STRING
      <4>1. SUFFICES ASSUME NEW n \in 1 .. k PROVE i.path[n] \in STRING
        OBVIOUS
      <4>2. n \in 1 .. Len(i.path)
        BY <2>1, <3>1
      <4>3. QED
        BY <2>1, <4>2, ElementOfSeq
    <3> HIDE DEF I
    <3>3. QED
      BY <3>1, <3>2, SubSeqProperties
  <2>5. Above(i) \subseteq Seq(STRING)
    BY <2>4
  <2> HIDE DEF I, f, Above
  <2>6. QED
    BY <2>2, <2>3, <2>5, FS_Surjection
<1>2. part \in Surjection(L, Parts)
  BY DEF Surjection
<1>3. Dirs(L) = UNION Parts
  BY DEF Dirs
<1>4. \A P \in Parts : IsFiniteSet(P) /\ P \subseteq Seq(STRING)
  BY <1>1
<1> HIDE DEF part, Parts, Above
<1>5. IsFiniteSet(Parts)
  BY <1>2, FS_Surjection
<1>6. QED
  BY <1>3, <1>4, <1>5, FS_UNION

(* No file is in two roots.                                                  *)
LEMMA RootsApart ==
    ASSUME NEW c \in Components, NEW L, L = c.files,
           NEW R, R = LargeRoots(L, c.kind, c.declared)
    PROVE  IsFiniteSet(R) /\ \A r, s \in R : r # s => Under(L, r) \cap Under(L, s) = {}
<1>1. /\ IsFiniteSet(L) /\ \A i \in L : i.path \in Seq(STRING)
      /\ c.declared \subseteq Dirs(L) /\ c.kind \in {"app", "system_conf", "system_data"}
  BY SelectionAssumption
<1>2. ASSUME NEW x, R \subseteq {x}
      PROVE  IsFiniteSet(R) /\ \A r, s \in R : r # s => Under(L, r) \cap Under(L, s) = {}
  <2>1. IsFiniteSet({x})
    BY FS_Singleton
  <2>2. IsFiniteSet(R)
    BY <1>2, <2>1, FS_Subset
  <2>3. QED
    BY <1>2, <2>2
<1>3. CASE c.kind = "system_data"
  <2>1. R \subseteq {<<>>}
    BY <1>3 DEF LargeRoots
  <2>2. QED
    BY <1>2, <2>1
<1>4. CASE c.kind = "system_conf"
  <2>1. R \subseteq {<<>>}
    BY <1>4 DEF LargeRoots
  <2>2. QED
    BY <1>2, <2>1
<1>5. CASE c.kind = "app" /\ c.declared = {}
  <2>1. R = Dedupe(HeuristicRoot(L))
    BY <1>5 DEF LargeRoots
  <2>2. R \subseteq {Content(L)}
    BY <2>1 DEF Dedupe, HeuristicRoot
  <2>3. QED
    BY <1>2, <2>2
<1>6. CASE c.kind = "app" /\ c.declared # {}
  <2>1. R = Dedupe(c.declared)
    BY <1>6 DEF LargeRoots
  <2>2. R \subseteq Dirs(L) /\ \A r, s \in R : ~ IsStrictPrefix(s, r)
    BY <1>1, <2>1 DEF Dedupe
  <2>3. IsFiniteSet(Dirs(L)) /\ Dirs(L) \subseteq Seq(STRING)
    BY <1>1, DirsFinite
  <2>4. IsFiniteSet(R)
    BY <2>2, <2>3, FS_Subset
  <2>5. ASSUME NEW r \in R, NEW s \in R, NEW i \in L, IsPrefix(r, i.path), IsPrefix(s, i.path)
        PROVE  r = s
    <3>1. r \in Seq(STRING) /\ s \in Seq(STRING) /\ i.path \in Seq(STRING)
      BY <1>1, <2>2, <2>3
    <3>2. IsPrefix(r, s) \/ IsPrefix(s, r)
      BY <2>5, <3>1, OneWay
    <3>3. QED
      BY <2>2, <3>2 DEF IsStrictPrefix
  <2>6. QED
    BY <2>4, <2>5 DEF Under
<1>7. QED
  BY <1>1, <1>3, <1>4, <1>5, <1>6

(* The largest of the directories in one is one of them.                     *)
LEMMA LargestIsChild ==
    ASSUME NEW L, Sized(L), \A i \in L : i.path \in Seq(STRING), NEW p, Children(L, p) # {}
    PROVE  LargestChild(L, p) \in Dirs(L)
<1> DEFINE C == Children(L, p)
           sizes == {Size(Under(L, e)) : e \in C}
           f == [e \in C |-> Size(Under(L, e))]
<1>1. C \subseteq Dirs(L) /\ IsFiniteSet(C)
  <2>1. C \subseteq Dirs(L)
    BY DEF Children
  <2>2. QED
    BY <2>1, DirsFinite, FS_Subset DEF Sized
<1>2. IsFiniteSet(sizes)
  <2>1. f \in Surjection(C, sizes)
    BY DEF Surjection
  <2> HIDE DEF f, sizes
  <2>2. QED
    BY <1>1, <2>1, FS_Surjection
<1>3. \A n \in sizes : n \in Nat
  <2>1. \A e \in C : Sized(Under(L, e))
    BY SizedParts DEF Under
  <2>2. QED
    BY <2>1, SizeIsWeight
<1>4. PICK m \in sizes : \A n \in sizes : n <= m
  <2>1. sizes # {}
    OBVIOUS
  <2> HIDE DEF sizes
  <2>2. QED
    BY <1>2, <1>3, <2>1, LargestNumber
<1>5. \E d \in C : \A e \in C : Size(Under(L, e)) <= Size(Under(L, d))
  BY <1>4
<1>6. LargestChild(L, p) \in C
  BY <1>5 DEF LargestChild
<1>7. QED
  BY <1>1, <1>6

(* The descent ends in a directory.                                          *)
LEMMA ContentIsDir ==
    ASSUME NEW L, Sized(L), \A i \in L : i.path \in Seq(STRING)
    PROVE  Content(L) \in Dirs(L) \cup {BackupDir}
<1> DEFINE Start == [at |-> BackupDir, on |-> TRUE]
           Rounds(g, m) == g = [n \in 0 .. m |-> IF n = 0 THEN Start ELSE Descend(L, g[n - 1])]
           round == CHOOSE g : Rounds(g, 12)
           Right(s) == s = [at |-> s.at, on |-> s.on] /\ s.at \in Dirs(L) \cup {BackupDir}
           Undefined == {n \in 0 .. 12 : ~ \E g : Rounds(g, n)}
           Wrong == {n \in 0 .. 12 : ~ Right(round[n])}
<1>1. ASSUME NEW s, Right(s) PROVE Right(Descend(L, s))
  <2> DEFINE d == LargestChild(L, s.at)
  <2>1. \/ Descend(L, s) = [s EXCEPT !.on = FALSE]
        \/ /\ Children(L, s.at) # {}
           /\ Descend(L, s) = [at |-> d, on |-> Size(Under(L, d)) * 100 >= DescendShare * Size(Under(L, d))]
    BY DEF Descend
  <2>2. CASE Descend(L, s) = [s EXCEPT !.on = FALSE]
    BY <1>1, <2>2
  <2>3. CASE /\ Children(L, s.at) # {}
             /\ Descend(L, s) = [at |-> d, on |-> Size(Under(L, d)) * 100 >= DescendShare * Size(Under(L, d))]
    <3>1. d \in Dirs(L)
      BY <2>3, LargestIsChild
    <3> HIDE DEF d
    <3>2. QED
      BY <2>3, <3>1
  <2>4. QED
    BY <2>1, <2>2, <2>3
<1>2. Right(Start)
  OBVIOUS
<1> HIDE DEF Start, Right
<1>3. Undefined = {}
  <2>1. SUFFICES ASSUME Undefined # {} PROVE FALSE
    OBVIOUS
  <2>2. PICK m \in Undefined : m # 0 => m - 1 \in 0 .. 12 /\ m - 1 \notin Undefined
    <3>1. Undefined \subseteq 0 .. 12 /\ 12 \in Nat
      OBVIOUS
    <3> HIDE DEF Undefined
    <3>2. QED
      BY <2>1, <3>1, SmallestNumber
  <2>3. m \in 0 .. 12 /\ ~ \E g : Rounds(g, m)
    OBVIOUS
  <2>4. m # 0
    <3>1. Rounds([n \in 0 .. 0 |-> Start], 0)
      OBVIOUS
    <3>2. QED
      BY <2>3, <3>1
  <2>5. PICK g : Rounds(g, m - 1)
    BY <2>2, <2>4
  <2> DEFINE h == [n \in 0 .. m |-> IF n = m THEN Descend(L, g[m - 1]) ELSE g[n]]
  <2>6. Rounds(h, m)
    <3>1. ASSUME NEW n \in 0 .. m
          PROVE  h[n] = IF n = 0 THEN Start ELSE Descend(L, h[n - 1])
      <4>1. CASE n = m
        BY <2>4, <4>1
      <4>2. CASE n # m
        <5>1. n \in 0 .. (m - 1) /\ (n # 0 => n - 1 \in 0 .. m /\ n - 1 # m)
          BY <4>2
        <5>2. g[n] = IF n = 0 THEN Start ELSE Descend(L, g[n - 1])
          BY <2>5, <5>1
        <5>3. QED
          BY <4>2, <5>1, <5>2
      <4>3. QED
        BY <4>1, <4>2
    <3>2. QED
      BY <3>1
  <2>7. QED
    BY <2>3, <2>6
<1>4. Rounds(round, 12)
  <2>1. \E g : Rounds(g, 12)
    <3>1. 12 \notin Undefined
      <4> HIDE DEF Undefined
      <4>1. QED
        BY <1>3
    <3> HIDE DEF Rounds
    <3>2. QED
      BY <3>1
  <2> HIDE DEF Rounds
  <2>2. QED
    BY <2>1
<1>5. Content(L) = round[12].at
  BY DEF Content, Start
<1> HIDE DEF round
<1>6. Wrong = {}
  <2>1. SUFFICES ASSUME Wrong # {} PROVE FALSE
    OBVIOUS
  <2>2. PICK m \in Wrong : m # 0 => m - 1 \in 0 .. 12 /\ m - 1 \notin Wrong
    <3>1. Wrong \subseteq 0 .. 12 /\ 12 \in Nat
      OBVIOUS
    <3> HIDE DEF Wrong
    <3>2. QED
      BY <2>1, <3>1, SmallestNumber
  <2>3. m \in 0 .. 12 /\ ~ Right(round[m])
    OBVIOUS
  <2>4. round[m] = IF m = 0 THEN Start ELSE Descend(L, round[m - 1])
    BY <1>4
  <2>5. m # 0 /\ Right(round[m - 1])
    BY <1>2, <2>2, <2>3, <2>4
  <2>6. QED
    BY <1>1, <2>3, <2>4, <2>5
<1>7. Right(round[12])
  BY <1>6
<1>8. QED
  BY <1>5, <1>7 DEF Right

LEMMA RootsAreDirs ==
    ASSUME NEW c \in Components
    PROVE  LargeRoots(c.files, c.kind, c.declared) \subseteq Dirs(c.files) \cup {<<>>}
<1>1. /\ Sized(c.files) /\ \A i \in c.files : i.path \in Seq(STRING)
      /\ c.declared \subseteq Dirs(c.files) /\ c.kind \in {"app", "system_conf", "system_data"}
  BY SelectionAssumption DEF Sized
<1>2. HeuristicRoot(c.files) \subseteq Dirs(c.files)
  <2>1. HeuristicRoot(c.files) \subseteq {Content(c.files)} \ {BackupDir}
    BY DEF HeuristicRoot
  <2>2. QED
    BY <1>1, <2>1, ContentIsDir
<1>3. QED
  BY <1>1, <1>2 DEF LargeRoots, Dedupe

(* Roots that share no file count each of their files once.                  *)
LEMMA CountedApart ==
    ASSUME NEW L, Sized(L), NEW R, IsFiniteSet(R),
           \A r, s \in R : r # s => Under(L, r) \cap Under(L, s) = {},
           NEW large, large = {i \in L : IsLarge(R, i.path)}
    PROVE  /\ LargeSize(L, R) = Size(large) /\ CoreSize(L, R) = Size(L \ large)
           /\ Size(large) \in Nat /\ Size(L \ large) \in Nat
<1> DEFINE part == [r \in R |-> Under(L, r)]
<1>1. part \in [R -> SUBSET L] /\ UNION {part[r] : r \in R} = large
  BY DEF Under, IsLarge
<1>2. LargeSize(L, R) = Total([r \in R |-> Size(part[r])])
  <2>1. [r \in R |-> Size(part[r])] = [r \in R |-> Size(Under(L, r))]
    OBVIOUS
  <2> HIDE DEF part
  <2>2. QED
    BY <2>1 DEF LargeSize
<1>3. \A r, s \in R : r # s => part[r] \cap part[s] = {}
  OBVIOUS
<1>4. Total([r \in R |-> Size(part[r])]) = Size(UNION {part[r] : r \in R})
  <2> HIDE DEF part
  <2>1. QED
    BY <1>1, <1>3, SizeOfParts
<1>5. Size(L) = Size(large) + Size(L \ large) /\ Size(large) \in Nat /\ Size(L \ large) \in Nat
  <2>1. Sized(large) /\ Sized(L \ large) /\ large \cup (L \ large) = L /\ large \cap (L \ large) = {}
    BY SizedParts
  <2>2. Size(large \cup (L \ large)) = Size(large) + Size(L \ large)
    BY <2>1, SizeOfTwo
  <2>3. Size(large) \in Nat /\ Size(L \ large) \in Nat
    BY <2>1, SizeIsWeight
  <2>4. QED
    BY <2>1, <2>2, <2>3
<1>6. LargeSize(L, R) = Size(large)
  BY <1>1, <1>2, <1>4
<1>7. CoreSize(L, R) = Size(L \ large)
  <2> DEFINE n == Size(L \ large)
  <2>1. Size(L) - LargeSize(L, R) = n
    BY <1>5, <1>6
  <2>2. CoreSize(L, R) = Max({Size(L) - LargeSize(L, R), 0})
    BY DEF CoreSize
  <2>3. CoreSize(L, R) = Max({n, 0}) /\ n \in Nat
    BY <1>5, <2>1, <2>2
  <2> HIDE DEF n
  <2>4. Max({n, 0}) = n
    BY <2>3 DEF Max
  <2>5. QED
    BY <2>3, <2>4 DEF n
<1>8. QED
  BY <1>5, <1>6, <1>7

-----------------------------------------------------------------------------
(* What is kept of a large root.                                           *)

(* A record of what is kept, and what becomes of it with other values in two *)
(* of its fields.                                                            *)
Kept(k) == k = [dirs |-> k.dirs, big |-> k.big, files |-> k.files, bytes |-> k.bytes,
                markers |-> k.markers]

LEMMA FieldsOf ==
    ASSUME NEW k, Kept(k), NEW e, NEW l
    PROVE  /\ [k EXCEPT !.dirs = e, !.bytes = l] =
                 [dirs |-> e, big |-> k.big, files |-> k.files, bytes |-> l, markers |-> k.markers]
           /\ [k EXCEPT !.files = e, !.bytes = l] =
                 [dirs |-> k.dirs, big |-> k.big, files |-> e, bytes |-> l, markers |-> k.markers]
           /\ [k EXCEPT !.markers = e] =
                 [dirs |-> k.dirs, big |-> k.big, files |-> k.files, bytes |-> k.bytes, markers |-> e]
<1>1. [k EXCEPT !.dirs = e, !.bytes = l] =
        [dirs |-> e, big |-> k.big, files |-> k.files, bytes |-> l, markers |-> k.markers]
  <2> DEFINE other == [k EXCEPT !.dirs = e]
  <2>1. other = [dirs |-> e, big |-> k.big, files |-> k.files, bytes |-> k.bytes, markers |-> k.markers]
    BY DEF Kept
  <2>2. [k EXCEPT !.dirs = e, !.bytes = l] = [other EXCEPT !.bytes = l]
    OBVIOUS
  <2> HIDE DEF other
  <2>3. [other EXCEPT !.bytes = l] =
          [dirs |-> e, big |-> k.big, files |-> k.files, bytes |-> l, markers |-> k.markers]
    BY <2>1
  <2>4. QED
    BY <2>2, <2>3
<1>2. [k EXCEPT !.files = e, !.bytes = l] =
        [dirs |-> k.dirs, big |-> k.big, files |-> e, bytes |-> l, markers |-> k.markers]
  <2> DEFINE other == [k EXCEPT !.files = e]
  <2>1. other = [dirs |-> k.dirs, big |-> k.big, files |-> e, bytes |-> k.bytes, markers |-> k.markers]
    BY DEF Kept
  <2>2. [k EXCEPT !.files = e, !.bytes = l] = [other EXCEPT !.bytes = l]
    OBVIOUS
  <2> HIDE DEF other
  <2>3. [other EXCEPT !.bytes = l] =
          [dirs |-> k.dirs, big |-> k.big, files |-> e, bytes |-> l, markers |-> k.markers]
    BY <2>1
  <2>4. QED
    BY <2>2, <2>3
<1>3. [k EXCEPT !.markers = e] =
        [dirs |-> k.dirs, big |-> k.big, files |-> k.files, bytes |-> k.bytes, markers |-> e]
  BY DEF Kept
<1>4. QED
  BY <1>1, <1>2, <1>3

(* Small plumbing and small files of the files F are what k says and cost    *)
(* what it says.                                                             *)
KeptOf(F, k) == {i \in F : i.path \in k.files \/ IsLarge(k.dirs, i.path)}
Costed(F, k) ==
    /\ Kept(k)
    /\ k.bytes \in 0 .. KeepPerRoot /\ k.markers \in Nat
    /\ Size(KeptOf(F, k)) <= k.bytes

(* Reading a file adds no root. *)
LEMMA KeptFileDomain == \A k, i : DOMAIN KeptFile(k, i) = DOMAIN k
BY Zenon DEF KeptFile

LEMMA NothingCosted ==
    ASSUME NEW F
    PROVE  Costed(F, NothingKept)
<1>1. KeptOf(F, NothingKept) = {}
  BY DEF KeptOf, NothingKept, IsLarge
<1>2. KeepPerRoot \in Nat
  BY LargeDataAssumption
<1>3. QED
  BY <1>1, <1>2, SizeOfNone DEF Costed, Kept, NothingKept

LEMMA DirCosted ==
    ASSUME NEW L, Sized(L), NEW k, Costed(L, k), NEW d
    PROVE  Costed(L, KeepDir(L, k, d))
<1> DEFINE S == Under(L, d)
           more == [k EXCEPT !.dirs = @ \cup {d}, !.bytes = @ + Size(S)]
           big == [k EXCEPT !.big = @ \cup {d}]
<1>1. KeepPerRoot \in Nat /\ Size(S) \in Nat /\ Sized(S)
  BY LargeDataAssumption, SizeOfPart DEF Under
<1>2. ASSUME KeepsWhole(S, KeepPerRoot - k.bytes) PROVE Costed(L, more)
  <2>1. Size(S) <= KeepPerRoot - k.bytes /\ k.bytes \in 0 .. KeepPerRoot /\ k.markers \in Nat
        /\ Size(KeptOf(L, k)) <= k.bytes
    BY <1>2 DEF KeepsWhole, Costed
  <2>2. more = [dirs |-> k.dirs \cup {d}, big |-> k.big, files |-> k.files,
                bytes |-> k.bytes + Size(S), markers |-> k.markers]
    <3>1. more = [k EXCEPT !.dirs = k.dirs \cup {d}, !.bytes = k.bytes + Size(S)]
      OBVIOUS
    <3>2. Kept(k)
      BY DEF Costed
    <3> HIDE DEF S, more
    <3>3. QED
      BY <3>1, <3>2, FieldsOf
  <2>3. KeptOf(L, more) = KeptOf(L, k) \cup S
    <3>1. more.files = k.files /\ more.dirs = k.dirs \cup {d}
      BY <2>2
    <3> HIDE DEF more
    <3>2. QED
      BY <3>1 DEF KeptOf, IsLarge, Under
  <2>4. Sized(KeptOf(L, k)) /\ Size(KeptOf(L, k)) \in Nat
    BY SizeOfPart DEF KeptOf
  <2> HIDE DEF S
  <2>5. Size(KeptOf(L, k) \cup S) <= Size(KeptOf(L, k)) + Size(S)
        /\ Size(KeptOf(L, k) \cup S) \in Nat
    BY <1>1, <2>4, SizeOfTwo, SizeIsWeight
  <2>6. k.bytes + Size(S) \in 0 .. KeepPerRoot
    BY <1>1, <2>1
  <2>7. Size(KeptOf(L, more)) <= k.bytes + Size(S)
    <3>1. k.bytes \in Nat /\ Size(KeptOf(L, k)) <= k.bytes
      BY <2>1
    <3> HIDE DEF more
    <3>2. QED
      BY <1>1, <2>3, <2>4, <2>5, <3>1
  <2>8. QED
    BY <2>1, <2>2, <2>6, <2>7 DEF Costed, Kept
<1>3. Costed(L, big)
  <2>1. big = [dirs |-> k.dirs, big |-> k.big \cup {d}, files |-> k.files, bytes |-> k.bytes,
               markers |-> k.markers]
    BY DEF Costed, Kept
  <2>2. KeptOf(L, big) = KeptOf(L, k)
    BY <2>1 DEF KeptOf
  <2>3. QED
    BY <2>1, <2>2 DEF Costed, Kept
<1>4. KeepDir(L, k, d) \in {k, more, big}
      /\ (KeepDir(L, k, d) = more => KeepsWhole(S, KeepPerRoot - k.bytes) \/ more = k \/ more = big)
  BY DEF KeepDir
<1> HIDE DEF S, more, big
<1>5. QED
  BY <1>2, <1>3, <1>4

(* The plumbing is kept directory by directory: the recursive function is    *)
(* defined for every number of them.                                         *)
LEMMA DirsCosted ==
    ASSUME NEW L, Sized(L), NEW r
    PROVE  Costed(L, KeepDirs(L, r))
<1> DEFINE N == Len(Plumbing)
           After(k, n) == KeepDir(L, k, Append(r, Plumbing[n]))
           Keeps(g, m) == g = [n \in 0 .. m |-> IF n = 0 THEN NothingKept ELSE After(g[n - 1], n)]
           kept == CHOOSE g : Keeps(g, N)
           Undefined == {n \in 0 .. N : ~ \E g : Keeps(g, n)}
           Wrong == {n \in 0 .. N : ~ Costed(L, kept[n])}
<1>1. N \in Nat
  BY LargeDataAssumption, LenProperties
<1> HIDE DEF After
<1>3. Undefined = {}
  <2>1. SUFFICES ASSUME Undefined # {} PROVE FALSE
    OBVIOUS
  <2>2. PICK m \in Undefined : m # 0 => m - 1 \in 0 .. N /\ m - 1 \notin Undefined
    <3>1. Undefined \subseteq 0 .. N
      OBVIOUS
    <3> HIDE DEF Undefined, N
    <3>2. QED
      BY <1>1, <2>1, <3>1, SmallestNumber
  <2>3. m \in 0 .. N /\ ~ \E g : Keeps(g, m)
    OBVIOUS
  <2>4. m # 0
    <3>1. Keeps([n \in 0 .. 0 |-> NothingKept], 0)
      OBVIOUS
    <3>2. QED
      BY <2>3, <3>1
  <2>5. PICK g : Keeps(g, m - 1)
    BY <2>2, <2>4
  <2> DEFINE h == [n \in 0 .. m |-> IF n = m THEN After(g[m - 1], m) ELSE g[n]]
  <2>6. Keeps(h, m)
    <3>1. ASSUME NEW n \in 0 .. m
          PROVE  h[n] = IF n = 0 THEN NothingKept ELSE After(h[n - 1], n)
      <4>1. CASE n = m
        BY <1>1, <2>4, <4>1
      <4>2. CASE n # m
        <5>1. n \in 0 .. (m - 1) /\ (n # 0 => n - 1 \in 0 .. m /\ n - 1 # m)
          BY <4>2
        <5>2. g[n] = IF n = 0 THEN NothingKept ELSE After(g[n - 1], n)
          BY <2>5, <5>1
        <5>3. QED
          BY <4>2, <5>1, <5>2
      <4>3. QED
        BY <4>1, <4>2
    <3>2. QED
      BY <3>1
  <2>7. QED
    BY <2>3, <2>6
<1>4. Keeps(kept, N)
  <2>1. \E g : Keeps(g, N)
    BY <1>1, <1>3
  <2> HIDE DEF Keeps
  <2>2. QED
    BY <2>1
<1>5. KeepDirs(L, r) = kept[N]
  BY DEF KeepDirs, After
<1> HIDE DEF kept
<1>6. Wrong = {}
  <2>1. SUFFICES ASSUME Wrong # {} PROVE FALSE
    OBVIOUS
  <2>2. PICK m \in Wrong : m # 0 => m - 1 \in 0 .. N /\ m - 1 \notin Wrong
    <3>1. Wrong \subseteq 0 .. N
      OBVIOUS
    <3> HIDE DEF Wrong, N
    <3>2. QED
      BY <1>1, <2>1, <3>1, SmallestNumber
  <2>3. m \in 0 .. N /\ ~ Costed(L, kept[m])
    OBVIOUS
  <2>4. kept[m] = IF m = 0 THEN NothingKept ELSE After(kept[m - 1], m)
    BY <1>4
  <2>5. m # 0
    BY <2>3, <2>4, NothingCosted
  <2>6. Costed(L, kept[m - 1])
    BY <2>2, <2>5
  <2>7. QED
    BY <2>3, <2>4, <2>5, <2>6, DirCosted DEF After
<1>7. QED
  BY <1>1, <1>5, <1>6

(* One file more.                                                            *)
LEMMA FileCosted ==
    ASSUME NEW L, Sized(L), \A i, j \in L : i.path = j.path => i = j,
           NEW i \in L, NEW k, Costed(L, k), k.bytes + i.size <= KeepPerRoot
    PROVE  Costed(L, [k EXCEPT !.files = @ \cup {i.path}, !.bytes = @ + i.size])
<1> DEFINE more == [k EXCEPT !.files = @ \cup {i.path}, !.bytes = @ + i.size]
<1>1. /\ KeepPerRoot \in Nat /\ i.size \in Nat /\ Kept(k)
      /\ k.bytes \in Nat /\ k.markers \in Nat /\ Size(KeptOf(L, k)) <= k.bytes
  BY LargeDataAssumption DEF Sized, Costed
<1>2. more = [dirs |-> k.dirs, big |-> k.big, files |-> k.files \cup {i.path},
              bytes |-> k.bytes + i.size, markers |-> k.markers]
  <2>1. more = [k EXCEPT !.files = k.files \cup {i.path}, !.bytes = k.bytes + i.size]
    OBVIOUS
  <2> HIDE DEF more
  <2>2. QED
    BY <1>1, <2>1, FieldsOf
<1>3. KeptOf(L, more) = KeptOf(L, k) \cup {i}
  <2>1. more.files = k.files \cup {i.path} /\ more.dirs = k.dirs
    BY <1>2
  <2> HIDE DEF more
  <2>2. QED
    BY <2>1 DEF KeptOf
<1>4. Sized(KeptOf(L, k)) /\ Size(KeptOf(L, k)) \in Nat
  BY SizeOfPart DEF KeptOf
<1>5. Sized({i}) /\ Size({i}) = i.size
  BY <1>1, SizeOfOne
<1>6. /\ Size(KeptOf(L, k) \cup {i}) <= Size(KeptOf(L, k)) + Size({i})
      /\ Size(KeptOf(L, k) \cup {i}) \in Nat
  BY <1>4, <1>5, SizeOfTwo, SizeIsWeight
<1>7. Size(KeptOf(L, more)) <= k.bytes + i.size
  <2> HIDE DEF more
  <2>1. QED
    BY <1>1, <1>3, <1>4, <1>5, <1>6
<1>8. k.bytes + i.size \in 0 .. KeepPerRoot
  BY <1>1
<1> HIDE DEF more
<1>9. Costed(L, more)
  BY <1>1, <1>2, <1>7, <1>8 DEF Costed, Kept
<1>10. QED
  BY <1>9 DEF more

LEMMA MarkerCosted ==
    ASSUME NEW L, NEW k, Costed(L, k)
    PROVE  LET marked == [k EXCEPT !.markers = @ + 1]
           IN Costed(L, marked) /\ marked.bytes = k.bytes
<1> DEFINE marked == [k EXCEPT !.markers = @ + 1]
<1>1. marked = [dirs |-> k.dirs, big |-> k.big, files |-> k.files, bytes |-> k.bytes,
                markers |-> k.markers + 1]
  BY DEF Costed, Kept
<1>2. KeptOf(L, marked) = KeptOf(L, k)
  <2>1. marked.files = k.files /\ marked.dirs = k.dirs
    BY <1>1
  <2> HIDE DEF marked
  <2>2. QED
    BY <2>1 DEF KeptOf
<1>3. QED
  BY <1>1, <1>2 DEF Costed, Kept

LEMMA ListedFileCosted ==
    ASSUME NEW L, Sized(L), \A i, j \in L : i.path = j.path => i = j,
           NEW i \in L, NEW kept, NEW r \in DOMAIN kept, Costed(L, kept[r])
    PROVE  Costed(L, KeptFile(kept, i)[r])
<1> DEFINE k == kept[r]
           marked == [k EXCEPT !.markers = @ + 1]
           With(l) == [l EXCEPT !.files = @ \cup {i.path}, !.bytes = @ + i.size]
<1>1. Costed(L, marked) /\ Costed(L, k) /\ marked.bytes = k.bytes
  BY MarkerCosted
<1>2. k.bytes + i.size <= KeepPerRoot => Costed(L, With(k))
  BY FileCosted
<1>3. marked.bytes + i.size <= KeepPerRoot => Costed(L, With(marked))
  <2>1. Costed(L, marked)
    BY <1>1
  <2> HIDE DEF marked
  <2>2. QED
    BY <2>1, FileCosted
<1>4. k.bytes \in Nat /\ i.size \in Nat /\ KeepPerRoot \in Nat
  BY LargeDataAssumption DEF Costed, Sized
<1>5. \/ KeptFile(kept, i)[r] \in {k, marked}
      \/ ~ k.bytes + i.size > KeepPerRoot /\ KeptFile(kept, i)[r] = With(k)
      \/ ~ marked.bytes + i.size > KeepPerRoot /\ KeptFile(kept, i)[r] = With(marked)
  BY DEF KeptFile
<1> HIDE DEF k, marked, With
<1>6. QED
  BY <1>1, <1>2, <1>3, <1>4, <1>5

-----------------------------------------------------------------------------
(* The heaps of the sampler.                                               *)

Heap(H) ==
    /\ IsFiniteSet(H)
    /\ \A e \in H : e.item.mtime \in Int /\ e.seq \in Nat
    /\ \A e, f \in H : e.seq = f.seq => e = f

LEMMA NewerOrders ==
    ASSUME NEW H, Heap(H)
    PROVE  /\ \A e \in H : ~Newer(e, e)
           /\ \A e, f, g \in H : Newer(e, f) /\ Newer(f, g) => Newer(e, g)
           /\ \A e, f \in H : e # f => Newer(e, f) \/ Newer(f, e)
           /\ \A e, f \in H : Newer(e, f) => e.item.mtime >= f.item.mtime
BY DEF Heap, Newer

LEMMA HeapParts ==
    ASSUME NEW H, Heap(H), NEW G, G \subseteq H
    PROVE  Heap(G)
BY FS_Subset DEF Heap

(* A heap has an oldest and a newest entry.                                  *)
LEMMA OldestOfHeap ==
    ASSUME NEW H, Heap(H), H # {}
    PROVE  Oldest(H) \in H /\ \A f \in H \ {Oldest(H)} : Newer(f, Oldest(H))
<1> DEFINE Below == [e \in H |-> {f \in H : Newer(e, f)}]
<1>1. Below \in [H -> SUBSET H] /\ IsFiniteSet(H)
  BY DEF Heap
<1>2. PICK e \in H : \A f \in H : Below[f] \subseteq Below[e] => Below[f] = Below[e]
  <2> HIDE DEF Below
  <2>1. QED
    BY <1>1, SmallestValue
<1>3. Below[e] = {}
  <2>1. SUFFICES ASSUME NEW f \in H, Newer(e, f) PROVE FALSE
    OBVIOUS
  <2>2. Below[f] \subseteq Below[e]
    BY <2>1, NewerOrders
  <2>3. f \in Below[e] /\ f \notin Below[f]
    BY <2>1, NewerOrders
  <2>4. QED
    BY <1>2, <2>2, <2>3
<1>4. \A f \in H \ {e} : Newer(f, e)
  BY <1>3, NewerOrders
<1>5. QED
  BY <1>2, <1>4 DEF Oldest

LEMMA NewestOfHeap ==
    ASSUME NEW H, Heap(H), H # {}
    PROVE  \E e \in H : \A f \in H \ {e} : Newer(e, f)
<1> DEFINE Above == [e \in H |-> {f \in H : Newer(f, e)}]
<1>1. Above \in [H -> SUBSET H] /\ IsFiniteSet(H)
  BY DEF Heap
<1>2. PICK e \in H : \A f \in H : Above[f] \subseteq Above[e] => Above[f] = Above[e]
  <2> HIDE DEF Above
  <2>1. QED
    BY <1>1, SmallestValue
<1>3. Above[e] = {}
  <2>1. SUFFICES ASSUME NEW f \in H, Newer(f, e) PROVE FALSE
    OBVIOUS
  <2>2. Above[f] \subseteq Above[e]
    BY <2>1, NewerOrders
  <2>3. f \in Above[e] /\ f \notin Above[f]
    BY <2>1, NewerOrders
  <2>4. QED
    BY <1>2, <2>2, <2>3
<1>4. QED
  BY <1>2, <1>3, NewerOrders

(* A pushed entry takes the place of the oldest one, if there is no other.   *)
LEMMA PushedHeap ==
    ASSUME NEW H, Heap(H), Cardinality(H) <= SampleSize,
           NEW e, e.item.mtime \in Int, e.seq \in Nat, \A f \in H : f.seq < e.seq
    PROVE  /\ Heap(Pushed(H, e)) /\ Cardinality(Pushed(H, e)) \in 1 .. SampleSize
           /\ Pushed(H, e) \subseteq H \cup {e}
           /\ \A d \in (H \cup {e}) \ Pushed(H, e) :
                 /\ Cardinality(Pushed(H, e)) = SampleSize
                 /\ \A f \in Pushed(H, e) : f.item.mtime >= d.item.mtime
           /\ Cardinality(H) = SampleSize =>
                 /\ Cardinality(Pushed(H, e)) = SampleSize
                 /\ \A f \in Pushed(H, e) : \E d \in H : f.item.mtime >= d.item.mtime
<1>1. SampleSize \in Nat \ {0} /\ IsFiniteSet(H) /\ Cardinality(H) \in Nat /\ e \notin H
  BY SamplerAssumption, FS_CardinalityType DEF Heap
<1>2. Heap(H \cup {e}) /\ IsFiniteSet(H \cup {e}) /\ Cardinality(H \cup {e}) = Cardinality(H) + 1
  <2>1. IsFiniteSet(H \cup {e}) /\ Cardinality(H \cup {e}) = Cardinality(H) + 1
    BY <1>1, FS_AddElement
  <2>2. QED
    BY <2>1 DEF Heap
<1>3. CASE Cardinality(H) < SampleSize
  <2>1. Pushed(H, e) = H \cup {e}
    BY <1>3 DEF Pushed
  <2>2. QED
    BY <1>1, <1>2, <1>3, <2>1
<1>4. CASE Cardinality(H) = SampleSize
  <2> DEFINE o == Oldest(H)
  <2>1. H # {}
    BY <1>1, <1>4, FS_EmptySet
  <2>2. o \in H /\ \A f \in H \ {o} : Newer(f, o)
    BY <2>1, OldestOfHeap
  <2>3. \A f \in H : f.item.mtime >= o.item.mtime
    BY <2>2, NewerOrders DEF Heap
  <2> HIDE DEF o
  <2>4. CASE Newer(e, o)
    <3>1. Pushed(H, e) = (H \ {o}) \cup {e}
      BY <1>1, <1>4, <2>4 DEF Pushed, o
    <3>2. Pushed(H, e) = (H \cup {e}) \ {o}
      BY <1>1, <2>2, <3>1
    <3>3. Cardinality((H \cup {e}) \ {o}) = Cardinality(H \cup {e}) - 1
      BY <1>2, <2>2, FS_RemoveElement
    <3>4. Cardinality(Pushed(H, e)) = SampleSize
      BY <1>1, <1>2, <1>4, <3>2, <3>3
    <3>5. Heap(Pushed(H, e))
      BY <1>2, <3>2, HeapParts
    <3>6. e.item.mtime >= o.item.mtime
      BY <1>2, <2>2, <2>4, NewerOrders
    <3>7. \A f \in Pushed(H, e) : f.item.mtime >= o.item.mtime
      BY <2>3, <3>1, <3>6
    <3>8. (H \cup {e}) \ Pushed(H, e) = {o}
      BY <2>2, <3>2
    <3> DEFINE P == Pushed(H, e)
    <3>9. P \subseteq H \cup {e} /\ Cardinality(P) = SampleSize /\ Cardinality(P) \in 1 .. SampleSize
      BY <1>1, <3>1, <3>4
    <3>10. \A d \in (H \cup {e}) \ P : \A f \in P : f.item.mtime >= d.item.mtime
      BY <3>7, <3>8
    <3>11. \A f \in P : \E d \in H : f.item.mtime >= d.item.mtime
      BY <2>2, <3>7
    <3> HIDE DEF P
    <3>12. QED
      BY <3>5, <3>9, <3>10, <3>11 DEF P
  <2>5. CASE ~Newer(e, o)
    <3>1. Pushed(H, e) = H
      BY <1>1, <1>4, <2>5 DEF Pushed, o
    <3>2. e.item.mtime <= o.item.mtime
      <4>1. e \in H \cup {e} /\ o \in H \cup {e} /\ e # o
        BY <1>1, <2>2
      <4>2. Newer(o, e)
        BY <1>2, <2>5, <4>1, NewerOrders
      <4>3. QED
        BY <4>2, <2>2 DEF Newer, Heap
    <3>3. \A f \in H : f.item.mtime >= e.item.mtime
      BY <2>2, <2>3, <3>2 DEF Heap
    <3>4. (H \cup {e}) \ Pushed(H, e) = {e}
      BY <1>1, <3>1
    <3>5. \A f \in H : f.item.mtime >= f.item.mtime
      BY DEF Heap
    <3>6. QED
      BY <1>1, <1>4, <3>1, <3>3, <3>4, <3>5
  <2>6. QED
    BY <2>4, <2>5
<1>5. QED
  BY <1>1, <1>3, <1>4

LEMMA MaxIs ==
    ASSUME NEW S, NEW m \in S, \A x \in S : x \in Int /\ x <= m
    PROVE  Max(S) = m
<1>1. \A y \in S : m >= y
  OBVIOUS
<1>2. \A x \in S : (\A y \in S : x >= y) => x = m
  OBVIOUS
<1>3. QED
  BY <1>1, <1>2 DEF Max

LEMMA MinOfTwo ==
    ASSUME NEW a \in Int, NEW b \in Int
    PROVE  Min({a, b}) = IF a <= b THEN a ELSE b
BY DEF Min

LEMMA MaxOfTwo ==
    ASSUME NEW a \in Int, NEW b \in Int
    PROVE  Max({a, b}) \in {a, b} /\ Max({a, b}) >= a /\ Max({a, b}) >= b
<1>1. \E x \in {a, b} : \A y \in {a, b} : x >= y
  <2>1. CASE a >= b
    BY <2>1
  <2>2. CASE b >= a
    BY <2>2
  <2>3. QED
    BY <2>1, <2>2
<1>2. QED
  BY <1>1 DEF Max

ItemsOf(S) == {o.item : o \in S}

(* Entries of different files are as many as their files.                    *)
LEMMA ItemsCounted ==
    ASSUME NEW S, \A e, f \in S : e.item = f.item => e = f
    PROVE  /\ IsFiniteSet(ItemsOf(S)) => IsFiniteSet(S)
           /\ IsFiniteSet(S) => IsFiniteSet(ItemsOf(S)) /\ Cardinality(ItemsOf(S)) = Cardinality(S)
<1> DEFINE f == [e \in S |-> e.item]
<1>1. f \in Injection(S, ItemsOf(S)) /\ f \in Surjection(S, ItemsOf(S))
  BY DEF Injection, IsInjective, Surjection, ItemsOf
<1> HIDE DEF f
<1>2. QED
  BY <1>1, FS_Injection, FS_Surjection

(* The heaps of the groups hold the newest of the objects O of a root.       *)
Covers(r, O, groups) ==
    /\ \A g \in DOMAIN groups :
         /\ Heap(groups[g]) /\ Cardinality(groups[g]) \in 1 .. SampleSize
         /\ \A e \in groups[g] : e.item \in O /\ Group(Rel(r, e.item.path)) = g
         /\ \A e, f \in groups[g] : e.item = f.item => e = f
    /\ \A i \in O :
         /\ Group(Rel(r, i.path)) \in DOMAIN groups
         /\ LET heap == groups[Group(Rel(r, i.path))]
            IN \/ \E e \in heap : e.item = i
               \/ Cardinality(heap) = SampleSize /\ \A e \in heap : e.item.mtime >= i.mtime

(* An object that is left out has its group's share of the sample at the     *)
(* least before it.                                                          *)
LEMMA LeftOutRound ==
    ASSUME NEW H, Heap(H), NEW S, H \ S # {}
    PROVE  \E f \in H \ S : Round(H, f) \in Nat /\ Round(H, f) <= Cardinality(H \cap S)
<1>1. PICK f \in H \ S : \A d \in (H \ S) \ {f} : Newer(f, d)
  <2>1. Heap(H \ S)
    BY HeapParts
  <2>2. QED
    BY <2>1, NewestOfHeap
<1> DEFINE before == {d \in H : Newer(d, f)}
<1>2. before \subseteq H \cap S
  BY <1>1, NewerOrders
<1>3. IsFiniteSet(H \cap S) /\ IsFiniteSet(before)
  BY FS_Subset DEF Heap
<1> HIDE DEF before
<1>4. Cardinality(before) \in Nat /\ Cardinality(before) <= Cardinality(H \cap S)
  BY <1>2, <1>3, FS_Subset, FS_CardinalityType
<1>5. Round(H, f) = Cardinality(before)
  BY DEF Round, before
<1>6. QED
  BY <1>4, <1>5

(* The oldest that is chosen has the rest of its group's share before it.    *)
LEMMA ChosenRound ==
    ASSUME NEW H, Heap(H), NEW S, H \cap S # {}
    PROVE  \E e \in H \cap S : Round(H, e) \in Nat /\ Round(H, e) >= Cardinality(H \cap S) - 1
<1> DEFINE chosen == H \cap S
           e == Oldest(chosen)
           before == {d \in H : Newer(d, e)}
<1>1. e \in chosen /\ \A d \in chosen \ {e} : Newer(d, e)
  <2>1. Heap(chosen)
    BY HeapParts
  <2>2. QED
    BY <2>1, OldestOfHeap
<1>2. chosen \ {e} \subseteq before
  BY <1>1
<1>3. IsFiniteSet(chosen) /\ IsFiniteSet(before)
  BY FS_Subset DEF Heap
<1>4. Round(H, e) = Cardinality(before)
  BY DEF Round
<1> HIDE DEF chosen, e, before
<1>5. Cardinality(chosen \ {e}) = Cardinality(chosen) - 1 /\ Cardinality(chosen \ {e}) \in Nat
      /\ Cardinality(chosen) \in Nat
  BY <1>1, <1>3, FS_RemoveElement, FS_CardinalityType
<1>6. Cardinality(before) \in Nat /\ Cardinality(chosen \ {e}) <= Cardinality(before)
  BY <1>2, <1>3, FS_Subset, FS_CardinalityType
<1>7. e \in H \cap S /\ Round(H, e) \in Nat /\ Round(H, e) >= Cardinality(H \cap S) - 1
  BY <1>1, <1>4, <1>5, <1>6 DEF chosen
<1>8. QED
  BY <1>7

(* In a group the newest are chosen.                                         *)
LEMMA NewestChosen ==
    ASSUME NEW H, Heap(H), NEW e \in H, NEW f \in H, ~Earlier(H, f, H, e)
    PROVE  f.item.mtime <= e.item.mtime
<1>1. ~Newer(f, e)
  <2>1. SUFFICES ASSUME Newer(f, e) PROVE FALSE
    OBVIOUS
  <2> DEFINE a == {d \in H : Newer(d, f)}
             b == {d \in H : Newer(d, e)}
  <2>2. a \subseteq b /\ f \in b /\ f \notin a
    BY <2>1, NewerOrders
  <2>3. IsFiniteSet(b)
    BY FS_Subset DEF Heap
  <2>4. Round(H, f) = Cardinality(a) /\ Round(H, e) = Cardinality(b)
    BY DEF Round
  <2> HIDE DEF a, b
  <2>5. IsFiniteSet(a) /\ Cardinality(a) <= Cardinality(b) /\ Cardinality(a) # Cardinality(b)
    BY <2>2, <2>3, FS_Subset
  <2>6. Cardinality(a) \in Nat /\ Cardinality(b) \in Nat
    BY <2>3, <2>5, FS_CardinalityType
  <2>7. Round(H, f) < Round(H, e)
    BY <2>4, <2>5, <2>6
  <2>8. QED
    BY <2>7 DEF Earlier
<1>2. QED
  BY <1>1 DEF Newer, Heap

(* The newest of a group is in its heap.                                     *)
LEMMA LeadIsNewest ==
    ASSUME NEW H, Heap(H), H # {}, NEW T, ItemsOf(H) \subseteq T,
           \A i \in T : i.mtime \in Int /\ (i \in ItemsOf(H) \/ \A e \in H : e.item.mtime >= i.mtime)
    PROVE  Lead(H) = Newest(T) /\ Lead(H) \in Int
<1>1. PICK n \in H : \A f \in H \ {n} : Newer(n, f)
  BY NewestOfHeap
<1>2. n.item.mtime \in Int /\ \A f \in H : f.item.mtime \in Int /\ f.item.mtime <= n.item.mtime
  BY <1>1 DEF Newer, Heap
<1>3. Lead(H) = n.item.mtime
  <2> DEFINE times == {e.item.mtime : e \in H}
  <2>1. n.item.mtime \in times /\ \A x \in times : x \in Int /\ x <= n.item.mtime
    BY <1>2
  <2>2. Lead(H) = Max(times)
    BY DEF Lead
  <2> HIDE DEF times
  <2>3. QED
    BY <2>1, <2>2, MaxIs
<1>4. Newest(T) = n.item.mtime
  <2> DEFINE times == {i.mtime : i \in T}
  <2>1. \A i \in T : i.mtime <= n.item.mtime
    BY <1>2 DEF ItemsOf
  <2>2. n.item \in T
    BY DEF ItemsOf
  <2>3. n.item.mtime \in times /\ \A x \in times : x \in Int /\ x <= n.item.mtime
    BY <2>1, <2>2
  <2>4. Newest(T) = Max(times)
    BY DEF Newest
  <2> HIDE DEF times
  <2>5. QED
    BY <2>3, <2>4, MaxIs
<1>5. QED
  BY <1>2, <1>3, <1>4

Entries(groups) == UNION {groups[g] : g \in DOMAIN groups}

(* Entries of the heaps of a root stand for different objects.               *)
LEMMA EntriesDiffer ==
    ASSUME NEW r, NEW O, IsFiniteSet(O), NEW groups, Covers(r, O, groups)
    PROVE  /\ \A e, f \in Entries(groups) : e.item = f.item => e = f
           /\ \A g \in DOMAIN groups : \A e \in Entries(groups) :
                 e \in groups[g] <=> Group(Rel(r, e.item.path)) = g
           /\ ItemsOf(Entries(groups)) \subseteq O /\ IsFiniteSet(Entries(groups))
           /\ Cardinality(Entries(groups)) \in Nat /\ Cardinality(Entries(groups)) <= Cardinality(O)
<1> DEFINE all == Entries(groups)
<1>1. \A e \in all : Group(Rel(r, e.item.path)) \in DOMAIN groups /\ e \in groups[Group(Rel(r, e.item.path))]
                     /\ e.item \in O
  BY DEF Covers, Entries
<1>2. \A e, f \in all : e.item = f.item => e = f
  BY <1>1 DEF Covers
<1>3. \A g \in DOMAIN groups : \A e \in all : e \in groups[g] <=> Group(Rel(r, e.item.path)) = g
  BY <1>1 DEF Covers, Entries
<1>4. ItemsOf(all) \subseteq O
  BY <1>1 DEF ItemsOf
<1>5. IsFiniteSet(ItemsOf(all)) /\ Cardinality(ItemsOf(all)) <= Cardinality(O)
  BY <1>4, FS_Subset
<1>6. IsFiniteSet(all) /\ Cardinality(ItemsOf(all)) = Cardinality(all)
  BY <1>2, <1>5, ItemsCounted
<1>7. QED
  BY <1>2, <1>3, <1>4, <1>5, <1>6, FS_CardinalityType

(* What is merged of the heaps is well chosen of the objects.                *)
LEMMA ChosenWell ==
    ASSUME NEW r, NEW O, IsFiniteSet(O), \A i \in O : i.mtime \in Int,
           NEW groups, Covers(r, O, groups), NEW S \in Merges(groups)
    PROVE  /\ WellChosen(r, O, ItemsOf(S))
           /\ S \subseteq Entries(groups)
           /\ IsFiniteSet(S) /\ Cardinality(S) <= SampleSize
<1> DEFINE all == Entries(groups)
           taken == ItemsOf(S)
           InGroup(T, g) == {i \in T : Group(Rel(r, i.path)) = g}
           Share(g) == Cardinality(InGroup(taken, g))
<1>1. /\ S \subseteq all /\ Cardinality(S) = Min({SampleSize, Cardinality(all)})
      /\ \A g, h \in DOMAIN groups : \A e \in groups[g] \cap S, f \in groups[h] \ S :
            ~Earlier(groups[h], f, groups[g], e)
  BY DEF Merges, Entries
<1>2. /\ \A e, f \in all : e.item = f.item => e = f
      /\ \A g \in DOMAIN groups : \A e \in all :
            e \in groups[g] <=> Group(Rel(r, e.item.path)) = g
      /\ ItemsOf(all) \subseteq O /\ IsFiniteSet(all)
      /\ Cardinality(all) \in Nat /\ Cardinality(all) <= Cardinality(O) /\ Cardinality(O) \in Nat
  BY EntriesDiffer, FS_CardinalityType
<1>3. SampleSize \in Nat \ {0}
  BY SamplerAssumption
<1>4. \A g \in DOMAIN groups : groups[g] \subseteq all
  BY DEF Entries
<1> HIDE DEF all
<1>5. IsFiniteSet(S) /\ Cardinality(S) \in Nat /\ Cardinality(S) <= SampleSize /\ Cardinality(taken) = Cardinality(S)
      /\ IsFiniteSet(taken) /\ Cardinality(S) <= Cardinality(all)
  <2>1. IsFiniteSet(S) /\ Cardinality(S) \in Nat
    BY <1>1, <1>2, FS_Subset, FS_CardinalityType
  <2>2. IsFiniteSet(taken) /\ Cardinality(taken) = Cardinality(S)
    BY <1>1, <1>2, <2>1, ItemsCounted
  <2>3. QED
    BY <1>1, <1>2, <1>3, <2>1, <2>2, MinOfTwo
<1>6. taken \subseteq O
  BY <1>1, <1>2 DEF ItemsOf
<1>7. ASSUME NEW i \in O, i \notin ItemsOf(all)
      PROVE  /\ Group(Rel(r, i.path)) \in DOMAIN groups
             /\ Cardinality(groups[Group(Rel(r, i.path))]) = SampleSize
             /\ \A e \in groups[Group(Rel(r, i.path))] : e.item.mtime >= i.mtime
  BY <1>4, <1>7 DEF Covers, ItemsOf
<1>8. Cardinality(taken) = Min({SampleSize, Cardinality(O)})
  <2>1. CASE ItemsOf(all) = O
    <3>1. Cardinality(O) = Cardinality(all)
      BY <1>2, <2>1, ItemsCounted
    <3>2. QED
      BY <1>1, <1>5, <3>1
  <2>2. CASE ItemsOf(all) # O
    <3>1. PICK i \in O : i \notin ItemsOf(all)
      BY <1>2, <2>2
    <3>2. Cardinality(all) >= SampleSize
      BY <1>2, <1>3, <1>4, <1>7, <3>1, FS_Subset
    <3>3. QED
      BY <1>1, <1>2, <1>3, <1>5, <3>2, MinOfTwo
  <2>3. QED
    BY <2>1, <2>2
<1>9. ASSUME NEW g \in DOMAIN groups
      PROVE  /\ Share(g) = Cardinality(groups[g] \cap S) /\ Share(g) \in Nat /\ Share(g) <= SampleSize
             /\ Heap(groups[g]) /\ groups[g] # {}
             /\ Lead(groups[g]) = Newest(InGroup(O, g)) /\ Lead(groups[g]) \in Int
  <2> DEFINE H == groups[g]
             C == H \cap S
  <2>1. Heap(H) /\ H # {}
    <3>1. Heap(H) /\ Cardinality(H) \in 1 .. SampleSize
      BY DEF Covers
    <3>2. QED
      BY <3>1, FS_EmptySet
  <2>2. InGroup(taken, g) = ItemsOf(C)
    BY <1>1, <1>2 DEF ItemsOf
  <2>3. C \subseteq S /\ C \subseteq all
    BY <1>1
  <2>4. Cardinality(ItemsOf(C)) = Cardinality(C) /\ Cardinality(C) \in Nat /\ Cardinality(C) <= SampleSize
    <3> HIDE DEF C
    <3>1. IsFiniteSet(C) /\ Cardinality(C) <= Cardinality(S) /\ Cardinality(C) \in Nat
      BY <1>5, <2>3, FS_Subset, FS_CardinalityType
    <3>2. Cardinality(ItemsOf(C)) = Cardinality(C)
      BY <1>2, <2>3, <3>1, ItemsCounted
    <3>3. QED
      BY <1>3, <1>5, <3>1, <3>2
  <2>5. /\ ItemsOf(H) \subseteq InGroup(O, g)
        /\ \A i \in InGroup(O, g) : i.mtime \in Int /\ (i \in ItemsOf(H) \/ \A e \in H : e.item.mtime >= i.mtime)
    BY DEF Covers, ItemsOf
  <2>6. Lead(H) = Newest(InGroup(O, g)) /\ Lead(H) \in Int
    <3> DEFINE T == InGroup(O, g)
    <3> HIDE DEF T, H
    <3>1. QED
      BY <2>1, <2>5, LeadIsNewest DEF T
  <2>7. QED
    BY <2>1, <2>2, <2>4, <2>6
<1>10. ASSUME NEW t \in taken, NEW u \in O \ taken
       PROVE  LET g == Group(Rel(r, t.path))
                  h == Group(Rel(r, u.path))
              IN /\ g = h => u.mtime <= t.mtime
                 /\ Share(g) <= Share(h) + 1
                 /\ Share(g) = Share(h) + 1 => Newest(InGroup(O, g)) >= Newest(InGroup(O, h))
  <2> DEFINE g == Group(Rel(r, t.path))
             h == Group(Rel(r, u.path))
             G == groups[g]
             H == groups[h]
  <2>1. PICK e \in S : e.item = t
    BY DEF ItemsOf
  <2>2. g \in DOMAIN groups /\ h \in DOMAIN groups /\ e \in G
    BY <1>1, <1>2, <1>6, <2>1 DEF Covers
  <2>3. /\ Share(g) = Cardinality(G \cap S) /\ Share(g) \in Nat /\ Share(g) <= SampleSize /\ Heap(G)
        /\ Lead(G) = Newest(InGroup(O, g)) /\ Lead(G) \in Int
        /\ Share(h) = Cardinality(H \cap S) /\ Share(h) \in Nat /\ Share(h) <= SampleSize /\ Heap(H)
        /\ Lead(H) = Newest(InGroup(O, h)) /\ Lead(H) \in Int
    BY <1>9, <2>2
  <2>4. g = h => u.mtime <= t.mtime
    <3>1. SUFFICES ASSUME g = h PROVE u.mtime <= t.mtime
      OBVIOUS
    <3>2. CASE \E f \in H : f.item = u
      <4>1. PICK f \in H : f.item = u
        BY <3>2
      <4>2. f \notin S
        BY <4>1 DEF ItemsOf
      <4>3. e \in H /\ ~Earlier(H, f, H, e)
        BY <1>1, <2>1, <2>2, <3>1, <4>1, <4>2
      <4>4. f.item.mtime <= e.item.mtime
        BY <2>3, <4>1, <4>3, NewestChosen
      <4>5. QED
        BY <2>1, <4>1, <4>4
    <3>3. CASE ~ \E f \in H : f.item = u
      BY <2>1, <2>2, <3>1, <3>3 DEF Covers
    <3>4. QED
      BY <3>2, <3>3
  <2>5. CASE H \subseteq S
    <3>1. ~ \E f \in H : f.item = u
      BY <2>5 DEF ItemsOf
    <3>2. Cardinality(H) = SampleSize
      BY <2>2, <3>1 DEF Covers
    <3>3. H \cap S = H
      BY <2>5
    <3>4. Share(h) = SampleSize
      BY <2>3, <3>2, <3>3
    <3> HIDE DEF Share, InGroup, G, H
    <3>5. Share(g) <= Share(h) + 1 /\ Share(g) # Share(h) + 1
      BY <1>3, <2>3, <3>4
    <3> HIDE DEF g, h
    <3>6. QED
      BY <2>4, <3>5 DEF g, h
  <2>6. CASE ~(H \subseteq S)
    <3>1. PICK d \in G \cap S : Round(G, d) \in Nat /\ Round(G, d) >= Share(g) - 1
      <4> HIDE DEF G
      <4>1. G \cap S # {}
        BY <2>1, <2>2
      <4>2. QED
        BY <2>3, <4>1, ChosenRound
    <3>2. PICK v \in H \ S : Round(H, v) \in Nat /\ Round(H, v) <= Share(h)
      <4> HIDE DEF H
      <4>1. H \ S # {}
        BY <2>6
      <4>2. QED
        BY <2>3, <4>1, LeftOutRound
    <3>3. ~Earlier(H, v, G, d)
      BY <1>1, <2>2, <3>1, <3>2
    <3> HIDE DEF Share, InGroup, g, h, G, H
    <3>4. ~(Round(H, v) < Round(G, d)) /\ ~(Round(H, v) = Round(G, d) /\ Lead(H) > Lead(G))
      BY <3>3 DEF Earlier
    <3>5. Share(g) <= Share(h) + 1 /\ (Share(g) = Share(h) + 1 => Lead(G) >= Lead(H))
      BY <2>3, <3>1, <3>2, <3>4
    <3>6. QED
      BY <2>3, <2>4, <3>5 DEF g, h
  <2>7. QED
    BY <2>5, <2>6
<1>11. WellChosen(r, O, taken)
  <2> HIDE DEF taken
  <2>1. QED
    BY <1>6, <1>8, <1>10 DEF WellChosen
<1>12. QED
  BY <1>1, <1>5, <1>11 DEF all

-----------------------------------------------------------------------------
(* The heads of repositories.                                                *)

(* Path p is the HEAD of the repository at place q of the root r.            *)
HeadAt(r, p, q) ==
    /\ q \in Seq(STRING) /\ Len(p) = Len(r) + Len(q) + 2
    /\ \A k \in 1 .. Len(r) : p[k] = r[k]
    /\ \A k \in 1 .. Len(q) : p[Len(r) + k] = q[k]
    /\ p[Len(p) - 1] = ".git" /\ p[Len(p)] = "HEAD"

(* A path that is recognised as a HEAD has the place that its name says.     *)
LEMMA HeadPath ==
    ASSUME NEW r \in Seq(STRING), NEW p \in Seq(STRING), IsPrefix(r, p), IsHead(Rel(r, p))
    PROVE  HeadAt(r, p, Repo(Rel(r, p)))
<1> DEFINE m == Len(r)
           n == Len(p)
           rel == Rel(r, p)
<1>1. m \in Nat /\ n \in Nat /\ m <= n
  BY LenProperties DEF IsPrefix
<1>2. \A k \in 1 .. n : p[k] \in STRING
  BY ElementOfSeq
<1>3. \A k \in 1 .. m : p[k] = r[k]
  <2>1. SubSeq(r, 1, m) = SubSeq(p, 1, m)
    BY DEF IsPrefix
  <2>2. /\ \A k \in 1 .. m : r[k] \in STRING
        /\ \A k \in 1 .. m : p[k] \in STRING
    BY <1>1, <1>2, ElementOfSeq
  <2> HIDE DEF m
  <2>3. \A k \in 1 .. m - 1 + 1 : SubSeq(r, 1, m)[k] = r[1 + k - 1] /\ SubSeq(p, 1, m)[k] = p[1 + k - 1]
    <3>1. \A k \in 1 .. m - 1 + 1 : SubSeq(r, 1, m)[k] = r[1 + k - 1]
      BY <1>1, <2>2, SubSeqProperties
    <3>2. \A k \in 1 .. m - 1 + 1 : SubSeq(p, 1, m)[k] = p[1 + k - 1]
      BY <1>1, <2>2, SubSeqProperties
    <3>3. QED
      BY <3>1, <3>2
  <2>4. QED
    BY <1>1, <2>1, <2>3
<1>4. /\ rel \in Seq(STRING) /\ Len(rel) = n - m
      /\ \A k \in 1 .. n - m : rel[k] = p[m + k]
  <2>1. \A k \in m + 1 .. n : p[k] \in STRING
    BY <1>1, <1>2
  <2>2. rel = SubSeq(p, m + 1, n)
    BY DEF Rel
  <2> HIDE DEF m, n, rel
  <2>3. /\ rel \in Seq(STRING) /\ Len(rel) = IF m + 1 <= n THEN n - (m + 1) + 1 ELSE 0
        /\ \A k \in 1 .. n - (m + 1) + 1 : rel[k] = p[(m + 1) + k - 1]
    <3>1. m + 1 \in Int /\ n \in Int
      BY <1>1
    <3>2. QED
      BY <2>1, <2>2, <3>1, SubSeqProperties
  <2>4. QED
    BY <1>1, <2>3
<1>5. n - m >= 2 /\ rel[n - m] = "HEAD" /\ rel[n - m - 1] = ".git"
  BY <1>4 DEF IsHead, Last
<1>6. /\ Repo(rel) \in Seq(STRING) /\ Len(Repo(rel)) = n - m - 2
      /\ \A k \in 1 .. n - m - 2 : Repo(rel)[k] = rel[k]
  <2>1. \A k \in 1 .. n - m - 2 : rel[k] \in STRING
    BY <1>1, <1>4, ElementOfSeq
  <2>2. Repo(rel) = SubSeq(rel, 1, n - m - 2)
    BY <1>4 DEF Repo
  <2> HIDE DEF m, n, rel
  <2> DEFINE l == n - m - 2
  <2>3. l \in Nat
    BY <1>1, <1>5
  <2> HIDE DEF l
  <2>4. /\ SubSeq(rel, 1, l) \in Seq(STRING) /\ Len(SubSeq(rel, 1, l)) = IF 1 <= l THEN l - 1 + 1 ELSE 0
        /\ \A k \in 1 .. l - 1 + 1 : SubSeq(rel, 1, l)[k] = rel[1 + k - 1]
    <3>1. \A k \in 1 .. l : rel[k] \in STRING
      BY <2>1 DEF l
    <3>2. QED
      BY <2>3, <3>1, SubSeqProperties
  <2>5. SubSeq(rel, 1, l) \in Seq(STRING) /\ Len(SubSeq(rel, 1, l)) = l
        /\ \A k \in 1 .. l : SubSeq(rel, 1, l)[k] = rel[k]
    BY <2>3, <2>4
  <2>6. QED
    BY <2>2, <2>5 DEF l
<1> DEFINE q == Repo(rel)
<1>7. \A k \in 1 .. Len(q) : p[m + k] = q[k]
  BY <1>1, <1>4, <1>5, <1>6
<1>8. n = m + Len(q) + 2 /\ p[n - 1] = ".git" /\ p[n] = "HEAD"
  <2>1. n - m \in 1 .. n - m /\ n - m - 1 \in 1 .. n - m /\ m + (n - m) = n /\ m + (n - m - 1) = n - 1
    BY <1>1, <1>5
  <2>2. rel[n - m] = p[n] /\ rel[n - m - 1] = p[n - 1]
    BY <1>4, <2>1
  <2>3. Len(q) = n - m - 2
    BY <1>6
  <2> HIDE DEF m, n, rel, q
  <2>4. QED
    BY <1>1, <1>5, <2>2, <2>3
<1>9. q \in Seq(STRING)
  BY <1>6
<1> HIDE DEF q
<1>10. HeadAt(r, p, q)
  BY <1>3, <1>7, <1>8, <1>9 DEF HeadAt
<1>11. QED
  BY <1>10 DEF q

(* A repository has one head.                                                *)
LEMMA SameHead ==
    ASSUME NEW r, NEW q, NEW p \in Seq(STRING), NEW s \in Seq(STRING),
           r \in Seq(STRING), HeadAt(r, p, q), HeadAt(r, s, q)
    PROVE  p = s
<1>1. Len(r) \in Nat /\ Len(q) \in Nat
  BY LenProperties DEF HeadAt
<1>2. Len(p) = Len(r) + Len(q) + 2 /\ Len(s) = Len(r) + Len(q) + 2
  BY DEF HeadAt
<1>3. ASSUME NEW k \in 1 .. Len(p) PROVE p[k] = s[k]
  <2>1. CASE k \in 1 .. Len(r)
    BY <2>1 DEF HeadAt
  <2>2. CASE k \in Len(r) + 1 .. Len(r) + Len(q)
    <3>1. k - Len(r) \in 1 .. Len(q) /\ Len(r) + (k - Len(r)) = k
      BY <1>1, <2>2
    <3>2. p[k] = q[k - Len(r)] /\ s[k] = q[k - Len(r)]
      BY <3>1 DEF HeadAt
    <3>3. QED
      BY <3>2
  <2>3. CASE k = Len(p) - 1 \/ k = Len(p)
    BY <1>2, <2>3 DEF HeadAt
  <2>4. QED
    BY <1>1, <1>2, <2>1, <2>2, <2>3
<1>4. QED
  BY <1>2, <1>3, SeqEqual

(* No two repositories of a root have the same place.                        *)
LEMMA PlaceUnique ==
    ASSUME NEW r \in Seq(STRING), NEW i, NEW j, i.path \in Seq(STRING), j.path \in Seq(STRING),
           IsPrefix(r, i.path), IsPrefix(r, j.path), IsHead(Rel(r, i.path)), IsHead(Rel(r, j.path)),
           Place(r, i) = Place(r, j)
    PROVE  i.path = j.path
<1> DEFINE p == i.path
           s == j.path
           q == Repo(Rel(r, i.path))
<1>1. q = Repo(Rel(r, j.path))
  BY DEF Place
<1>2. HeadAt(r, p, q)
  BY HeadPath
<1>3. HeadAt(r, s, q)
  <2>1. HeadAt(r, s, Repo(Rel(r, s)))
    BY HeadPath
  <2>2. QED
    BY <1>1, <2>1
<1>4. p \in Seq(STRING) /\ s \in Seq(STRING)
  OBVIOUS
<1> HIDE DEF p, s, q
<1>5. p = s
  BY <1>2, <1>3, <1>4, SameHead
<1>6. QED
  BY <1>5 DEF p, s

-----------------------------------------------------------------------------
(* One object more in the heaps of a root.                                   *)
LEMMA InsertCovers ==
    ASSUME NEW r, NEW O, NEW groups, Covers(r, O, groups), \A u \in O : u.mtime \in Int,
           NEW n \in Nat, \A f \in Entries(groups) : f.seq \in 1 .. n,
           NEW i, i \notin O, i.mtime \in Int, NEW e, e.item = i, e.seq = n + 1
    PROVE  /\ Covers(r, O \cup {i}, Insert(groups, Group(Rel(r, i.path)), e))
           /\ Entries(Insert(groups, Group(Rel(r, i.path)), e)) \subseteq Entries(groups) \cup {e}
<1> DEFINE g == Group(Rel(r, i.path))
           new == Insert(groups, g, e)
           H == IF g \in DOMAIN groups THEN groups[g] ELSE {}
           P == Pushed(H, e)
<1>1. SampleSize \in Nat \ {0}
  BY SamplerAssumption
<1>2. DOMAIN new = DOMAIN groups \cup {g} /\ \A h \in DOMAIN new : new[h] = IF h = g THEN P ELSE groups[h]
  <2>1. CASE g \in DOMAIN groups
    <3>1. new = [groups EXCEPT ![g] = P]
      BY <2>1 DEF Insert
    <3> HIDE DEF P, g, new
    <3>2. QED
      BY <2>1, <3>1
  <2>2. CASE g \notin DOMAIN groups
    <3>1. new = [h \in DOMAIN groups \cup {g} |-> IF h = g THEN P ELSE groups[h]]
      BY <2>2 DEF Insert
    <3> HIDE DEF P, g, new
    <3>2. QED
      BY <3>1
  <2>3. QED
    BY <2>1, <2>2
<1>3. /\ Heap(H) /\ Cardinality(H) <= SampleSize
      /\ \A f \in H : f.seq < n + 1 /\ f.item \in O /\ Group(Rel(r, f.item.path)) = g
      /\ \A e1, f \in H : e1.item = f.item => e1 = f
      /\ H \subseteq Entries(groups)
  <2>1. CASE g \in DOMAIN groups
    <3>1. H = groups[g] /\ H \subseteq Entries(groups)
      BY <2>1 DEF Entries
    <3>2. \A f \in H : f.seq < n + 1
      BY <3>1
    <3> HIDE DEF g, H
    <3>3. QED
      BY <1>1, <2>1, <3>1, <3>2 DEF Covers
  <2>2. CASE g \notin DOMAIN groups
    <3>1. H = {}
      BY <2>2
    <3>2. Heap({}) /\ Cardinality({}) = 0
      BY FS_EmptySet DEF Heap
    <3> HIDE DEF g, H
    <3>3. QED
      BY <1>1, <3>1, <3>2
  <2>3. QED
    BY <2>1, <2>2
<1> HIDE DEF H
<1>4. /\ Heap(P) /\ Cardinality(P) \in 1 .. SampleSize /\ P \subseteq H \cup {e}
      /\ \A d \in (H \cup {e}) \ P :
            Cardinality(P) = SampleSize /\ \A f \in P : f.item.mtime >= d.item.mtime
      /\ Cardinality(H) = SampleSize =>
            Cardinality(P) = SampleSize /\ \A f \in P : \E d \in H : f.item.mtime >= d.item.mtime
  <2>1. e.item.mtime \in Int /\ e.seq \in Nat /\ \A f \in H : f.seq < e.seq
    BY <1>3
  <2>2. QED
    BY <1>3, <2>1, PushedHeap
<1> HIDE DEF P, g, new
<1>5. Entries(new) \subseteq Entries(groups) \cup {e}
  BY <1>2, <1>3, <1>4 DEF Entries
<1>6. ASSUME NEW h \in DOMAIN new
      PROVE  /\ Heap(new[h]) /\ Cardinality(new[h]) \in 1 .. SampleSize
             /\ \A d \in new[h] : d.item \in O \cup {i} /\ Group(Rel(r, d.item.path)) = h
             /\ \A d, f \in new[h] : d.item = f.item => d = f
  <2>1. CASE h = g
    <3>1. \A d \in P : d.item \in O \cup {i} /\ Group(Rel(r, d.item.path)) = g
      BY <1>3, <1>4 DEF g
    <3>2. \A d, f \in P : d.item = f.item => d = f
      BY <1>3, <1>4
    <3>3. QED
      BY <1>2, <1>4, <2>1, <3>1, <3>2
  <2>2. CASE h # g
    BY <1>2, <2>2 DEF Covers
  <2>3. QED
    BY <2>1, <2>2
<1>7. ASSUME NEW u \in O \cup {i}
      PROVE  /\ Group(Rel(r, u.path)) \in DOMAIN new
             /\ LET heap == new[Group(Rel(r, u.path))]
                IN \/ \E d \in heap : d.item = u
                   \/ Cardinality(heap) = SampleSize /\ \A d \in heap : d.item.mtime >= u.mtime
  <2> DEFINE h == Group(Rel(r, u.path))
  <2>1. CASE h # g
    <3>1. u \in O
      BY <2>1 DEF g
    <3>2. h \in DOMAIN groups
      BY <3>1 DEF Covers
    <3>3. new[h] = groups[h] /\ h \in DOMAIN new
      BY <1>2, <2>1, <3>2
    <3>4. \/ \E d \in groups[h] : d.item = u
          \/ Cardinality(groups[h]) = SampleSize /\ \A d \in groups[h] : d.item.mtime >= u.mtime
      BY <3>1 DEF Covers
    <3>5. QED
      BY <3>3, <3>4
  <2>2. CASE h = g
    <3>1. new[h] = P /\ h \in DOMAIN new
      BY <1>2, <2>2
    <3>2. CASE u = i
      BY <1>4, <3>1, <3>2
    <3>3. CASE u \in O
      <4>1. /\ g \in DOMAIN groups /\ H = groups[g]
            /\ \/ \E d \in H : d.item = u
               \/ Cardinality(H) = SampleSize /\ \A d \in H : d.item.mtime >= u.mtime
        BY <2>2, <3>3 DEF Covers, H
      <4>2. CASE \E d \in H : d.item = u
        BY <1>4, <3>1, <4>2
      <4>3. CASE Cardinality(H) = SampleSize /\ \A d \in H : d.item.mtime >= u.mtime
        <5>1. Cardinality(P) = SampleSize /\ \A f \in P : \E d \in H : f.item.mtime >= d.item.mtime
          BY <1>4, <4>3
        <5>2. \A f \in P : f.item.mtime >= u.mtime
          BY <1>3, <1>4, <3>3, <4>3, <5>1 DEF Heap
        <5>3. QED
          BY <3>1, <5>1, <5>2
      <4>4. QED
        BY <4>1, <4>2, <4>3
    <3>4. QED
      BY <3>2, <3>3
  <2>3. QED
    BY <2>1, <2>2
<1>8. Covers(r, O \cup {i}, new)
  BY <1>6, <1>7 DEF Covers
<1>9. QED
  BY <1>5, <1>8 DEF new, g

-----------------------------------------------------------------------------
(* The repositories of several roots.                                      *)

(* What was seen of the listing, but for `unread`: the places of the         *)
(* repositories that were taken, the others being lost to their twins.       *)
SeenTwins(lost, unread, seen) ==
    /\ lost \subseteq (UNION {Heads(r) : r \in roots}) \ unread
    /\ \A r \in roots : \A i \in Heads(r) \ unread :
          i \in lost <=> \E s \in roots \ {r} : \E j \in Heads(s) \ (lost \cup unread) :
                            Place(s, j) = Place(r, i)
    /\ \A p : p \in seen <=> \E r \in roots : \E i \in Heads(r) \ (lost \cup unread) : Place(r, i) = p

(* No object lies in two roots, and no two repositories of a root in one     *)
(* place.                                                                    *)
ApartRoots ==
    /\ \A r, s \in roots : r # s => Objects(r) \cap Objects(s) = {}
    /\ \A r \in roots : \A i, j \in Heads(r) : Place(r, i) = Place(r, j) => i = j

LEMMA TakenHead ==
    ASSUME ApartRoots, NEW lost, NEW unread, NEW seen, SeenTwins(lost, unread, seen),
           NEW r \in roots, NEW i \in Heads(r), i \in unread, Place(r, i) \notin seen
    PROVE  SeenTwins(lost, unread \ {i}, seen \cup {Place(r, i)})
<1> DEFINE left == unread \ {i}
<1>1. i \notin lost /\ \A s \in roots : s # r => i \notin Heads(s)
  BY DEF SeenTwins, ApartRoots, Heads
<1>2. \A s \in roots : \A j : j \in Heads(s) \ (lost \cup left)
                               <=> j \in Heads(s) \ (lost \cup unread) \/ (j = i /\ s = r)
  BY <1>1
<1>3. \A s \in roots : \A j \in Heads(s) \ (lost \cup unread) : Place(s, j) # Place(r, i)
  BY DEF SeenTwins
<1>4. ASSUME NEW s \in roots, NEW j \in Heads(s) \ left
      PROVE  j \in lost <=> \E t \in roots \ {s} : \E k \in Heads(t) \ (lost \cup left) :
                               Place(t, k) = Place(s, j)
  <2>1. CASE j = i
    <3>1. s = r
      BY <1>1, <2>1
    <3>2. QED
      BY <1>1, <1>2, <1>3, <2>1, <3>1
  <2>2. CASE j # i
    <3>1. j \in Heads(s) \ unread
      BY <2>2
    <3>2. j \in lost <=> \E t \in roots \ {s} : \E k \in Heads(t) \ (lost \cup unread) :
                            Place(t, k) = Place(s, j)
      BY <3>1 DEF SeenTwins
    <3>3. j \notin lost => Place(s, j) # Place(r, i)
      BY <1>3, <3>1
    <3>4. QED
      BY <1>2, <3>2, <3>3
  <2>3. QED
    BY <2>1, <2>2
<1>5. \A p : p \in seen \cup {Place(r, i)}
               <=> \E s \in roots : \E j \in Heads(s) \ (lost \cup left) : Place(s, j) = p
  BY <1>2 DEF SeenTwins
<1>6. lost \subseteq (UNION {Heads(s) : s \in roots}) \ left
  BY DEF SeenTwins
<1>7. QED
  BY <1>4, <1>5, <1>6 DEF SeenTwins

LEMMA LostHead ==
    ASSUME ApartRoots, NEW lost, NEW unread, NEW seen, SeenTwins(lost, unread, seen),
           NEW r \in roots, NEW i \in Heads(r), i \in unread, Place(r, i) \in seen
    PROVE  SeenTwins(lost \cup {i}, unread \ {i}, seen)
<1> DEFINE left == unread \ {i}
           more == lost \cup {i}
<1>1. \A s \in roots : \A j : j \in Heads(s) \ (more \cup left) <=> j \in Heads(s) \ (lost \cup unread)
  OBVIOUS
<1>2. \E s \in roots : \E j \in Heads(s) \ (lost \cup unread) : Place(s, j) = Place(r, i)
  BY DEF SeenTwins
<1>3. \E s \in roots \ {r} : \E j \in Heads(s) \ (lost \cup unread) : Place(s, j) = Place(r, i)
  BY <1>2 DEF ApartRoots
<1>4. ASSUME NEW s \in roots, NEW j \in Heads(s) \ left
      PROVE  j \in more <=> \E t \in roots \ {s} : \E k \in Heads(t) \ (more \cup left) :
                               Place(t, k) = Place(s, j)
  <2>1. CASE j = i
    <3>1. s = r
      BY <2>1 DEF ApartRoots, Heads
    <3>2. QED
      BY <1>1, <1>3, <2>1, <3>1
  <2>2. CASE j # i
    <3>1. j \in Heads(s) \ unread /\ (j \in more <=> j \in lost)
      BY <2>2
    <3>2. j \in lost <=> \E t \in roots \ {s} : \E k \in Heads(t) \ (lost \cup unread) :
                            Place(t, k) = Place(s, j)
      BY <3>1 DEF SeenTwins
    <3>3. QED
      BY <1>1, <3>1, <3>2
  <2>3. QED
    BY <2>1, <2>2
<1>5. \A p : p \in seen <=> \E s \in roots : \E j \in Heads(s) \ (more \cup left) : Place(s, j) = p
  BY <1>1 DEF SeenTwins
<1>6. more \subseteq (UNION {Heads(s) : s \in roots}) \ left
  BY DEF SeenTwins
<1>7. QED
  BY <1>4, <1>5, <1>6 DEF SeenTwins

LEMMA OtherFile ==
    ASSUME NEW lost, NEW unread, NEW seen, SeenTwins(lost, unread, seen),
           NEW i \in unread, \A r \in roots : i \notin Heads(r)
    PROVE  SeenTwins(lost, unread \ {i}, seen)
<1> DEFINE left == unread \ {i}
<1>1. \A s \in roots : /\ Heads(s) \ (lost \cup left) = Heads(s) \ (lost \cup unread)
                       /\ Heads(s) \ left = Heads(s) \ unread
  OBVIOUS
<1>2. lost \subseteq (UNION {Heads(s) : s \in roots}) \ left
  BY DEF SeenTwins
<1> HIDE DEF left
<1>3. QED
  BY <1>1, <1>2 DEF SeenTwins, left

=============================================================================
