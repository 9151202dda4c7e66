----------------------------- MODULE SealProofs -----------------------------
(* Proofs about the key hierarchy, for every set of splits and of foreign      *)
(* shares, any number of generations and files of any length.                  *)
EXTENDS Seal, FiniteSetTheorems, WellFoundedInduction, TLAPS

-----------------------------------------------------------------------------
(* The inductive invariant *)

Records == [type : {"barrier"}, gen : 1 .. MaxGen, threshold : Nat]
           \cup [type : {"event", "project"}, gen : 1 .. MaxGen, wrap : 0 .. MaxGen]

\* What OneHierarchy says of one file.
Hierarchy(c) ==
    /\ c # <<>> => c[1].type = "barrier"
    /\ \A i \in 2 .. Len(c) :
          /\ c[i].type # "barrier"
          /\ c[i].gen = c[1].gen
          /\ c[i].type = "project" => c[i].wrap = c[1].gen

\* A file n records of which survive, once the generations before s are retired:
\* its barrier is of generation s or later and is among those records.
FileOK(c, n, s) ==
    /\ c \in Seq(Records)
    /\ n \in 0 .. Len(c)
    /\ Hierarchy(c)
    /\ s # 0 => n >= 1 /\ c[1].gen >= s

FilesOK ==
    /\ FileOK(content, sure, settled)
    /\ \A o \in older : FileOK(o.content, o.sure, settled)

\* The barrier in memory is the file's, and a vault without one that accepts an
\* init has an empty file under it: the only other way to have no barrier is an
\* append that failed and broke the log.
BarrierOK ==
    pc = "up" =>
        /\ barrier # None =>
              /\ content # <<>>
              /\ barrier = [gen |-> content[1].gen, threshold |-> content[1].threshold]
        /\ barrier = None /\ ~broken => content = <<>>

\* Between the rename and the new memory the file already has the new barrier.
RenamedOK ==
    pc = "renamed" =>
        /\ rootKey # 0
        /\ content # <<>> /\ sure = Len(content)
        /\ asked \in Splits
        /\ content[1].gen = gens
        /\ content[1].threshold = asked[1]

GhostOK ==
    /\ settled <= gens
    /\ \A h \in handed : h[1] \in 1 .. MaxGen /\ h[2] \in Splits
    /\ IsFiniteSet(offered)

IInv == TypeOK /\ FilesOK /\ BarrierOK /\ KeyMatchesFile /\ RenamedOK /\ GhostOK

-----------------------------------------------------------------------------
(* The records of some types, in the order of the file *)

\* A set of naturals that is not empty has a least element.
LEMMA NatMin ==
    ASSUME NEW T, T \subseteq Nat, T # {}
    PROVE  \E m \in T : \A y \in T : m <= y
<1> DEFINE R == OpToRel(<, Nat)
<1>1. IsWellFoundedOn(R, Nat)
  BY NatLessThanWellFounded, Zenon
<1>2. \A x, y \in Nat : y < x => <<y, x>> \in R
  BY DEF OpToRel
<1> HIDE DEF R
<1>3. PICK m \in T : \A y \in T : ~ (<<y, m>> \in R)
  BY <1>1, WFMin
<1>4. \A y \in T : ~(y < m)
  BY <1>2, <1>3
<1>5. \A y \in T : m <= y
  BY <1>4
<1> QED BY <1>5

Upto(K, i) == {j \in K : j <= i}

\* A set of positions has an n-th member, for every n up to its size.
LEMMA NthExists ==
    ASSUME NEW N \in Nat, NEW K, K \subseteq 1 .. N,
           NEW n \in Nat, 1 <= n, n <= Cardinality(K)
    PROVE  \E i \in K : Cardinality(Upto(K, i)) = n
<1> DEFINE Up(m) == {j \in K : j <= m}
           C(m) == Cardinality(Up(m))
<1>1. /\ IsFiniteSet(K) /\ Cardinality(K) \in Nat
  <2>1. IsFiniteSet(1 .. N)
    BY FS_Interval
  <2> QED BY <2>1, FS_Subset, FS_CardinalityType
<1>2. \A m \in 0 .. N : IsFiniteSet(Up(m)) /\ C(m) \in Nat
  <2> SUFFICES ASSUME NEW m \in 0 .. N
               PROVE  IsFiniteSet(Up(m)) /\ C(m) \in Nat
    OBVIOUS
  <2>1. Up(m) \subseteq K
    OBVIOUS
  <2> HIDE DEF Up
  <2> QED BY <1>1, <2>1, FS_Subset, FS_CardinalityType
<1>3. \A j \in K : j \in Nat /\ 1 <= j /\ j <= N
  OBVIOUS
<1>u. \A m, j : j \in Up(m) <=> j \in K /\ j <= m
  OBVIOUS
<1> HIDE DEF Up
<1>4. C(N) = Cardinality(K)
  <2>1. \A j : j \in Up(N) <=> j \in K
    BY <1>u, <1>3
  <2>2. Up(N) = K
    BY <2>1, Zenon
  <2> QED BY <2>2
<1>5. C(0) = 0
  <2>a. \A j \in K : ~(j <= 0)
    BY <1>3
  <2>1. \A j : j \notin Up(0)
    BY <1>u, <2>a, Zenon
  <2>2. Up(0) = {}
    BY <2>1, Zenon
  <2> QED BY <2>2, FS_EmptySet
<1>6. \A m \in 1 .. N : C(m) = IF m \in K THEN C(m - 1) + 1 ELSE C(m - 1)
  <2> SUFFICES ASSUME NEW m \in 1 .. N
               PROVE  C(m) = IF m \in K THEN C(m - 1) + 1 ELSE C(m - 1)
    OBVIOUS
  <2>1. CASE m \in K
    <3>a. \A j \in K : j <= m <=> j <= m - 1 \/ j = m
      BY <1>3
    <3>1. \A j : j \in Up(m) <=> j \in Up(m - 1) \cup {m}
      BY <1>u, <2>1, <3>a, Zenon
    <3>2. Up(m) = Up(m - 1) \cup {m}
      BY <3>1, Zenon
    <3>3. m \notin Up(m - 1) /\ IsFiniteSet(Up(m - 1))
      BY <1>u, <1>2
    <3> QED BY <2>1, <3>2, <3>3, FS_AddElement
  <2>2. CASE m \notin K
    <3>a. \A j \in K : j <= m <=> j <= m - 1 \/ j = m
      BY <1>3
    <3>1. \A j : j \in Up(m) <=> j \in Up(m - 1)
      BY <1>u, <2>2, <3>a, Zenon
    <3>2. Up(m) = Up(m - 1)
      BY <3>1, Zenon
    <3> QED BY <2>2, <3>2
  <2> QED BY <2>1, <2>2
<1>7. \A m \in 0 .. N : C(m) \in Nat
  BY <1>2
<1> HIDE DEF C
<1> DEFINE T == {m \in 0 .. N : C(m) >= n}
<1>8. PICK m \in T : \A y \in T : m <= y
  <2>1. N \in T /\ T \subseteq Nat
    BY <1>4
  <2> HIDE DEF T
  <2> QED BY <2>1, NatMin
<1>9. m \in 1 .. N /\ C(m) >= n /\ ~(C(m - 1) >= n)
  BY <1>5, <1>8
<1>10. m - 1 \in 0 .. N /\ C(m) \in Nat /\ C(m - 1) \in Nat
  BY <1>7, <1>9
<1>11. m \in K /\ C(m) = n
  BY <1>6, <1>9, <1>10
<1> QED BY <1>11 DEF C, Up, Upto

Of(c, types) == {i \in 1 .. Len(c) : c[i].type \in types}

\* What Only returns: as many records as there are of those types, and nothing else.
LEMMA OnlyFacts ==
    ASSUME NEW S, NEW c \in Seq(S), NEW types
    PROVE  LET o == Only(c, types)
           IN /\ o \in Seq(S)
              /\ IsFiniteSet(Of(c, types))
              /\ Len(o) = Cardinality(Of(c, types))
              /\ \A n \in 1 .. Len(o) : \E i \in Of(c, types) : o[n] = c[i]
<1> DEFINE keep == {i \in 1 .. Len(c) : c[i].type \in types}
           o == Only(c, types)
           nth(n) == CHOOSE i \in keep : Cardinality({j \in keep : j <= i}) = n
<1>1. IsFiniteSet(keep) /\ Cardinality(keep) \in Nat
  <2>1. IsFiniteSet(1 .. Len(c)) /\ keep \subseteq 1 .. Len(c)
    BY FS_Interval
  <2> QED BY <2>1, FS_Subset, FS_CardinalityType
<1>2. \A n \in 1 .. Cardinality(keep) : nth(n) \in keep
  <2> SUFFICES ASSUME NEW n \in 1 .. Cardinality(keep) PROVE nth(n) \in keep
    OBVIOUS
  <2>1. Len(c) \in Nat /\ keep \subseteq 1 .. Len(c)
    OBVIOUS
  <2> HIDE DEF keep
  <2>a. n \in Nat /\ 1 <= n /\ n <= Cardinality(keep)
    BY <1>1
  <2>2. \E i \in keep : Cardinality(Upto(keep, i)) = n
    BY <2>1, <2>a, NthExists
  <2> QED BY <2>2 DEF Upto
<1>3. o = [n \in 1 .. Cardinality(keep) |-> c[nth(n)]]
  BY DEF Only
<1>4. \A i \in keep : c[i] \in S
  OBVIOUS
<1> HIDE DEF keep, nth, o
<1>5. o \in Seq(S) /\ Len(o) = Cardinality(keep)
  BY <1>1, <1>2, <1>3, <1>4
<1>6. \A n \in 1 .. Len(o) : \E i \in keep : o[n] = c[i]
  BY <1>2, <1>3, <1>5
<1> QED BY <1>1, <1>5, <1>6 DEF keep, o, Of

-----------------------------------------------------------------------------
(* Records and files *)

\* What a record is made of, by its type.
LEMMA RecordKinds ==
    /\ \A r \in Records :
          /\ r.gen \in 1 .. MaxGen
          /\ r.type \in {"barrier", "event", "project"}
          /\ r.type = "barrier" => r.threshold \in Nat
          /\ r.type # "barrier" => r.wrap \in 0 .. MaxGen
    /\ \A g \in 1 .. MaxGen :
          /\ EventRecord(g) \in Records
          /\ EventRecord(g).type = "event" /\ EventRecord(g).gen = g
          /\ ProjectRecord(g, g) \in Records
          /\ ProjectRecord(g, g).type = "project"
          /\ ProjectRecord(g, g).gen = g /\ ProjectRecord(g, g).wrap = g
    /\ \A g \in 1 .. MaxGen, split \in Splits :
          /\ BarrierRecord(g, split) \in Records
          /\ BarrierRecord(g, split).type = "barrier"
          /\ BarrierRecord(g, split).gen = g
          /\ BarrierRecord(g, split).threshold = split[1]
<1>1. \A r \in Records :
          /\ r.gen \in 1 .. MaxGen
          /\ r.type \in {"barrier", "event", "project"}
          /\ r.type = "barrier" => r.threshold \in Nat
          /\ r.type # "barrier" => r.wrap \in 0 .. MaxGen
  BY SealAssumption DEF Records
<1>2. ASSUME NEW g \in 1 .. MaxGen
      PROVE  /\ EventRecord(g) \in Records
             /\ EventRecord(g).type = "event" /\ EventRecord(g).gen = g
             /\ ProjectRecord(g, g) \in Records
             /\ ProjectRecord(g, g).type = "project"
             /\ ProjectRecord(g, g).gen = g /\ ProjectRecord(g, g).wrap = g
  BY SealAssumption DEF Records, EventRecord, ProjectRecord
<1>3. ASSUME NEW g \in 1 .. MaxGen, NEW split \in Splits
      PROVE  /\ BarrierRecord(g, split) \in Records
             /\ BarrierRecord(g, split).type = "barrier"
             /\ BarrierRecord(g, split).gen = g
             /\ BarrierRecord(g, split).threshold = split[1]
  <2>1. split[1] \in Nat
    BY SealAssumption
  <2> QED BY <2>1 DEF Records, BarrierRecord
<1> QED BY <1>1, <1>2, <1>3

\* A record of the file's own generation extends it, flushed or not.
LEMMA FileAppend ==
    ASSUME NEW c, NEW n, NEW s \in Nat, FileOK(c, n, s), c # <<>>,
           NEW r \in Records, r.type # "barrier", r.gen = c[1].gen,
           r.type = "project" => r.wrap = c[1].gen
    PROVE  /\ FileOK(Append(c, r), n, s)
           /\ FileOK(Append(c, r), Len(Append(c, r)), s)
           /\ Append(c, r) # <<>> /\ Append(c, r)[1] = c[1]
<1> DEFINE d == Append(c, r)
<1>1. /\ c \in Seq(Records) /\ n \in 0 .. Len(c) /\ Hierarchy(c)
      /\ s # 0 => n >= 1 /\ c[1].gen >= s
  BY DEF FileOK
<1>2. Len(c) >= 1 /\ Len(c) \in Nat
  BY <1>1
<1>3. /\ d \in Seq(Records) /\ Len(d) = Len(c) + 1
      /\ \A i \in 1 .. Len(c) : d[i] = c[i]
      /\ d[Len(c) + 1] = r
      /\ d # <<>>
  BY <1>1
<1>4. d[1] = c[1]
  BY <1>2, <1>3
<1> HIDE DEF d
<1>5. Hierarchy(d)
  <2>1. ASSUME NEW i \in 2 .. Len(d)
        PROVE  /\ d[i].type # "barrier" /\ d[i].gen = d[1].gen
               /\ d[i].type = "project" => d[i].wrap = d[1].gen
    <3>1. CASE i = Len(c) + 1
      BY <3>1, <1>3, <1>4
    <3>2. CASE i # Len(c) + 1
      <4>1. i \in 2 .. Len(c)
        BY <3>2, <1>2, <1>3
      <4> QED BY <4>1, <1>1, <1>2, <1>3, <1>4 DEF Hierarchy
    <3> QED BY <3>1, <3>2
  <2>2. d[1].type = "barrier"
    BY <1>1, <1>4 DEF Hierarchy
  <2> QED BY <2>1, <2>2 DEF Hierarchy
<1>6. n \in 0 .. Len(d) /\ Len(d) \in 0 .. Len(d) /\ Len(d) >= 1
  BY <1>1, <1>2, <1>3
<1>7. FileOK(d, n, s) /\ FileOK(d, Len(d), s)
  BY <1>1, <1>3, <1>4, <1>5, <1>6 DEF FileOK
<1> QED BY <1>3, <1>4, <1>7 DEF d

\* The first records of an empty file, while nothing has been retired.
LEMMA FileStart ==
    ASSUME NEW g \in 1 .. MaxGen, NEW split \in Splits
    PROVE  /\ FileOK(<<>>, 0, 0)
           /\ \A n \in 0 .. 1 : FileOK(<<BarrierRecord(g, split)>>, n, 0)
           /\ \A n \in 0 .. 2 : FileOK(<<BarrierRecord(g, split), EventRecord(g)>>, n, 0)
<1> DEFINE b == BarrierRecord(g, split)
           e == EventRecord(g)
<1>1. /\ b \in Records /\ b.type = "barrier" /\ b.gen = g
      /\ e \in Records /\ e.type = "event" /\ e.gen = g
  BY RecordKinds
<1> HIDE DEF b, e
<1>2. <<>> \in Seq(Records) /\ Len(<<>>) = 0 /\ <<b>> \in Seq(Records) /\ <<b, e>> \in Seq(Records)
  BY <1>1
<1>3. Hierarchy(<<>>) /\ Hierarchy(<<b>>)
  BY <1>1 DEF Hierarchy
<1>4. Hierarchy(<<b, e>>)
  BY <1>1 DEF Hierarchy
<1>5. FileOK(<<>>, 0, 0)
  BY <1>2, <1>3 DEF FileOK
<1>6. \A n \in 0 .. 1 : FileOK(<<b>>, n, 0)
  BY <1>2, <1>3 DEF FileOK
<1>7. \A n \in 0 .. 2 : FileOK(<<b, e>>, n, 0)
  BY <1>2, <1>4 DEF FileOK
<1> QED BY <1>5, <1>6, <1>7 DEF b, e

\* What is left of a file after a loss of power.
LEMMA FilePrefix ==
    ASSUME NEW c, NEW n, NEW s \in Nat, FileOK(c, n, s), NEW m \in n .. Len(c)
    PROVE  FileOK(SubSeq(c, 1, m), m, s)
<1> DEFINE d == SubSeq(c, 1, m)
<1>1. /\ c \in Seq(Records) /\ n \in 0 .. Len(c) /\ Hierarchy(c)
      /\ s # 0 => n >= 1 /\ c[1].gen >= s
  BY DEF FileOK
<1>2. m \in Nat /\ m <= Len(c) /\ n <= m /\ n \in Nat /\ Len(c) \in Nat
  BY <1>1
<1>3. d \in Seq(Records) /\ Len(d) = m /\ \A i \in 1 .. m : d[i] = c[i]
  BY <1>1, <1>2
<1> HIDE DEF d
<1>4. CASE m = 0
  <2>1. d = <<>> /\ s = 0
    BY <1>1, <1>2, <1>3, <1>4
  <2>2. Hierarchy(d)
    BY <2>1 DEF Hierarchy
  <2> QED BY <1>3, <1>4, <2>1, <2>2 DEF FileOK, d
<1>5. CASE m # 0
  <2>1. d[1] = c[1] /\ c # <<>> /\ m >= 1
    BY <1>1, <1>2, <1>3, <1>5
  <2>2. ASSUME NEW i \in 2 .. Len(d)
        PROVE  /\ d[i].type # "barrier" /\ d[i].gen = d[1].gen
               /\ d[i].type = "project" => d[i].wrap = d[1].gen
    <3>1. i \in 2 .. Len(c) /\ i \in 1 .. m
      BY <1>2, <1>3
    <3> QED BY <3>1, <1>1, <1>3, <2>1 DEF Hierarchy
  <2>3. Hierarchy(d)
    BY <1>1, <2>1, <2>2 DEF Hierarchy
  <2>4. m \in 0 .. Len(d)
    BY <1>2, <1>3
  <2> QED BY <1>1, <1>3, <2>1, <2>3, <2>4 DEF FileOK, d
<1> QED BY <1>4, <1>5

\* The file a rekey writes is one hierarchy of the new generation.
LEMMA FileRewrite ==
    ASSUME NEW c \in Seq(Records), c = content, NEW s \in Nat, NEW g \in 1 .. MaxGen, s <= g,
           NEW split \in Splits
    PROVE  LET d == Rewrite(g, split)
           IN /\ FileOK(d, Len(d), s)
              /\ d # <<>> /\ d[1].gen = g /\ d[1].threshold = split[1]
<1> DEFINE o == Only(c, {"event", "project"})
           k == Carried(c, g)
           b == BarrierRecord(g, split)
           e == EventRecord(g)
           d == Rewrite(g, split)
<1>1. o \in Seq(Records)
  BY OnlyFacts
<1>2. /\ b \in Records /\ b.type = "barrier" /\ b.gen = g /\ b.threshold = split[1]
      /\ e \in Records /\ e.type = "event" /\ e.gen = g
      /\ ProjectRecord(g, g) \in Records /\ ProjectRecord(g, g).type = "project"
      /\ ProjectRecord(g, g).gen = g /\ ProjectRecord(g, g).wrap = g
  BY RecordKinds
<1>3. k = [i \in 1 .. Len(o) |-> IF o[i].type = "project" THEN ProjectRecord(g, g) ELSE e]
  BY DEF Carried
<1>4. d = <<b>> \o Append(k, e)
  BY DEF Rewrite
<1>5. Len(o) \in Nat
  BY <1>1
<1> HIDE DEF o, k, b, e, d
<1> DEFINE Good(r) == /\ r \in Records /\ r.type # "barrier" /\ r.gen = g
                      /\ r.type = "project" => r.wrap = g
<1>6. Good(e) /\ Good(ProjectRecord(g, g))
  BY <1>2
<1> HIDE DEF Good
<1>7. Len(k) = Len(o) /\ \A i \in 1 .. Len(k) : Good(k[i])
  BY <1>3, <1>5, <1>6
<1>8. k \in Seq(Records)
  BY <1>3, <1>5, <1>6, <1>7 DEF Good
<1> DEFINE a == Append(k, e)
<1>9. a \in Seq(Records) /\ Len(a) = Len(k) + 1 /\ \A i \in 1 .. Len(a) : Good(a[i])
  BY <1>2, <1>6, <1>7, <1>8
<1> HIDE DEF a
<1>10. /\ d \in Seq(Records) /\ Len(d) = Len(a) + 1 /\ d[1] = b
       /\ \A i \in 2 .. Len(d) : d[i] = a[i - 1] /\ i - 1 \in 1 .. Len(a)
  BY <1>2, <1>4, <1>9 DEF a
<1>11. Len(d) \in Nat /\ Len(d) >= 1 /\ d # <<>>
  BY <1>9, <1>10
<1>12. \A i \in 2 .. Len(d) : Good(d[i])
  BY <1>9, <1>10
<1>13. Hierarchy(d)
  BY <1>2, <1>10, <1>12 DEF Hierarchy, Good
<1>14. FileOK(d, Len(d), s)
  BY <1>2, <1>10, <1>11, <1>13 DEF FileOK
<1> QED BY <1>2, <1>10, <1>11, <1>14 DEF d

\* The keys replay finds in a file are wrapped by its root key.
LEMMA WrapsFacts ==
    ASSUME NEW c \in Seq(Records), c # <<>>, Hierarchy(c)
    PROVE  /\ Wraps(c) \in Seq(1 .. MaxGen)
           /\ \A i \in 1 .. Len(Wraps(c)) : Wraps(c)[i] = c[1].gen
<1> DEFINE o == Only(c, {"project"})
           keep == Of(c, {"project"})
<1>1. o \in Seq(Records) /\ \A n \in 1 .. Len(o) : \E i \in keep : o[n] = c[i]
  BY OnlyFacts
<1>2. \A i \in keep : c[i].wrap = c[1].gen
  <2> SUFFICES ASSUME NEW i \in 1 .. Len(c), c[i].type = "project"
               PROVE  c[i].wrap = c[1].gen
    BY DEF Of
  <2>1. i # 1
    BY DEF Hierarchy
  <2>2. i \in 2 .. Len(c)
    BY <2>1
  <2> QED BY <2>2 DEF Hierarchy
<1>3. Len(c) >= 1 /\ c[1] \in Records
  OBVIOUS
<1>4. c[1].gen \in 1 .. MaxGen
  BY <1>3, RecordKinds
<1>5. Wraps(c) = [i \in 1 .. Len(o) |-> o[i].wrap]
  BY DEF Wraps
<1> HIDE DEF o, keep
<1>6. \A n \in 1 .. Len(o) : o[n].wrap = c[1].gen
  BY <1>1, <1>2
<1>7. Len(o) \in Nat
  BY <1>1
<1> QED BY <1>4, <1>5, <1>6, <1>7

\* The plain records of a file are its first record, if it has any.
LEMMA PlainFacts ==
    ASSUME NEW c \in Seq(Records), Hierarchy(c)
    PROVE  LET plain == Only(c, {"barrier"})
           IN /\ c = <<>> => plain = <<>>
              /\ c # <<>> => plain # <<>> /\ plain[Len(plain)] = c[1]
<1> DEFINE plain == Only(c, {"barrier"})
           keep == Of(c, {"barrier"})
<1>1. /\ plain \in Seq(Records) /\ IsFiniteSet(keep) /\ Len(plain) = Cardinality(keep)
      /\ \A n \in 1 .. Len(plain) : \E i \in keep : plain[n] = c[i]
  BY OnlyFacts
<1>2. \A i \in keep : i = 1
  <2> SUFFICES ASSUME NEW i \in 1 .. Len(c), c[i].type = "barrier", i # 1 PROVE FALSE
    BY DEF Of
  <2>1. i \in 2 .. Len(c)
    OBVIOUS
  <2> QED BY <2>1 DEF Hierarchy
<1>3. ASSUME c = <<>> PROVE plain = <<>>
  <2>1. \A i : i \notin keep
    BY <1>3 DEF Of
  <2>2. keep = {}
    BY <2>1, Zenon
  <2> HIDE DEF keep, plain
  <2>3. Len(plain) = 0
    BY <1>1, <2>2, FS_EmptySet
  <2> QED BY <1>1, <2>3
<1>4. ASSUME c # <<>> PROVE plain # <<>> /\ plain[Len(plain)] = c[1]
  <2>1. 1 \in keep
    BY <1>4 DEF Hierarchy, Of
  <2> HIDE DEF keep, plain
  <2>2. Len(plain) # 0
    BY <1>1, <2>1, FS_EmptySet
  <2>3. Len(plain) \in 1 .. Len(plain)
    BY <1>1, <2>2
  <2>4. PICK i \in keep : plain[Len(plain)] = c[i]
    BY <1>1, <2>3
  <2> QED BY <1>2, <2>2, <2>4
<1> QED BY <1>3, <1>4

-----------------------------------------------------------------------------
(* The steps *)

\* TypeOK of the file follows from FilesOK; this is the rest of it.
RestTyped ==
    /\ pc \in {"down", "up", "renamed"}
    /\ broken \in BOOLEAN
    /\ barrier \in [gen : 0 .. MaxGen, threshold : Nat]
    /\ rootKey \in 0 .. MaxGen
    /\ projects \in Seq(1 .. MaxGen)
    /\ gens \in 0 .. MaxGen
    /\ settled \in 0 .. MaxGen
    /\ asked \in Splits \cup {<<0, 0>>}
    /\ \A s \in pending : s.gen \in 0 .. MaxGen /\ s.index \in 1 .. 255
    /\ pending \subseteq offered

LEMMA Parts ==
    /\ TypeOK /\ FilesOK => RestTyped
    /\ RestTyped' /\ FilesOK' => TypeOK'
    /\ RestTyped /\ FilesOK => TypeOK
<1>1. TypeOK => RestTyped
  BY DEF TypeOK, RestTyped
<1>2. RestTyped /\ FilesOK => TypeOK
  BY DEF TypeOK, RestTyped, FilesOK, FileOK, Records
<1>3. RestTyped' /\ FilesOK' => TypeOK'
  BY DEF TypeOK, RestTyped, FilesOK, FileOK, Records
<1> QED BY <1>1, <1>2, <1>3

\* A step that leaves the file and what was settled alone keeps FilesOK.
LEMMA SameFile ==
    ASSUME FilesOK, UNCHANGED <<file, settled>>
    PROVE  FilesOK'
  BY DEF FilesOK, file

LEMMA InitOK == Init => IInv
<1> SUFFICES ASSUME Init PROVE IInv
  OBVIOUS
<1>1. /\ content = <<>> /\ sure = 0 /\ older = {} /\ settled = 0 /\ pc = "down"
  BY DEF Init, L!Init
<1>2. FileOK(<<>>, 0, 0)
  BY DEF FileOK, Hierarchy
<1>3. FilesOK
  BY <1>1, <1>2 DEF FilesOK
<1>4. RestTyped
  <2>1. broken \in BOOLEAN /\ pending \subseteq offered
    BY Zenon DEF Init
  <2>2. /\ pc \in {"down", "up", "renamed"} /\ asked \in Splits \cup {<<0, 0>>}
        /\ barrier \in [gen : 0 .. MaxGen, threshold : Nat]
        /\ rootKey \in 0 .. MaxGen /\ gens \in 0 .. MaxGen /\ settled \in 0 .. MaxGen
    BY SealAssumption DEF Init, None
  <2>3. projects \in Seq(1 .. MaxGen) /\ pending = {}
    BY DEF Init
  <2> QED BY <2>1, <2>2, <2>3 DEF RestTyped
<1>5. BarrierOK /\ KeyMatchesFile /\ RenamedOK
  BY <1>1 DEF BarrierOK, KeyMatchesFile, RenamedOK
<1>6. GhostOK
  BY FS_EmptySet DEF Init, GhostOK
<1> QED BY <1>3, <1>4, <1>5, <1>6, Parts DEF IInv

LEMMA OpenStep == IInv /\ OpenVault => IInv'
<1> SUFFICES ASSUME IInv, OpenVault PROVE IInv'
  OBVIOUS
<1> DEFINE plain == Only(content, {"barrier"})
<1>1. FilesOK /\ GhostOK /\ RestTyped /\ FileOK(content, sure, settled)
  BY Parts DEF IInv, FilesOK
<1>2. /\ pc' = "up" /\ broken' = FALSE /\ rootKey' = 0 /\ projects' = <<>> /\ pending' = {}
      /\ offered' = {} /\ content' = content /\ older' = older
      /\ gens' = gens /\ asked' = asked /\ settled' = settled /\ handed' = handed
      /\ sure' = sure \/ sure' = Len(content)
      /\ barrier' = IF plain = <<>> THEN None
                    ELSE [gen |-> plain[Len(plain)].gen,
                          threshold |-> plain[Len(plain)].threshold]
  BY DEF OpenVault, file, L!Settle
<1>3. /\ content = <<>> => barrier' = None
      /\ content # <<>> => barrier' = [gen |-> content[1].gen, threshold |-> content[1].threshold]
  <2>1. /\ content = <<>> => plain = <<>>
        /\ content # <<>> => plain # <<>> /\ plain[Len(plain)] = content[1]
    BY <1>1, PlainFacts DEF FileOK
  <2> HIDE DEF plain
  <2> QED BY <1>2, <2>1
<1>4. content # <<>> => /\ content[1].gen \in 1 .. MaxGen /\ content[1].threshold \in Nat
  <2> SUFFICES ASSUME content # <<>>
               PROVE  content[1].gen \in 1 .. MaxGen /\ content[1].threshold \in Nat
    OBVIOUS
  <2>1. content \in Seq(Records) /\ content[1].type = "barrier"
    BY <1>1 DEF FileOK, Hierarchy
  <2>2. content[1] \in Records
    BY <2>1
  <2> QED BY <2>1, <2>2, RecordKinds
<1>5. FilesOK'
  <2>1. FileOK(content, sure', settled)
    BY <1>1, <1>2 DEF FileOK
  <2> QED BY <1>1, <1>2, <2>1 DEF FilesOK
<1>6. barrier' \in [gen : 0 .. MaxGen, threshold : Nat]
  BY <1>3, <1>4, SealAssumption DEF None
<1>7. RestTyped'
  <2>1. broken' \in BOOLEAN /\ pending' \subseteq offered'
    BY <1>2, Zenon
  <2>2. rootKey' \in 0 .. MaxGen /\ projects' \in Seq(1 .. MaxGen)
    BY <1>2, SealAssumption
  <2> QED BY <1>1, <1>2, <1>6, <2>1, <2>2 DEF RestTyped
<1>8. BarrierOK'
  BY <1>2, <1>3, <1>4 DEF BarrierOK, None
<1>9. KeyMatchesFile' /\ RenamedOK'
  BY <1>2 DEF KeyMatchesFile, RenamedOK
<1>10. GhostOK'
  BY <1>1, <1>2, FS_EmptySet DEF GhostOK
<1> QED BY <1>5, <1>7, <1>8, <1>9, <1>10, Parts DEF IInv

\* The empty file: nothing has been retired, and nothing of it survives.
LEMMA EmptyFile ==
    ASSUME NEW n, NEW s \in Nat, FileOK(<<>>, n, s)
    PROVE  n = 0 /\ s = 0
  BY DEF FileOK

LEMMA InitVaultStep == \A split \in Splits : IInv /\ InitVault(split) => IInv'
<1> SUFFICES ASSUME NEW split \in Splits, IInv, InitVault(split) PROVE IInv'
  OBVIOUS
<1> DEFINE g == gens + 1
           b == BarrierRecord(g, split)
           e == EventRecord(g)
<1>1. /\ FilesOK /\ GhostOK /\ RestTyped /\ BarrierOK /\ KeyMatchesFile
      /\ FileOK(content, sure, settled)
  BY Parts DEF IInv, FilesOK
<1>2. /\ pc = "up" /\ barrier = None /\ gens < MaxGen /\ gens' = g
      /\ pc' = pc /\ asked' = asked /\ settled' = settled /\ offered' = offered
  BY DEF InitVault
<1>3. g \in 1 .. MaxGen /\ settled \in Nat /\ split[1] \in Nat
  <2>1. split[1] \in Nat
    BY SealAssumption
  <2> QED BY <1>1, <1>2, <2>1, SealAssumption DEF RestTyped
<1>4. rootKey = 0 /\ projects = <<>>
  BY <1>1, <1>2, SealAssumption DEF KeyMatchesFile, None, RestTyped
<1>5. ~broken => content = <<>> /\ settled = 0
  <2> SUFFICES ASSUME ~broken PROVE content = <<>> /\ settled = 0
    OBVIOUS
  <2>1. content = <<>>
    BY <1>1, <1>2 DEF BarrierOK
  <2> QED BY <1>1, <1>3, <2>1, EmptyFile
<1>6. /\ b \in Records /\ b.gen = g /\ b.threshold = split[1]
      /\ \A n \in 0 .. 1 : FileOK(<<b>>, n, 0)
      /\ \A n \in 0 .. 2 : FileOK(<<b, e>>, n, 0)
  BY <1>3, FileStart, RecordKinds
<1> HIDE DEF g, b, e
<1>7. RenamedOK' /\ gens' \in 0 .. MaxGen /\ settled <= gens'
  BY <1>1, <1>2, <1>3 DEF RenamedOK, GhostOK, RestTyped, g
<1>8. /\ pc' \in {"down", "up", "renamed"} /\ asked' \in Splits \cup {<<0, 0>>}
      /\ settled' \in 0 .. MaxGen /\ IsFiniteSet(offered')
  BY <1>1, <1>2 DEF RestTyped, GhostOK
<1>9. CASE FailAppend(b) /\ UNCHANGED <<memory, handed>>
  <2>1. /\ broken' = TRUE /\ barrier' = barrier /\ rootKey' = rootKey /\ projects' = projects
        /\ pending' = pending /\ handed' = handed
    BY <1>9 DEF FailAppend, memory
  <2>2. FilesOK'
    <3>1. CASE UNCHANGED file
      BY <3>1, <1>1, <1>2, SameFile
    <3>2. CASE ~broken /\ L!AppendUnsure(b)
      <4>1. content' = <<b>> /\ sure' = 0 /\ older' = older /\ settled = 0
        <5>1. content' = Append(<<>>, b) /\ sure' = sure /\ older' = older
          BY <3>2, <1>5 DEF L!AppendUnsure
        <5>2. sure = 0
          BY <1>1, <1>3, <1>5, <3>2, EmptyFile
        <5> QED BY <5>1, <5>2, <1>5, <3>2
      <4>2. FileOK(content', sure', settled')
        BY <4>1, <1>2, <1>6
      <4> QED BY <1>1, <1>2, <4>1, <4>2 DEF FilesOK
    <3> QED BY <1>9, <3>1, <3>2 DEF FailAppend
  <2>3. RestTyped'
    <3>1. broken' \in BOOLEAN
      BY <2>1, Zenon
    <3> QED BY <1>1, <1>2, <1>7, <1>8, <2>1, <3>1 DEF RestTyped
  <2>4. BarrierOK' /\ KeyMatchesFile'
    BY <1>2, <1>4, <2>1 DEF BarrierOK, KeyMatchesFile, None
  <2>5. GhostOK'
    BY <1>1, <1>2, <1>7, <1>8, <2>1 DEF GhostOK
  <2> QED BY <2>2, <2>3, <2>4, <2>5, <1>7, Parts DEF IInv
<1>10. CASE /\ ~broken
            /\ broken' \in BOOLEAN
            /\ barrier' = [gen |-> g, threshold |-> split[1]]
            /\ rootKey' = g
            /\ UNCHANGED <<projects, pending>>
            /\ older' = older
            /\ sure' >= 1 /\ sure' \in 0 .. Len(content')
            /\ content' \in {<<b>>, <<b, e>>}
            /\ handed' \in {handed, handed \cup {<<g, split>>}}
  <2>1. content' # <<>> /\ content'[1] = b /\ FileOK(content', sure', 0)
    <3>1. CASE content' = <<b>>
      <4>1. sure' \in 0 .. 1
        BY <1>10, <3>1
      <4> QED BY <1>6, <3>1, <4>1
    <3>2. CASE content' = <<b, e>>
      <4>1. sure' \in 0 .. 2
        BY <1>10, <3>2
      <4> QED BY <1>6, <3>2, <4>1
    <3> QED BY <1>10, <3>1, <3>2
  <2>2. FilesOK'
    BY <1>1, <1>2, <1>5, <1>10, <2>1 DEF FilesOK
  <2>3. RestTyped'
    <3>1. barrier' \in [gen : 0 .. MaxGen, threshold : Nat]
      BY <1>3, <1>10
    <3>2. rootKey' \in 0 .. MaxGen
      BY <1>3, <1>10
    <3> QED BY <1>1, <1>2, <1>7, <1>8, <1>10, <3>1, <3>2 DEF RestTyped
  <2>4. BarrierOK'
    BY <1>3, <1>6, <1>10, <2>1 DEF BarrierOK, None
  <2>5. KeyMatchesFile'
    BY <1>3, <1>4, <1>6, <1>10, <2>1 DEF KeyMatchesFile
  <2>6. GhostOK'
    <3>1. \A h \in handed' : h[1] \in 1 .. MaxGen /\ h[2] \in Splits
      BY <1>1, <1>3, <1>10 DEF GhostOK
    <3> QED BY <1>2, <1>7, <1>8, <3>1 DEF GhostOK
  <2> QED BY <2>2, <2>3, <2>4, <2>5, <2>6, <1>7, Parts DEF IInv
<1>11. CASE /\ ~broken
            /\ broken' = TRUE
            /\ barrier' = [gen |-> g, threshold |-> split[1]]
            /\ rootKey' = g
            /\ UNCHANGED <<projects, pending>>
            /\ UNCHANGED <<older, handed>>
            /\ sure' = Len(content) + 1
            /\ content' \in {content \o <<b>>, content \o <<b, e>>}
  <2>1. sure' = 1 /\ content' \in {<<b>>, <<b, e>>}
    BY <1>5, <1>11
  <2>2. broken' \in BOOLEAN
    BY <1>11, Zenon
  <2>3. sure' \in 0 .. Len(content')
    BY <2>1
  <2> QED BY <1>10, <1>11, <2>1, <2>2, <2>3
<1>12. CASE /\ ~broken
            /\ UNCHANGED <<broken, older>>
            /\ barrier' = [gen |-> g, threshold |-> split[1]]
            /\ rootKey' = g
            /\ UNCHANGED <<projects, pending>>
            /\ content' = content \o <<b, e>>
            /\ sure' = Len(content')
            /\ HandOver(g, split)
  <2>1. sure' = 2 /\ content' = <<b, e>>
    BY <1>5, <1>12
  <2>2. broken' \in BOOLEAN
    BY <1>1, <1>12 DEF RestTyped
  <2>3. sure' >= 1 /\ sure' \in 0 .. Len(content')
    BY <2>1
  <2>4. older' = older /\ handed' \in {handed, handed \cup {<<g, split>>}}
    BY <1>12 DEF HandOver
  <2>5. content' \in {<<b>>, <<b, e>>}
    BY <2>1
  <2> QED BY <1>10, <1>12, <2>2, <2>3, <2>4, <2>5
<1> QED BY <1>9, <1>11, <1>12 DEF InitVault, g, b, e

\* Whatever is offered is a share of some generation, or of none.
LEMMA ShareTyped ==
    ASSUME GhostOK, NEW s \in Shares \cup Junk
    PROVE  s.gen \in 0 .. MaxGen /\ s.index \in 1 .. 255
<1>1. CASE s \in Junk
  BY <1>1, SealAssumption
<1>2. CASE s \in Shares
  <2>1. PICK h \in handed : s \in [gen : {h[1]}, index : 1 .. h[2][2]]
    BY <1>2 DEF Shares
  <2>2. h[1] \in 1 .. MaxGen /\ h[2] \in Splits
    BY DEF GhostOK
  <2>3. h[2][2] \in 1 .. 255
    BY <2>2, SealAssumption
  <2> QED BY <2>1, <2>2, <2>3, SealAssumption
<1> QED BY <1>1, <1>2

\* What an offered share does: the shares wait, are thrown away, or open the vault,
\* and then they are all of the barrier's generation and as many as it asks for.
LEMMA SubmitCases ==
    ASSUME NEW s, SubmitShare(s)
    PROVE  LET now == pending \cup {s} IN
           /\ pc = "up" /\ barrier # None /\ rootKey = 0
           /\ offered' = offered \cup {s}
           /\ UNCHANGED <<file, pc, broken, barrier, gens, asked, settled, handed>>
           /\ pending' \in {now, {}}
           /\ \/ UNCHANGED <<rootKey, projects>>
              \/ /\ rootKey' = barrier.gen /\ projects' = Wraps(content)
                 /\ \A t \in now : t.gen = barrier.gen
                 /\ Cardinality(now) >= barrier.threshold
  BY DEF SubmitShare, TryUnseal, Combines

LEMMA SubmitStep == \A s \in Shares \cup Junk : IInv /\ SubmitShare(s) => IInv'
<1> SUFFICES ASSUME NEW s \in Shares \cup Junk, IInv, SubmitShare(s) PROVE IInv'
  OBVIOUS
<1> DEFINE now == pending \cup {s}
<1>1. /\ FilesOK /\ GhostOK /\ RestTyped /\ BarrierOK /\ KeyMatchesFile
      /\ FileOK(content, sure, settled)
  BY Parts DEF IInv, FilesOK
<1>2. /\ pc = "up" /\ barrier # None /\ rootKey = 0
      /\ offered' = offered \cup {s}
      /\ UNCHANGED <<file, pc, broken, barrier, gens, asked, settled, handed>>
      /\ pending' \in {now, {}}
      /\ \/ UNCHANGED <<rootKey, projects>>
         \/ rootKey' = barrier.gen /\ projects' = Wraps(content)
  BY SubmitCases
<1>3. FilesOK'
  BY <1>1, <1>2, SameFile
<1>4. /\ content \in Seq(Records) /\ content # <<>> /\ Hierarchy(content)
      /\ barrier = [gen |-> content[1].gen, threshold |-> content[1].threshold]
  BY <1>1, <1>2 DEF BarrierOK, FileOK
<1>5. /\ content[1].gen \in 1 .. MaxGen
      /\ barrier.gen = content[1].gen
      /\ Wraps(content) \in Seq(1 .. MaxGen)
      /\ \A i \in 1 .. Len(Wraps(content)) : Wraps(content)[i] = content[1].gen
  <2>1. content[1] \in Records
    BY <1>4
  <2>2. content[1].gen \in 1 .. MaxGen
    BY <2>1, RecordKinds
  <2> QED BY <1>4, <2>2, WrapsFacts
<1>6. s.gen \in 0 .. MaxGen /\ s.index \in 1 .. 255
  BY <1>1, ShareTyped
<1>7. content' = content
  BY <1>2 DEF file
<1>8. RestTyped'
  <2>1. /\ \A t \in pending' : t.gen \in 0 .. MaxGen /\ t.index \in 1 .. 255
        /\ pending' \subseteq offered'
    BY <1>1, <1>2, <1>6 DEF RestTyped
  <2>2. rootKey' \in 0 .. MaxGen /\ projects' \in Seq(1 .. MaxGen)
    BY <1>1, <1>2, <1>5 DEF RestTyped
  <2> HIDE DEF now
  <2> QED BY <1>1, <1>2, <2>1, <2>2 DEF RestTyped
<1>9. BarrierOK' /\ RenamedOK'
  BY <1>1, <1>2, <1>7 DEF BarrierOK, RenamedOK
<1>10. KeyMatchesFile'
  <2>1. CASE UNCHANGED <<rootKey, projects>>
    BY <1>1, <1>2, <1>7, <2>1 DEF KeyMatchesFile
  <2>2. CASE rootKey' = barrier.gen /\ projects' = Wraps(content)
    BY <1>2, <1>4, <1>5, <1>7, <2>2 DEF KeyMatchesFile
  <2> QED BY <1>2, <2>1, <2>2
<1>11. GhostOK'
  <2>1. IsFiniteSet(offered')
    BY <1>1, <1>2, FS_AddElement DEF GhostOK
  <2> QED BY <1>1, <1>2, <2>1 DEF GhostOK
<1> QED BY <1>3, <1>8, <1>9, <1>10, <1>11, Parts DEF IInv

LEMMA ResetStep == IInv /\ ResetUnseal => IInv'
<1> SUFFICES ASSUME IInv, ResetUnseal PROVE IInv'
  OBVIOUS
<1>1. FilesOK /\ GhostOK /\ RestTyped /\ BarrierOK /\ KeyMatchesFile /\ RenamedOK
  BY Parts DEF IInv
<1>2. /\ pc = "up" /\ pending' = {} /\ offered' = {}
      /\ UNCHANGED <<file, pc, broken, barrier, rootKey, projects, gens, asked, settled, handed>>
  BY DEF ResetUnseal
<1>3. FilesOK' /\ content' = content
  BY <1>1, <1>2, SameFile DEF file
<1>4. RestTyped'
  BY <1>1, <1>2 DEF RestTyped
<1>5. BarrierOK' /\ RenamedOK' /\ KeyMatchesFile'
  BY <1>1, <1>2, <1>3 DEF BarrierOK, RenamedOK, KeyMatchesFile
<1>6. GhostOK'
  BY <1>1, <1>2, FS_EmptySet DEF GhostOK
<1> QED BY <1>3, <1>4, <1>5, <1>6, Parts DEF IInv

LEMMA SealStep == IInv /\ SealVault => IInv'
<1> SUFFICES ASSUME IInv, SealVault PROVE IInv'
  OBVIOUS
<1>1. FilesOK /\ GhostOK /\ RestTyped /\ BarrierOK
  BY Parts DEF IInv
<1>2. /\ pc = "up" /\ rootKey' = 0 /\ projects' = <<>> /\ pending' = {} /\ offered' = {}
      /\ UNCHANGED <<file, pc, broken, barrier, gens, asked, settled, handed>>
  BY DEF SealVault
<1>3. FilesOK' /\ content' = content
  BY <1>1, <1>2, SameFile DEF file
<1>4. RestTyped'
  <2>1. rootKey' \in 0 .. MaxGen /\ projects' \in Seq(1 .. MaxGen)
    BY <1>2, SealAssumption
  <2> QED BY <1>1, <1>2, <2>1 DEF RestTyped
<1>5. BarrierOK' /\ RenamedOK' /\ KeyMatchesFile'
  BY <1>1, <1>2, <1>3 DEF BarrierOK, RenamedOK, KeyMatchesFile
<1>6. GhostOK'
  BY <1>1, <1>2, FS_EmptySet DEF GhostOK
<1> QED BY <1>3, <1>4, <1>5, <1>6, Parts DEF IInv

LEMMA ProjectStep == IInv /\ CreateProject => IInv'
<1> SUFFICES ASSUME IInv, CreateProject PROVE IInv'
  OBVIOUS
<1> DEFINE r == ProjectRecord(rootKey, rootKey)
<1>1. /\ FilesOK /\ GhostOK /\ RestTyped /\ BarrierOK /\ KeyMatchesFile
      /\ FileOK(content, sure, settled)
  BY Parts DEF IInv, FilesOK
<1>2. /\ pc = "up" /\ rootKey # 0
      /\ UNCHANGED <<pc, barrier, rootKey, pending, gens, asked, settled, handed, offered>>
      /\ \/ ~broken /\ L!Append1(r) /\ projects' = Append(projects, rootKey) /\ UNCHANGED broken
         \/ FailAppend(r) /\ UNCHANGED projects
  BY DEF CreateProject
<1>3. /\ content # <<>> /\ content[1].gen = rootKey
      /\ barrier = [gen |-> rootKey, threshold |-> content[1].threshold]
      /\ \A i \in 1 .. Len(projects) : projects[i] = rootKey
  BY <1>1, <1>2 DEF KeyMatchesFile
<1>4. /\ rootKey \in 1 .. MaxGen /\ settled \in Nat /\ projects \in Seq(1 .. MaxGen)
  BY <1>1, <1>2, SealAssumption DEF RestTyped
<1>5. r \in Records /\ r.type # "barrier" /\ r.gen = content[1].gen /\ r.wrap = content[1].gen
  BY <1>3, <1>4, RecordKinds
<1> HIDE DEF r
<1>6. /\ FileOK(Append(content, r), sure, settled)
      /\ FileOK(Append(content, r), Len(Append(content, r)), settled)
      /\ Append(content, r) # <<>> /\ Append(content, r)[1] = content[1]
  BY <1>1, <1>3, <1>4, <1>5, FileAppend
<1>7. FilesOK' /\ content' # <<>> /\ content'[1] = content[1]
  <2>1. CASE UNCHANGED file
    BY <1>1, <1>2, <1>3, <2>1, SameFile DEF file
  <2>2. CASE L!Append1(r)
    <3>1. content' = Append(content, r) /\ sure' = Len(Append(content, r)) /\ older' = older
      BY <2>2 DEF L!Append1
    <3> QED BY <1>1, <1>2, <1>6, <3>1 DEF FilesOK
  <2>3. CASE L!AppendUnsure(r)
    <3>1. content' = Append(content, r) /\ sure' = sure /\ older' = older
      BY <2>3 DEF L!AppendUnsure
    <3> QED BY <1>1, <1>2, <1>6, <3>1 DEF FilesOK
  <2> QED BY <1>2, <2>1, <2>2, <2>3 DEF FailAppend
<1>8. /\ projects' \in Seq(1 .. MaxGen)
      /\ \A i \in 1 .. Len(projects') : projects'[i] = rootKey
  <2>1. CASE projects' = Append(projects, rootKey)
    BY <1>3, <1>4, <2>1
  <2>2. CASE projects' = projects
    BY <1>3, <1>4, <2>2
  <2> QED BY <1>2, <2>1, <2>2
<1>9. broken' \in BOOLEAN
  <2>1. CASE UNCHANGED broken
    BY <1>1, <2>1 DEF RestTyped
  <2>2. CASE broken' = TRUE
    BY <2>2, Zenon
  <2> QED BY <1>2, <2>1, <2>2 DEF FailAppend
<1>10. RestTyped'
  BY <1>1, <1>2, <1>8, <1>9 DEF RestTyped
<1>11. BarrierOK'
  BY <1>2, <1>3, <1>4, <1>7 DEF BarrierOK, None
<1>12. KeyMatchesFile' /\ RenamedOK'
  BY <1>2, <1>3, <1>7, <1>8 DEF KeyMatchesFile, RenamedOK
<1>13. GhostOK'
  BY <1>1, <1>2 DEF GhostOK
<1> QED BY <1>7, <1>10, <1>11, <1>12, <1>13, Parts DEF IInv

LEMMA RekeyStep == \A split \in Splits : IInv /\ Rekey(split) => IInv'
<1> SUFFICES ASSUME NEW split \in Splits, IInv, Rekey(split) PROVE IInv'
  OBVIOUS
<1> DEFINE g == gens + 1
           d == Rewrite(g, split)
<1>1. /\ FilesOK /\ GhostOK /\ RestTyped /\ BarrierOK /\ KeyMatchesFile
      /\ FileOK(content, sure, settled)
  BY Parts DEF IInv, FilesOK
<1>2. /\ pc = "up" /\ rootKey # 0 /\ gens < MaxGen /\ gens' = g
      /\ UNCHANGED <<memory, settled, handed, offered>>
      /\ \/ L!Replace(d) /\ broken' = FALSE /\ asked' = split /\ pc' = "renamed"
         \/ UNCHANGED <<file, broken, asked, pc>>
  BY DEF Rekey
<1>3. /\ barrier' = barrier /\ rootKey' = rootKey /\ projects' = projects /\ pending' = pending
      /\ settled' = settled /\ handed' = handed /\ offered' = offered
  BY <1>2 DEF memory
<1>4. g \in 1 .. MaxGen /\ settled \in Nat /\ settled <= g /\ g \in 0 .. MaxGen
  BY <1>1, <1>2, SealAssumption DEF RestTyped, GhostOK
<1>5. GhostOK'
  BY <1>1, <1>2, <1>3, <1>4 DEF GhostOK
<1>6. FileOK(d, Len(d), settled) /\ d # <<>> /\ d[1].gen = g /\ d[1].threshold = split[1]
  <2>1. content \in Seq(Records)
    BY <1>1 DEF FileOK
  <2> HIDE DEF g
  <2> QED BY <1>4, <2>1, FileRewrite
<1> HIDE DEF g, d
<1>7. CASE L!Replace(d) /\ broken' = FALSE /\ asked' = split /\ pc' = "renamed"
  <2>1. /\ content' = d /\ sure' = Len(d)
        /\ older' = older \cup {[content |-> content, sure |-> sure]}
    BY <1>7 DEF L!Replace
  <2>2. FilesOK'
    <3>1. FileOK(content', sure', settled')
      BY <1>3, <1>6, <2>1
    <3>2. \A o \in older' : FileOK(o.content, o.sure, settled)
      BY <1>1, <2>1 DEF FilesOK
    <3> QED BY <1>3, <3>1, <3>2 DEF FilesOK
  <2>3. RestTyped'
    <3>1. broken' \in BOOLEAN
      BY <1>7, Zenon
    <3> QED BY <1>1, <1>2, <1>3, <1>4, <1>7, <3>1 DEF RestTyped
  <2>4. BarrierOK' /\ KeyMatchesFile'
    BY <1>7 DEF BarrierOK, KeyMatchesFile
  <2>5. RenamedOK'
    BY <1>2, <1>3, <1>6, <1>7, <2>1 DEF RenamedOK
  <2> QED BY <1>5, <2>2, <2>3, <2>4, <2>5, Parts DEF IInv
<1>8. CASE UNCHANGED <<file, broken, asked, pc>>
  <2>1. FilesOK' /\ content' = content
    BY <1>1, <1>3, <1>8, SameFile DEF file
  <2>2. RestTyped'
    BY <1>1, <1>2, <1>3, <1>4, <1>8 DEF RestTyped
  <2>3. BarrierOK' /\ KeyMatchesFile' /\ RenamedOK'
    BY <1>1, <1>2, <1>3, <1>8, <2>1 DEF BarrierOK, KeyMatchesFile, RenamedOK
  <2> QED BY <1>5, <2>1, <2>2, <2>3, Parts DEF IInv
<1> QED BY <1>2, <1>7, <1>8

LEMMA FinishStep == IInv /\ RekeyFinish => IInv'
<1> SUFFICES ASSUME IInv, RekeyFinish PROVE IInv'
  OBVIOUS
<1>1. /\ FilesOK /\ GhostOK /\ RestTyped /\ RenamedOK
      /\ FileOK(content, sure, settled)
  BY Parts DEF IInv, FilesOK
<1>2. /\ pc = "renamed" /\ pc' = "up" /\ asked' = <<0, 0>>
      /\ broken' = broken /\ gens' = gens /\ offered' = offered
      /\ rootKey' = gens /\ barrier' = [gen |-> gens, threshold |-> asked[1]]
      /\ projects' = Wraps(content) /\ pending' = {}
      /\ handed' \in {handed, handed \cup {<<gens, asked>>}}
      /\ content' = content /\ sure' = sure
      /\ \/ older' = {} /\ settled' = gens
         \/ older' = older /\ settled' = settled
  BY DEF RekeyFinish, Remember, HandOver, L!Forget, file
<1>3. /\ content # <<>> /\ sure = Len(content) /\ asked \in Splits /\ content[1].gen = gens
      /\ content[1].threshold = asked[1]
  BY <1>1, <1>2 DEF RenamedOK
<1>4. content \in Seq(Records) /\ Hierarchy(content) /\ sure \in 0 .. Len(content)
  BY <1>1 DEF FileOK
<1>5. /\ gens \in 1 .. MaxGen /\ asked[1] \in Nat
      /\ Wraps(content) \in Seq(1 .. MaxGen)
      /\ \A i \in 1 .. Len(Wraps(content)) : Wraps(content)[i] = gens
  <2>1. content[1] \in Records
    BY <1>3, <1>4
  <2>2. content[1].gen \in 1 .. MaxGen
    BY <2>1, RecordKinds
  <2>3. \A split \in Splits : split[1] \in Nat
    BY SealAssumption
  <2> QED BY <1>3, <1>4, <2>2, <2>3, WrapsFacts
<1>6. FilesOK'
  <2>1. CASE older' = older /\ settled' = settled
    BY <1>1, <1>2, <2>1 DEF FilesOK
  <2>2. CASE older' = {} /\ settled' = gens
    <3>1. sure >= 1
      BY <1>3, <1>4
    <3>2. FileOK(content', sure', gens)
      BY <1>2, <1>3, <1>4, <1>5, <3>1 DEF FileOK
    <3> QED BY <2>2, <3>2 DEF FilesOK
  <2> QED BY <1>2, <2>1, <2>2
<1>7. RestTyped'
  <2>1. /\ asked' \in Splits \cup {<<0, 0>>} /\ rootKey' \in 0 .. MaxGen
        /\ settled' \in 0 .. MaxGen /\ gens' \in 0 .. MaxGen
        /\ barrier' \in [gen : 0 .. MaxGen, threshold : Nat]
        /\ projects' \in Seq(1 .. MaxGen)
    BY <1>1, <1>2, <1>5 DEF RestTyped
  <2> QED BY <1>1, <1>2, <2>1 DEF RestTyped
<1>8. BarrierOK'
  BY <1>2, <1>3, <1>5 DEF BarrierOK, None
<1>9. KeyMatchesFile' /\ RenamedOK'
  BY <1>2, <1>3, <1>5 DEF KeyMatchesFile, RenamedOK
<1>10. GhostOK'
  <2>1. \A h \in handed' : h[1] \in 1 .. MaxGen /\ h[2] \in Splits
    BY <1>1, <1>2, <1>3, <1>5 DEF GhostOK
  <2> QED BY <1>1, <1>2, <1>5, <2>1 DEF GhostOK
<1> QED BY <1>6, <1>7, <1>8, <1>9, <1>10, Parts DEF IInv

LEMMA GoneStep == IInv /\ (Kill \/ PowerLoss) => IInv'
<1> SUFFICES ASSUME IInv, Kill \/ PowerLoss PROVE IInv'
  OBVIOUS
<1>1. FilesOK /\ GhostOK /\ RestTyped /\ FileOK(content, sure, settled)
  BY Parts DEF IInv, FilesOK
<1>2. /\ pc' = "down" /\ broken' = FALSE /\ barrier' = None /\ rootKey' = 0
      /\ projects' = <<>> /\ pending' = {} /\ asked' = <<0, 0>> /\ offered' = {}
      /\ gens' = gens /\ settled' = settled /\ handed' = handed
      /\ UNCHANGED file \/ L!Lose
  BY DEF Kill, PowerLoss, Gone
<1>3. FilesOK'
  <2>1. CASE UNCHANGED file
    BY <1>1, <1>2, <2>1, SameFile
  <2>2. CASE L!Lose
    <3>1. older' = {}
      BY <2>2 DEF L!Lose, L!Left
    <3>2. PICK c \in older \cup {[content |-> content, sure |-> sure]} :
             \E n \in c.sure .. Len(c.content) :
                content' = SubSeq(c.content, 1, n) /\ sure' = n
      BY <2>2 DEF L!Lose, L!Left
    <3>3. PICK n \in c.sure .. Len(c.content) :
             content' = SubSeq(c.content, 1, n) /\ sure' = n
      BY <3>2
    <3>4. FileOK(c.content, c.sure, settled)
      BY <1>1 DEF FilesOK
    <3>5. settled \in Nat
      BY <1>1 DEF RestTyped
    <3>6. FileOK(content', sure', settled')
      BY <1>2, <3>3, <3>4, <3>5, FilePrefix
    <3> QED BY <3>1, <3>6 DEF FilesOK
  <2> QED BY <1>2, <2>1, <2>2
<1>4. RestTyped'
  <2>1. broken' \in BOOLEAN /\ pending' \subseteq offered'
    BY <1>2, Zenon
  <2>2. /\ rootKey' \in 0 .. MaxGen /\ projects' \in Seq(1 .. MaxGen)
        /\ barrier' \in [gen : 0 .. MaxGen, threshold : Nat]
        /\ asked' \in Splits \cup {<<0, 0>>}
    BY <1>2, SealAssumption DEF None
  <2> QED BY <1>1, <1>2, <2>1, <2>2 DEF RestTyped
<1>5. BarrierOK' /\ KeyMatchesFile' /\ RenamedOK'
  BY <1>2 DEF BarrierOK, KeyMatchesFile, RenamedOK
<1>6. GhostOK'
  BY <1>1, <1>2, FS_EmptySet DEF GhostOK
<1> QED BY <1>3, <1>4, <1>5, <1>6, Parts DEF IInv

LEMMA StutterStep == IInv /\ UNCHANGED vars => IInv'
<1> SUFFICES ASSUME IInv, UNCHANGED vars PROVE IInv'
  OBVIOUS
<1>1. FilesOK /\ GhostOK /\ RestTyped /\ BarrierOK /\ KeyMatchesFile /\ RenamedOK
  BY Parts DEF IInv
<1>2. FilesOK'
  BY <1>1 DEF FilesOK, vars
<1>3. RestTyped'
  BY <1>1 DEF RestTyped, vars
<1>4. BarrierOK' /\ KeyMatchesFile' /\ RenamedOK' /\ GhostOK'
  BY <1>1 DEF BarrierOK, KeyMatchesFile, RenamedOK, GhostOK, vars
<1> QED BY <1>2, <1>3, <1>4, Parts DEF IInv

-----------------------------------------------------------------------------
(* Theorems *)

\* The inductive invariant holds in every state the vault can reach.
THEOREM Invariance == Spec => []IInv
<1>1. Init => IInv
  BY InitOK
<1>2. IInv /\ [Next]_vars => IInv'
  BY OpenStep, InitVaultStep, RekeyStep, SubmitStep, ResetStep, SealStep, ProjectStep,
     FinishStep, GoneStep, StutterStep DEF Next
<1> QED BY <1>1, <1>2, PTL DEF Spec

\* Vault, Barrier and the records of the store file keep their types: a generation is
\* never drawn past the bound, a pending share has an index that fits its byte.
THEOREM TypeCorrect == Spec => []TypeOK
<1>1. IInv => TypeOK
  BY DEF IInv
<1> QED BY <1>1, Invariance, PTL

\* Vault::init, create_project and rekey, failing or interrupted anywhere, leave one
\* key hierarchy in the file and in every file a power loss may bring back.
THEOREM AlwaysOneHierarchy == Spec => []OneHierarchy
<1>1. IInv => OneHierarchy
  BY DEF IInv, FilesOK, FileOK, Hierarchy, OneHierarchy
<1> QED BY <1>1, Invariance, PTL

\* Vault.root_key, barrier and the project keys belong to the file under them.
THEOREM AlwaysKeyMatchesFile == Spec => []KeyMatchesFile
<1>1. IInv => KeyMatchesFile
  BY DEF IInv
<1> QED BY <1>1, Invariance, PTL

\* After a rekey whose directory flush succeeded, no later step brings a file back
\* that the shares of an earlier generation open.
THEOREM AlwaysRetiredStaysRetired == Spec => []RetiredStaysRetired
<1>1. IInv => RetiredStaysRetired
  <2> SUFFICES ASSUME IInv, settled # 0 PROVE content # <<>> /\ content[1].gen >= settled
    BY DEF RetiredStaysRetired
  <2>1. FileOK(content, sure, settled)
    BY DEF IInv, FilesOK
  <2>2. sure >= 1 /\ content[1].gen >= settled /\ sure \in 0 .. Len(content)
    BY <2>1 DEF FileOK
  <2> QED BY <2>2
<1> QED BY <1>1, Invariance, PTL

\* submit_share and try_unseal: the vault is unsealed only by as many shares of its own
\* generation as the barrier asks for, offered since it came up, was sealed or reset.
THEOREM AlwaysQuorumOnly == Spec => QuorumOnly
<1> DEFINE Quorum == rootKey = 0 /\ rootKey' # 0 /\ gens' = gens
              => Cardinality({s \in offered' : s.gen = rootKey'}) >= content[1].threshold
<1>1. IInv /\ IInv' /\ [Next]_vars => [Quorum]_vars
  <2> SUFFICES ASSUME IInv, IInv', Next, rootKey = 0, rootKey' # 0, gens' = gens
               PROVE  Cardinality({s \in offered' : s.gen = rootKey'}) >= content[1].threshold
    OBVIOUS
  <2>1. PICK s \in Shares \cup Junk : SubmitShare(s)
    <3>1. RestTyped /\ RenamedOK
      BY Parts DEF IInv
    <3>2. \A split \in Splits : ~InitVault(split) /\ ~Rekey(split)
      BY <3>1 DEF InitVault, Rekey, RestTyped
    <3>3. ~OpenVault /\ ~ResetUnseal /\ ~SealVault /\ ~CreateProject /\ ~Kill /\ ~PowerLoss
      BY DEF OpenVault, ResetUnseal, SealVault, CreateProject, Kill, PowerLoss, Gone
    <3>4. ~RekeyFinish
      BY <3>1 DEF RekeyFinish, RenamedOK
    <3> QED BY <3>2, <3>3, <3>4 DEF Next
  <2> DEFINE now == pending \cup {s}
             mine == {t \in offered' : t.gen = rootKey'}
  <2>2. /\ pc = "up" /\ barrier # None /\ offered' = offered \cup {s}
        /\ rootKey' = barrier.gen /\ \A t \in now : t.gen = barrier.gen
        /\ Cardinality(now) >= barrier.threshold
    BY <2>1, SubmitCases
  <2>3. barrier.threshold = content[1].threshold /\ barrier.threshold \in Nat
    BY <2>2, Parts DEF IInv, BarrierOK, RestTyped
  <2>4. pending \subseteq offered /\ IsFiniteSet(offered')
    BY Parts DEF IInv, RestTyped, GhostOK
  <2>5. now \subseteq mine /\ mine \subseteq offered'
    BY <2>2, <2>4
  <2> HIDE DEF now, mine
  <2>6. IsFiniteSet(mine) /\ Cardinality(mine) \in Nat
    BY <2>4, <2>5, FS_Subset, FS_CardinalityType
  <2>7. Cardinality(now) \in Nat /\ Cardinality(now) <= Cardinality(mine)
    BY <2>5, <2>6, FS_Subset, FS_CardinalityType
  <2>8. Cardinality(mine) >= content[1].threshold
    BY <2>2, <2>3, <2>6, <2>7
  <2> QED BY <2>8 DEF mine
<1> QED BY <1>1, Invariance, PTL DEF Spec, QuorumOnly
=============================================================================
