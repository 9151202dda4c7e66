----------------------------- MODULE LogProofs -----------------------------
(* Proofs about the store file and its compaction, and that it implements    *)
(* DurableLog, for every set of keys and payloads, every bound and either     *)
(* kind of file system.                                                       *)
EXTENDS LogRefinement, SequenceTheorems, TLAPS

-----------------------------------------------------------------------------
(* The inductive invariant *)

\* A file that opens: it reads back under one key, and no more of it counts as
\* flushed than there is.
FileOK(f) ==
    /\ f.synced <= Len(f.items)
    /\ \E k \in Keys : ReadsBack(f, k)

\* The promised items start the file, are flushed, and none is a partial frame
\* (a partial frame may be flushed, and is cut off by the next open).
Covers(f, p) ==
    /\ Len(p) <= f.synced
    /\ \A i \in 1 .. Len(p) : p[i] = f.items[i] /\ p[i] # Torn

Kept(f, p) == FileOK(f) /\ Covers(f, p)

\* A handle is open on a file with a header, and knows its length unless an
\* append failed.
HandleOK ==
    pc # "down" =>
        /\ main.items # <<>>
        /\ main.items[1] = Header
        /\ ~broken => ~IsTorn(main) /\ Len(main.items) = count + 1

\* The file being built is whole, flushed and as long as fresh.count says.
BuildingOK ==
    pc = "building" =>
        /\ ReadsBack(temp, fresh.key)
        /\ temp.items # <<>>
        /\ temp.items[1] = Header
        /\ ~IsTorn(temp)
        /\ Len(temp.items) = fresh.count + 1
        /\ temp.synced = Len(temp.items)

\* A compaction that has still to return has put a whole, flushed file in place.
RenamedOK == pc = "renamed" => ~broken /\ Covers(main, main.items)

\* The invariant that carries the induction.
IInv ==
    /\ TypeOK
    /\ Kept(main, promised)
    /\ \A p \in prior : Kept(p.file, p.promised)
    /\ HandleOK
    /\ BuildingOK
    /\ RenamedOK

-----------------------------------------------------------------------------
(* Items and files *)

\* The kinds of items tell them apart.
LEMMA ItemKinds ==
    /\ Header \in Items /\ Torn \in Items /\ Header # Torn
    /\ \A v \in Payloads : Plain(v) \in Items /\ Plain(v).kind = "plain" /\ Plain(v) # Torn
    /\ \A k \in Keys, n \in Nat, v \in Payloads :
          /\ Sealed(k, n, v) \in Items
          /\ Sealed(k, n, v).kind = "sealed" /\ Sealed(k, n, v).key = k
          /\ Sealed(k, n, v).pos = n
          /\ Sealed(k, n, v) # Torn
    /\ Torn.kind = "torn" /\ Header.kind = "header"
  BY DEF Header, Torn, Plain, Sealed, Items, Frames

\* The empty file is a file, reads back, and promises nothing.
LEMMA EmptyOK ==
    /\ Empty \in Files
    /\ FileOK(Empty)
    /\ Covers(Empty, <<>>)
  BY LogAssumption DEF Empty, Files, FileOK, Covers, ReadsBack

\* A written and flushed item: the file grows by exactly that item.
LEMMA FlushedFile ==
    ASSUME NEW f \in Files, NEW x \in Items
    PROVE  /\ Flushed(f, x) \in Files
           /\ Len(Flushed(f, x).items) = Len(f.items) + 1
           /\ Flushed(f, x).synced = Len(f.items) + 1
           /\ \A i \in 1 .. Len(f.items) : Flushed(f, x).items[i] = f.items[i]
           /\ Flushed(f, x).items[Len(f.items) + 1] = x
           /\ Flushed(f, x).items # <<>>
  <1>1. f.items \in Seq(Items) /\ f.synced \in Nat
    BY DEF Files
  <1>2. QED
    BY <1>1, AppendProperties DEF Flushed, Files

\* A flushed partial-free file has no partial item anywhere.
LEMMA NoTornInside ==
    ASSUME NEW f \in Files, FileOK(f), ~IsTorn(f)
    PROVE  \A i \in 1 .. Len(f.items) : f.items[i] # Torn
  <1>1. f.items \in Seq(Items)
    BY DEF Files
  <1>2. PICK k \in Keys : ReadsBack(f, k)
    BY DEF FileOK
  <1>3. SUFFICES ASSUME NEW i \in 1 .. Len(f.items), f.items[i] = Torn
                 PROVE  FALSE
    OBVIOUS
  <1>4. i = Len(f.items)
    BY <1>2, <1>3, ItemKinds DEF ReadsBack
  <1>5. f.items # <<>>
    BY <1>1, <1>4, LenProperties
  <1>6. QED
    BY <1>3, <1>4, <1>5 DEF IsTorn

\* An item that may follow the ones a file holds, read under key k.
Fits(f, x, k) ==
    \/ f.items = <<>> /\ x = Header
    \/ f.items # <<>> /\ x.kind = "plain"
    \/ f.items # <<>> /\ x.kind = "sealed" /\ x.key = k /\ x.pos = Len(f.items) - 1

\* Adding an item that fits, or a partial one, to a file that ends on a whole
\* frame keeps the file readable.
LEMMA AppendedReadsBack ==
    ASSUME NEW f \in Files, NEW g \in Files, NEW k, NEW x \in Items,
           ReadsBack(f, k), ~IsTorn(f),
           g.items = Append(f.items, x),
           Fits(f, x, k) \/ x = Torn
    PROVE  ReadsBack(g, k)
  <1>1. f.items \in Seq(Items)
    BY DEF Files
  <1>2. /\ Len(g.items) = Len(f.items) + 1
        /\ \A i \in 1 .. Len(f.items) : g.items[i] = f.items[i]
        /\ g.items[Len(f.items) + 1] = x
    BY <1>1, AppendProperties
  <1>3. Len(f.items) \in Nat /\ (f.items = <<>> <=> Len(f.items) = 0)
    BY <1>1, LenProperties, EmptySeq
  <1>4. SUFFICES ASSUME NEW i \in 1 .. Len(g.items)
                 PROVE  LET it == g.items[i] IN
                        \/ i = 1 /\ it = Header
                        \/ i = Len(g.items) /\ it = Torn
                        \/ i > 1 /\ it.kind = "plain"
                        \/ i > 1 /\ it.kind = "sealed" /\ it.key = k /\ it.pos = i - 2
    BY DEF ReadsBack
  <1>5. CASE i = Len(f.items) + 1
    BY <1>2, <1>3, <1>5 DEF Fits
  <1>6. CASE i \in 1 .. Len(f.items)
    <2>1. ~(i = Len(f.items) /\ f.items[i] = Torn)
      BY <1>3, <1>6 DEF IsTorn
    <2>2. QED
      BY <1>2, <1>6, <2>1 DEF ReadsBack
  <1>7. QED
    BY <1>2, <1>3, <1>4, <1>5, <1>6

\* Whatever a failed write leaves is still a file that keeps its promises.
LEMMA FailedWriteOK ==
    ASSUME NEW f \in Files, NEW k \in Keys, NEW x \in Items, NEW g \in FailedWrites(f, x),
           ReadsBack(f, k), ~IsTorn(f), f.synced <= Len(f.items), Fits(f, x, k)
    PROVE  /\ g \in Files
           /\ FileOK(g)
           /\ \A p \in Seq(Items) : Covers(f, p) => Covers(g, p)
           /\ f.items # <<>> => g.items # <<>> /\ g.items[1] = f.items[1]
  <1>1. f.items \in Seq(Items) /\ f.synced \in Nat
    BY DEF Files
  <1>2. CASE g = f
    BY <1>2 DEF FileOK
  <1>3. CASE \E y \in {Torn, x} : g = [f EXCEPT !.items = Append(f.items, y)]
    <2>1. PICK y \in {Torn, x} : g = [f EXCEPT !.items = Append(f.items, y)]
      BY <1>3
    <2>2. y \in Items
      BY ItemKinds
    <2>3. /\ g.items = Append(f.items, y) /\ g.synced = f.synced /\ g \in Files
      BY <1>1, <2>1, <2>2, AppendProperties DEF Files
    <2>4. ReadsBack(g, k)
      BY <2>2, <2>3, AppendedReadsBack
    <2>5. /\ Len(g.items) = Len(f.items) + 1
          /\ \A i \in 1 .. Len(f.items) : g.items[i] = f.items[i]
          /\ g.items # <<>>
      BY <1>1, <2>2, <2>3, AppendProperties
    <2>6. Len(f.items) \in Nat /\ (f.items # <<>> => Len(f.items) >= 1)
      BY <1>1, LenProperties, EmptySeq
    <2>7. FileOK(g)
      BY <1>1, <2>3, <2>4, <2>5, <2>6 DEF FileOK
    <2>8. ASSUME NEW p \in Seq(Items), Covers(f, p)
          PROVE  Covers(g, p)
      <3>1. Len(p) \in Nat /\ Len(p) <= Len(f.items)
        BY <1>1, <2>6, <2>8, LenProperties DEF Covers
      <3>2. QED
        BY <1>1, <2>3, <2>5, <2>6, <2>8, <3>1 DEF Covers
    <2>9. QED
      BY <2>3, <2>5, <2>6, <2>7, <2>8
  <1>4. QED
    BY <1>2, <1>3 DEF FailedWrites

\* A first part of a file reads back.
LEMMA PrefixReadsBack ==
    ASSUME NEW f \in Files, NEW g \in Files, NEW k, NEW n \in 0 .. Len(f.items),
           ReadsBack(f, k),
           \/ g.items = SubSeq(f.items, 1, n)
           \/ n < Len(f.items) /\ g.items = Append(SubSeq(f.items, 1, n), Torn)
    PROVE  ReadsBack(g, k)
  <1>1. f.items \in Seq(Items) /\ Len(f.items) \in Nat
    BY LenProperties DEF Files
  <1>2. \A i \in 1 .. n : f.items[i] \in Items
    BY <1>1, ElementOfSeq
  <1>3. /\ SubSeq(f.items, 1, n) \in Seq(Items)
        /\ Len(SubSeq(f.items, 1, n)) = n
        /\ \A i \in 1 .. n : SubSeq(f.items, 1, n)[i] = f.items[i]
    <2>1. /\ SubSeq(f.items, 1, n) \in Seq(Items)
          /\ Len(SubSeq(f.items, 1, n)) = IF 1 <= n THEN n - 1 + 1 ELSE 0
          /\ \A i \in 1 .. n - 1 + 1 : SubSeq(f.items, 1, n)[i] = f.items[1 + i - 1]
      BY <1>1, <1>2, SubSeqProperties
    <2>2. QED
      BY <1>1, <2>1
  <1>4. CASE g.items = SubSeq(f.items, 1, n)
    BY <1>1, <1>3, <1>4 DEF ReadsBack
  <1>5. CASE n < Len(f.items) /\ g.items = Append(SubSeq(f.items, 1, n), Torn)
    <2>1. /\ Len(g.items) = n + 1
          /\ \A i \in 1 .. n : g.items[i] = f.items[i]
          /\ g.items[n + 1] = Torn
      BY <1>3, <1>5, ItemKinds, AppendProperties
    <2>2. \A i \in 1 .. n : ~(i = Len(f.items))
      BY <1>1, <1>5
    <2>3. QED
      BY <1>1, <2>1, <2>2 DEF ReadsBack
  <1>6. QED
    BY <1>4, <1>5


\* What a power loss leaves: all that was flushed, and a first part of the rest.
LEMMA SurvivorShape ==
    ASSUME NEW f \in Files, NEW g \in Survivors(f)
    PROVE  /\ g \in Files
           /\ g.synced = Len(g.items)
           /\ \E n \in 0 .. Len(f.items) :
                 /\ n >= f.synced
                 /\ Len(g.items) >= n
                 /\ \A i \in 1 .. n : g.items[i] = f.items[i]
                 /\ \/ g.items = SubSeq(f.items, 1, n)
                    \/ n < Len(f.items) /\ g.items = Append(SubSeq(f.items, 1, n), Torn)
  <1>1. f.items \in Seq(Items) /\ f.synced \in Nat /\ Len(f.items) \in Nat
    BY LenProperties DEF Files
  <1>2. PICK n \in 0 .. Len(f.items) :
          /\ n >= f.synced
          /\ \/ g = [items |-> SubSeq(f.items, 1, n), synced |-> n]
             \/ /\ n < Len(f.items)
                /\ g = [items |-> Append(SubSeq(f.items, 1, n), Torn), synced |-> n + 1]
    <2>1. CASE g \in {[items |-> SubSeq(f.items, 1, n), synced |-> n] :
                        n \in {m \in 0 .. Len(f.items) : m >= f.synced}}
      BY <2>1
    <2>2. CASE g \in {[items |-> Append(SubSeq(f.items, 1, n), Torn), synced |-> n + 1] :
                        n \in {m \in 0 .. Len(f.items) - 1 : m >= f.synced}}
      <3>1. PICK n \in {m \in 0 .. Len(f.items) - 1 : m >= f.synced} :
              g = [items |-> Append(SubSeq(f.items, 1, n), Torn), synced |-> n + 1]
        BY <2>2
      <3>2. n \in 0 .. Len(f.items) /\ n < Len(f.items) /\ n >= f.synced
        BY <1>1, <3>1
      <3>3. QED
        BY <3>1, <3>2
    <2>3. QED
      BY <2>1, <2>2 DEF Survivors
  <1>3. \A i \in 1 .. n : f.items[i] \in Items
    BY <1>1, ElementOfSeq
  <1>4. /\ SubSeq(f.items, 1, n) \in Seq(Items)
        /\ Len(SubSeq(f.items, 1, n)) = n
        /\ \A i \in 1 .. n : SubSeq(f.items, 1, n)[i] = f.items[i]
    <2>1. /\ SubSeq(f.items, 1, n) \in Seq(Items)
          /\ Len(SubSeq(f.items, 1, n)) = IF 1 <= n THEN n - 1 + 1 ELSE 0
          /\ \A i \in 1 .. n - 1 + 1 : SubSeq(f.items, 1, n)[i] = f.items[1 + i - 1]
      BY <1>1, <1>3, SubSeqProperties
    <2>2. QED
      BY <1>1, <2>1
  <1>5. /\ g \in Files
        /\ g.synced = Len(g.items)
        /\ Len(g.items) >= n
        /\ \A i \in 1 .. n : g.items[i] = f.items[i]
    <2>1. CASE g = [items |-> SubSeq(f.items, 1, n), synced |-> n]
      BY <1>1, <1>4, <2>1 DEF Files
    <2>2. CASE g = [items |-> Append(SubSeq(f.items, 1, n), Torn), synced |-> n + 1]
      BY <1>1, <1>4, <2>2, ItemKinds, AppendProperties DEF Files
    <2>3. QED
      BY <1>2, <2>1, <2>2
  <1>6. \/ g.items = SubSeq(f.items, 1, n)
        \/ n < Len(f.items) /\ g.items = Append(SubSeq(f.items, 1, n), Torn)
    BY <1>2
  <1>7. QED
    BY <1>2, <1>5, <1>6

\* Losing the power loses none of the promised items of a file.
LEMMA SurvivorOK ==
    ASSUME NEW f \in Files, FileOK(f), NEW g \in Survivors(f)
    PROVE  /\ FileOK(g)
           /\ \A p \in Seq(Items) : Covers(f, p) => Covers(g, p)
  <1>1. f.synced \in Nat /\ Len(f.items) \in Nat
    BY LenProperties DEF Files
  <1>2. PICK k \in Keys : ReadsBack(f, k)
    BY DEF FileOK
  <1>3. g \in Files /\ g.synced = Len(g.items)
    BY SurvivorShape
  <1>4. PICK n \in 0 .. Len(f.items) :
          /\ n >= f.synced
          /\ Len(g.items) >= n
          /\ \A i \in 1 .. n : g.items[i] = f.items[i]
          /\ \/ g.items = SubSeq(f.items, 1, n)
             \/ n < Len(f.items) /\ g.items = Append(SubSeq(f.items, 1, n), Torn)
    BY SurvivorShape
  <1>5. ReadsBack(g, k)
    BY <1>2, <1>3, <1>4, PrefixReadsBack
  <1>6. FileOK(g)
    <2>1. g.synced \in Nat
      BY <1>3 DEF Files
    <2>2. QED
      BY <1>3, <1>5, <2>1 DEF FileOK
  <1>7. ASSUME NEW p \in Seq(Items), Covers(f, p)
        PROVE  Covers(g, p)
    <2>1. Len(p) \in Nat /\ Len(p) <= n
      BY <1>1, <1>4, <1>7, LenProperties DEF Covers
    <2>2. g.synced \in Nat /\ g.synced >= n
      BY <1>3, <1>4 DEF Files
    <2>3. Len(p) <= g.synced
      BY <1>1, <2>1, <2>2
    <2>4. QED
      BY <1>4, <1>7, <2>1, <2>3 DEF Covers
  <1>8. QED
    BY <1>6, <1>7

\* A file less its partial tail.
Cut(f, n) == [items |-> SubSeq(f.items, 1, n), synced |-> n]

\* Cutting off a partial tail keeps everything before it.
LEMMA TailCut ==
    ASSUME NEW f \in Files, FileOK(f), NEW n \in Nat, n >= 1,
           Len(f.items) = n + 1, f.items[n + 1] = Torn
    PROVE  /\ Cut(f, n) \in Files
           /\ FileOK(Cut(f, n))
           /\ Len(Cut(f, n).items) = n
           /\ Cut(f, n).items[1] = f.items[1]
           /\ Cut(f, n).items[n] # Torn
           /\ \A p \in Seq(Items) : Covers(f, p) => Covers(Cut(f, n), p)
           /\ Len(SubSeq(f.items, 1, n)) = n
  <1>1. f.items \in Seq(Items) /\ f.synced \in Nat
    BY DEF Files
  <1>2. PICK k \in Keys : ReadsBack(f, k)
    BY DEF FileOK
  <1>3. \A i \in 1 .. n : f.items[i] \in Items
    BY <1>1, ElementOfSeq
  <1>4. /\ SubSeq(f.items, 1, n) \in Seq(Items)
        /\ Len(SubSeq(f.items, 1, n)) = n
        /\ \A i \in 1 .. n : SubSeq(f.items, 1, n)[i] = f.items[i]
    <2>1. /\ SubSeq(f.items, 1, n) \in Seq(Items)
          /\ Len(SubSeq(f.items, 1, n)) = IF 1 <= n THEN n - 1 + 1 ELSE 0
          /\ \A i \in 1 .. n - 1 + 1 : SubSeq(f.items, 1, n)[i] = f.items[1 + i - 1]
      BY <1>1, <1>3, SubSeqProperties
    <2>2. QED
      BY <2>1
  <1>5. PICK g : g = Cut(f, n)
    OBVIOUS
  <1>5a. g.items = SubSeq(f.items, 1, n) /\ g.synced = n /\ g \in Files
    BY <1>4, <1>5 DEF Files, Cut
  <1>6. ReadsBack(g, k)
    BY <1>2, <1>5a, PrefixReadsBack
  <1>7. f.items[n] # Torn
    BY <1>2, ItemKinds DEF ReadsBack
  <1>8. FileOK(g)
    BY <1>4, <1>5a, <1>6 DEF FileOK
  <1>9. ASSUME NEW p \in Seq(Items), Covers(f, p)
        PROVE  Covers(g, p)
    <2>1. Len(p) \in Nat /\ Len(p) <= n + 1
      BY <1>1, <1>9, LenProperties DEF Covers, FileOK
    <2>2. Len(p) # n + 1
      BY <1>9, <2>1 DEF Covers
    <2>3. Len(p) <= n
      BY <2>1, <2>2
    <2>4. QED
      BY <1>4, <1>5a, <1>9, <2>1, <2>3 DEF Covers
  <1>10. QED
    BY <1>4, <1>5, <1>5a, <1>7, <1>8, <1>9

\* Cutting off a partial tail keeps the promises, and the header.
LEMMA TruncatedOK ==
    ASSUME NEW f \in Files, FileOK(f), f.items # <<>>, f.items[1] = Header,
           NEW g, g = Truncated(f)
    PROVE  /\ g \in Files
           /\ FileOK(g)
           /\ ~IsTorn(g)
           /\ g.synced = Len(g.items)
           /\ g.items # <<>> /\ g.items[1] = Header
           /\ \A p \in Seq(Items) : Covers(f, p) => Covers(g, p)
  <1>1. f.items \in Seq(Items) /\ f.synced \in Nat
    BY DEF Files
  <1>2. PICK m \in Nat : m = Len(f.items) /\ m >= 1
    BY <1>1, LenProperties, EmptySeq
  <1>3. CASE IsTorn(f)
    <2>1. f.items[m] = Torn
      BY <1>2, <1>3 DEF IsTorn
    <2>2. m # 1
      BY <2>1, ItemKinds
    <2>3. PICK n \in Nat : m = n + 1 /\ n >= 1
      <3>1. m - 1 \in Nat /\ m = (m - 1) + 1 /\ m - 1 >= 1
        BY <1>2, <2>2
      <3>2. QED
        BY <3>1
    <2>4. Len(f.items) = n + 1 /\ f.items[n + 1] = Torn /\ Len(f.items) - 1 = n
      BY <1>2, <2>1, <2>3
    <2> HIDE <1>2, <2>3
    <2>5. g = [items |-> SubSeq(f.items, 1, n), synced |-> Len(SubSeq(f.items, 1, n))]
      BY <1>3, <2>4 DEF Truncated, Good
    <2>6. n \in Nat /\ n >= 1
      BY <2>3
    <2>7. Len(SubSeq(f.items, 1, n)) = n
      BY <2>4, <2>6, TailCut
    <2>8. g = Cut(f, n) /\ g.synced = n
      <3>1. PICK c : c = SubSeq(f.items, 1, n)
        OBVIOUS
      <3>2. g = [items |-> c, synced |-> Len(c)] /\ Len(c) = n
        BY <2>5, <2>7, <3>1, Zenon
      <3>3. g = [items |-> c, synced |-> n]
        BY <3>2, Zenon
      <3>4. g.synced = n
        BY <3>3
      <3>5. QED
        BY <3>1, <3>3, <3>4, Zenon DEF Cut
    <2>9. /\ g \in Files
          /\ FileOK(g)
          /\ Len(g.items) = n
          /\ g.items[1] = f.items[1]
          /\ g.items[n] # Torn
          /\ \A p \in Seq(Items) : Covers(f, p) => Covers(g, p)
      <3>1. /\ Cut(f, n) \in Files
            /\ FileOK(Cut(f, n))
            /\ Len(Cut(f, n).items) = n
            /\ Cut(f, n).items[1] = f.items[1]
            /\ Cut(f, n).items[n] # Torn
            /\ \A p \in Seq(Items) : Covers(f, p) => Covers(Cut(f, n), p)
        BY <2>4, <2>6, TailCut
      <3>2. QED
        BY <2>8, <3>1, Zenon
    <2>10. g.items # <<>> /\ g.items[1] = Header
      BY <2>6, <2>9, EmptySeq
    <2>11. ~IsTorn(g)
      BY <2>9 DEF IsTorn
    <2>12. g.synced = Len(g.items)
      BY <2>8, <2>9
    <2>13. QED
      BY <2>9, <2>10, <2>11, <2>12
  <1>4. CASE ~IsTorn(f)
    <2>1. g = [items |-> f.items, synced |-> Len(f.items)]
      BY <1>4 DEF Truncated, Good
    <2>2. g.items = f.items /\ g.synced = Len(f.items) /\ g \in Files
      BY <1>1, <1>2, <2>1 DEF Files
    <2>3. PICK k \in Keys : ReadsBack(f, k)
      BY DEF FileOK
    <2>4. ReadsBack(g, k)
      BY <2>2, <2>3 DEF ReadsBack
    <2>5. FileOK(g) /\ ~IsTorn(g)
      BY <1>2, <1>4, <2>2, <2>4 DEF FileOK, IsTorn
    <2>6. ASSUME NEW p \in Seq(Items), Covers(f, p)
          PROVE  Covers(g, p)
      <3>1. Len(p) \in Nat /\ Len(p) <= f.synced /\ f.synced <= Len(f.items)
        BY <2>6, LenProperties DEF Covers, FileOK
      <3>2. Len(p) <= g.synced
        BY <1>1, <1>2, <2>2, <3>1
      <3>3. QED
        BY <2>2, <2>6, <3>2 DEF Covers
    <2>7. QED
      BY <2>2, <2>5, <2>6
  <1>5. QED
    BY <1>3, <1>4

-----------------------------------------------------------------------------
(* One lemma per action *)

\* The locals of compact() outside a call are well typed.
LEMMA NoJobType == NoJob \in Jobs
  <1>1. (CHOOSE k \in Keys : TRUE) \in Keys
    BY LogAssumption
  <1>2. QED
    BY <1>1 DEF NoJob, Jobs

\* The invariant holds before the log is first opened.
LEMMA InitOK == Init => IInv
  <1> SUFFICES ASSUME Init PROVE IInv
    OBVIOUS
  <1>1. TypeOK
    BY EmptyOK, NoJobType, EmptySeq DEF Init, TypeOK
  <1>2. Kept(main, promised)
    BY EmptyOK DEF Init, Kept
  <1>3. QED
    BY <1>1, <1>2 DEF IInv, Init, HandleOK, BuildingOK, RenamedOK

\* Log::open on a missing or empty file, whether or not writing the header works.
LEMMA OpenNewOK == IInv /\ OpenNew => IInv'
  <1> SUFFICES ASSUME IInv, OpenNew PROVE IInv'
    OBVIOUS
  <1> USE DEF IInv
  <1>1. main \in Files /\ promised \in Seq(Items) /\ temp \in Files /\ fresh \in Jobs
    BY DEF TypeOK
  <1>2. main.items \in Seq(Items) /\ main.items = <<>> /\ Len(main.items) = 0
        /\ main.synced \in Nat /\ main.synced <= 0
    BY <1>1 DEF OpenNew, Files, Kept, FileOK
  <1>3. PICK k \in Keys : ReadsBack(main, k)
    BY DEF Kept, FileOK
  <1>4. ~IsTorn(main) /\ Fits(main, Header, k)
    BY <1>2 DEF IsTorn, Fits
  <1>5. promised = <<>>
    BY <1>1, <1>2, EmptySeq, LenProperties DEF Kept, Covers
  <1>6. /\ prior' \in SUBSET Candidates
        /\ \A p \in prior' : Kept(p.file, p.promised)
    <2>1. PICK c : c = [file |-> Empty, promised |-> <<>>]
      OBVIOUS
    <2>2. c \in Candidates /\ Kept(c.file, c.promised)
      BY <2>1, EmptyOK, EmptySeq DEF Candidates, Kept
    <2>3. prior' = prior \/ prior' = prior \cup {c}
      BY <2>1 DEF OpenNew, EntryCreated
    <2>4. QED
      BY <2>2, <2>3 DEF TypeOK
  <1>7. CASE Opened(Flushed(main, Header)) /\ repaired' = FALSE
    <2>1. /\ main' = Flushed(main, Header) /\ promised' = promised /\ temp' = temp
          /\ pc' = "up" /\ fresh' = fresh /\ rewrites' = rewrites
          /\ count' = Len(main'.items) - 1 /\ broken' = FALSE /\ ret' = "ok"
          /\ repaired' = FALSE
      BY <1>7 DEF Opened
    <2>2. /\ main' \in Files
          /\ Len(main'.items) = 1 /\ main'.synced = 1 /\ main'.items[1] = Header
          /\ main'.items # <<>>
      <3>1. /\ Flushed(main, Header) \in Files
            /\ Len(Flushed(main, Header).items) = Len(main.items) + 1
            /\ Flushed(main, Header).synced = Len(main.items) + 1
            /\ Flushed(main, Header).items[Len(main.items) + 1] = Header
            /\ Flushed(main, Header).items # <<>>
        BY <1>1, ItemKinds, FlushedFile
      <3>2. Len(main.items) + 1 = 1
        BY <1>2
      <3>3. QED
        BY <2>1, <3>1, <3>2
    <2>3. ReadsBack(main', k)
      BY <2>2 DEF ReadsBack
    <2>4. Kept(main', promised')
      BY <1>5, <2>1, <2>2, <2>3 DEF Kept, FileOK, Covers
    <2>5. TypeOK'
      <3>1. count' = 0
        BY <2>1, <2>2
      <3>2. QED
        <4>1. main' \in Files /\ temp' \in Files /\ prior' \in SUBSET Candidates
          BY <1>1, <1>6, <2>1, <2>2
        <4>2. pc' = "up" /\ count' \in Nat /\ broken' = FALSE /\ repaired' = FALSE
          BY <2>1, <3>1
        <4>3. /\ fresh' \in Jobs /\ ret' = "ok" /\ rewrites' \in Nat
              /\ promised' \in Seq(Items)
          BY <2>1 DEF TypeOK
        <4>4. QED
          BY <4>1, <4>2, <4>3 DEF TypeOK
    <2>6. HandleOK'
      BY <2>1, <2>2, ItemKinds DEF HandleOK, IsTorn
    <2>7. QED
      BY <1>6, <2>1, <2>4, <2>5, <2>6 DEF BuildingOK, RenamedOK
  <1>8. CASE OpenFailed(FailedWrites(main, Header), "io")
    <2>1. /\ main' \in FailedWrites(main, Header)
          /\ promised' = promised /\ temp' = temp /\ pc' = "down" /\ fresh' = fresh
          /\ rewrites' = rewrites
          /\ count' = count /\ broken' = broken /\ repaired' = repaired /\ ret' = "io"
      BY <1>8 DEF OpenFailed, OpenNew, handle
    <2>2. main' \in Files /\ FileOK(main')
          /\ \A p \in Seq(Items) : Covers(main, p) => Covers(main', p)
      BY <1>1, <1>2, <1>3, <1>4, <2>1, ItemKinds, FailedWriteOK
    <2>3. Kept(main', promised')
      BY <1>1, <2>1, <2>2 DEF Kept
    <2>4. TypeOK'
      BY <1>6, <2>1, <2>2 DEF TypeOK
    <2>5. QED
      BY <1>6, <2>1, <2>3, <2>4 DEF HandleOK, BuildingOK, RenamedOK
  <1>9. QED
    BY <1>7, <1>8 DEF OpenNew

\* Log::open on a file with a header: count the frames, cut off a partial tail.
LEMMA OpenExistingOK == IInv /\ OpenExisting => IInv'
  <1> SUFFICES ASSUME IInv, OpenExisting PROVE IInv'
    OBVIOUS
  <1> USE DEF IInv
  <1>1. main \in Files /\ promised \in Seq(Items) /\ FileOK(main) /\ Covers(main, promised)
        /\ main.items # <<>> /\ main.items[1] = Header /\ prior' = prior /\ pc = "down"
    BY DEF TypeOK, Kept, OpenExisting
  <1>2. PICK g : g = Truncated(main)
    OBVIOUS
  <1>3. /\ g \in Files
        /\ FileOK(g)
        /\ ~IsTorn(g)
        /\ g.synced = Len(g.items)
        /\ g.items # <<>> /\ g.items[1] = Header
        /\ Covers(g, promised)
    BY <1>1, <1>2, TruncatedOK
  <1>4. CASE Opened(IF IsTorn(main) THEN g ELSE main) /\ repaired' = IsTorn(main)
    <2>1. /\ main' = (IF IsTorn(main) THEN g ELSE main)
          /\ promised' = promised /\ temp' = temp
          /\ pc' = "up" /\ fresh' = fresh /\ rewrites' = rewrites
          /\ count' = Len(main'.items) - 1 /\ broken' = FALSE /\ ret' = "ok"
      BY <1>4 DEF Opened
    <2>2. /\ main' \in Files /\ FileOK(main') /\ Covers(main', promised)
          /\ main'.items # <<>> /\ main'.items[1] = Header /\ ~IsTorn(main')
      BY <1>1, <1>3, <2>1
    <2>3. PICK m \in Nat : m = Len(main'.items) /\ m >= 1
      BY <2>2, LenProperties, EmptySeq DEF Files
    <2>4. count' \in Nat /\ Len(main'.items) = count' + 1
      BY <2>1, <2>3
    <2>5. repaired' \in BOOLEAN
      BY <1>4 DEF IsTorn
    <2>6. TypeOK'
      BY <1>1, <2>1, <2>2, <2>4, <2>5 DEF TypeOK
    <2>7. HandleOK'
      BY <2>1, <2>2, <2>4 DEF HandleOK, IsTorn
    <2>8. QED
      BY <1>1, <2>1, <2>2, <2>6, <2>7 DEF BuildingOK, RenamedOK, Kept
  <1>5. CASE OpenFailed({main, [g EXCEPT
              !.synced = IF main.synced < @ THEN main.synced ELSE @]}, "io")
    <2>1. /\ \/ main' = main
             \/ main' = [g EXCEPT !.synced = IF main.synced < @ THEN main.synced ELSE @]
          /\ promised' = promised /\ temp' = temp /\ pc' = "down" /\ fresh' = fresh
          /\ rewrites' = rewrites
          /\ count' = count /\ broken' = broken /\ repaired' = repaired /\ ret' = "io"
      BY <1>1, <1>5 DEF OpenFailed, handle
    <2>2. main' \in Files /\ FileOK(main') /\ Covers(main', promised)
      <3>1. CASE main' = main
        BY <1>1, <3>1
      <3>2. CASE main' = [g EXCEPT !.synced = IF main.synced < @ THEN main.synced ELSE @]
        <4>1. PICK k \in Keys : ReadsBack(g, k)
          BY <1>3 DEF FileOK
        <4>2. /\ main' \in Files /\ main'.items = g.items
              /\ main'.synced = IF main.synced < g.synced THEN main.synced ELSE g.synced
          BY <1>1, <1>3, <3>2 DEF Files
        <4>3. ReadsBack(main', k)
          BY <4>1, <4>2 DEF ReadsBack
        <4>4. main.synced \in Nat /\ g.synced \in Nat /\ main'.synced <= g.synced
          BY <1>1, <1>3, <4>2 DEF Files
        <4>5. FileOK(main')
          BY <1>3, <4>2, <4>3, <4>4 DEF FileOK
        <4>6. Len(promised) <= main'.synced
          BY <1>1, <1>3, <4>2, <4>4 DEF Covers
        <4>7. QED
          BY <1>3, <4>2, <4>5, <4>6 DEF Covers
      <3>3. QED
        BY <2>1, <3>1, <3>2
    <2>3. TypeOK'
      BY <1>1, <2>1, <2>2 DEF TypeOK
    <2>4. QED
      BY <1>1, <2>1, <2>2, <2>3 DEF HandleOK, BuildingOK, RenamedOK, Kept
  <1>6. QED
    BY <1>2, <1>4, <1>5 DEF OpenExisting

\* Log::open on a file that does not start with a header.
LEMMA OpenRefusedOK == IInv /\ OpenRefused => IInv'
  <1> SUFFICES ASSUME IInv, OpenRefused PROVE IInv'
    OBVIOUS
  <1>1. /\ main' = main /\ prior' = prior /\ temp' = temp /\ pc' = pc /\ count' = count
        /\ broken' = broken /\ repaired' = repaired /\ fresh' = fresh
        /\ rewrites' = rewrites /\ promised' = promised
        /\ ret' = "notalog"
    BY DEF OpenRefused, OpenFailed, handle
  <1>2. TypeOK'
    BY <1>1 DEF IInv, TypeOK
  <1>3. QED
    BY <1>1, <1>2 DEF IInv, HandleOK, BuildingOK, RenamedOK, IsTorn

\* An append refused before anything is written.
LEMMA AppendRefusedOK == IInv /\ AppendRefused => IInv'
  <1> SUFFICES ASSUME IInv, AppendRefused PROVE IInv'
    OBVIOUS
  <1>1. /\ main' = main /\ prior' = prior /\ temp' = temp /\ pc' = pc /\ count' = count
        /\ broken' = broken /\ repaired' = repaired /\ fresh' = fresh
        /\ rewrites' = rewrites /\ promised' = promised
        /\ ret' \in {"broken", "toolarge"}
    BY DEF AppendRefused, disk, handle
  <1>2. TypeOK'
    BY <1>1 DEF IInv, TypeOK
  <1>3. QED
    BY <1>1, <1>2 DEF IInv, HandleOK, BuildingOK, RenamedOK, IsTorn

\* Appending an item that fits under key k, whether the write succeeds or not.
LEMMA AppendItemOK ==
    ASSUME IInv, NEW x \in Items, NEW k \in Keys, AppendItem(x),
           x # Torn, ReadsBack(main, k), Fits(main, x, k)
    PROVE  IInv'
  <1>1. /\ main \in Files /\ promised \in Seq(Items)
        /\ FileOK(main) /\ Covers(main, promised)
        /\ pc = "up" /\ ~broken
        /\ main.items # <<>> /\ main.items[1] = Header /\ ~IsTorn(main)
        /\ Len(main.items) = count + 1 /\ count \in Nat
    BY DEF IInv, TypeOK, Kept, AppendItem, AppendOk, AppendFailed, HandleOK
  <1>2. CASE AppendOk(x)
    <2>1. /\ main' = Flushed(main, x) /\ promised' = main'.items /\ count' = count + 1
          /\ ret' = "ok" /\ prior' = prior /\ temp' = temp /\ pc' = pc
          /\ broken' = broken /\ repaired' = repaired /\ fresh' = fresh
          /\ rewrites' = rewrites
      BY <1>2 DEF AppendOk
    <2>2. /\ main' \in Files
          /\ Len(main'.items) = Len(main.items) + 1
          /\ main'.synced = Len(main.items) + 1
          /\ \A i \in 1 .. Len(main.items) : main'.items[i] = main.items[i]
          /\ main'.items[Len(main.items) + 1] = x
          /\ main'.items # <<>>
      BY <1>1, <2>1, FlushedFile
    <2>3. main'.items = Append(main.items, x)
      BY <2>1 DEF Flushed
    <2>4. ReadsBack(main', k)
      BY <1>1, <2>2, <2>3, AppendedReadsBack
    <2>5. FileOK(main')
      BY <1>1, <2>2, <2>4 DEF FileOK
    <2>6. main'.items[1] = Header /\ ~IsTorn(main')
      BY <1>1, <2>2 DEF IsTorn
    <2>7. \A i \in 1 .. Len(main'.items) : main'.items[i] # Torn
      BY <2>2, <2>5, <2>6, NoTornInside
    <2>8. Covers(main', promised')
      BY <1>1, <2>1, <2>2, <2>7 DEF Covers
    <2>9. TypeOK'
      BY <1>1, <2>1, <2>2 DEF IInv, TypeOK, Files
    <2>10. HandleOK'
      BY <1>1, <2>1, <2>2, <2>6 DEF HandleOK, IsTorn
    <2>11. QED
      BY <1>1, <2>1, <2>5, <2>8, <2>9, <2>10 DEF IInv, Kept, BuildingOK, RenamedOK
  <1>3. CASE AppendFailed(x)
    <2>1. /\ main' \in FailedWrites(main, x) /\ promised' = promised /\ count' = count
          /\ ret' = "io" /\ prior' = prior /\ temp' = temp /\ pc' = pc
          /\ broken' = TRUE /\ repaired' = repaired /\ fresh' = fresh
          /\ rewrites' = rewrites
      BY <1>3 DEF AppendFailed
    <2>2. main.synced <= Len(main.items)
      BY <1>1 DEF FileOK
    <2>3. /\ main' \in Files /\ FileOK(main') /\ Covers(main', promised)
          /\ main'.items # <<>> /\ main'.items[1] = Header
      BY <1>1, <2>1, <2>2, FailedWriteOK
    <2>4. TypeOK'
      BY <2>1, <2>3 DEF IInv, TypeOK
    <2>5. QED
      BY <1>1, <2>1, <2>3, <2>4 DEF IInv, Kept, HandleOK, BuildingOK, RenamedOK
  <1>4. QED
    BY <1>2, <1>3 DEF AppendItem

\* append_plain.
LEMMA AppendPlainOK == IInv /\ AppendPlain => IInv'
  <1> SUFFICES ASSUME IInv, AppendPlain PROVE IInv'
    OBVIOUS
  <1>1. PICK v \in Payloads : AppendItem(Plain(v))
    BY DEF AppendPlain
  <1>2. PICK k \in Keys : ReadsBack(main, k)
    BY DEF IInv, Kept, FileOK
  <1>3. main.items # <<>>
    BY <1>1 DEF IInv, HandleOK, AppendItem, AppendOk, AppendFailed
  <1>4. Plain(v) \in Items /\ Plain(v) # Torn /\ Fits(main, Plain(v), k)
    BY <1>3, ItemKinds DEF Fits
  <1>5. QED
    BY <1>1, <1>2, <1>4, AppendItemOK

\* append: the caller's key is the file's, and the position is the count.
LEMMA AppendSealedOK == IInv /\ AppendSealed => IInv'
  <1> SUFFICES ASSUME IInv, AppendSealed PROVE IInv'
    OBVIOUS
  <1>1. PICK v \in Payloads, k \in Keys : CallerKey(k) /\ AppendItem(Sealed(k, count, v))
    BY DEF AppendSealed
  <1>2. PICK h \in Keys : ReadsBack(main, h)
    BY DEF IInv, Kept, FileOK
  <1>3. ReadsBack(main, k)
    BY <1>1, <1>2 DEF ReadsBack, CallerKey
  <1>4. main.items # <<>> /\ Len(main.items) = count + 1 /\ count \in Nat
    BY <1>1 DEF IInv, TypeOK, HandleOK, AppendItem, AppendOk, AppendFailed
  <1>5. Sealed(k, count, v) \in Items /\ Sealed(k, count, v) # Torn
    BY <1>4, ItemKinds
  <1>6. Fits(main, Sealed(k, count, v), k)
    BY <1>4, ItemKinds DEF Fits
  <1>7. QED
    BY <1>1, <1>3, <1>5, <1>6, AppendItemOK

\* Starting a compaction: the stale file goes, a fresh header is written.
LEMMA CompactStartOK == IInv /\ CompactStart => IInv'
  <1> SUFFICES ASSUME IInv, CompactStart PROVE IInv'
    OBVIOUS
  <1>1. /\ main' = main /\ prior' = prior /\ count' = count /\ broken' = broken
        /\ repaired' = repaired /\ rewrites' = rewrites
        /\ promised' = promised /\ pc = "up"
    BY DEF CompactStart, handle
  <1>2. Empty \in Files /\ FileOK(Empty) /\ Empty.items = <<>> /\ Len(Empty.items) = 0
        /\ Empty.synced = 0
    BY EmptyOK DEF Empty
  <1>3. CASE \E k \in Keys, p \in Lists, s \in Lists :
               /\ temp' = Flushed(Empty, Header)
               /\ fresh' = [key |-> k, plain |-> p, sealed |-> s, count |-> 0,
                            goal |-> Rewritten(k, p, s)]
               /\ pc' = "building"
               /\ ret' = ret
    <2>1. PICK k \in Keys, p \in Lists, s \in Lists :
            /\ temp' = Flushed(Empty, Header)
            /\ fresh' = [key |-> k, plain |-> p, sealed |-> s, count |-> 0,
                         goal |-> Rewritten(k, p, s)]
            /\ pc' = "building"
            /\ ret' = ret
      BY <1>3
    <2>2. p \in Seq(Payloads) /\ s \in Seq(Payloads)
      BY LogAssumption, SeqDef DEF Lists
    <2>3. Rewritten(k, p, s) \in Seq(Items)
      <3>1. Len(p) \in Nat /\ Len(s) \in Nat
        BY <2>2, LenProperties
      <3>2. PICK n \in Nat : n = 1 + Len(p) + Len(s)
        BY <3>1
      <3>3. ASSUME NEW i \in 1 .. n
            PROVE  Rewritten(k, p, s)[i] \in Items
        <4>1. CASE i = 1
          BY <3>2, <3>3, <4>1, ItemKinds DEF Rewritten
        <4>2. CASE i # 1 /\ i - 1 <= Len(p)
          <5>1. p[i - 1] \in Payloads
            BY <2>2, <3>1, <3>2, <3>3, <4>2, ElementOfSeq
          <5>2. Rewritten(k, p, s)[i] = Plain(p[i - 1])
            BY <3>2, <3>3, <4>2 DEF Rewritten
          <5>3. QED
            BY <5>1, <5>2, ItemKinds
        <4>3. CASE i # 1 /\ ~(i - 1 <= Len(p))
          <5>1. i - 1 - Len(p) \in 1 .. Len(s) /\ i - 2 \in Nat
            BY <3>1, <3>2, <3>3, <4>3
          <5>2. s[i - 1 - Len(p)] \in Payloads
            BY <2>2, <5>1, ElementOfSeq
          <5>3. Rewritten(k, p, s)[i] = Sealed(k, i - 2, s[i - 1 - Len(p)])
            BY <3>2, <3>3, <4>3 DEF Rewritten
          <5>4. QED
            BY <5>1, <5>2, <5>3, ItemKinds
        <4>4. QED
          BY <4>1, <4>2, <4>3
      <3>4. Rewritten(k, p, s) \in [1 .. n -> Items]
        BY <3>2, <3>3 DEF Rewritten
      <3>5. QED
        BY <3>4, SeqDef
    <2>4. QED
      <3>1. /\ temp' \in Files /\ Len(temp'.items) = 1 /\ temp'.synced = 1
            /\ temp'.items[1] = Header /\ temp'.items # <<>>
        <4>1. /\ Flushed(Empty, Header) \in Files
              /\ Len(Flushed(Empty, Header).items) = Len(Empty.items) + 1
              /\ Flushed(Empty, Header).synced = Len(Empty.items) + 1
              /\ Flushed(Empty, Header).items[Len(Empty.items) + 1] = Header
              /\ Flushed(Empty, Header).items # <<>>
          BY <1>2, ItemKinds, FlushedFile
        <4>2. Len(Empty.items) + 1 = 1
          BY <1>2
        <4>3. QED
          BY <2>1, <4>1, <4>2
      <3>2. fresh' \in Jobs /\ fresh'.key = k /\ fresh'.count = 0
        BY <2>1, <2>2, <2>3 DEF Jobs
      <3>3. ReadsBack(temp', fresh'.key) /\ ~IsTorn(temp')
        BY <3>1, ItemKinds DEF ReadsBack, IsTorn
      <3>4. BuildingOK'
        <4>1. Len(temp'.items) = fresh'.count + 1 /\ temp'.synced = Len(temp'.items)
          BY <3>1, <3>2
        <4>2. QED
          BY <3>1, <3>3, <4>1 DEF BuildingOK, IsTorn, ReadsBack
      <3>5. TypeOK'
        BY <1>1, <2>1, <3>1, <3>2 DEF IInv, TypeOK
      <3>6. QED
        BY <1>1, <2>1, <3>4, <3>5 DEF IInv, HandleOK, RenamedOK, IsTorn
  <1>4. CASE /\ temp' \in {temp} \cup FailedWrites(Empty, Header)
             /\ ret' = "io"
             /\ fresh' = fresh /\ pc' = pc
    <2> PICK k \in Keys : TRUE
      BY LogAssumption
    <2>1. ~IsTorn(Empty) /\ Fits(Empty, Header, k) /\ ReadsBack(Empty, k)
      BY <1>2 DEF IsTorn, Fits, ReadsBack
    <2>2. temp' \in Files
      BY <1>2, <1>4, <2>1, ItemKinds, FailedWriteOK DEF IInv, TypeOK
    <2>3. TypeOK'
      BY <1>1, <1>4, <2>2 DEF IInv, TypeOK
    <2>4. QED
      BY <1>1, <1>4, <2>3 DEF IInv, HandleOK, BuildingOK, RenamedOK, IsTorn
  <1>5. QED
    BY <1>3, <1>4 DEF CompactStart

\* Giving up on a compaction before its rename.
LEMMA CompactAbandonedOK ==
    ASSUME IInv, pc = "building", NEW files \in SUBSET Files, CompactAbandoned(files)
    PROVE  IInv'
  <1>1. /\ temp' \in Files /\ pc' = "up" /\ fresh' = NoJob /\ ret' = "io"
        /\ main' = main /\ prior' = prior /\ count' = count /\ broken' = broken
        /\ repaired' = repaired /\ rewrites' = rewrites
        /\ promised' = promised
    BY DEF CompactAbandoned, handle
  <1>2. TypeOK'
    BY <1>1, NoJobType DEF IInv, TypeOK
  <1>3. QED
    BY <1>1, <1>2 DEF IInv, HandleOK, BuildingOK, RenamedOK, IsTorn

\* Writing one record of a compaction.
LEMMA CompactItemOK ==
    ASSUME IInv, pc = "building", NEW x \in Items, NEW rest \in Jobs, CompactItem(x, rest),
           x # Torn, Fits(temp, x, fresh.key),
           rest.key = fresh.key, rest.count = fresh.count + 1
    PROVE  IInv'
  <1>1. /\ temp \in Files /\ ReadsBack(temp, fresh.key) /\ temp.items # <<>>
        /\ temp.items[1] = Header /\ ~IsTorn(temp)
        /\ Len(temp.items) = fresh.count + 1 /\ temp.synced = Len(temp.items)
    BY DEF IInv, TypeOK, BuildingOK
  <1>2. fresh.key \in Keys /\ fresh.count \in Nat /\ temp.synced <= Len(temp.items)
    BY <1>1 DEF IInv, TypeOK, Jobs
  <1>3. CASE CompactAbandoned(FailedWrites(temp, x))
    <2>1. FailedWrites(temp, x) \in SUBSET Files
      BY <1>1, <1>2, FailedWriteOK
    <2>2. QED
      BY <1>3, <2>1, CompactAbandonedOK
  <1>4. CASE /\ temp' = Flushed(temp, x)
             /\ fresh' = rest
             /\ UNCHANGED <<main, prior, pc, handle, ret, rewrites, promised>>
    <2>1. /\ main' = main /\ prior' = prior /\ count' = count /\ broken' = broken
          /\ repaired' = repaired /\ rewrites' = rewrites
          /\ promised' = promised /\ pc' = pc /\ ret' = ret
      BY <1>4 DEF handle
    <2>2. /\ temp' \in Files
          /\ Len(temp'.items) = Len(temp.items) + 1
          /\ temp'.synced = Len(temp.items) + 1
          /\ \A i \in 1 .. Len(temp.items) : temp'.items[i] = temp.items[i]
          /\ temp'.items[Len(temp.items) + 1] = x
          /\ temp'.items # <<>>
      BY <1>1, <1>4, FlushedFile
    <2>3. temp'.items = Append(temp.items, x)
      BY <1>4 DEF Flushed
    <2>4. ReadsBack(temp', fresh.key)
      BY <1>1, <2>2, <2>3, AppendedReadsBack
    <2>5. /\ temp'.items[1] = Header /\ ~IsTorn(temp')
          /\ Len(temp'.items) = fresh'.count + 1 /\ temp'.synced = Len(temp'.items)
      <3>1. fresh'.count = fresh.count + 1
        BY <1>4
      <3>2. temp'.items[1] = temp.items[1] /\ temp'.items[Len(temp'.items)] = x
        <4>1. PICK m \in Nat : m = Len(temp.items) /\ m >= 1
          BY <1>1, <1>2
        <4>2. 1 \in 1 .. m
          BY <4>1
        <4>3. temp'.items[1] = temp.items[1]
          BY <2>2, <4>1, <4>2
        <4>4. temp'.items[Len(temp'.items)] = x
          BY <2>2
        <4>5. QED
          BY <4>3, <4>4
      <3>3. QED
        BY <1>1, <1>2, <2>2, <3>1, <3>2 DEF IsTorn
    <2>6. BuildingOK'
      BY <1>4, <2>2, <2>4, <2>5 DEF BuildingOK, ReadsBack, IsTorn
    <2>7. TypeOK'
      BY <1>4, <2>1, <2>2 DEF IInv, TypeOK
    <2>8. QED
      BY <2>1, <2>6, <2>7 DEF IInv, HandleOK, RenamedOK, IsTorn
  <1>5. QED
    BY <1>3, <1>4 DEF CompactItem

\* Every record of a compaction, plain ones first, fits where it is written.
LEMMA CompactRecordOK == IInv /\ CompactRecord => IInv'
  <1> SUFFICES ASSUME IInv, CompactRecord PROVE IInv'
    OBVIOUS
  <1>1. /\ pc = "building" /\ fresh \in Jobs /\ temp.items # <<>>
        /\ Len(temp.items) = fresh.count + 1
    BY DEF IInv, TypeOK, BuildingOK, CompactRecord
  <1>2. /\ fresh.plain \in Seq(Payloads) /\ fresh.sealed \in Seq(Payloads)
        /\ fresh.count \in Nat /\ fresh.key \in Keys
    BY <1>1 DEF Jobs
  <1>3. CASE /\ fresh.plain # <<>>
             /\ CompactItem(Plain(Head(fresh.plain)),
                   [fresh EXCEPT !.plain = Tail(@), !.count = @ + 1])
    <2>1. Head(fresh.plain) \in Payloads /\ Tail(fresh.plain) \in Seq(Payloads)
      BY <1>2, <1>3, HeadTailProperties
    <2>2. PICK x : x = Plain(Head(fresh.plain))
      OBVIOUS
    <2>3. x \in Items /\ x # Torn /\ Fits(temp, x, fresh.key)
      BY <1>1, <2>1, <2>2, ItemKinds DEF Fits
    <2>4. PICK rest : rest = [fresh EXCEPT !.plain = Tail(@), !.count = @ + 1]
      OBVIOUS
    <2>5. rest \in Jobs /\ rest.key = fresh.key /\ rest.count = fresh.count + 1
      <3>1. fresh.goal \in Seq(Items) /\ fresh.count + 1 \in Nat
        BY <1>1, <1>2 DEF Jobs
      <3>2. rest = [key |-> fresh.key, plain |-> Tail(fresh.plain), sealed |-> fresh.sealed,
                    count |-> fresh.count + 1, goal |-> fresh.goal]
        BY <1>1, <2>4 DEF Jobs
      <3>3. QED
        BY <1>2, <2>1, <3>1, <3>2 DEF Jobs
    <2>6. CompactItem(x, rest)
      BY <1>3, <2>2, <2>4
    <2>7. QED
      BY <1>1, <2>3, <2>5, <2>6, CompactItemOK
  <1>4. CASE /\ fresh.sealed # <<>>
             /\ CompactItem(Sealed(fresh.key, fresh.count, Head(fresh.sealed)),
                   [fresh EXCEPT !.sealed = Tail(@), !.count = @ + 1])
    <2>1. Head(fresh.sealed) \in Payloads /\ Tail(fresh.sealed) \in Seq(Payloads)
      BY <1>2, <1>4, HeadTailProperties
    <2>2. PICK x : x = Sealed(fresh.key, fresh.count, Head(fresh.sealed))
      OBVIOUS
    <2>3. x \in Items /\ x # Torn /\ Fits(temp, x, fresh.key)
      BY <1>1, <1>2, <2>1, <2>2, ItemKinds DEF Fits
    <2>4. PICK rest : rest = [fresh EXCEPT !.sealed = Tail(@), !.count = @ + 1]
      OBVIOUS
    <2>5. rest \in Jobs /\ rest.key = fresh.key /\ rest.count = fresh.count + 1
      <3>1. fresh.goal \in Seq(Items) /\ fresh.count + 1 \in Nat
        BY <1>1, <1>2 DEF Jobs
      <3>2. rest = [key |-> fresh.key, plain |-> fresh.plain, sealed |-> Tail(fresh.sealed),
                    count |-> fresh.count + 1, goal |-> fresh.goal]
        BY <1>1, <2>4 DEF Jobs
      <3>3. QED
        BY <1>2, <2>1, <3>1, <3>2 DEF Jobs
    <2>6. CompactItem(x, rest)
      BY <1>4, <2>2, <2>4
    <2>7. QED
      BY <1>1, <2>3, <2>5, <2>6, CompactItemOK
  <1>5. QED
    BY <1>3, <1>4 DEF CompactRecord

\* The rename: the finished file takes over, the old one may yet come back.
LEMMA CompactRenameOK == IInv /\ CompactRename => IInv'
  <1> SUFFICES ASSUME IInv, CompactRename PROVE IInv'
    OBVIOUS
  <1>1. /\ pc = "building" /\ temp \in Files /\ main \in Files /\ promised \in Seq(Items)
        /\ fresh \in Jobs /\ ReadsBack(temp, fresh.key)
        /\ temp.items # <<>> /\ temp.items[1] = Header /\ ~IsTorn(temp)
        /\ Len(temp.items) = fresh.count + 1 /\ temp.synced = Len(temp.items)
    BY DEF IInv, TypeOK, BuildingOK, CompactRename
  <1>2. CASE RenameTo(fresh.count)
    <2>1. PICK c : c = [file |-> main, promised |-> promised]
      OBVIOUS
    <2>2. /\ main' = temp /\ prior' = prior \cup {c} /\ temp' = Empty
          /\ count' = fresh.count /\ broken' = FALSE /\ repaired' = FALSE
          /\ promised' = <<>> /\ rewrites' = rewrites + 1 /\ pc' = "renamed"
          /\ fresh' = NoJob /\ ret' = ret
      BY <1>2, <2>1 DEF RenameTo
    <2>3. c \in Candidates /\ Kept(c.file, c.promised)
      BY <1>1, <2>1 DEF Candidates, IInv
    <2>4. /\ fresh.key \in Keys /\ fresh.count \in Nat
          /\ temp.items \in Seq(Items) /\ temp.synced \in Nat
      BY <1>1 DEF Jobs, Files
    <2>5. FileOK(temp)
      BY <1>1, <2>4 DEF FileOK
    <2>6. \A i \in 1 .. Len(temp.items) : temp.items[i] # Torn
      BY <1>1, <2>5, NoTornInside
    <2>7. Covers(temp, temp.items)
      BY <1>1, <2>4, <2>6 DEF Covers
    <2>8. TypeOK'
      <3>1. rewrites' \in Nat
        BY <2>2 DEF IInv, TypeOK
      <3>2. prior' \in SUBSET Candidates
        BY <2>2, <2>3 DEF IInv, TypeOK
      <3>3. QED
        BY <1>1, <2>2, <2>4, <3>1, <3>2, EmptyOK, NoJobType, EmptySeq DEF IInv, TypeOK
    <2>9. \A p \in prior' : Kept(p.file, p.promised)
      BY <2>2, <2>3 DEF IInv
    <2>10. HandleOK'
      BY <1>1, <2>2 DEF HandleOK, IsTorn
    <2>11. Kept(main', promised')
      <3>1. Covers(temp, <<>>)
        BY <2>4 DEF Covers
      <3>2. QED
        BY <2>2, <2>5, <3>1 DEF Kept
    <2>12. RenamedOK'
      BY <2>2, <2>7 DEF RenamedOK
    <2>13. QED
      BY <2>2, <2>8, <2>9, <2>10, <2>11, <2>12 DEF IInv, BuildingOK
  <1>3. CASE CompactAbandoned({temp})
    BY <1>1, <1>3, CompactAbandonedOK
  <1>4. QED
    BY <1>2, <1>3 DEF CompactRename

\* The directory flush, whether or not it works.
LEMMA CompactFlushOK == IInv /\ CompactFlush => IInv'
  <1> SUFFICES ASSUME IInv, CompactFlush PROVE IInv'
    OBVIOUS
  <1>1. /\ main' = main /\ temp' = temp /\ count' = count /\ broken' = broken
        /\ repaired' = repaired /\ fresh' = fresh /\ rewrites' = rewrites
        /\ promised' = main.items /\ pc' = "up" /\ ret' = "ok" /\ pc = "renamed"
        /\ prior' \in {{}, prior}
    BY DEF CompactFlush, handle
  <1>2. TypeOK' /\ Kept(main', promised')
    BY <1>1 DEF IInv, TypeOK, Files, Kept, RenamedOK
  <1>3. \A p \in prior' : Kept(p.file, p.promised)
    BY <1>1 DEF IInv
  <1>4. QED
    BY <1>1, <1>2, <1>3 DEF IInv, HandleOK, BuildingOK, RenamedOK, IsTorn

\* The process dies: memory goes, the page cache stays.
LEMMA KillOK == IInv /\ Kill => IInv'
  <1> SUFFICES ASSUME IInv, Kill PROVE IInv'
    OBVIOUS
  <1>1. /\ main' = main /\ temp' = temp /\ prior' = prior /\ count' = 0
        /\ broken' = FALSE /\ repaired' = FALSE /\ fresh' = NoJob
        /\ rewrites' = rewrites /\ promised' = promised
        /\ pc' = "down" /\ ret' = "none"
    BY DEF Kill, Forgotten, disk
  <1>2. TypeOK'
    BY <1>1, NoJobType DEF IInv, TypeOK
  <1>3. QED
    BY <1>1, <1>2 DEF IInv, HandleOK, BuildingOK, RenamedOK

\* The power goes: some file that may be at the path is what remains of it.
LEMMA PowerLossOK == IInv /\ PowerLoss => IInv'
  <1> SUFFICES ASSUME IInv, PowerLoss PROVE IInv'
    OBVIOUS
  <1>1. /\ temp' \in Survivors(temp) \cup {Empty} /\ prior' = {} /\ pc' = "down"
        /\ rewrites' = rewrites /\ count' = 0 /\ broken' = FALSE
        /\ repaired' = FALSE /\ fresh' = NoJob /\ ret' = "none"
    BY DEF PowerLoss, Forgotten
  <1>2. PICK c \in prior \cup {[file |-> main, promised |-> promised]} :
          main' \in Survivors(c.file) /\ promised' = c.promised
    BY DEF PowerLoss
  <1>3. c.file \in Files /\ c.promised \in Seq(Items) /\ Kept(c.file, c.promised)
    BY <1>2 DEF IInv, TypeOK, Candidates
  <1>4. main' \in Files /\ Kept(main', promised') /\ promised' \in Seq(Items)
    BY <1>2, <1>3, SurvivorShape, SurvivorOK DEF Kept
  <1>5. temp' \in Files
    BY <1>1, EmptyOK, SurvivorShape DEF IInv, TypeOK
  <1>6. TypeOK'
    BY <1>1, <1>4, <1>5, NoJobType DEF IInv, TypeOK
  <1>7. QED
    BY <1>1, <1>4, <1>6 DEF IInv, HandleOK, BuildingOK, RenamedOK

-----------------------------------------------------------------------------
(* Theorems *)

\* Every step keeps the invariant.
LEMMA StepOK == IInv /\ [Next]_vars => IInv'
  <1> SUFFICES ASSUME IInv, [Next]_vars PROVE IInv'
    OBVIOUS
  <1>1. CASE UNCHANGED vars
    BY <1>1 DEF vars, IInv, TypeOK, HandleOK, BuildingOK, RenamedOK, IsTorn
  <1>2. CASE Next
    BY <1>2, OpenNewOK, OpenExistingOK, OpenRefusedOK, AppendRefusedOK, AppendPlainOK,
       AppendSealedOK, CompactStartOK, CompactRecordOK, CompactRenameOK,
       CompactFlushOK, KillOK, PowerLossOK
       DEF Next
  <1>3. QED
    BY <1>1, <1>2

\* Agreeing item by item is being a prefix.
LEMMA PrefixIntro ==
    ASSUME NEW s \in Seq(Items), NEW t \in Seq(Items),
           Len(s) <= Len(t), \A i \in 1 .. Len(s) : s[i] = t[i]
    PROVE  IsPrefix(s, t)
  <1>1. PICK n \in Nat : n = Len(s)
    BY LenProperties
  <1>2. PICK m \in Nat : m = Len(t)
    BY LenProperties
  <1>3. /\ \A i \in 1 .. n : s[i] \in Items
        /\ \A i \in 1 .. n : t[i] \in Items
    BY <1>1, <1>2, ElementOfSeq
  <1>4. /\ SubSeq(s, 1, n) \in Seq(Items)
        /\ Len(SubSeq(s, 1, n)) = n
        /\ \A i \in 1 .. n : SubSeq(s, 1, n)[i] = s[i]
    <2>1. /\ SubSeq(s, 1, n) \in Seq(Items)
          /\ Len(SubSeq(s, 1, n)) = IF 1 <= n THEN n - 1 + 1 ELSE 0
          /\ \A i \in 1 .. n - 1 + 1 : SubSeq(s, 1, n)[i] = s[1 + i - 1]
      BY <1>3, SubSeqProperties
    <2>2. QED
      BY <2>1
  <1>5. /\ SubSeq(t, 1, n) \in Seq(Items)
        /\ Len(SubSeq(t, 1, n)) = n
        /\ \A i \in 1 .. n : SubSeq(t, 1, n)[i] = t[i]
    <2>1. /\ SubSeq(t, 1, n) \in Seq(Items)
          /\ Len(SubSeq(t, 1, n)) = IF 1 <= n THEN n - 1 + 1 ELSE 0
          /\ \A i \in 1 .. n - 1 + 1 : SubSeq(t, 1, n)[i] = t[1 + i - 1]
      BY <1>3, SubSeqProperties
    <2>2. QED
      BY <2>1
  <1>6. SubSeq(s, 1, n) = SubSeq(t, 1, n)
    BY <1>1, <1>4, <1>5, SeqEqual
  <1>7. QED
    BY <1>1, <1>6 DEF IsPrefix

\* A file that covers a promise starts with it.
LEMMA CoversPrefix ==
    ASSUME NEW f \in Files, NEW p \in Seq(Items), Kept(f, p)
    PROVE  IsPrefix(p, f.items)
  <1>1. f.items \in Seq(Items) /\ f.synced \in Nat /\ Len(f.items) \in Nat /\ Len(p) \in Nat
    BY LenProperties DEF Files
  <1>2. Len(p) <= Len(f.items) /\ \A i \in 1 .. Len(p) : p[i] = f.items[i]
    BY <1>1 DEF Kept, Covers, FileOK
  <1>3. QED
    BY <1>1, <1>2, PrefixIntro

\* The invariant holds in every reachable state.
THEOREM Invariance == Spec => []IInv
  <1>1. QED
    BY InitOK, StepOK, PTL DEF Spec

\* The store file, the handle and the locals of compact() keep their types.
THEOREM TypeCorrect == Spec => []TypeOK
  <1>1. IInv => TypeOK
    BY DEF IInv
  <1>2. QED
    BY <1>1, Invariance, PTL

\* The store always reads back in full under one key (write_record, open, compact).
THEOREM AlwaysReplayable == Spec => []Replayable
  <1>1. IInv => Replayable
    BY DEF IInv, Replayable, Kept, FileOK
  <1>2. QED
    BY <1>1, Invariance, PTL

\* What a caller was told is stored starts the file, in order.
THEOREM AlwaysPromisedKept == Spec => []PromisedKept
  <1>1. IInv => PromisedKept
    BY CoversPrefix DEF IInv, TypeOK, PromisedKept
  <1>2. QED
    BY <1>1, Invariance, PTL

\* The next record is sealed against the position it is written at.
THEOREM AlwaysCountIsPosition == Spec => []CountIsPosition
  <1>1. IInv => CountIsPosition
    BY DEF IInv, HandleOK, CountIsPosition
  <1>2. QED
    BY <1>1, Invariance, PTL

\* Nothing acknowledged is lost with the power once no older file can come back.
THEOREM AlwaysAckedSurvive == Spec => AckedSurvive
  <1>1. IInv /\ IInv' /\ [Next]_vars
          => [pc' = "down" /\ prior = {} => IsPrefix(promised, main'.items)]_vars
    <2> SUFFICES ASSUME IInv, IInv', Next, pc' = "down", prior = {}
                 PROVE  IsPrefix(promised, main'.items)
      OBVIOUS
    <2>1. main' \in Files /\ promised' \in Seq(Items) /\ Kept(main', promised')
      BY DEF IInv, TypeOK
    <2>2. promised' = promised
      <3>1. CASE OpenNew
        BY <3>1 DEF OpenNew, Opened, OpenFailed
      <3>2. CASE OpenExisting
        BY <3>2 DEF OpenExisting, Opened, OpenFailed
      <3>3. CASE OpenRefused
        BY <3>3 DEF OpenRefused, OpenFailed
      <3>4. CASE AppendRefused
        BY <3>4 DEF AppendRefused
      <3>5. CASE AppendPlain \/ AppendSealed
        BY <3>5 DEF AppendPlain, AppendSealed, AppendItem, AppendOk, AppendFailed
      <3>6. CASE CompactStart \/ CompactRecord
        BY <3>6 DEF CompactStart, CompactRecord, CompactItem, CompactAbandoned
      <3>7. CASE CompactRename \/ CompactFlush
        BY <3>7 DEF CompactRename, RenameTo, CompactFlush, CompactAbandoned
      <3>8. CASE Kill
        BY <3>8 DEF Kill
      <3>9. CASE PowerLoss
        BY <3>9 DEF PowerLoss
      <3>10. QED
        BY <3>1, <3>2, <3>3, <3>4, <3>5, <3>6, <3>7, <3>8, <3>9 DEF Next
    <2>3. QED
      BY <2>1, <2>2, CoversPrefix
  <1>2. QED
    BY <1>1, Invariance, PTL DEF Spec, AckedSurvive


-----------------------------------------------------------------------------
(* Compactions *)

\* The goal of a compaction is what it has written so far, then the plain and the
\* sealed records it still has to write, each sealed for the place it will have.
Ahead(items, job) ==
    /\ Len(job.goal) = Len(items) + Len(job.plain) + Len(job.sealed)
    /\ \A i \in 1 .. Len(items) : job.goal[i] = items[i]
    /\ \A i \in 1 .. Len(job.plain) : job.goal[Len(items) + i] = Plain(job.plain[i])
    /\ \A i \in 1 .. Len(job.sealed) :
          job.goal[Len(items) + Len(job.plain) + i]
             = Sealed(job.key, Len(items) + Len(job.plain) + i - 2, job.sealed[i])

GoalOK == pc = "building" => Ahead(temp.items, fresh)

\* The goal of a compaction that has written only the header.
LEMMA AheadStart ==
    ASSUME NEW k \in Keys, NEW p \in Seq(Payloads), NEW s \in Seq(Payloads)
    PROVE  Ahead(<<Header>>, [key |-> k, plain |-> p, sealed |-> s, count |-> 0,
                              goal |-> Rewritten(k, p, s)])
<1> DEFINE g == Rewritten(k, p, s)
           job == [key |-> k, plain |-> p, sealed |-> s, count |-> 0, goal |-> g]
<1>1. Len(p) \in Nat /\ Len(s) \in Nat
  OBVIOUS
<1>2. PICK n \in Nat : n = 1 + Len(p) + Len(s)
  BY <1>1
<1>3. g = [i \in 1 .. n |-> IF i = 1 THEN Header
                            ELSE IF i - 1 <= Len(p) THEN Plain(p[i - 1])
                            ELSE Sealed(k, i - 2, s[i - 1 - Len(p)])]
  BY <1>2 DEF Rewritten
<1>4. Len(g) = n
  BY <1>2, <1>3
<1>5. g[1] = Header
  BY <1>1, <1>2, <1>3
<1>6. \A i \in 1 .. Len(p) : g[1 + i] = Plain(p[i])
  <2> SUFFICES ASSUME NEW i \in 1 .. Len(p) PROVE g[1 + i] = Plain(p[i])
    OBVIOUS
  <2>1. 1 + i \in 1 .. n /\ 1 + i # 1 /\ 1 + i - 1 <= Len(p) /\ 1 + i - 1 = i
    BY <1>1, <1>2
  <2> HIDE DEF g
  <2> QED BY <1>3, <2>1
<1>7. \A i \in 1 .. Len(s) : g[1 + Len(p) + i] = Sealed(k, 1 + Len(p) + i - 2, s[i])
  <2> SUFFICES ASSUME NEW i \in 1 .. Len(s)
               PROVE  g[1 + Len(p) + i] = Sealed(k, 1 + Len(p) + i - 2, s[i])
    OBVIOUS
  <2>1. /\ 1 + Len(p) + i \in 1 .. n /\ 1 + Len(p) + i # 1
        /\ ~(1 + Len(p) + i - 1 <= Len(p)) /\ 1 + Len(p) + i - 1 - Len(p) = i
    BY <1>1, <1>2
  <2> HIDE DEF g
  <2> QED BY <1>3, <2>1
<1> HIDE DEF g
<1>8. Len(<<Header>>) = 1 /\ <<Header>>[1] = Header
  OBVIOUS
<1>9. Ahead(<<Header>>, job)
  BY <1>1, <1>2, <1>4, <1>5, <1>6, <1>7, <1>8 DEF Ahead
<1> QED BY <1>9 DEF g

\* Writing the next plain record keeps the goal ahead.
LEMMA AheadPlain ==
    ASSUME NEW t \in Seq(Items), NEW job \in Jobs, NEW rest \in Jobs, Ahead(t, job),
           job.plain # <<>>, rest.plain = Tail(job.plain), rest.sealed = job.sealed,
           rest.key = job.key, rest.goal = job.goal
    PROVE  Ahead(Append(t, Plain(Head(job.plain))), rest)
<1> DEFINE x == Plain(Head(job.plain))
           u == Append(t, x)
           g == job.goal
           p == job.plain
           q == rest.plain
           s == job.sealed
<1>1. p \in Seq(Payloads) /\ s \in Seq(Payloads) /\ p # <<>>
  BY DEF Jobs
<1>2. /\ q = Tail(p) /\ Len(q) = Len(p) - 1 /\ Len(p) \in Nat /\ Len(s) \in Nat /\ Len(p) >= 1
      /\ \A i \in 1 .. Len(q) : q[i] = p[i + 1]
      /\ Head(p) = p[1] /\ Head(p) \in Payloads
  BY <1>1
<1>3. x \in Items /\ x = Plain(p[1])
  BY <1>2, ItemKinds
<1>4. /\ Len(g) = Len(t) + Len(p) + Len(s)
      /\ \A i \in 1 .. Len(t) : g[i] = t[i]
      /\ \A i \in 1 .. Len(p) : g[Len(t) + i] = Plain(p[i])
      /\ \A i \in 1 .. Len(s) :
            g[Len(t) + Len(p) + i] = Sealed(job.key, Len(t) + Len(p) + i - 2, s[i])
  BY DEF Ahead
<1>5. rest.goal = g /\ rest.key = job.key /\ rest.sealed = s
  OBVIOUS
<1> HIDE DEF x, g, p, q, s
<1>6. /\ Len(u) = Len(t) + 1 /\ Len(t) \in Nat /\ u[Len(t) + 1] = x
      /\ \A i \in 1 .. Len(t) : u[i] = t[i]
  BY <1>3
<1> HIDE DEF u
<1>7. \A i \in 1 .. Len(u) : g[i] = u[i]
  <2> SUFFICES ASSUME NEW i \in 1 .. Len(u) PROVE g[i] = u[i]
    OBVIOUS
  <2>1. CASE i = Len(t) + 1
    <3>1. 1 \in 1 .. Len(p)
      BY <1>2
    <3> QED BY <1>3, <1>4, <1>6, <2>1, <3>1
  <2>2. CASE i # Len(t) + 1
    <3>1. i \in 1 .. Len(t)
      BY <1>6, <2>2
    <3> QED BY <1>4, <1>6, <3>1
  <2> QED BY <2>1, <2>2
<1>8. \A i \in 1 .. Len(q) : g[Len(u) + i] = Plain(q[i])
  <2> SUFFICES ASSUME NEW i \in 1 .. Len(q) PROVE g[Len(u) + i] = Plain(q[i])
    OBVIOUS
  <2>1. i + 1 \in 1 .. Len(p) /\ Len(u) + i = Len(t) + (i + 1)
    BY <1>2, <1>6
  <2> QED BY <1>2, <1>4, <2>1
<1>9. Len(u) + Len(q) = Len(t) + Len(p)
  <2>1. Len(q) = Len(p) - 1 /\ Len(p) \in Nat
    BY <1>2
  <2>2. Len(u) = Len(t) + 1 /\ Len(t) \in Nat
    BY <1>6
  <2> QED BY <2>1, <2>2
<1>10. \A i \in 1 .. Len(s) :
          g[Len(u) + Len(q) + i] = Sealed(job.key, Len(u) + Len(q) + i - 2, s[i])
  BY <1>4, <1>9
<1>11. Len(g) = Len(u) + Len(q) + Len(s)
  BY <1>4, <1>9
<1> QED BY <1>5, <1>7, <1>8, <1>10, <1>11 DEF Ahead, q, u, x, p

\* Writing the next sealed record, once the plain ones are written.
LEMMA AheadSealed ==
    ASSUME NEW t \in Seq(Items), NEW job \in Jobs, NEW rest \in Jobs, Ahead(t, job),
           job.plain = <<>>, job.sealed # <<>>, job.count = Len(t) - 1,
           rest.sealed = Tail(job.sealed), rest.plain = job.plain,
           rest.key = job.key, rest.goal = job.goal
    PROVE  Ahead(Append(t, Sealed(job.key, job.count, Head(job.sealed))), rest)
<1> DEFINE x == Sealed(job.key, job.count, Head(job.sealed))
           u == Append(t, x)
           g == job.goal
           s == job.sealed
           r == rest.sealed
<1>1. s \in Seq(Payloads) /\ s # <<>> /\ job.key \in Keys /\ job.count \in Nat
  BY DEF Jobs
<1>2. /\ r = Tail(s) /\ Len(r) = Len(s) - 1 /\ Len(s) \in Nat /\ Len(s) >= 1
      /\ \A i \in 1 .. Len(r) : r[i] = s[i + 1]
      /\ Head(s) = s[1] /\ Head(s) \in Payloads
  BY <1>1
<1>3. x \in Items /\ x = Sealed(job.key, Len(t) - 1, s[1])
  BY <1>1, <1>2, ItemKinds
<1>4. /\ Len(g) = Len(t) + Len(s)
      /\ \A i \in 1 .. Len(t) : g[i] = t[i]
      /\ \A i \in 1 .. Len(s) : g[Len(t) + i] = Sealed(job.key, Len(t) + i - 2, s[i])
  <2>1. Len(job.plain) = 0 /\ Len(t) \in Nat
    OBVIOUS
  <2>2. Len(t) + 0 = Len(t)
    BY <2>1
  <2> QED BY <2>1, <2>2, <1>2 DEF Ahead
<1>5. rest.goal = g /\ rest.key = job.key /\ rest.plain = <<>> /\ Len(rest.plain) = 0
  OBVIOUS
<1> HIDE DEF x, g, s, r
<1>6. /\ Len(u) = Len(t) + 1 /\ Len(t) \in Nat /\ u[Len(t) + 1] = x
      /\ \A i \in 1 .. Len(t) : u[i] = t[i]
  BY <1>3
<1> HIDE DEF u
<1>7. \A i \in 1 .. Len(u) : g[i] = u[i]
  <2> SUFFICES ASSUME NEW i \in 1 .. Len(u) PROVE g[i] = u[i]
    OBVIOUS
  <2>1. CASE i = Len(t) + 1
    <3>1. 1 \in 1 .. Len(s) /\ Len(t) + 1 - 2 = Len(t) - 1
      BY <1>2, <1>6
    <3> QED BY <1>3, <1>4, <1>6, <2>1, <3>1
  <2>2. CASE i # Len(t) + 1
    <3>1. i \in 1 .. Len(t)
      BY <1>6, <2>2
    <3> QED BY <1>4, <1>6, <3>1
  <2> QED BY <2>1, <2>2
<1>8. \A i \in 1 .. Len(r) : g[Len(u) + 0 + i] = Sealed(job.key, Len(u) + 0 + i - 2, r[i])
  <2> SUFFICES ASSUME NEW i \in 1 .. Len(r)
               PROVE  g[Len(u) + 0 + i] = Sealed(job.key, Len(u) + 0 + i - 2, r[i])
    OBVIOUS
  <2>1. i + 1 \in 1 .. Len(s) /\ Len(u) + 0 + i = Len(t) + (i + 1)
    BY <1>2, <1>6
  <2>2. g[Len(t) + (i + 1)] = Sealed(job.key, Len(t) + (i + 1) - 2, s[i + 1])
    BY <1>4, <2>1
  <2> QED BY <1>2, <2>1, <2>2
<1>9. Len(g) = Len(u) + 0 + Len(r)
  <2>1. Len(r) = Len(s) - 1 /\ Len(s) \in Nat
    BY <1>2
  <2>2. Len(u) = Len(t) + 1 /\ Len(t) \in Nat
    BY <1>6
  <2>3. Len(g) = Len(t) + Len(s)
    BY <1>4
  <2> QED BY <2>1, <2>2, <2>3
<1>10. \A i \in 1 .. Len(rest.plain) : rest.goal[Len(u) + i] = Plain(rest.plain[i])
  BY <1>5
<1>11. /\ Len(rest.goal) = Len(u) + Len(rest.plain) + Len(rest.sealed)
       /\ \A i \in 1 .. Len(rest.sealed) :
             rest.goal[Len(u) + Len(rest.plain) + i]
                = Sealed(rest.key, Len(u) + Len(rest.plain) + i - 2, rest.sealed[i])
  BY <1>5, <1>8, <1>9 DEF r
<1>12. Ahead(u, rest)
  BY <1>5, <1>7, <1>10, <1>11 DEF Ahead
<1> QED BY <1>12 DEF u, x

\* One record of a compaction: the job that is left, and what has been written.
LEMMA GoalRecord ==
    ASSUME IInv, GoalOK, CompactRecord, pc' = "building"
    PROVE  Ahead(temp'.items, fresh')
<1>1. /\ pc = "building" /\ fresh \in Jobs /\ temp \in Files
      /\ Len(temp.items) = fresh.count + 1
  BY DEF IInv, TypeOK, BuildingOK, CompactRecord
<1>2. /\ temp.items \in Seq(Items) /\ Ahead(temp.items, fresh)
      /\ fresh.plain \in Seq(Payloads) /\ fresh.sealed \in Seq(Payloads) /\ fresh.count \in Nat
  BY <1>1 DEF Files, GoalOK, Jobs
<1>3. CASE /\ fresh.plain # <<>>
           /\ temp' = Flushed(temp, Plain(Head(fresh.plain)))
           /\ fresh' = [fresh EXCEPT !.plain = Tail(@), !.count = @ + 1]
  <2>1. temp'.items = Append(temp.items, Plain(Head(fresh.plain)))
    BY <1>3 DEF Flushed
  <2>2. /\ fresh'.plain = Tail(fresh.plain) /\ fresh'.sealed = fresh.sealed
        /\ fresh'.key = fresh.key /\ fresh'.goal = fresh.goal
    BY <1>1, <1>3 DEF Jobs
  <2>3. fresh' \in Jobs
    BY CompactRecordOK DEF IInv, TypeOK
  <2> QED BY <1>1, <1>2, <1>3, <2>1, <2>2, <2>3, AheadPlain
<1>4. CASE /\ fresh.plain = <<>> /\ fresh.sealed # <<>>
           /\ temp' = Flushed(temp, Sealed(fresh.key, fresh.count, Head(fresh.sealed)))
           /\ fresh' = [fresh EXCEPT !.sealed = Tail(@), !.count = @ + 1]
  <2>1. temp'.items = Append(temp.items, Sealed(fresh.key, fresh.count, Head(fresh.sealed)))
    BY <1>4 DEF Flushed
  <2>2. /\ fresh'.sealed = Tail(fresh.sealed) /\ fresh'.plain = fresh.plain
        /\ fresh'.key = fresh.key /\ fresh'.goal = fresh.goal
    BY <1>1, <1>4 DEF Jobs
  <2>3. fresh' \in Jobs
    BY CompactRecordOK DEF IInv, TypeOK
  <2>4. fresh.count = Len(temp.items) - 1
    BY <1>1, <1>2
  <2> QED BY <1>1, <1>2, <1>4, <2>1, <2>2, <2>3, <2>4, AheadSealed
<1> QED BY <1>3, <1>4 DEF CompactRecord, CompactItem, CompactAbandoned

\* Only the start of a compaction and its records lead into or stay in a building one.
LEMMA GoalStep == IInv /\ GoalOK /\ [Next]_vars => GoalOK'
<1> SUFFICES ASSUME IInv, GoalOK, [Next]_vars, pc' = "building"
             PROVE  Ahead(temp'.items, fresh')
  BY DEF GoalOK
<1>1. CASE UNCHANGED vars
  BY <1>1 DEF vars, GoalOK
<1>2. CASE CompactRecord
  BY <1>2, GoalRecord
<1>3. CASE CompactStart
  <2>1. PICK k \in Keys, p \in Lists, s \in Lists :
           /\ temp' = Flushed(Empty, Header)
           /\ fresh' = [key |-> k, plain |-> p, sealed |-> s, count |-> 0,
                        goal |-> Rewritten(k, p, s)]
    BY <1>3 DEF CompactStart
  <2>2. p \in Seq(Payloads) /\ s \in Seq(Payloads)
    BY LogAssumption, SeqDef DEF Lists
  <2>3. temp'.items = <<Header>>
    BY <2>1 DEF Flushed, Empty
  <2> QED BY <2>1, <2>2, <2>3, AheadStart
<1>4. ~(OpenNew \/ OpenExisting \/ OpenRefused)
  BY DEF OpenNew, OpenExisting, OpenRefused, Opened, OpenFailed
<1>5. ~(AppendRefused \/ AppendPlain \/ AppendSealed)
  BY DEF AppendRefused, AppendPlain, AppendSealed, AppendItem, AppendOk, AppendFailed
<1>6. ~(CompactRename \/ CompactFlush \/ Kill \/ PowerLoss)
  BY DEF CompactRename, RenameTo, CompactAbandoned, CompactFlush, Kill, PowerLoss
<1> QED BY <1>1, <1>2, <1>3, <1>4, <1>5, <1>6 DEF Next

-----------------------------------------------------------------------------
\* compact(): until its rename the live file does not change, and then it is the whole
\* rewrite, flushed, whatever lay at the temporary path and whatever state the log was in.
THEOREM AlwaysCompactionAtomic == Spec => CompactionAtomic
<1> DEFINE Atomic == pc = "building" =>
                        \/ main' = main
                        \/ pc' = "down"
                        \/ main' = [items |-> fresh.goal, synced |-> Len(fresh.goal)]
<1>1. Init => GoalOK
  BY DEF Init, GoalOK
<1>2. IInv /\ GoalOK /\ [Next]_vars => [Atomic]_vars
  <2> SUFFICES ASSUME IInv, GoalOK, Next, pc = "building"
               PROVE  \/ main' = main
                      \/ pc' = "down"
                      \/ main' = [items |-> fresh.goal, synced |-> Len(fresh.goal)]
    OBVIOUS
  <2>1. ~(OpenNew \/ OpenExisting \/ OpenRefused \/ AppendRefused \/ CompactStart \/ CompactFlush)
    BY DEF OpenNew, OpenExisting, OpenRefused, AppendRefused, CompactStart, CompactFlush
  <2>2. ~(AppendPlain \/ AppendSealed)
    BY DEF AppendPlain, AppendSealed, AppendItem, AppendOk, AppendFailed
  <2>3. CASE CompactRecord
    BY <2>3 DEF CompactRecord, CompactItem, CompactAbandoned
  <2>4. CASE Kill \/ PowerLoss
    BY <2>4 DEF Kill, PowerLoss
  <2>5. CASE CompactRename
    <3>1. CASE CompactAbandoned({temp})
      BY <3>1 DEF CompactAbandoned
    <3>2. CASE RenameTo(fresh.count)
      <4>1. main' = temp
        BY <3>2 DEF RenameTo
      <4>2. /\ temp \in Files /\ temp.synced = Len(temp.items) /\ fresh \in Jobs
            /\ Ahead(temp.items, fresh) /\ fresh.plain = <<>> /\ fresh.sealed = <<>>
        BY <2>5 DEF IInv, TypeOK, BuildingOK, GoalOK, CompactRename
      <4>3. temp.items \in Seq(Items) /\ fresh.goal \in Seq(Items)
        BY <4>2 DEF Files, Jobs
      <4>4. Len(fresh.plain) = 0 /\ Len(fresh.sealed) = 0 /\ Len(temp.items) \in Nat
        BY <4>2, <4>3
      <4>5. /\ Len(fresh.goal) = Len(temp.items) + Len(fresh.plain) + Len(fresh.sealed)
            /\ \A i \in 1 .. Len(temp.items) : fresh.goal[i] = temp.items[i]
        BY <4>2 DEF Ahead
      <4>6. Len(fresh.goal) = Len(temp.items)
        BY <4>4, <4>5
      <4>7. fresh.goal = temp.items
        BY <4>3, <4>5, <4>6, SeqEqual
      <4>8. temp = [items |-> temp.items, synced |-> temp.synced]
        BY <4>2 DEF Files
      <4> QED BY <4>1, <4>2, <4>7, <4>8
    <3> QED BY <2>5, <3>1, <3>2 DEF CompactRename
  <2> QED BY <2>1, <2>2, <2>3, <2>4, <2>5 DEF Next
<1> QED BY <1>1, <1>2, GoalStep, Invariance, PTL DEF Spec, CompactionAtomic

-----------------------------------------------------------------------------
(* The refinement.  What the durable log may do, said of its three variables    *)
(* before and after a step.                                                     *)

Olds(candidates) == {[content |-> Content(p.file), sure |-> Sure(p.file)] : p \in candidates}

AppendStep(c, s, o, c2, s2, o2) ==
    /\ c2 # <<>> /\ c2 = Append(c, c2[Len(c2)])
    /\ s2 = Len(c2) \/ s2 = s
    /\ o2 = o

SettleStep(c, s, o, c2, s2, o2) == s2 = Len(c) /\ c2 = c /\ o2 = o

ReplaceStep(c, s, o, c2, s2, o2) ==
    s2 = Len(c2) /\ o2 = o \cup {[content |-> c, sure |-> s]}

ForgetStep(c, s, o, c2, s2, o2) == o2 = {} /\ c2 = c /\ s2 = s

LoseStep(c, s, o, c2, s2, o2) ==
    /\ \E old \in o \cup {[content |-> c, sure |-> s]} :
          \E n \in old.sure .. Len(old.content) :
             c2 = SubSeq(old.content, 1, n) /\ s2 = n
    /\ o2 = {}

DurableStep(c, s, o, c2, s2, o2) ==
    \/ AppendStep(c, s, o, c2, s2, o2)
    \/ SettleStep(c, s, o, c2, s2, o2)
    \/ ReplaceStep(c, s, o, c2, s2, o2)
    \/ ForgetStep(c, s, o, c2, s2, o2)
    \/ LoseStep(c, s, o, c2, s2, o2)
    \/ c2 = c /\ s2 = s /\ o2 = o

\* One candidate more.
LEMMA OldsAdd ==
    ASSUME NEW pr, NEW c
    PROVE  Olds(pr \cup {c}) = Olds(pr) \cup {[content |-> Content(c.file), sure |-> Sure(c.file)]}
  BY Zenon DEF Olds

\* Such a step is a step of the durable log, under the refinement mapping.
LEMMA DurableNext ==
    DurableStep(Content(main), Sure(main), Olds(prior),
                Content(main'), Sure(main'), Olds(prior'))
      => [D!Next]_(D!vars)
<1> DEFINE c == Content(main)
           s == Sure(main)
           o == Olds(prior)
<1>1. c' = Content(main')
  BY DEF Content, Good, IsTorn, Frame
<1>2. s' = Sure(main')
  BY DEF Sure, Good, IsTorn
<1>3. o' = Olds(prior')
  BY DEF Olds, Sure, Content, Good, IsTorn, Frame
<1> SUFFICES ASSUME DurableStep(c, s, o, c', s', o')
             PROVE  [D!Next]_(D!vars)
  BY <1>1, <1>2, <1>3
<1>4. CASE AppendStep(c, s, o, c', s', o')
  BY <1>4 DEF AppendStep, D!Next, D!Append1, D!AppendUnsure, Olds
<1>5. CASE SettleStep(c, s, o, c', s', o')
  BY <1>5 DEF SettleStep, D!Next, D!Settle, Olds
<1>6. CASE ReplaceStep(c, s, o, c', s', o')
  BY <1>6 DEF ReplaceStep, D!Next, D!Replace, Olds
<1>7. CASE ForgetStep(c, s, o, c', s', o')
  BY <1>7 DEF ForgetStep, D!Next, D!Forget, Olds
<1>8. CASE LoseStep(c, s, o, c', s', o')
  BY <1>8 DEF LoseStep, D!Next, D!Lose, D!Left, Olds
<1>9. CASE c' = c /\ s' = s /\ o' = o
  BY <1>9 DEF D!vars, Olds
<1> QED BY <1>4, <1>5, <1>6, <1>7, <1>8, <1>9 DEF DurableStep

-----------------------------------------------------------------------------
(* What a reader finds in a file *)

\* The items before a partial tail, the header included.
Whole(f) == IF IsTorn(f) THEN Len(f.items) - 1 ELSE Len(f.items)
Pred(n) == IF n = 0 THEN 0 ELSE n - 1
FrameSet == {Frame(it) : it \in Items}

LEMMA WholeFacts ==
    ASSUME NEW f \in Files
    PROVE  /\ f.items \in Seq(Items) /\ f.synced \in Nat
           /\ Whole(f) \in Nat /\ Whole(f) <= Len(f.items)
           /\ Len(Good(f)) = Whole(f)
           /\ \A i \in 1 .. Whole(f) : Good(f)[i] = f.items[i] /\ f.items[i] \in Items
<1>1. f.items \in Seq(Items) /\ f.synced \in Nat /\ Len(f.items) \in Nat
  BY DEF Files
<1>2. CASE ~IsTorn(f)
  BY <1>1, <1>2 DEF Whole, Good
<1>3. CASE IsTorn(f)
  <2>1. PICK m \in Nat : Len(f.items) = m + 1
    <3>1. Len(f.items) >= 1
      BY <1>1, <1>3 DEF IsTorn
    <3>2. Len(f.items) - 1 \in Nat /\ Len(f.items) = Len(f.items) - 1 + 1
      BY <1>1, <3>1
    <3> QED BY <3>2
  <2>2. Whole(f) = m /\ Good(f) = SubSeq(f.items, 1, m)
    BY <1>3, <2>1 DEF Whole, Good
  <2>3. \A i \in 1 .. m : f.items[i] \in Items
    BY <1>1, <2>1
  <2>4. Len(SubSeq(f.items, 1, m)) = m /\ \A i \in 1 .. m : SubSeq(f.items, 1, m)[i] = f.items[i]
    BY <1>1, <2>1, <2>3
  <2> QED BY <1>1, <2>1, <2>2, <2>3, <2>4
<1> QED BY <1>2, <1>3

LEMMA ContentFacts ==
    ASSUME NEW f \in Files
    PROVE  /\ Content(f) \in Seq(FrameSet)
           /\ Len(Content(f)) = Pred(Whole(f))
           /\ Pred(Whole(f)) \in Nat
           /\ \A i \in 1 .. Pred(Whole(f)) : Content(f)[i] = Frame(f.items[i + 1])
           /\ Sure(f) = IF f.synced < Whole(f) THEN Pred(f.synced) ELSE Pred(Whole(f))
           /\ Sure(f) \in Nat /\ Sure(f) <= Len(Content(f))
<1> DEFINE w == Whole(f)
           g == Good(f)
<1>1. /\ w \in Nat /\ Len(g) = w /\ f.synced \in Nat
      /\ \A i \in 1 .. w : g[i] = f.items[i] /\ f.items[i] \in Items
  BY WholeFacts
<1>2. Content(f) = [i \in 1 .. w - 1 |-> Frame(g[i + 1])]
  BY <1>1 DEF Content
<1>3. Sure(f) = LET n == IF f.synced < w THEN f.synced - 1 ELSE w - 1
                IN IF n < 0 THEN 0 ELSE n
  BY <1>1 DEF Sure
<1> HIDE DEF w, g
<1> DEFINE v == Pred(w)
<1>4. v \in Nat /\ 1 .. w - 1 = 1 .. v /\ \A i \in 1 .. v : i + 1 \in 1 .. w
  BY <1>1 DEF Pred
<1> HIDE DEF v
<1>5. \A i \in 1 .. v : g[i + 1] = f.items[i + 1] /\ Frame(f.items[i + 1]) \in FrameSet
  BY <1>1, <1>4 DEF FrameSet
<1>6. Content(f) = [i \in 1 .. v |-> Frame(g[i + 1])]
  BY <1>2, <1>4
<1>7. /\ Content(f) \in Seq(FrameSet) /\ Len(Content(f)) = v
      /\ \A i \in 1 .. v : Content(f)[i] = Frame(f.items[i + 1])
  BY <1>4, <1>5, <1>6
<1>8. Sure(f) = IF f.synced < w THEN Pred(f.synced) ELSE v
  BY <1>1, <1>3 DEF Pred, v
<1>9. Sure(f) \in Nat /\ Sure(f) <= v
  BY <1>1, <1>8 DEF Pred, v
<1> QED BY <1>4, <1>7, <1>8, <1>9 DEF v, w

\* Two files that agree after the header up to their partial tails read the same.
LEMMA SameContent ==
    ASSUME NEW f \in Files, NEW h \in Files, Pred(Whole(h)) = Pred(Whole(f)),
           \A i \in 2 .. Whole(f) : h.items[i] = f.items[i]
    PROVE  Content(h) = Content(f)
<1>1. Whole(f) \in Nat
  BY WholeFacts
<1>2. /\ Content(f) \in Seq(FrameSet) /\ Len(Content(f)) = Pred(Whole(f))
      /\ Pred(Whole(f)) \in Nat
      /\ \A i \in 1 .. Pred(Whole(f)) : Content(f)[i] = Frame(f.items[i + 1])
  BY ContentFacts
<1>3. /\ Content(h) \in Seq(FrameSet) /\ Len(Content(h)) = Pred(Whole(f))
      /\ \A i \in 1 .. Pred(Whole(f)) : Content(h)[i] = Frame(h.items[i + 1])
  BY ContentFacts
<1>4. \A i \in 1 .. Pred(Whole(f)) : i + 1 \in 2 .. Whole(f)
  BY <1>1 DEF Pred
<1>5. \A i \in 1 .. Pred(Whole(f)) : Content(h)[i] = Content(f)[i]
  BY <1>2, <1>3, <1>4
<1> QED BY <1>2, <1>3, <1>5, SeqEqual

\* One whole frame more in the file is one record more to the reader.
LEMMA MoreContent ==
    ASSUME NEW f \in Files, NEW h \in Files, Whole(f) >= 1, Whole(h) = Whole(f) + 1,
           \A i \in 1 .. Whole(f) : h.items[i] = f.items[i]
    PROVE  /\ Content(h) = Append(Content(f), Content(h)[Len(Content(h))])
           /\ Content(h) # <<>>
<1> DEFINE w == Whole(f)
           c == Content(f)
           d == Content(h)
           x == d[Len(d)]
<1>1. w \in Nat
  BY WholeFacts
<1>2. Pred(w) = w - 1 /\ Pred(w + 1) = w /\ w - 1 \in Nat
  BY <1>1 DEF Pred
<1>3. /\ c \in Seq(FrameSet) /\ Len(c) = w - 1
      /\ \A i \in 1 .. w - 1 : c[i] = Frame(f.items[i + 1])
  BY <1>2, ContentFacts
<1>4. /\ d \in Seq(FrameSet) /\ Len(d) = w
      /\ \A i \in 1 .. w : d[i] = Frame(h.items[i + 1])
  BY <1>2, ContentFacts
<1>5. \A i \in 1 .. w - 1 : i + 1 \in 1 .. w /\ h.items[i + 1] = f.items[i + 1]
  BY <1>1
<1> HIDE DEF w, c, d
<1>6. \A i \in 1 .. w - 1 : d[i] = c[i]
  BY <1>1, <1>3, <1>4, <1>5
<1>7. x \in FrameSet /\ x = d[w] /\ d # <<>>
  BY <1>1, <1>4 DEF w
<1> HIDE DEF x
<1>8. /\ Append(c, x) \in Seq(FrameSet) /\ Len(Append(c, x)) = w
      /\ \A i \in 1 .. w - 1 : Append(c, x)[i] = c[i]
      /\ Append(c, x)[w] = x
  BY <1>1, <1>2, <1>3, <1>7
<1>9. \A i \in 1 .. w : d[i] = Append(c, x)[i]
  <2> SUFFICES ASSUME NEW i \in 1 .. w PROVE d[i] = Append(c, x)[i]
    OBVIOUS
  <2>1. CASE i = w
    BY <1>7, <1>8, <2>1
  <2>2. CASE i # w
    <3>1. i \in 1 .. w - 1
      BY <1>1, <2>2
    <3> QED BY <1>6, <1>8, <3>1
  <2> QED BY <2>1, <2>2
<1>10. d = Append(c, x)
  BY <1>4, <1>8, <1>9, SeqEqual
<1> QED BY <1>7, <1>10 DEF x, d, c

\* A first part of a file is a first part of what the reader finds.
LEMMA LessContent ==
    ASSUME NEW f \in Files, NEW h \in Files, Whole(h) <= Whole(f),
           \A i \in 1 .. Whole(h) : h.items[i] = f.items[i]
    PROVE  /\ Content(h) = SubSeq(Content(f), 1, Pred(Whole(h)))
           /\ Pred(Whole(h)) <= Len(Content(f))
<1> DEFINE n == Pred(Whole(h))
           c == Content(f)
           d == Content(h)
<1>1. Whole(h) \in Nat /\ Whole(f) \in Nat
  BY WholeFacts
<1>2. /\ c \in Seq(FrameSet) /\ Len(c) = Pred(Whole(f))
      /\ \A i \in 1 .. Len(c) : c[i] = Frame(f.items[i + 1])
  BY ContentFacts
<1>3. /\ d \in Seq(FrameSet) /\ Len(d) = n /\ n \in Nat
      /\ \A i \in 1 .. n : d[i] = Frame(h.items[i + 1])
  BY ContentFacts
<1>4. n <= Len(c) /\ \A i \in 1 .. n : i + 1 \in 1 .. Whole(h)
  BY <1>1, <1>2 DEF Pred
<1> HIDE DEF n, c, d
<1>5. \A i \in 1 .. n : i \in 1 .. Len(c) /\ d[i] = c[i]
  BY <1>2, <1>3, <1>4
<1>6. /\ SubSeq(c, 1, n) \in Seq(FrameSet) /\ Len(SubSeq(c, 1, n)) = n
      /\ \A i \in 1 .. n : SubSeq(c, 1, n)[i] = c[i]
  BY <1>2, <1>3, <1>4
<1>7. d = SubSeq(c, 1, n)
  BY <1>3, <1>5, <1>6, SeqEqual
<1> QED BY <1>4, <1>7 DEF n, c, d

-----------------------------------------------------------------------------
(* The steps *)

Mapped ==
    DurableStep(Content(main), Sure(main), Olds(prior),
                Content(main'), Sure(main'), Olds(prior'))

\* A step that touches neither the live file nor what may come back.
LEMMA MapUnchanged == main' = main /\ prior' = prior => Mapped
  BY DEF Mapped, DurableStep

\* The live file and the ones that may come back have their types and open.
LEMMA FilesTyped ==
    ASSUME IInv
    PROVE  /\ main \in Files /\ FileOK(main) /\ main.synced <= Len(main.items)
           /\ \A p \in prior : p.file \in Files /\ FileOK(p.file)
  BY DEF IInv, TypeOK, Candidates, Kept, FileOK

\* Creating the file: no content yet, and an empty file may come back.
LEMMA MapOpenNew == IInv /\ OpenNew => Mapped
<1> SUFFICES ASSUME IInv, OpenNew PROVE Mapped
  OBVIOUS
<1>1. main \in Files /\ main.items = <<>> /\ main.synced = 0 /\ main.synced \in Nat
  BY FilesTyped DEF OpenNew, Files
<1>2. main = Empty
  BY <1>1 DEF Files, Empty
<1>3. ~IsTorn(Empty) /\ Empty \in Files /\ Empty.synced = 0
  BY EmptyOK DEF Empty, IsTorn
<1>4. Whole(Empty) = 0
  BY <1>3 DEF Whole, Empty
<1>5. \A h \in Files : Whole(h) <= 1 /\ (Whole(h) = 1 => h.synced \in 0 .. 1)
                         => Content(h) = <<>> /\ Sure(h) = 0
  <2> SUFFICES ASSUME NEW h \in Files, Whole(h) <= 1
               PROVE  Content(h) = <<>> /\ Sure(h) = 0
    OBVIOUS
  <2>1. Whole(h) \in Nat
    BY WholeFacts
  <2>2. Pred(Whole(h)) = 0
    BY <2>1 DEF Pred
  <2>3. Content(h) \in Seq(FrameSet) /\ Len(Content(h)) = 0 /\ Sure(h) \in Nat /\ Sure(h) <= 0
    BY <2>2, ContentFacts
  <2> QED BY <2>3
<1>6. main' \in Files /\ Whole(main') <= 1 /\ (Whole(main') = 1 => main'.synced \in 0 .. 1)
  <2>1. \A x \in {Header, Torn}, n \in 0 .. 1 :
          LET h == [items |-> <<x>>, synced |-> n] IN
          h \in Files /\ Whole(h) <= 1 /\ h.synced \in 0 .. 1
    <3> SUFFICES ASSUME NEW x \in {Header, Torn}, NEW n \in 0 .. 1
                 PROVE  LET h == [items |-> <<x>>, synced |-> n] IN
                        h \in Files /\ Whole(h) <= 1 /\ h.synced \in 0 .. 1
      OBVIOUS
    <3>1. x \in Items
      BY ItemKinds
    <3>2. <<x>> \in Seq(Items) /\ Len(<<x>>) = 1
      BY <3>1
    <3> QED BY <3>2 DEF Files, Whole
  <2>2. CASE main' = Flushed(main, Header)
    <3>1. main' = [items |-> <<Header>>, synced |-> 1]
      BY <1>2, <2>2 DEF Flushed, Empty
    <3> QED BY <2>1, <3>1
  <2>3. CASE main' \in FailedWrites(main, Header)
    <3>1. \/ main' = Empty
          \/ \E x \in {Header, Torn} : main' = [items |-> <<x>>, synced |-> 0]
      BY <1>2, <2>3 DEF FailedWrites, Empty
    <3> QED BY <1>3, <1>4, <2>1, <3>1
  <2> QED BY <2>2, <2>3 DEF OpenNew, Opened, OpenFailed
<1>7. /\ Content(main) = <<>> /\ Sure(main) = 0 /\ Content(main') = <<>> /\ Sure(main') = 0
      /\ Content(Empty) = <<>> /\ Sure(Empty) = 0
  BY <1>2, <1>3, <1>4, <1>5, <1>6
<1>8. CASE prior' = prior
  BY <1>7, <1>8 DEF Mapped, DurableStep
<1>9. CASE prior' = prior \cup {[file |-> Empty, promised |-> <<>>]}
  <2>1. Olds(prior') = Olds(prior) \cup {[content |-> <<>>, sure |-> 0]}
    <3>1. PICK c : c = [file |-> Empty, promised |-> <<>>]
      OBVIOUS
    <3>2. c.file = Empty
      BY <3>1
    <3>3. Olds(prior \cup {c})
            = Olds(prior) \cup {[content |-> Content(c.file), sure |-> Sure(c.file)]}
      BY OldsAdd
    <3> QED BY <1>7, <1>9, <3>1, <3>2, <3>3
  <2>2. Len(<<>>) = 0
    OBVIOUS
  <2> QED BY <1>7, <2>1, <2>2 DEF Mapped, DurableStep, ReplaceStep
<1> QED BY <1>8, <1>9 DEF OpenNew, EntryCreated

\* Opening a file with a partial tail flushes what is left; a failure may cut it
\* without flushing.
LEMMA MapOpenExisting == IInv /\ OpenExisting => Mapped
<1> SUFFICES ASSUME IInv, OpenExisting PROVE Mapped
  OBVIOUS
<1> DEFINE t == Truncated(main)
<1>1. /\ main \in Files /\ FileOK(main) /\ main.items # <<>> /\ main.items[1] = Header
      /\ prior' = prior
  BY FilesTyped DEF OpenExisting
<1>2. t \in Files /\ ~IsTorn(t) /\ t.synced = Len(t.items) /\ t.items = Good(main)
  <2>1. t.items = Good(main)
    BY DEF Truncated
  <2> QED BY <1>1, <2>1, TruncatedOK
<1>3. /\ Whole(main) \in Nat /\ Len(Good(main)) = Whole(main) /\ main.synced \in Nat
      /\ \A i \in 1 .. Whole(main) : Good(main)[i] = main.items[i]
  BY <1>1, WholeFacts
<1> HIDE DEF t
<1>4. CASE main' = t
  <2>1. Whole(t) = Whole(main) /\ t.synced = Whole(main)
    BY <1>2, <1>3 DEF Whole
  <2>2. Content(t) = Content(main)
    BY <1>1, <1>2, <1>3, <2>1, SameContent
  <2>3. Sure(t) = Pred(Whole(main)) /\ Len(Content(main)) = Pred(Whole(main))
    BY <1>1, <1>2, <1>3, <2>1, ContentFacts
  <2> QED BY <1>1, <1>4, <2>2, <2>3 DEF Mapped, DurableStep, SettleStep
<1>5. CASE main' = main
  BY <1>1, <1>5, MapUnchanged
<1>6. CASE main' = [t EXCEPT !.synced = IF main.synced < @ THEN main.synced ELSE @]
  <2>1. t = [items |-> t.items, synced |-> t.synced] /\ t.items \in Seq(Items) /\ t.synced \in Nat
    BY <1>2 DEF Files
  <2>2. main' = [items |-> t.items,
                 synced |-> IF main.synced < t.synced THEN main.synced ELSE t.synced]
    BY <1>6, <2>1
  <2>3. main' \in Files /\ main'.items = t.items
    BY <1>3, <2>1, <2>2 DEF Files
  <2>4. IsTorn(main') = IsTorn(t)
    BY <2>3 DEF IsTorn
  <2>5. Whole(main') = Whole(main)
    BY <1>2, <1>3, <2>3, <2>4 DEF Whole
  <2>6. Content(main') = Content(main)
    BY <1>1, <1>2, <1>3, <2>3, <2>5, SameContent
  <2>7. main'.synced = IF main.synced < Whole(main) THEN main.synced ELSE Whole(main)
    BY <1>2, <1>3, <2>2
  <2>8. Sure(main') = Sure(main)
    <3>1. Sure(main) = IF main.synced < Whole(main) THEN Pred(main.synced) ELSE Pred(Whole(main))
      BY <1>1, ContentFacts
    <3>2. Sure(main') = IF main'.synced < Whole(main) THEN Pred(main'.synced)
                        ELSE Pred(Whole(main))
      BY <2>3, <2>5, ContentFacts
    <3> QED BY <1>3, <2>7, <3>1, <3>2
  <2> QED BY <1>1, <2>6, <2>8 DEF Mapped, DurableStep
<1> QED BY <1>4, <1>5, <1>6 DEF OpenExisting, Opened, OpenFailed, t

\* An append settles everything, or fails and may leave its record readable.
LEMMA MapAppend ==
    ASSUME IInv, NEW x \in Items, x # Torn, AppendItem(x)
    PROVE  Mapped
<1>1. /\ main \in Files /\ main.items # <<>> /\ ~IsTorn(main) /\ prior' = prior
      /\ main.synced <= Len(main.items)
  BY FilesTyped DEF IInv, HandleOK, AppendItem, AppendOk, AppendFailed
<1>2. main.items \in Seq(Items) /\ main.synced \in Nat /\ Len(main.items) \in Nat
  BY <1>1 DEF Files
<1>3. Whole(main) = Len(main.items) /\ Whole(main) >= 1
  BY <1>1, <1>2 DEF Whole
<1> DEFINE w == Len(main.items)
<1>4. \A y \in {x, Torn} :
         /\ Append(main.items, y) \in Seq(Items)
         /\ Len(Append(main.items, y)) = w + 1
         /\ \A i \in 1 .. w : Append(main.items, y)[i] = main.items[i]
         /\ Append(main.items, y)[w + 1] = y
  BY <1>2, ItemKinds
<1>5. ASSUME NEW h \in Files, h.items = Append(main.items, x)
      PROVE  /\ Content(h) = Append(Content(main), Content(h)[Len(Content(h))])
             /\ Content(h) # <<>>
             /\ Whole(h) = w + 1
  <2>1. ~IsTorn(h)
    BY <1>4, <1>5 DEF IsTorn
  <2>2. Whole(h) = w + 1
    BY <1>4, <1>5, <2>1 DEF Whole
  <2>3. \A i \in 1 .. w : h.items[i] = main.items[i]
    BY <1>4, <1>5
  <2> QED BY <1>1, <1>3, <2>2, <2>3, MoreContent
<1>6. Sure(main) = Pred(main.synced)
  <2>1. Sure(main) = IF main.synced < w THEN Pred(main.synced) ELSE Pred(w)
    BY <1>1, <1>3, ContentFacts
  <2>2. main.synced < w \/ main.synced = w
    BY <1>1, <1>2
  <2> QED BY <2>1, <2>2
<1>7. CASE AppendOk(x)
  <2>1. main' = [items |-> Append(main.items, x), synced |-> w + 1]
    BY <1>7 DEF AppendOk, Flushed
  <2>2. main' \in Files /\ main'.items = Append(main.items, x) /\ main'.synced = w + 1
    BY <1>2, <1>4, <2>1 DEF Files
  <2>3. Whole(main') = w + 1
    BY <1>5, <2>2
  <2>4. Sure(main') = Pred(w + 1) /\ Len(Content(main')) = Pred(w + 1)
    BY <1>2, <2>2, <2>3, ContentFacts
  <2> QED BY <1>1, <1>5, <2>2, <2>4 DEF Mapped, DurableStep, AppendStep
<1>8. CASE AppendFailed(x)
  <2>1. main = [items |-> main.items, synced |-> main.synced]
    BY <1>1 DEF Files
  <2>2. \/ main' = main
        \/ \E y \in {x, Torn} : main' = [items |-> Append(main.items, y), synced |-> main.synced]
    BY <1>8, <2>1 DEF AppendFailed, FailedWrites
  <2>3. CASE main' = main
    BY <1>1, <2>3, MapUnchanged
  <2>4. CASE main' = [items |-> Append(main.items, x), synced |-> main.synced]
    <3>1. main' \in Files /\ main'.items = Append(main.items, x) /\ main'.synced = main.synced
      BY <1>2, <1>4, <2>4 DEF Files
    <3>2. Whole(main') = w + 1
      BY <1>5, <3>1
    <3>3. main.synced < w + 1
      BY <1>1, <1>2
    <3>4. Sure(main') = Pred(main.synced)
      BY <3>1, <3>2, <3>3, ContentFacts
    <3> QED BY <1>1, <1>5, <1>6, <3>1, <3>4 DEF Mapped, DurableStep, AppendStep
  <2>5. CASE main' = [items |-> Append(main.items, Torn), synced |-> main.synced]
    <3>1. main' \in Files /\ main'.items = Append(main.items, Torn) /\ main'.synced = main.synced
      BY <1>2, <1>4, <2>5 DEF Files
    <3>2. main'.items # <<>> /\ Len(main'.items) = w + 1 /\ main'.items[w + 1] = Torn
      BY <1>2, <1>4, <3>1
    <3>3. IsTorn(main')
      BY <3>2 DEF IsTorn
    <3>4. Whole(main') = w
      BY <1>2, <3>2, <3>3 DEF Whole
    <3>5. \A i \in 2 .. w : main'.items[i] = main.items[i]
      BY <1>2, <1>4, <3>1
    <3>6. Content(main') = Content(main)
      BY <1>1, <1>3, <3>1, <3>4, <3>5, SameContent
    <3>7. Sure(main') = Sure(main)
      BY <1>1, <1>3, <3>1, <3>4, ContentFacts
    <3> QED BY <1>1, <3>6, <3>7 DEF Mapped, DurableStep
  <2> QED BY <2>2, <2>3, <2>4, <2>5
<1> QED BY <1>7, <1>8 DEF AppendItem

\* The rename is the rewrite.
LEMMA MapRename == IInv /\ CompactRename => Mapped
<1> SUFFICES ASSUME IInv, CompactRename PROVE Mapped
  OBVIOUS
<1>1. CASE CompactAbandoned({temp})
  BY <1>1, MapUnchanged DEF CompactAbandoned
<1>2. CASE RenameTo(fresh.count)
  <2>1. PICK c : c = [file |-> main, promised |-> promised]
    OBVIOUS
  <2>2. main' = temp /\ prior' = prior \cup {c} /\ c.file = main
    BY <1>2, <2>1 DEF RenameTo
  <2>3. temp \in Files /\ ~IsTorn(temp) /\ temp.synced = Len(temp.items)
    BY DEF IInv, TypeOK, BuildingOK, CompactRename
  <2>4. Whole(temp) = temp.synced /\ Whole(temp) \in Nat
    BY <2>3, WholeFacts DEF Whole
  <2>5. Sure(temp) = Len(Content(temp))
    BY <2>3, <2>4, ContentFacts
  <2>6. Olds(prior') = Olds(prior) \cup {[content |-> Content(main), sure |-> Sure(main)]}
    BY <2>2, OldsAdd
  <2> QED BY <2>2, <2>5, <2>6 DEF Mapped, DurableStep, ReplaceStep
<1> QED BY <1>1, <1>2 DEF CompactRename

\* The directory flush, if it works, leaves nothing to come back.
LEMMA MapFlush == IInv /\ CompactFlush => Mapped
<1> SUFFICES ASSUME IInv, CompactFlush PROVE Mapped
  OBVIOUS
<1>1. main' = main /\ (prior' = {} \/ prior' = prior)
  BY DEF CompactFlush
<1>2. CASE prior' = {}
  <2>1. Olds(prior') = {}
    BY <1>2 DEF Olds
  <2> QED BY <1>1, <2>1 DEF Mapped, DurableStep, ForgetStep
<1>3. CASE prior' = prior
  BY <1>1, <1>3, MapUnchanged
<1> QED BY <1>1, <1>2, <1>3

\* What a power loss leaves of a file, to a reader.
LEMMA SurvivorContent ==
    ASSUME NEW f \in Files, FileOK(f), NEW h \in Survivors(f)
    PROVE  \E n \in Sure(f) .. Len(Content(f)) :
              Content(h) = SubSeq(Content(f), 1, n) /\ Sure(h) = n
<1>1. h \in Files /\ h.synced = Len(h.items) /\ FileOK(h)
  BY SurvivorShape, SurvivorOK
<1>2. PICK m \in 0 .. Len(f.items) :
         /\ m >= f.synced
         /\ \/ h.items = SubSeq(f.items, 1, m)
            \/ m < Len(f.items) /\ h.items = Append(SubSeq(f.items, 1, m), Torn)
  BY SurvivorShape
<1>3. /\ f.items \in Seq(Items) /\ f.synced \in Nat /\ Len(f.items) \in Nat /\ m \in Nat
      /\ Whole(f) \in Nat /\ Whole(f) <= Len(f.items)
      /\ h.items \in Seq(Items) /\ Len(h.items) \in Nat
      /\ Whole(h) \in Nat /\ Whole(h) <= Len(h.items)
  BY <1>1, WholeFacts
<1> DEFINE s == SubSeq(f.items, 1, m)
<1>4. \A i \in 1 .. m : f.items[i] \in Items
  BY <1>2, <1>3
<1>5. s \in Seq(Items) /\ Len(s) = m /\ \A i \in 1 .. m : s[i] = f.items[i]
  BY <1>2, <1>3, <1>4
<1> HIDE DEF s
<1>6. \A i \in 1 .. Len(f.items) : f.items[i] = Torn => i = Len(f.items)
  <2>1. PICK k \in Keys : ReadsBack(f, k)
    BY DEF FileOK
  <2> QED BY <2>1, ItemKinds DEF ReadsBack
<1>7. /\ Whole(h) <= Whole(f)
      /\ \A i \in 1 .. Whole(h) : h.items[i] = f.items[i]
      /\ Whole(h) >= f.synced \/ Whole(h) = Whole(f)
      /\ Whole(h) <= h.synced
  <2>1. CASE h.items = s
    <3>1. CASE IsTorn(h)
      <4>1. m >= 1 /\ s[m] = Torn
        BY <1>3, <1>5, <2>1, <3>1 DEF IsTorn
      <4>2. m \in 1 .. Len(f.items) /\ m \in 1 .. m
        BY <1>2, <1>3, <4>1
      <4>3. f.items[m] = Torn
        BY <1>5, <4>1, <4>2
      <4>4. m = Len(f.items)
        BY <1>6, <4>2, <4>3
      <4>5. IsTorn(f)
        BY <1>3, <4>1, <4>3, <4>4 DEF IsTorn
      <4>6. Whole(h) = m - 1 /\ Whole(f) = m - 1
        BY <1>5, <2>1, <3>1, <4>4, <4>5 DEF Whole
      <4>7. \A i \in 1 .. m - 1 : i \in 1 .. m
        BY <1>3
      <4> QED BY <1>1, <1>3, <1>5, <2>1, <4>6, <4>7
    <3>2. CASE ~IsTorn(h)
      <4>1. Whole(h) = m
        BY <1>5, <2>1, <3>2 DEF Whole
      <4>2. m <= Whole(f)
        <5>1. CASE ~IsTorn(f)
          BY <1>2, <1>3, <5>1 DEF Whole
        <5>2. CASE IsTorn(f)
          <6>1. Whole(f) = Len(f.items) - 1 /\ f.items[Len(f.items)] = Torn
            BY <5>2 DEF Whole, IsTorn
          <6>2. m # Len(f.items)
            <7> SUFFICES ASSUME m = Len(f.items) PROVE FALSE
              OBVIOUS
            <7>1. m \in 1 .. m
              BY <1>3, <5>2 DEF IsTorn
            <7>2. h.items[Len(h.items)] = Torn /\ h.items # <<>>
              BY <1>3, <1>5, <2>1, <6>1, <7>1
            <7> QED BY <3>2, <7>2 DEF IsTorn
          <6> QED BY <1>2, <1>3, <6>1, <6>2
        <5> QED BY <5>1, <5>2
      <4> QED BY <1>1, <1>2, <1>3, <1>5, <2>1, <4>1, <4>2
    <3> QED BY <3>1, <3>2
  <2>2. CASE m < Len(f.items) /\ h.items = Append(s, Torn)
    <3>1. /\ Len(h.items) = m + 1 /\ h.items[m + 1] = Torn
          /\ \A i \in 1 .. m : h.items[i] = f.items[i]
      BY <1>3, <1>5, <2>2, ItemKinds
    <3>2. IsTorn(h)
      BY <1>3, <3>1 DEF IsTorn
    <3>3. Whole(h) = m
      BY <1>3, <3>1, <3>2 DEF Whole
    <3>4. m <= Whole(f)
      BY <1>3, <2>2 DEF Whole
    <3> QED BY <1>1, <1>2, <1>3, <3>1, <3>3, <3>4
  <2> QED BY <1>2, <2>1, <2>2 DEF s
<1> DEFINE n == Pred(Whole(h))
<1>8. Content(h) = SubSeq(Content(f), 1, n) /\ n <= Len(Content(f))
  BY <1>1, <1>7, LessContent
<1>9. Sure(h) = n /\ n \in Nat
  <2>1. Sure(h) = IF h.synced < Whole(h) THEN Pred(h.synced) ELSE n
    BY <1>1, ContentFacts
  <2>2. ~(h.synced < Whole(h))
    BY <1>1, <1>3, <1>7
  <2> QED BY <1>3, <2>1, <2>2 DEF Pred
<1>10. Sure(f) \in Nat /\ Len(Content(f)) \in Nat /\ Sure(f) <= n
  <2>1. /\ Sure(f) = IF f.synced < Whole(f) THEN Pred(f.synced) ELSE Pred(Whole(f))
        /\ Sure(f) \in Nat /\ Content(f) \in Seq(FrameSet)
    BY ContentFacts
  <2>2. Sure(f) <= n
    BY <1>3, <1>7, <2>1 DEF Pred
  <2> QED BY <2>1, <2>2
<1>11. n \in Sure(f) .. Len(Content(f))
  BY <1>8, <1>9, <1>10
<1> QED BY <1>8, <1>9, <1>11

LEMMA MapPowerLoss == IInv /\ PowerLoss => Mapped
<1> SUFFICES ASSUME IInv, PowerLoss PROVE Mapped
  OBVIOUS
<1>1. PICK c \in prior \cup {[file |-> main, promised |-> promised]} :
         main' \in Survivors(c.file)
  BY DEF PowerLoss
<1>2. prior' = {}
  BY DEF PowerLoss
<1>3. c.file \in Files /\ FileOK(c.file)
  BY FilesTyped
<1>4. PICK n \in Sure(c.file) .. Len(Content(c.file)) :
         Content(main') = SubSeq(Content(c.file), 1, n) /\ Sure(main') = n
  BY <1>1, <1>3, SurvivorContent
<1>5. PICK old : old = [content |-> Content(c.file), sure |-> Sure(c.file)]
  OBVIOUS
<1>6. old \in Olds(prior) \cup {[content |-> Content(main), sure |-> Sure(main)]}
  BY <1>1, <1>5 DEF Olds
<1>7. Olds(prior') = {}
  BY <1>2 DEF Olds
<1>8. old.content = Content(c.file) /\ old.sure = Sure(c.file)
  BY <1>5
<1>9. LoseStep(Content(main), Sure(main), Olds(prior), Content(main'), Sure(main'), Olds(prior'))
  BY <1>4, <1>6, <1>7, <1>8 DEF LoseStep
<1> QED BY <1>9 DEF Mapped, DurableStep

LEMMA MapStep == IInv /\ [Next]_vars => Mapped
<1> SUFFICES ASSUME IInv, [Next]_vars PROVE Mapped
  OBVIOUS
<1>1. CASE UNCHANGED vars
  BY <1>1, MapUnchanged DEF vars
<1>2. CASE OpenRefused
  BY <1>2, MapUnchanged DEF OpenRefused, OpenFailed
<1>3. CASE AppendRefused
  BY <1>3, MapUnchanged DEF AppendRefused, disk
<1>4. CASE CompactStart
  BY <1>4, MapUnchanged DEF CompactStart
<1>5. CASE CompactRecord
  BY <1>5, MapUnchanged DEF CompactRecord, CompactItem, CompactAbandoned
<1>6. CASE Kill
  BY <1>6, MapUnchanged DEF Kill, disk
<1>7. CASE AppendPlain
  <2>1. PICK v \in Payloads : AppendItem(Plain(v))
    BY <1>7 DEF AppendPlain
  <2>2. Plain(v) \in Items /\ Plain(v) # Torn
    BY ItemKinds
  <2> QED BY <2>1, <2>2, MapAppend
<1>8. CASE AppendSealed
  <2>1. PICK v \in Payloads, k \in Keys : AppendItem(Sealed(k, count, v))
    BY <1>8 DEF AppendSealed
  <2>2. count \in Nat
    BY DEF IInv, TypeOK
  <2>3. Sealed(k, count, v) \in Items /\ Sealed(k, count, v) # Torn
    BY <2>2, ItemKinds
  <2> QED BY <2>1, <2>3, MapAppend
<1> QED BY <1>1, <1>2, <1>3, <1>4, <1>5, <1>6, <1>7, <1>8, MapOpenNew, MapOpenExisting,
           MapRename, MapFlush, MapPowerLoss DEF Next

LEMMA MapInit == Init => D!Init
<1> SUFFICES ASSUME Init PROVE D!Init
  OBVIOUS
<1>1. main = Empty /\ prior = {}
  BY DEF Init
<1>2. Empty \in Files /\ Whole(Empty) = 0
  BY EmptyOK DEF Empty, Whole, IsTorn
<1>3. Content(Empty) \in Seq(FrameSet) /\ Len(Content(Empty)) = 0 /\ Sure(Empty) \in Nat /\ Sure(Empty) <= 0
  BY <1>2, ContentFacts DEF Pred
<1>4. Content(Empty) = <<>> /\ Sure(Empty) = 0
  BY <1>3
<1> QED BY <1>1, <1>4 DEF D!Init

\* log.rs implements what ls-store promises of the store file (DurableLog, which the
\* vault is specified over): failing writes, repairs, interrupted compactions, kills and
\* power losses included, every step is one of the durable log's or changes nothing a
\* reader could see.
THEOREM RefinesDurableLog == Spec => ImplementsDurableLog
<1>1. IInv /\ [Next]_vars => [D!Next]_(D!vars)
  BY MapStep, DurableNext DEF Mapped
<1> QED BY <1>1, MapInit, Invariance, PTL DEF Spec, ImplementsDurableLog, D!Spec
=============================================================================
