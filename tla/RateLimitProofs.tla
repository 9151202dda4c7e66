--------------------------- MODULE RateLimitProofs ---------------------------
(* Proofs about the limiter, for every set of addresses (finite or not), every  *)
(* budget, window length and table size.                                        *)
EXTENDS RateLimit, SequenceTheorems, FiniteSetTheorems, WellFoundedInduction, TLAPS

-----------------------------------------------------------------------------
(* The inductive invariant *)

Windows == [started : Nat, attempts : Nat]

TableOK == windows \in [DOMAIN windows -> Windows] /\ IsFiniteSet(DOMAIN windows)

\* The grants of an address are recorded in the order they were given, and 2 * Budget
\* of them take the length of a window at least.
SpacedOK ==
    \A k \in Addresses :
        /\ \A i \in 1 .. Len(granted[k]) : granted[k][i] <= elapsed
        /\ \A i, j \in 1 .. Len(granted[k]) : i <= j => granted[k][i] <= granted[k][j]
        /\ \A i \in 1 .. Len(granted[k]) : i + 2 * Budget <= Len(granted[k]) =>
              granted[k][i] + Window <= granted[k][i + 2 * Budget]

Spent(w) == IF w.attempts <= Budget THEN w.attempts ELSE Budget

\* The last window of an address was really opened at time `open`, and the last c
\* grants are of that window.  The Budget grants before them are of the window
\* before it; whatever is older was granted a window's length before `open`.  The
\* window lasts for at least its length, in time that has really passed.
LastWindow(k, open, c) ==
    /\ open <= elapsed
    /\ \A i \in 1 .. Len(granted[k]) : i + c <= Len(granted[k]) => granted[k][i] <= open
    /\ \A i \in 1 .. Len(granted[k]) : i + c + Budget <= Len(granted[k]) =>
          granted[k][i] + Window <= open
    /\ IF k \in DOMAIN windows
       THEN c = Spent(windows[k]) /\ open - windows[k].started <= elapsed - now
       ELSE granted[k] = <<>> \/ open + Window <= elapsed

WindowsOK == \A k \in Addresses : \E open \in 0 .. MaxTime, c \in 0 .. Budget : LastWindow(k, open, c)

IInv == TypeOK /\ TableOK /\ SpacedOK /\ WindowsOK

-----------------------------------------------------------------------------
(* Arithmetic *)

\* A set of naturals that is not empty has a least element.
LEMMA NatMin ==
    ASSUME NEW T, T \subseteq Nat, T # {}
    PROVE  \E m \in T : \A y \in T : m <= y
<1> DEFINE R == OpToRel(<, Nat)
<1>1. IsWellFoundedOn(R, Nat)
  BY NatLessThanWellFounded, Zenon
<1>2. \A x, y \in Nat : y < x => <<y, x>> \in R
  BY DEF OpToRel
<1> HIDE DEF R
<1>3. PICK m \in T : \A y \in T : ~ (<<y, m>> \in R)
  BY <1>1, WFMin
<1>4. \A y \in T : ~(y < m)
  BY <1>2, <1>3
<1>5. \A y \in T : m <= y
  BY <1>4
<1> QED BY <1>5

\* Of times in order, any n of which take a stretch's length, at most n are in one.
LEMMA SpacedBound ==
    ASSUME NEW g \in Seq(Nat), NEW n \in Nat, NEW length \in Nat, NEW from \in Nat,
           \A i, j \in 1 .. Len(g) : i <= j => g[i] <= g[j],
           \A i \in 1 .. Len(g) : i + n <= Len(g) => g[i] + length <= g[i + n]
    PROVE  Cardinality({i \in 1 .. Len(g) : g[i] \in from .. from + length - 1}) <= n
<1> DEFINE S == {i \in 1 .. Len(g) : g[i] \in from .. from + length - 1}
<1>1. CASE S = {}
  <2>1. Cardinality(S) = 0
    BY <1>1, FS_EmptySet
  <2> QED BY <2>1
<1>2. CASE S # {}
  <2>1. Len(g) \in Nat /\ \A i \in 1 .. Len(g) : g[i] \in Nat
    OBVIOUS
  <2>2. PICK m \in S : \A y \in S : m <= y
    <3>1. S \subseteq Nat
      OBVIOUS
    <3> HIDE DEF S
    <3> QED BY <1>2, <3>1, NatMin
  <2>3. m \in 1 .. Len(g) /\ g[m] >= from
    BY <2>1, <2>2
  <2>4. ASSUME NEW i \in S PROVE i < m + n
    <3>1. i \in 1 .. Len(g) /\ g[i] < from + length /\ m <= i
      BY <2>1, <2>2, <2>4
    <3>2. SUFFICES ASSUME i >= m + n PROVE FALSE
      BY <2>3, <3>1
    <3>3. m + n \in 1 .. Len(g) /\ g[m] + length <= g[m + n]
      BY <2>1, <2>3, <3>1, <3>2
    <3>4. g[m + n] <= g[i]
      BY <3>1, <3>2, <3>3
    <3>5. g[m] \in Nat /\ g[m + n] \in Nat /\ g[i] \in Nat
      BY <2>1, <2>3, <3>1, <3>3
    <3> HIDE DEF S
    <3>6. from + length <= g[m] + length /\ g[m] + length <= g[i]
      BY <2>3, <3>3, <3>4, <3>5
    <3> QED BY <3>1, <3>5, <3>6
  <2>5. S \subseteq m .. m + n - 1
    BY <2>1, <2>2, <2>3, <2>4
  <2>6. IsFiniteSet(m .. m + n - 1) /\ Cardinality(m .. m + n - 1) <= n
    <3>1. m \in Int /\ m + n - 1 \in Int
      BY <2>3
    <3>2. /\ IsFiniteSet(m .. m + n - 1)
          /\ Cardinality(m .. m + n - 1) = IF m > m + n - 1 THEN 0 ELSE (m + n - 1) - m + 1
      BY <3>1, FS_Interval
    <3> QED BY <3>1, <3>2
  <2>7. Cardinality(m .. m + n - 1) \in Nat /\ IsFiniteSet(S) /\ Cardinality(S) \in Nat
        /\ Cardinality(S) <= Cardinality(m .. m + n - 1)
    BY <2>5, <2>6, FS_Subset, FS_CardinalityType
  <2> QED BY <2>6, <2>7
<1> QED BY <1>1, <1>2

-----------------------------------------------------------------------------
(* The table *)

\* What a table that was full has lost is over.
LEMMA KeptFacts ==
    ASSUME TypeOK, TableOK
    PROVE  /\ Kept(windows) \in [DOMAIN Kept(windows) -> Windows]
           /\ IsFiniteSet(DOMAIN Kept(windows))
           /\ Cardinality(DOMAIN Kept(windows)) <= MaxTracked
           /\ DOMAIN Kept(windows) \subseteq DOMAIN windows
           /\ \A k \in DOMAIN Kept(windows) : Kept(windows)[k] = windows[k]
           /\ \A k \in DOMAIN windows \ DOMAIN Kept(windows) : ~Live(windows[k])
<1> DEFINE live == {k \in DOMAIN windows : Live(windows[k])}
<1>1. Kept(windows) \in {windows, [k \in live |-> windows[k]]}
  BY DEF Kept, Restrict
<1>2. IsFiniteSet(live) /\ Cardinality(live) <= Cardinality(DOMAIN windows)
      /\ Cardinality(live) \in Nat /\ Cardinality(DOMAIN windows) \in Nat
  BY FS_Subset, FS_CardinalityType DEF TableOK
<1>3. MaxTracked \in Nat /\ Cardinality(DOMAIN windows) <= MaxTracked
  BY RateLimitAssumption DEF TypeOK
<1>4. CASE Kept(windows) = windows
  BY <1>3, <1>4 DEF TableOK
<1>5. CASE Kept(windows) = [k \in live |-> windows[k]]
  <2>1. DOMAIN Kept(windows) = live
    BY <1>5
  <2>2. Cardinality(live) <= MaxTracked
    BY <1>2, <1>3
  <2> QED BY <1>2, <1>5, <2>1, <2>2 DEF TableOK
<1> QED BY <1>1, <1>4, <1>5

\* The window an attempt is counted in.
LEMMA CountedFacts ==
    ASSUME TypeOK, TableOK, NEW k \in Addresses
    PROVE  LET kept == Kept(windows)
               w == Counted(kept, k)
           IN /\ w \in Windows /\ w.attempts >= 1 /\ w.started \in 0 .. elapsed
              /\ k \in DOMAIN kept /\ Live(windows[k]) =>
                    w.started = windows[k].started /\ w.attempts = windows[k].attempts + 1
              /\ ~(k \in DOMAIN kept /\ Live(windows[k])) => w.started = now /\ w.attempts = 1
<1> DEFINE kept == Kept(windows)
           w == Counted(kept, k)
<1>1. now \in Nat /\ elapsed \in Nat /\ now <= elapsed
  BY RateLimitAssumption DEF TypeOK
<1>2. CASE k \in DOMAIN kept /\ Live(windows[k])
  <2>1. /\ kept[k] = windows[k] /\ windows[k] \in Windows /\ k \in DOMAIN windows
        /\ windows[k].started \in 0 .. elapsed
    BY <1>2, KeptFacts DEF TableOK, TypeOK
  <2>2. w = [windows[k] EXCEPT !.attempts = @ + 1]
    BY <1>2, <2>1 DEF Counted
  <2> QED BY <1>2, <2>1, <2>2 DEF Windows
<1>3. CASE ~(k \in DOMAIN kept /\ Live(windows[k]))
  <2>1. k \in DOMAIN kept => kept[k] = windows[k]
    BY KeptFacts
  <2>2. w = [started |-> now, attempts |-> 1]
    BY <1>3, <2>1 DEF Counted
  <2> QED BY <1>1, <1>3, <2>2 DEF Windows
<1> QED BY <1>2, <1>3

-----------------------------------------------------------------------------
(* Preservation *)

\* A step that only drops windows that are over keeps an address's last window.
LEMMA OtherWindow ==
    ASSUME IInv, NEW j \in Addresses, granted'[j] = granted[j], UNCHANGED <<now, elapsed>>,
           j \in DOMAIN windows' => j \in DOMAIN windows /\ windows'[j] = windows[j],
           j \in DOMAIN windows /\ j \notin DOMAIN windows' => ~Live(windows[j])
    PROVE  \E open \in 0 .. MaxTime, c \in 0 .. Budget : LastWindow(j, open, c)'
<1>1. PICK open \in 0 .. MaxTime, c \in 0 .. Budget : LastWindow(j, open, c)
  BY DEF IInv, WindowsOK
<1>2. now \in Nat /\ elapsed \in Nat /\ Window \in Nat /\ MaxTime \in Nat
  BY RateLimitAssumption DEF IInv, TypeOK
<1>3. CASE j \in DOMAIN windows'
  BY <1>1, <1>3 DEF LastWindow, Spent
<1>4. CASE j \notin DOMAIN windows'
  <2>1. CASE j \notin DOMAIN windows
    BY <1>1, <1>4, <2>1 DEF LastWindow
  <2>2. CASE j \in DOMAIN windows
    <3>1. windows[j].started \in Nat /\ now - windows[j].started >= Window
      BY <1>2, <1>4, <2>2 DEF IInv, TableOK, Windows, Live
    <3>2. open + Window <= elapsed
      BY <1>1, <1>2, <2>2, <3>1 DEF LastWindow
    <3> QED BY <1>1, <1>4, <3>2 DEF LastWindow
  <2> QED BY <2>1, <2>2
<1> QED BY <1>3, <1>4

\* The grants of an address that has just been let through are still spaced.
LEMMA GrantSpaced ==
    ASSUME IInv, NEW k \in Addresses, granted' = [granted EXCEPT ![k] = Append(@, elapsed)],
           UNCHANGED elapsed, WindowsOK'
    PROVE  SpacedOK'
<1>1. /\ elapsed \in Nat /\ Window \in Nat /\ Budget \in Nat /\ MaxTime \in Nat
      /\ elapsed <= MaxTime /\ granted \in [Addresses -> Seq(0 .. MaxTime)]
  BY RateLimitAssumption DEF IInv, TypeOK
<1> DEFINE g == granted[k]
           h == granted'[k]
           n == Len(granted[k])
<1>2. /\ g \in Seq(0 .. MaxTime) /\ n \in Nat /\ h = Append(g, elapsed)
      /\ \A j \in Addresses \ {k} : granted'[j] = granted[j]
  BY <1>1
<1>3. /\ Len(h) = n + 1 /\ h[n + 1] = elapsed
      /\ \A i \in 1 .. n : h[i] = g[i] /\ g[i] \in Nat
  BY <1>1, <1>2
<1>4. PICK open \in 0 .. MaxTime, c \in 0 .. Budget : LastWindow(k, open, c)'
  BY DEF WindowsOK
<1>5. /\ open <= elapsed
      /\ \A i \in 1 .. Len(h) : i + c + Budget <= Len(h) => h[i] + Window <= open
  BY <1>4 DEF LastWindow
<1>6. /\ \A i \in 1 .. n : g[i] <= elapsed
      /\ \A i, j \in 1 .. n : i <= j => g[i] <= g[j]
      /\ \A i \in 1 .. n : i + 2 * Budget <= n => g[i] + Window <= g[i + 2 * Budget]
  BY DEF IInv, SpacedOK
<1> HIDE DEF g, h, n
<1>7. \A i \in 1 .. Len(h) : i \in 1 .. n \/ i = n + 1
  BY <1>2, <1>3
<1>8. \A i \in 1 .. Len(h) : h[i] <= elapsed
  BY <1>1, <1>3, <1>6, <1>7
<1>9. ASSUME NEW i \in 1 .. Len(h), NEW j \in 1 .. Len(h), i <= j PROVE h[i] <= h[j]
  <2>1. CASE j = n + 1
    BY <1>3, <1>8, <2>1
  <2>2. CASE j \in 1 .. n
    <3>1. i \in 1 .. n
      BY <1>2, <1>9, <2>2
    <3> QED BY <1>3, <1>6, <1>9, <2>2, <3>1
  <2> QED BY <1>7, <2>1, <2>2
<1>10. ASSUME NEW i \in 1 .. Len(h), i + 2 * Budget <= Len(h)
       PROVE  h[i] + Window <= h[i + 2 * Budget]
  <2>1. CASE i + 2 * Budget <= n
    <3>1. i \in 1 .. n /\ i + 2 * Budget \in 1 .. n
      BY <1>1, <1>2, <1>3, <2>1
    <3> QED BY <1>3, <1>6, <2>1, <3>1
  <2>2. CASE i + 2 * Budget = n + 1
    <3>1. i + c + Budget <= Len(h)
      BY <1>1, <1>2, <1>3, <1>10
    <3>2. h[i] + Window <= open
      BY <1>5, <3>1
    <3>3. h[i] \in Nat
      BY <1>1, <1>3, <1>7
    <3> QED BY <1>1, <1>3, <1>5, <2>2, <3>2, <3>3
  <2>3. i + 2 * Budget <= n \/ i + 2 * Budget = n + 1
    BY <1>1, <1>2, <1>3, <1>10
  <2> QED BY <2>1, <2>2, <2>3
<1>11. ASSUME NEW j \in Addresses
       PROVE  /\ \A i \in 1 .. Len(granted'[j]) : granted'[j][i] <= elapsed'
              /\ \A i, l \in 1 .. Len(granted'[j]) : i <= l => granted'[j][i] <= granted'[j][l]
              /\ \A i \in 1 .. Len(granted'[j]) : i + 2 * Budget <= Len(granted'[j]) =>
                    granted'[j][i] + Window <= granted'[j][i + 2 * Budget]
  <2>1. CASE j = k
    BY <1>8, <1>9, <1>10, <2>1 DEF h
  <2>2. CASE j # k
    BY <1>2, <2>2 DEF IInv, SpacedOK
  <2> QED BY <2>1, <2>2
<1> QED BY <1>11 DEF SpacedOK

\* What an attempt that is counted leaves of its address's window.
LEMMA CountedWindow ==
    ASSUME IInv, NEW k \in Addresses, UNCHANGED <<now, elapsed>>,
           NEW w, w = Counted(Kept(windows), k),
           k \in DOMAIN windows', windows'[k] = w,
           granted'[k] = IF w.attempts <= Budget THEN Append(granted[k], elapsed) ELSE granted[k]
    PROVE  \E open \in 0 .. MaxTime, c \in 0 .. Budget : LastWindow(k, open, c)'
<1> DEFINE g == granted[k]
           h == granted'[k]
           n == Len(granted[k])
<1>1. /\ elapsed \in Nat /\ now \in Nat /\ now <= elapsed /\ elapsed <= MaxTime
      /\ Window \in Nat /\ Budget \in Nat /\ MaxTime \in Nat
      /\ g \in Seq(0 .. MaxTime) /\ n \in Nat
  BY RateLimitAssumption DEF IInv, TypeOK
<1>2. \A i \in 1 .. n : g[i] \in Nat /\ g[i] <= elapsed
  <2>1. \A i \in 1 .. n : g[i] \in Nat
    BY <1>1
  <2>2. \A i \in 1 .. n : g[i] <= elapsed
    BY DEF IInv, SpacedOK
  <2> QED BY <2>1, <2>2
<1>3. PICK open \in 0 .. MaxTime, c \in 0 .. Budget : LastWindow(k, open, c)
  BY DEF IInv, WindowsOK
<1>4. w \in Windows /\ w.attempts >= 1 /\ w.started \in Nat /\ w.attempts \in Nat
  BY CountedFacts DEF IInv, Windows
<1>5. \/ w.attempts <= Budget /\ Len(h) = n + 1 /\ (\A i \in 1 .. n : h[i] = g[i])
         /\ Spent(w) = w.attempts
      \/ w.attempts > Budget /\ h = g /\ Len(h) = n /\ Spent(w) = Budget
  BY <1>1, <1>4 DEF Spent
<1>6. CASE k \in DOMAIN Kept(windows) /\ Live(windows[k])
  <2>1. w.started = windows[k].started /\ w.attempts = windows[k].attempts + 1
    BY <1>6, CountedFacts DEF IInv
  <2>2. k \in DOMAIN windows /\ windows[k].attempts \in Nat
    BY <1>6, KeptFacts DEF IInv, TableOK, Windows
  <2>3. c = Spent(windows[k]) /\ open - windows[k].started <= elapsed - now /\ open <= elapsed
    BY <1>3, <2>2 DEF LastWindow
  <2>4. CASE w.attempts <= Budget
    <3>1. c + 1 = w.attempts /\ c + 1 \in 0 .. Budget
      BY <1>1, <1>4, <2>1, <2>2, <2>3, <2>4 DEF Spent
    <3>2. \A i \in 1 .. n + 1 : i + (c + 1) <= n + 1 => h[i] <= open
      BY <1>1, <1>3, <1>5, <2>4 DEF LastWindow
    <3>3. \A i \in 1 .. n + 1 : i + (c + 1) + Budget <= n + 1 => h[i] + Window <= open
      BY <1>1, <1>3, <1>5, <2>4 DEF LastWindow
    <3>4. LastWindow(k, open, c + 1)'
      <4>1. Len(h) = n + 1 /\ c + 1 = Spent(w) /\ Spent(windows'[k]) = Spent(w)
        BY <1>4, <1>5, <2>4, <3>1 DEF Spent
      <4>2. open - windows'[k].started <= elapsed' - now' /\ open <= elapsed'
        BY <2>1, <2>3
      <4> QED BY <3>2, <3>3, <4>1, <4>2 DEF LastWindow, Spent
    <3> QED BY <3>1, <3>4
  <2>5. CASE w.attempts > Budget
    <3>1. c = Budget
      BY <1>1, <1>4, <2>1, <2>2, <2>3, <2>5 DEF Spent
    <3>2. LastWindow(k, open, c)'
      BY <1>1, <1>3, <1>4, <1>5, <2>1, <2>3, <2>5, <3>1 DEF LastWindow, Spent
    <3> QED BY <3>2
  <2> QED BY <1>1, <1>4, <2>4, <2>5
<1>7. CASE ~(k \in DOMAIN Kept(windows) /\ Live(windows[k]))
  <2>1. w.started = now /\ w.attempts = 1
    BY <1>7, CountedFacts DEF IInv
  <2>2. n = 0 \/ open + Window <= elapsed
    <3>1. CASE k \notin DOMAIN windows
      BY <1>1, <1>3, <3>1 DEF LastWindow
    <3>2. CASE k \in DOMAIN windows
      <4>1. ~Live(windows[k])
        BY <1>7, <3>2, KeptFacts DEF IInv
      <4>2. windows[k].started \in Nat /\ now - windows[k].started >= Window
        BY <1>1, <3>2, <4>1 DEF IInv, TableOK, Windows, Live
      <4> QED BY <1>1, <1>3, <3>2, <4>2 DEF LastWindow
    <3> QED BY <3>1, <3>2
  <2>3. ASSUME NEW i \in 1 .. n, i + Budget <= n PROVE g[i] + Window <= elapsed
    <3>1. i + c <= n
      BY <1>1, <2>3
    <3>2. g[i] <= open /\ open + Window <= elapsed
      BY <1>1, <1>3, <2>2, <2>3, <3>1 DEF LastWindow
    <3> QED BY <1>1, <1>2, <3>2
  <2>4. Spent(w) \in 0 .. Budget
    BY <1>1, <1>4 DEF Spent
  <2> HIDE DEF g, h, n
  <2>5. \A i \in 1 .. Len(h) : i + Spent(w) <= Len(h) => h[i] <= elapsed
    <3>1. CASE w.attempts <= Budget
      <4>1. Len(h) = n + 1 /\ Spent(w) = 1 /\ \A i \in 1 .. n : h[i] = g[i]
        BY <1>1, <1>5, <2>1, <3>1
      <4>2. \A i \in 1 .. Len(h) : i + Spent(w) <= Len(h) => i \in 1 .. n
        BY <1>1, <4>1
      <4> QED BY <1>2, <4>1, <4>2
    <3>2. CASE w.attempts > Budget
      BY <1>1, <1>2, <1>5, <2>1, <3>2
    <3> QED BY <1>1, <2>1, <3>1, <3>2
  <2>6. \A i \in 1 .. Len(h) : i + Spent(w) + Budget <= Len(h) => h[i] + Window <= elapsed
    <3>1. CASE w.attempts <= Budget
      BY <1>1, <1>5, <2>1, <2>3, <3>1
    <3>2. CASE w.attempts > Budget
      BY <1>1, <1>5, <2>1, <2>3, <3>2
    <3> QED BY <1>1, <2>1, <3>1, <3>2
  <2>7. LastWindow(k, elapsed, Spent(w))'
    BY <1>1, <2>1, <2>5, <2>6 DEF LastWindow, Spent, h
  <2> QED BY <1>1, <2>4, <2>7
<1> QED BY <1>6, <1>7

LEMMA AllowOK == ASSUME NEW k \in Addresses, IInv, Allow(k) PROVE IInv'
<1> DEFINE kept == Kept(windows)
           w == Counted(kept, k)
           full == Cardinality(DOMAIN kept) >= MaxTracked /\ k \notin DOMAIN kept
<1>1. /\ kept \in [DOMAIN kept -> Windows] /\ IsFiniteSet(DOMAIN kept)
      /\ Cardinality(DOMAIN kept) <= MaxTracked /\ DOMAIN kept \subseteq DOMAIN windows
      /\ \A j \in DOMAIN kept : kept[j] = windows[j]
      /\ \A j \in DOMAIN windows \ DOMAIN kept : ~Live(windows[j])
  BY KeptFacts DEF IInv
<1>2. w \in Windows /\ w.attempts >= 1 /\ w.started \in 0 .. elapsed
  BY CountedFacts DEF IInv
<1>3. /\ MaxTracked \in Nat \ {0} /\ Budget \in Nat /\ MaxTime \in Nat /\ MaxAttempts \in Nat
      /\ elapsed \in 0 .. MaxTime /\ now \in 0 .. elapsed
      /\ granted \in [Addresses -> Seq(0 .. MaxTime)]
  BY RateLimitAssumption DEF IInv, TypeOK
<1>4. \A j \in DOMAIN kept :
        /\ j \in Addresses
        /\ kept[j].started \in 0 .. elapsed /\ kept[j].attempts \in 1 .. MaxAttempts
  BY <1>1 DEF IInv, TypeOK
<1>5. ASSUME full, Answered(k, kept, FALSE) PROVE IInv'
  <2>1. /\ windows' = kept /\ UNCHANGED <<granted, now, elapsed>>
        /\ asked' = [key |-> k, allowed |-> FALSE]
    BY <1>5 DEF Answered
  <2> HIDE DEF kept
  <2>2. TypeOK'
    BY <1>1, <1>3, <1>4, <2>1 DEF TypeOK
  <2>3. TableOK'
    BY <1>1, <2>1 DEF TableOK
  <2>4. SpacedOK'
    BY <2>1 DEF IInv, SpacedOK
  <2>5. \A j \in Addresses : \E open \in 0 .. MaxTime, c \in 0 .. Budget : LastWindow(j, open, c)'
    BY <1>1, <2>1, OtherWindow
  <2> QED BY <2>2, <2>3, <2>4, <2>5 DEF IInv, WindowsOK
<1>6. ASSUME ~full, w.attempts <= MaxAttempts,
             Answered(k, With(kept, k, w), w.attempts <= Budget)
      PROVE  IInv'
  <2>1. /\ windows' = With(kept, k, w) /\ UNCHANGED <<now, elapsed>>
        /\ granted' = IF w.attempts <= Budget
                      THEN [granted EXCEPT ![k] = Append(@, elapsed)] ELSE granted
        /\ asked'.key = k /\ asked'.allowed \in BOOLEAN
    BY <1>6 DEF Answered
  <2>2. w = Counted(Kept(windows), k)
    OBVIOUS
  <2> HIDE DEF kept, w
  <2>3. /\ DOMAIN windows' = DOMAIN kept \cup {k} /\ windows'[k] = w
        /\ \A j \in DOMAIN kept \ {k} : windows'[j] = kept[j]
        /\ windows' \in [DOMAIN windows' -> Windows]
    BY <1>1, <1>2, <2>1 DEF With
  <2>4. IsFiniteSet(DOMAIN windows') /\ Cardinality(DOMAIN windows') <= MaxTracked
    <3>1. /\ IsFiniteSet(DOMAIN kept \cup {k}) /\ Cardinality(DOMAIN kept) \in Nat
          /\ Cardinality(DOMAIN kept \cup {k}) =
               IF k \in DOMAIN kept THEN Cardinality(DOMAIN kept) ELSE Cardinality(DOMAIN kept) + 1
      BY <1>1, FS_AddElement, FS_CardinalityType
    <3> QED BY <1>1, <1>3, <1>6, <2>3, <3>1
  <2>5. granted' \in [Addresses -> Seq(0 .. MaxTime)]
    <3>1. Append(granted[k], elapsed) \in Seq(0 .. MaxTime)
      BY <1>3, AppendProperties
    <3> QED BY <1>3, <2>1, <3>1
  <2>6. TypeOK'
    <3>1. w.attempts \in 1 .. MaxAttempts
      BY <1>2, <1>3, <1>6 DEF Windows
    <3>2. DOMAIN windows' \subseteq Addresses
      BY <1>4, <2>3
    <3>3. ASSUME NEW j \in DOMAIN windows'
          PROVE  windows'[j].started \in 0 .. elapsed' /\ windows'[j].attempts \in 1 .. MaxAttempts
      <4>1. CASE j = k
        BY <1>2, <2>1, <2>3, <3>1, <4>1
      <4>2. CASE j # k
        BY <1>4, <2>1, <2>3, <4>2
      <4> QED BY <4>1, <4>2
    <3>4. elapsed' \in 0 .. MaxTime /\ now' \in 0 .. elapsed' /\ asked'.key \in Addresses \cup {"none"}
      BY <1>3, <2>1
    <3> QED BY <2>1, <2>4, <2>5, <3>2, <3>3, <3>4 DEF TypeOK
  <2>7. TableOK'
    BY <2>3, <2>4 DEF TableOK
  <2>8. WindowsOK'
    <3>1. ASSUME NEW j \in Addresses
          PROVE  \E open \in 0 .. MaxTime, c \in 0 .. Budget : LastWindow(j, open, c)'
      <4>1. CASE j = k
        <5>1. granted'[k] = IF w.attempts <= Budget THEN Append(granted[k], elapsed) ELSE granted[k]
          BY <1>3, <2>1
        <5> QED BY <2>1, <2>2, <2>3, <4>1, <5>1, CountedWindow
      <4>2. CASE j # k
        <5>1. granted'[j] = granted[j]
          BY <1>3, <2>1, <4>2
        <5>2. j \in DOMAIN windows' => j \in DOMAIN kept /\ windows'[j] = windows[j]
          BY <1>1, <2>3, <4>2
        <5>3. j \in DOMAIN windows /\ j \notin DOMAIN windows' => ~Live(windows[j])
          BY <1>1, <2>3
        <5> QED BY <1>1, <2>1, <5>1, <5>2, <5>3, OtherWindow
      <4> QED BY <4>1, <4>2
    <3> QED BY <3>1 DEF WindowsOK
  <2>9. SpacedOK'
    <3>1. CASE w.attempts <= Budget
      BY <2>1, <2>8, <3>1, GrantSpaced
    <3>2. CASE ~(w.attempts <= Budget)
      BY <2>1, <3>2 DEF IInv, SpacedOK
    <3> QED BY <3>1, <3>2
  <2> QED BY <2>6, <2>7, <2>8, <2>9 DEF IInv
<1> QED BY <1>5, <1>6 DEF Allow

LEMMA SucceededOK == ASSUME NEW k \in Addresses, IInv, Succeeded(k) PROVE IInv'
<1> DEFINE D == DOMAIN windows \ {k}
<1>1. /\ windows' = [j \in D |-> windows[j]] /\ DOMAIN windows' = D
      /\ asked' = NoCall /\ UNCHANGED <<now, elapsed>>
  BY DEF Succeeded, Restrict
<1>2. IsFiniteSet(D) /\ Cardinality(D) <= MaxTracked
  <2>1. /\ IsFiniteSet(DOMAIN windows) /\ Cardinality(DOMAIN windows) <= MaxTracked
        /\ D \subseteq DOMAIN windows /\ MaxTracked \in Nat
    BY RateLimitAssumption DEF IInv, TableOK, TypeOK
  <2>2. /\ Cardinality(DOMAIN windows) \in Nat /\ Cardinality(D) \in Nat /\ IsFiniteSet(D)
        /\ Cardinality(D) <= Cardinality(DOMAIN windows)
    BY <2>1, FS_Subset, FS_CardinalityType
  <2> QED BY <2>1, <2>2
<1>3. /\ granted' \in [Addresses -> Seq(0 .. MaxTime)] /\ granted'[k] = <<>>
      /\ \A j \in Addresses \ {k} : granted'[j] = granted[j]
  BY DEF Succeeded, IInv, TypeOK
<1>4. TypeOK'
  BY <1>1, <1>2, <1>3 DEF IInv, TypeOK, NoCall
<1>5. TableOK'
  BY <1>1, <1>2 DEF IInv, TableOK
<1>6. SpacedOK'
  BY <1>1, <1>3 DEF IInv, SpacedOK
<1>7. WindowsOK'
  <2>1. LastWindow(k, 0, 0)'
    BY <1>1, <1>3, RateLimitAssumption DEF LastWindow, IInv, TypeOK
  <2>2. ASSUME NEW j \in Addresses \ {k}
        PROVE  \E open \in 0 .. MaxTime, c \in 0 .. Budget : LastWindow(j, open, c)'
    BY <1>1, <1>3, OtherWindow
  <2> QED BY <2>1, <2>2, RateLimitAssumption DEF WindowsOK
<1> QED BY <1>4, <1>5, <1>6, <1>7 DEF IInv

LEMMA InitOK == Init => IInv
<1> SUFFICES ASSUME Init PROVE IInv
  OBVIOUS
<1> USE RateLimitAssumption DEF Init
<1>1. DOMAIN windows = {} /\ IsFiniteSet({}) /\ Cardinality({}) = 0
  BY FS_EmptySet DEF Nothing
<1>2. windows \in [{} -> Windows]
  BY DEF Nothing
<1>3. TypeOK
  BY <1>1 DEF TypeOK, NoCall
<1>4. TableOK
  BY <1>1, <1>2 DEF TableOK
<1>5. SpacedOK
  BY DEF SpacedOK
<1>6. \A k \in Addresses : LastWindow(k, 0, 0)
  BY <1>1 DEF LastWindow
<1> QED BY <1>3, <1>4, <1>5, <1>6 DEF IInv, WindowsOK

LEMMA RestartOK == IInv /\ Restart => IInv'
<1> SUFFICES ASSUME IInv, Restart PROVE IInv'
  OBVIOUS
<1>1. /\ windows' = Nothing /\ granted' = [k \in Addresses |-> <<>>] /\ asked' = NoCall
      /\ elapsed' \in 0 .. MaxTime /\ now' \in 0 .. elapsed'
  BY DEF IInv, TypeOK, Restart
<1> USE RateLimitAssumption
<1>2. DOMAIN windows' = {} /\ IsFiniteSet({}) /\ Cardinality({}) = 0
  BY <1>1, FS_EmptySet DEF Nothing
<1>3. windows' \in [{} -> Windows]
  BY <1>1 DEF Nothing
<1>4. TypeOK'
  BY <1>1, <1>2 DEF TypeOK, NoCall
<1>5. TableOK'
  BY <1>2, <1>3 DEF TableOK
<1>6. SpacedOK'
  BY <1>1 DEF SpacedOK
<1>7. \A k \in Addresses : LastWindow(k, 0, 0)'
  BY <1>1, <1>2 DEF LastWindow
<1> QED BY <1>4, <1>5, <1>6, <1>7 DEF IInv, WindowsOK

\* Differences compare as their ends do.
LEMMA FurtherApart ==
    \A o, s, e, n, f, m \in Nat : o - s <= e - n /\ f - m >= e - n => o - s <= f - m
OBVIOUS

\* The clocks move: time passes, or the wall clock is set back.
LEMMA ClocksOK ==
    ASSUME IInv, UNCHANGED <<windows, asked, granted>>,
           elapsed' \in 0 .. MaxTime, elapsed' >= elapsed, now' \in 0 .. elapsed',
           elapsed' - now' >= elapsed - now
    PROVE  IInv'
<1>1. /\ elapsed \in Nat /\ now \in Nat /\ elapsed' \in Nat /\ now' \in Nat /\ MaxTime \in Nat
      /\ Window \in Nat /\ Budget \in Nat /\ granted \in [Addresses -> Seq(0 .. MaxTime)]
  BY RateLimitAssumption DEF IInv, TypeOK
<1>2. TypeOK'
  BY <1>1 DEF IInv, TypeOK
<1>3. TableOK'
  BY DEF IInv, TableOK
<1>4. SpacedOK'
  <2>1. \A k \in Addresses : \A i \in 1 .. Len(granted[k]) : granted[k][i] \in Nat
    BY <1>1
  <2> QED BY <1>1, <2>1 DEF IInv, SpacedOK
<1>5. ASSUME NEW k \in Addresses
      PROVE  \E open \in 0 .. MaxTime, c \in 0 .. Budget : LastWindow(k, open, c)'
  <2>1. PICK open \in 0 .. MaxTime, c \in 0 .. Budget : LastWindow(k, open, c)
    BY DEF IInv, WindowsOK
  <2>2. k \in DOMAIN windows => windows[k].started \in Nat
    BY DEF IInv, TableOK, Windows
  <2>3. open <= elapsed'
    BY <1>1, <2>1 DEF LastWindow
  <2>4. /\ \A i \in 1 .. Len(granted'[k]) : i + c <= Len(granted'[k]) => granted'[k][i] <= open
        /\ \A i \in 1 .. Len(granted'[k]) : i + c + Budget <= Len(granted'[k]) =>
              granted'[k][i] + Window <= open
    BY <2>1 DEF LastWindow
  <2>5. CASE k \in DOMAIN windows
    <3>1. c = Spent(windows'[k])
      BY <2>1, <2>5 DEF LastWindow, Spent
    <3>2. open - windows[k].started <= elapsed - now
      BY <2>1, <2>5 DEF LastWindow
    <3>3. windows'[k].started = windows[k].started
      OBVIOUS
    <3>4. windows[k].started \in Nat /\ open \in Nat
      BY <1>1, <2>2, <2>5
    <3>5. open - windows'[k].started <= elapsed' - now'
      BY <1>1, <3>2, <3>3, <3>4, FurtherApart
    <3> QED BY <2>3, <2>4, <2>5, <3>1, <3>5 DEF LastWindow
  <2>6. CASE k \notin DOMAIN windows
    <3>1. granted'[k] = <<>> \/ open + Window <= elapsed'
      BY <1>1, <2>1, <2>6 DEF LastWindow
    <3> QED BY <2>3, <2>4, <2>6, <3>1 DEF LastWindow
  <2> QED BY <2>5, <2>6
<1> QED BY <1>2, <1>3, <1>4, <1>5 DEF IInv, WindowsOK

LEMMA TickOK == IInv /\ Tick => IInv'
<1> SUFFICES ASSUME IInv, Tick PROVE IInv'
  OBVIOUS
<1>1. /\ elapsed' \in 0 .. MaxTime /\ elapsed' >= elapsed /\ now' \in 0 .. elapsed'
      /\ elapsed' - now' >= elapsed - now
  BY RateLimitAssumption DEF IInv, TypeOK, Tick
<1> QED BY <1>1, ClocksOK DEF Tick

LEMMA SetBackOK == IInv /\ SetBack => IInv'
<1> SUFFICES ASSUME IInv, SetBack PROVE IInv'
  OBVIOUS
<1>1. /\ elapsed' \in 0 .. MaxTime /\ elapsed' >= elapsed /\ now' \in 0 .. elapsed'
      /\ elapsed' - now' >= elapsed - now
  <2>1. elapsed \in Nat /\ now \in Nat /\ elapsed \in 0 .. MaxTime /\ MaxTime \in Nat
    BY RateLimitAssumption DEF IInv, TypeOK
  <2>2. now = elapsed /\ now' \in 0 .. now - 1 /\ elapsed' = elapsed
    BY DEF SetBack
  <2>3. now' \in Nat /\ now' < now /\ now <= elapsed
    BY <2>1, <2>2
  <2>4. now' \in 0 .. elapsed
    BY <2>1, <2>3
  <2>5. elapsed - now' >= elapsed - now
    <3>1. \A a, b, c \in Int : a <= b => c - a >= c - b
      OBVIOUS
    <3>2. now' \in Int /\ now \in Int /\ elapsed \in Int /\ now' <= now
      BY <2>1, <2>3
    <3> QED BY <3>1, <3>2, Zenon
  <2>6. elapsed' \in 0 .. MaxTime /\ elapsed' >= elapsed
    BY <2>1, <2>2
  <2>7. now' \in 0 .. elapsed'
    BY <2>2, <2>4
  <2>8. elapsed' - now' >= elapsed - now
    BY <2>2, <2>5
  <2> QED BY <2>6, <2>7, <2>8
<1> QED BY <1>1, ClocksOK DEF SetBack

LEMMA StutterOK == IInv /\ UNCHANGED vars => IInv'
<1> SUFFICES ASSUME IInv, UNCHANGED vars PROVE IInv'
  OBVIOUS
<1>1. /\ elapsed' \in 0 .. MaxTime /\ elapsed' >= elapsed /\ now' \in 0 .. elapsed'
      /\ elapsed' - now' >= elapsed - now
  BY RateLimitAssumption DEF IInv, TypeOK, vars
<1> QED BY <1>1, ClocksOK DEF vars

LEMMA StepOK == IInv /\ [Next]_vars => IInv'
BY AllowOK, SucceededOK, RestartOK, TickOK, SetBackOK, StutterOK DEF Next

-----------------------------------------------------------------------------
(* The theorems *)

\* The invariant holds of every behaviour of the limiter.
THEOREM Invariance == Spec => []IInv
BY InitOK, StepOK, PTL DEF Spec

\* Every variable keeps its type: however many addresses there are, the table never
\* holds more than MAX_TRACKED of them.
THEOREM TypeCorrect == Spec => []TypeOK
<1>1. IInv => TypeOK
  BY DEF IInv
<1> QED BY <1>1, Invariance, PTL

\* An address that does not succeed gets at most twice its budget in any stretch of
\* time as long as a window, for every budget, window and table size (allow()).
THEOREM AlwaysGuessesBounded == Spec => []GuessesBounded
<1>1. IInv => GuessesBounded
  <2> SUFFICES ASSUME IInv, NEW k \in Addresses, NEW from \in 0 .. MaxTime
               PROVE  Cardinality({i \in 1 .. Len(granted[k]) :
                                     granted[k][i] \in from .. from + Window - 1}) <= 2 * Budget
    BY DEF GuessesBounded
  <2>1. /\ granted[k] \in Seq(0 .. MaxTime) /\ MaxTime \in Nat
        /\ 2 * Budget \in Nat /\ Window \in Nat /\ from \in Nat
    BY RateLimitAssumption DEF IInv, TypeOK
  <2>2. granted[k] \in Seq(Nat)
    BY <2>1
  <2>3. /\ \A i, j \in 1 .. Len(granted[k]) : i <= j => granted[k][i] <= granted[k][j]
        /\ \A i \in 1 .. Len(granted[k]) : i + 2 * Budget <= Len(granted[k]) =>
              granted[k][i] + Window <= granted[k][i + 2 * Budget]
    BY DEF IInv, SpacedOK
  <2> QED BY <2>1, <2>2, <2>3, SpacedBound
<1> QED BY <1>1, Invariance, PTL

\* No step moves the start of a window that is live: neither the attempts in it, nor
\* other addresses filling the table, nor the clocks (allow()).
THEOREM AlwaysRefusalDoesNotProlong == Spec => RefusalDoesNotProlong
<1>1. ASSUME IInv, [Next]_vars, NEW k \in DOMAIN windows \cap DOMAIN windows', Live(windows[k])
      PROVE  windows'[k].started = windows[k].started
  <2>1. CASE UNCHANGED windows
    BY <2>1
  <2>2. ASSUME NEW j \in Addresses, Allow(j) PROVE windows'[k].started = windows[k].started
    <3> DEFINE kept == Kept(windows)
               w == Counted(kept, j)
    <3>1. windows' = kept \/ windows' = With(kept, j, w)
      BY <2>2 DEF Allow, Answered
    <3>2. k \in DOMAIN kept /\ kept[k] = windows[k]
      BY <1>1, KeptFacts DEF IInv
    <3>3. j = k => w.started = windows[k].started
      BY <1>1, <2>2, <3>2, CountedFacts DEF IInv
    <3> HIDE DEF kept, w
    <3> QED BY <3>1, <3>2, <3>3 DEF With
  <2>3. ASSUME NEW j \in Addresses, Succeeded(j) PROVE windows'[k].started = windows[k].started
    BY <1>1, <2>3 DEF Succeeded, Restrict
  <2>4. CASE Restart
    BY <1>1, <2>4 DEF Restart, Nothing
  <2> QED BY <1>1, <2>1, <2>2, <2>3, <2>4 DEF Next, Tick, SetBack, vars
<1>2. IInv /\ [Next]_vars
      => [\A k \in DOMAIN windows \cap DOMAIN windows' :
            Live(windows[k]) => windows'[k].started = windows[k].started]_vars
  BY <1>1
<1> QED BY <1>2, Invariance, PTL DEF Spec, RefusalDoesNotProlong
=============================================================================
