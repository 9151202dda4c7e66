--------------------------- MODULE ExchangeProofs ---------------------------
(* Proofs about the HTTP exchange, for every stream, every limit and every      *)
(* deadline.                                                                    *)
EXTENDS Exchange, SequenceTheorems, FiniteSetTheorems, WellFoundedInduction, TLAPS

-----------------------------------------------------------------------------
(* The inductive invariant *)

Before == {"head", "body", "handling", "answering"}
Served == phase = "handling" \/ answer \in {"ok", "large"}
Excused == {"none", "TimedOut", "Incomplete", "EndedEarly", "IncompleteBody"}

\* While the head is read it is what was consumed, and no terminator is in it.
HeadOK ==
    phase = "head" =>
        /\ Len(head) = consumed /\ head = SubSeq(stream, 1, consumed)
        /\ head # <<>> => Len(head) < MaxHead
        /\ Ends(head) = {}
        /\ body = <<>> /\ declared = 0

\* From then on it ends with the first terminator of the stream, it has been
\* accepted, and the body is what follows it.
ReadOK ==
    phase = "body" \/ Served =>
        /\ Len(head) \in HeadEnds /\ \A i \in HeadEnds : Len(head) <= i
        /\ head = SubSeq(stream, 1, Len(head))
        /\ Parsed(head).err = "none" /\ declared = Parsed(head).length
        /\ body = SubSeq(stream, Len(head) + 1, Len(head) + Len(body))
        /\ consumed = Len(head) + Len(body)
        /\ IF phase = "body" THEN Len(body) < declared ELSE Len(body) = declared

\* A refusal for what the stream holds is the one the whole stream deserves.
ErrOK == err \notin Excused => Ideal.err = err

\* What is answered, written and drained, by phase.
PhaseOK ==
    /\ phase \in {"head", "body", "handling"} => answer = "none" /\ err = "none"
    /\ phase \in Before => drained = 0
    /\ phase = "answering" => answer # "none" /\ written < Whole
    /\ phase = "draining" => answer = "refused"
    /\ phase = "draining" /\ asked # Never => drained < MaxDrain
    /\ answer = "refused" => phase \in {"answering", "draining", "closed"}

\* How far the clock may be: each write that took something has cost its timeout at most.
TimeOK ==
    /\ phase \in {"head", "body", "handling"} => since = 0 /\ clock <= 2 * HeadDeadline
    /\ phase \in {"head", "body"} /\ asked # Never =>
          asked <= clock /\ asked <= HeadDeadline /\ clock - asked <= HeadDeadline
    /\ phase = "answering" =>
          /\ since <= clock /\ since <= 2 * HeadDeadline
          /\ asked = Never => clock - since <= written * WriteTimeout
          /\ asked # Never => /\ since <= asked /\ asked <= clock
                              /\ asked - since <= written * WriteTimeout
                              /\ clock - asked <= WriteTimeout
    /\ phase = "draining" =>
          /\ since <= clock /\ since <= 2 * HeadDeadline + Whole * WriteTimeout
          /\ asked = Never => clock - since < DrainDeadline + DrainTimeout
          /\ asked # Never => /\ since <= asked /\ asked <= clock
                              /\ asked - since < DrainDeadline /\ clock - asked <= DrainTimeout

\* More was left to send, when the server stopped reading the request, than it drains.
Cut == Len(stream) - (consumed - drained) > MaxDrain

\* While the client waits, no time passes unless a refusal finds no room; its answer is
\* written whole, and a connection closed on it was cut or has nothing unread.
ClientOK ==
    own =>
        /\ stream \in ClientStreams
        /\ outcome = "none" => ~shut
        /\ outcome = "none" /\ ~Cramped =>
              /\ clock = 0 /\ since = 0 /\ asked <= 0
              /\ phase \in {"draining", "closed"} => written = Whole
              /\ phase = "closed" => Cut \/ (pushed = Len(stream) /\ ~reset)
        /\ outcome = "error" => gaveUp \/ answer = "large" \/ Cramped \/ (phase = "closed" /\ Cut)

\* The invariant that carries the induction.
IInv == TypeOK /\ HeadOK /\ ReadOK /\ ErrOK /\ PhaseOK /\ TimeOK /\ ClientOK

-----------------------------------------------------------------------------
(* Numbers *)

\* A set of naturals that holds 0 and every successor of its members up to N holds
\* everything up to N.
LEMMA UpTo ==
    ASSUME NEW N \in Nat, NEW S, 0 \in S, \A k \in 0 .. N - 1 : k \in S => k + 1 \in S
    PROVE  \A k \in 0 .. N : k \in S
<1> DEFINE T == {k \in 0 .. N : k \notin S}
           R == OpToRel(<, Nat)
<1>1. IsWellFoundedOn(R, Nat)
  BY NatLessThanWellFounded, Zenon
<1>2. \A x, y \in Nat : y < x => <<y, x>> \in R
  BY DEF OpToRel
<1> HIDE DEF R
<1>3. SUFFICES ASSUME T # {} PROVE FALSE
  OBVIOUS
<1>4. T \subseteq Nat
  OBVIOUS
<1>5. PICK m \in T : \A y \in T : ~ (<<y, m>> \in R)
  BY <1>1, <1>3, <1>4, WFMin
<1>6. m \in Nat /\ m # 0 /\ m - 1 \in 0 .. N - 1 /\ m - 1 \in Nat /\ m - 1 < m
  OBVIOUS
<1>7. m - 1 \notin T
  BY <1>2, <1>5, <1>6
<1>8. m - 1 \in S
  BY <1>6, <1>7
<1>9. (m - 1) + 1 \in S
  BY <1>6, <1>8
<1> QED BY <1>6, <1>9

\* A set of naturals has a least member, and Min is it.
LEMMA MinIs ==
    ASSUME NEW S, S \subseteq Nat, S # {}
    PROVE  Min(S) \in S /\ \A y \in S : Min(S) <= y
<1> DEFINE R == OpToRel(<, Nat)
<1>1. IsWellFoundedOn(R, Nat)
  BY NatLessThanWellFounded, Zenon
<1>2. \A x, y \in Nat : y < x => <<y, x>> \in R
  BY DEF OpToRel
<1> HIDE DEF R
<1>3. PICK m \in S : \A y \in S : ~ (<<y, m>> \in R)
  BY <1>1, WFMin
<1>4. m \in Nat /\ \A y \in S : y \in Nat
  OBVIOUS
<1>5. \A y \in S : m <= y
  <2> SUFFICES ASSUME NEW y \in S PROVE m <= y
    OBVIOUS
  <2>1. ~ (y < m)
    BY <1>2, <1>3, <1>4, Zenon
  <2> QED BY <1>4, <2>1
<1> QED BY <1>5 DEF Min

LEMMA MinUnique ==
    ASSUME NEW S, S \subseteq Int, NEW m \in S, \A y \in S : m <= y
    PROVE  Min(S) = m
<1>1. Min(S) \in S /\ \A y \in S : Min(S) <= y
  BY DEF Min
<1>2. m \in Int /\ Min(S) \in Int /\ m <= Min(S) /\ Min(S) <= m
  BY <1>1
<1> QED BY <1>2

LEMMA MinOfTwo ==
    ASSUME NEW a \in Int, NEW b \in Int
    PROVE  Min({a, b}) = IF a <= b THEN a ELSE b
<1>1. CASE a <= b
  BY <1>1, MinUnique
<1>2. CASE ~ (a <= b)
  BY <1>2, MinUnique
<1> QED BY <1>1, <1>2

\* A bounded set of naturals has a greatest member, and Max is it.
LEMMA MaxIs ==
    ASSUME NEW n \in Nat, NEW S, S \subseteq 0 .. n, S # {}
    PROVE  Max(S) \in S /\ \A y \in S : Max(S) >= y
<1> DEFINE T == {n - y : y \in S}
<1>1. T \subseteq Nat /\ T # {}
  <2>1. \A y \in S : n - y \in Nat
    <3> SUFFICES ASSUME NEW y \in S PROVE n - y \in Nat
      OBVIOUS
    <3>1. y \in 0 .. n
      OBVIOUS
    <3> QED BY <3>1
  <2> QED BY <2>1
<1>2. Min(T) \in T /\ \A y \in T : Min(T) <= y
  BY <1>1, MinIs
<1>3. PICK m \in S : Min(T) = n - m
  BY <1>2
<1>4. \A y \in S : m >= y
  <2> SUFFICES ASSUME NEW y \in S PROVE m >= y
    OBVIOUS
  <2>1. n - y \in T
    OBVIOUS
  <2>2. n - m <= n - y
    BY <1>2, <1>3, <2>1
  <2> QED BY <2>2
<1> QED BY <1>4 DEF Max

-----------------------------------------------------------------------------
(* Terminators *)

\* What it is for a terminator to end at i.
EndsAt(b, i) ==
    i \in 4 .. Len(b) /\ b[i - 3] = "r" /\ b[i - 2] = "n" /\ b[i - 1] = "r" /\ b[i] = "n"

LEMMA TerminatorAt ==
    ASSUME NEW b \in Seq(STRING), NEW i \in 4 .. Len(b)
    PROVE  SubSeq(b, i - 3, i) = Terminator <=> EndsAt(b, i)
<1> DEFINE s == SubSeq(b, i - 3, i)
<1>1. /\ s \in Seq(STRING) /\ Len(s) = 4
      /\ s[1] = b[i - 3] /\ s[2] = b[i - 2] /\ s[3] = b[i - 1] /\ s[4] = b[i]
  OBVIOUS
<1> HIDE DEF s
<1>2. s = Terminator <=> s[1] = "r" /\ s[2] = "n" /\ s[3] = "r" /\ s[4] = "n"
  BY <1>1 DEF Terminator
<1> QED BY <1>1, <1>2 DEF s, EndsAt

LEMMA EndsIs ==
    ASSUME NEW b \in Seq(STRING)
    PROVE  Ends(b) \subseteq 4 .. Len(b) /\ \A i : i \in Ends(b) <=> EndsAt(b, i)
<1>1. \A i \in 4 .. Len(b) : SubSeq(b, i - 3, i) = Terminator <=> EndsAt(b, i)
  BY TerminatorAt
<1> QED BY <1>1 DEF Ends, EndsAt

\* The terminators of a part of b are those of b that lie in it.
LEMMA EndsOfPart ==
    ASSUME NEW b \in Seq(STRING), NEW k \in 0 .. Len(b)
    PROVE  Ends(SubSeq(b, 1, k)) = {i \in Ends(b) : i <= k}
<1> DEFINE s == SubSeq(b, 1, k)
<1>1. s \in Seq(STRING) /\ Len(s) = k /\ \A i \in 1 .. k : s[i] = b[i]
  OBVIOUS
<1> HIDE DEF s
<1>2. \A i : EndsAt(s, i) <=> EndsAt(b, i) /\ i <= k
  BY <1>1 DEF EndsAt
<1>3. \A i : i \in Ends(s) <=> EndsAt(s, i)
  BY <1>1, EndsIs
<1>4. \A i : i \in Ends(b) <=> EndsAt(b, i)
  BY EndsIs
<1> QED BY <1>2, <1>3, <1>4 DEF s

-----------------------------------------------------------------------------
(* The header loop *)

\* f holds what the loop carries after each of the first m bytes of b.
Steps(f, b, m) ==
    f = [j \in 0 .. m |-> IF j = 0 THEN NoHeaders ELSE HeaderByte(b, f[j - 1], j)]

LEMMA StepsExist == \A b : \A m \in Nat : \E f : Steps(f, b, m)
<1> SUFFICES ASSUME NEW b, NEW N \in Nat PROVE \E f : Steps(f, b, N)
  OBVIOUS
<1> DEFINE S == {m \in Nat : \E f : Steps(f, b, m)}
<1>1. 0 \in S
  <2> DEFINE f == [j \in 0 .. 0 |-> NoHeaders]
  <2>1. f = [j \in 0 .. 0 |-> IF j = 0 THEN NoHeaders ELSE HeaderByte(b, f[j - 1], j)]
    OBVIOUS
  <2> QED BY <2>1 DEF Steps
<1>2. ASSUME NEW k \in 0 .. N - 1, k \in S
      PROVE  k + 1 \in S
  <2>1. PICK f : Steps(f, b, k)
    BY <1>2
  <2> DEFINE g == [j \in 0 .. k + 1 |-> IF j = k + 1 THEN HeaderByte(b, f[k], k + 1) ELSE f[j]]
  <2>2. \A j \in 0 .. k :
          g[j] = f[j] /\ f[j] = IF j = 0 THEN NoHeaders ELSE HeaderByte(b, f[j - 1], j)
    BY <2>1 DEF Steps
  <2>3. \A j \in 0 .. k + 1 : g[j] = IF j = 0 THEN NoHeaders ELSE HeaderByte(b, g[j - 1], j)
    <3> SUFFICES ASSUME NEW j \in 0 .. k + 1
                 PROVE  g[j] = IF j = 0 THEN NoHeaders ELSE HeaderByte(b, g[j - 1], j)
      OBVIOUS
    <3>1. CASE j = k + 1
      <4>1. g[j] = HeaderByte(b, f[k], k + 1) /\ g[j - 1] = f[k] /\ j # 0
        BY <2>2, <3>1
      <4> QED BY <3>1, <4>1
    <3>2. CASE j # k + 1 /\ j # 0
      <4>1. j \in 0 .. k /\ j - 1 \in 0 .. k
        BY <3>2
      <4>2. g[j] = f[j] /\ g[j - 1] = f[j - 1] /\ f[j] = HeaderByte(b, f[j - 1], j)
        BY <2>2, <3>2, <4>1
      <4> QED BY <3>2, <4>2
    <3>3. CASE j = 0
      <4>1. 0 \in 0 .. k /\ j \in 0 .. k
        BY <3>3
      <4>2. g[j] = f[j] /\ f[j] = NoHeaders
        BY <2>2, <3>3, <4>1
      <4> QED BY <3>3, <4>2
    <3> QED BY <3>1, <3>2, <3>3
  <2>4. Steps(g, b, k + 1)
    BY <2>3 DEF Steps
  <2> QED BY <2>4
<1> HIDE DEF S
<1>3. \A k \in 0 .. N : k \in S
  BY <1>1, <1>2, UpTo
<1> QED BY <1>3 DEF S

\* The loop, byte by byte.
LEMMA HeadersSteps ==
    ASSUME NEW b, Len(b) \in Nat
    PROVE  \E f : /\ Headers(b) = f[Len(b)] /\ f[0] = NoHeaders
                  /\ \A j \in 0 .. Len(b) - 1 : f[j + 1] = HeaderByte(b, f[j], j + 1)
<1>1. PICK h : Steps(h, b, Len(b))
  BY StepsExist
<1> DEFINE f == CHOOSE x : x = [j \in 0 .. Len(b) |->
                                   IF j = 0 THEN NoHeaders ELSE HeaderByte(b, x[j - 1], j)]
<1>2. h = [j \in 0 .. Len(b) |-> IF j = 0 THEN NoHeaders ELSE HeaderByte(b, h[j - 1], j)]
  BY <1>1 DEF Steps
<1>3. f = [j \in 0 .. Len(b) |-> IF j = 0 THEN NoHeaders ELSE HeaderByte(b, f[j - 1], j)]
  BY <1>2
<1>4. Headers(b) = f[Len(b)]
  BY DEF Headers
<1> HIDE DEF f
<1>5. f[0] = NoHeaders
  BY <1>3
<1>6. \A j \in 0 .. Len(b) - 1 : f[j + 1] = HeaderByte(b, f[j], j + 1)
  <2> SUFFICES ASSUME NEW j \in 0 .. Len(b) - 1
               PROVE  f[j + 1] = HeaderByte(b, f[j], j + 1)
    OBVIOUS
  <2>1. j + 1 \in 0 .. Len(b) /\ j + 1 # 0 /\ (j + 1) - 1 = j
    OBVIOUS
  <2> QED BY <1>3, <2>1
<1> QED BY <1>4, <1>5, <1>6

\* What the loop may carry.
Carried == [count : Nat, host : BOOLEAN, length : Nat \cup {Never}, ended : BOOLEAN, err : Errors]

LEMMA LengthsAre == \A x \in DOMAIN Lengths : Lengths[x] \in Nat
BY DEF Lengths

LEMMA HeaderLineType ==
    ASSUME NEW so \in Carried, NEW line PROVE HeaderLine(so, line) \in Carried
<1> DEFINE e == HeaderLineError(so, line)
           bare == Stripped(line)
<1>1. e \in Errors
  BY DEF HeaderLineError, Errors
<1> HIDE DEF e, bare
<1>2. [so EXCEPT !.err = e] \in Carried
  BY <1>1 DEF Carried
<1>3. [so EXCEPT !.ended = TRUE] \in Carried
  BY DEF Carried
<1>4. ASSUME NEW n \in Nat, NEW l \in Nat \cup {Never}, NEW h \in BOOLEAN
      PROVE  [so EXCEPT !.count = n, !.host = h, !.length = l] \in Carried
  BY <1>4, Zenon DEF Carried
<1> DEFINE length == IF bare[1] \in DOMAIN Lengths THEN Lengths[bare[1]] ELSE so.length
           host == so.host \/ bare = <<"host">>
<1>5. /\ length \in Nat \cup {Never} /\ host \in BOOLEAN
      /\ so.count + 1 \in Nat
  BY LengthsAre DEF Carried
<1> HIDE DEF length, host
<1>6. [so EXCEPT !.count = @ + 1, !.host = host, !.length = length] \in Carried
  BY <1>4, <1>5, Zenon
<1> QED BY <1>2, <1>3, <1>6 DEF HeaderLine, e, bare, length, host

LEMMA HeadersType ==
    ASSUME NEW b \in Seq(STRING) PROVE Headers(b) \in Carried
<1>1. Len(b) \in Nat
  OBVIOUS
<1>2. PICK f : /\ Headers(b) = f[Len(b)] /\ f[0] = NoHeaders
               /\ \A j \in 0 .. Len(b) - 1 : f[j + 1] = HeaderByte(b, f[j], j + 1)
  BY <1>1, HeadersSteps
<1> DEFINE S == {j \in Nat : f[j] \in Carried}
<1>3. 0 \in S
  <2>1. 0 \in Nat /\ Never \in Nat \cup {Never} /\ "none" \in Errors /\ FALSE \in BOOLEAN
    BY DEF Errors
  <2>2. NoHeaders \in Carried
    BY <2>1, Zenon DEF NoHeaders, Carried
  <2> QED BY <1>2, <2>2
<1>4. \A k \in 0 .. Len(b) - 1 : k \in S => k + 1 \in S
  BY <1>2, HeaderLineType DEF HeaderByte
<1> HIDE DEF S
<1>5. \A k \in 0 .. Len(b) : k \in S
  BY <1>1, <1>3, <1>4, UpTo
<1>6. Len(b) \in 0 .. Len(b)
  BY <1>1
<1> QED BY <1>2, <1>5, <1>6 DEF S

\* What Request::read makes of a head is an error it has, or a length it allows.
LEMMA ParsedType ==
    ASSUME NEW b \in Seq(STRING)
    PROVE  /\ Parsed(b).err \in Errors /\ Parsed(b).length \in Nat
           /\ Parsed(b).err = "none" => Parsed(b).length <= MaxBody
<1> DEFINE so == Headers(b)
           line == LineAt(b, FirstLf(b))
           length == IF so.length = Never THEN 0 ELSE so.length
<1>1. so.err \in Errors /\ length \in Nat
  BY HeadersType DEF Carried
<1>2. RequestLineError(line) \in Errors
  BY DEF RequestLineError, Errors
<1> HIDE DEF so, line
<1>3. MaxBody \in Nat
  BY ExchangeAssumption
<1> QED BY <1>1, <1>2, <1>3 DEF Parsed, Errors, so, line

-----------------------------------------------------------------------------
(* What the steps have in common *)

LEMMA Consts ==
    /\ MaxHead \in Nat /\ MaxHeaders \in Nat /\ MaxBody \in Nat /\ MaxDrain \in Nat
    /\ HeadDeadline \in Nat \ {0} /\ DrainTimeout \in Nat \ {0} /\ DrainDeadline \in Nat \ {0}
    /\ Sink \in Nat \ {0} /\ Buffer \in Nat \ {0} /\ WriteTimeout \in Nat \ {0}
    /\ Never \notin Nat /\ Never \in Int /\ Never < 0
BY ExchangeAssumption DEF Never

LEMMA Sizes ==
    /\ \A a \in {"ok", "large", "refused"} : AnswerSize[a] \in Nat \ {0}
    /\ Rooms \subseteq Nat \ {0}
BY ExchangeAssumption

\* What the types say, in the form the steps use it.
LEMMA Types ==
    ASSUME TypeOK
    PROVE  /\ stream \in Seq(STRING) /\ head \in Seq(STRING) /\ body \in Seq(STRING)
           /\ consumed \in Nat /\ pushed \in Nat /\ Len(stream) \in Nat
           /\ consumed <= pushed /\ pushed <= Len(stream)
           /\ Len(head) \in Nat /\ Len(head) <= MaxHead
           /\ declared \in Nat /\ declared <= MaxBody
           /\ Len(body) \in Nat /\ Len(body) <= declared
           /\ drained \in Nat /\ clock \in Nat /\ since \in Nat /\ asked \in Nat \cup {Never}
           /\ Whole \in Nat /\ written \in Nat /\ seen \in Nat /\ written <= Whole
           /\ seen <= written /\ room \in Nat \ {0} /\ (answer = "none" => written = 0)
<1>1. stream \in Seq(STRING)
  BY ExchangeAssumption DEF TypeOK
<1>2. pushed \in Nat /\ consumed \in Nat /\ Len(stream) \in Nat
  BY <1>1 DEF TypeOK
<1>3. Whole \in Nat /\ (answer = "none" => Whole = 0)
  <2>1. answer \in {"none", "ok", "large", "refused"}
    BY DEF TypeOK
  <2> QED BY <2>1, Sizes DEF Whole
<1>4. written \in Nat /\ written <= Whole /\ seen \in Nat /\ seen <= written
  <2>1. written \in 0 .. Whole /\ seen \in 0 .. written
    BY DEF TypeOK
  <2> QED BY <1>3, <2>1
<1>5. room \in Nat \ {0}
  BY Sizes DEF TypeOK
<1> QED BY <1>1, <1>2, <1>3, <1>4, <1>5, Consts DEF TypeOK

\* What a whole reader makes of the stream depends on the stream alone.
LEMMA IdealKept ==
    ASSUME stream' = stream PROVE HeadEnds' = HeadEnds /\ Ideal' = Ideal
<1>1. HeadEnds' = HeadEnds
  BY DEF HeadEnds
<1> QED BY <1>1 DEF Ideal

\* A step that touches nothing of the reading.
LEMMA ReadKept ==
    ASSUME HeadOK, ReadOK, ErrOK, stream' = stream, consumed' = consumed, head' = head,
           declared' = declared, body' = body, err' = err, phase' = phase, answer' = answer
    PROVE  HeadOK' /\ ReadOK' /\ ErrOK'
BY IdealKept DEF HeadOK, ReadOK, ErrOK, Served, Excused

\* The reading is over, and nothing is served.
LEMMA ReadOver ==
    ASSUME stream' = stream, phase' \in {"answering", "draining", "closed"},
           answer' \notin {"ok", "large"}, err' \in Excused \/ Ideal.err = err'
    PROVE  HeadOK' /\ ReadOK' /\ ErrOK'
BY IdealKept DEF HeadOK, ReadOK, ErrOK, Served, Excused

\* The answer is being written, or was: what was read stays as it is.
LEMMA ReadAnswered ==
    ASSUME HeadOK, ReadOK, ErrOK, stream' = stream, consumed' = consumed, head' = head,
           declared' = declared, body' = body, err' = err, answer' = answer,
           phase = "answering", phase' \in {"answering", "draining", "closed"}
    PROVE  HeadOK' /\ ReadOK' /\ ErrOK'
BY IdealKept DEF HeadOK, ReadOK, ErrOK, Served, Excused

\* One write more has one timeout more.
LEMMA OneMore ==
    ASSUME NEW w \in Nat, NEW n \in Nat \ {0}, NEW t \in Nat
    PROVE  w * t + t <= (w + n) * t /\ w * t \in Nat /\ (w + n) * t \in Nat
<1>1. (w + n) * t = w * t + n * t /\ w * t \in Nat /\ n * t \in Nat
  OBVIOUS
<1>2. n - 1 \in Nat /\ (n - 1) * t \in Nat /\ (n - 1) * t = n * t - t
  OBVIOUS
<1> QED BY <1>1, <1>2

\* The request is refused while it is being read.
LEMMA RefusedOK ==
    ASSUME IInv, NEW e \in Errors \ {"none"}, Refuse(e), phase \in {"head", "body"},
           e \in Excused \/ Ideal.err = e, UNCHANGED peerVars, written' = written,
           drained' = drained, reset' = reset, clock' = clock, asked' = Never,
           consumed' \in 0 .. pushed, head' \in Seq(STRING), Len(head') <= MaxHead,
           declared' \in 0 .. MaxBody, body' \in Seq(STRING), Len(body') <= declared'
    PROVE  IInv'
<1> USE DEF IInv
<1>1. /\ stream' = stream /\ own' = own /\ room' = room /\ pushed' = pushed /\ seen' = seen
      /\ shut' = shut /\ outcome' = outcome /\ gaveUp' = gaveUp
      /\ phase' = "answering" /\ err' = e /\ answer' = "refused" /\ since' = clock
  BY DEF Refuse, peerVars
<1>2. answer = "none" /\ drained = 0 /\ clock <= 2 * HeadDeadline /\ written = 0 /\ seen = 0
  <2>1. answer = "none" /\ drained = 0 /\ clock <= 2 * HeadDeadline
    BY DEF PhaseOK, TimeOK, Before
  <2> QED BY <2>1, Types
<1>3. Whole' \in Nat \ {0}
  BY <1>1, Sizes DEF Whole
<1>4. TypeOK'
  <2>1. written' \in 0 .. Whole' /\ seen' \in 0 .. written'
    BY <1>1, <1>2, <1>3
  <2> QED BY <1>1, <2>1, Types DEF TypeOK
<1>5. HeadOK' /\ ReadOK' /\ ErrOK'
  BY <1>1, ReadOver
<1>6. PhaseOK'
  BY <1>1, <1>2, <1>3 DEF PhaseOK, Before
<1>7. TimeOK'
  <2>1. clock \in Nat /\ written' * WriteTimeout = 0 /\ clock - clock = 0
    BY <1>2, Types, Consts
  <2> QED BY <1>1, <1>2, <2>1 DEF TimeOK
<1>8. ~Cramped
  BY <1>2 DEF Cramped
<1>9. ClientOK'
  <2>1. own /\ outcome = "none" => clock = 0
    BY <1>8 DEF ClientOK
  <2>2. own /\ outcome = "error" => gaveUp
    BY <1>2, <1>8 DEF ClientOK
  <2> QED BY <1>1, <2>1, <2>2, Consts DEF ClientOK
<1> QED BY <1>4, <1>5, <1>6, <1>7, <1>9

\* ls-http's own client has sent no more than the request that was accepted.
LEMMA ClientSentAll ==
    ASSUME TypeOK, ReadOK, phase = "body" \/ Served, own, stream \in ClientStreams
    PROVE  Len(stream) = Len(head) + declared
<1>1. stream \in Seq(STRING) /\ Ends(stream) \subseteq 4 .. Len(stream)
  BY Types, EndsIs
<1>2. Len(head) \in Ends(stream) /\ \A i \in Ends(stream) : Len(head) <= i
  <2>1. Len(head) \in HeadEnds /\ Len(head) \in Nat /\ MaxHead \in Nat
    BY Types, Consts DEF ReadOK
  <2>2. ASSUME NEW i \in Ends(stream) PROVE Len(head) <= i
    <3>1. i \in Nat /\ Len(head) <= MaxHead
      BY <1>1, <2>1 DEF HeadEnds
    <3>2. CASE i <= MaxHead
      BY <3>2 DEF HeadEnds, ReadOK
    <3>3. CASE ~ (i <= MaxHead)
      BY <2>1, <3>1, <3>3
    <3> QED BY <3>2, <3>3
  <2> QED BY <2>1, <2>2 DEF HeadEnds
<1>3. Min(Ends(stream)) = Len(head)
  <2>1. Ends(stream) \subseteq Int
    BY <1>1
  <2> QED BY <1>2, <2>1, MinUnique
<1>4. head = SubSeq(stream, 1, Len(head)) /\ Parsed(head).err = "none" /\ declared = Parsed(head).length
  BY DEF ReadOK
<1> QED BY <1>3, <1>4, ClientAssumption

-----------------------------------------------------------------------------
(* The search for the terminator *)

SearchAt(held, from) == {i \in from .. Len(held) - 4 : SubSeq(held, i + 1, i + 4) = Terminator}

\* Going back over three bytes, or as many as there are, the search misses no
\* terminator that the bytes held before did not hold already.
LEMMA SearchFinds ==
    ASSUME NEW s \in Seq(STRING), NEW c \in 0 .. Len(s), NEW k \in c .. Len(s),
           Ends(SubSeq(s, 1, c)) = {}, NEW o \in Nat, o = IF c <= 3 THEN c ELSE 3,
           NEW at, at = SearchAt(SubSeq(s, 1, k), c - o)
    PROVE  /\ at = {} => \A i \in Ends(s) : i > k
           /\ at # {} => /\ Min(at) + 4 \in Ends(s) /\ c < Min(at) + 4 /\ Min(at) + 4 <= k
                         /\ \A i \in Ends(s) : Min(at) + 4 <= i
<1> DEFINE held == SubSeq(s, 1, k)
<1>1. held \in Seq(STRING) /\ Len(held) = k /\ k \in Nat /\ c \in Nat
  OBVIOUS
<1>2. Ends(held) = {i \in Ends(s) : i <= k} /\ \A i \in Ends(s) : i > c
  <2>1. Ends(held) = {i \in Ends(s) : i <= k}
    BY EndsOfPart
  <2>2. {i \in Ends(s) : i <= c} = {}
    BY EndsOfPart
  <2>3. Ends(s) \subseteq 4 .. Len(s) /\ Len(s) \in Nat
    BY EndsIs
  <2> QED BY <1>1, <2>1, <2>2, <2>3
<1>3. Ends(s) \subseteq 4 .. Len(s) /\ Len(s) \in Nat
  BY EndsIs
<1> HIDE DEF held
<1>4. \A i \in Int : i \in at <=> i + 4 \in Ends(held)
  <2> SUFFICES ASSUME NEW i \in Int PROVE i \in at <=> i + 4 \in Ends(held)
    OBVIOUS
  <2>1. (i + 4) - 3 = i + 1
    OBVIOUS
  <2>2. i + 4 \in Ends(held) <=> i + 4 \in 4 .. k /\ SubSeq(held, i + 1, i + 4) = Terminator
    BY <1>1, <2>1 DEF Ends
  <2>3. i + 4 \in Ends(held) => i + 4 > c
    BY <1>2
  <2>4. i \in at <=> i \in c - o .. k - 4 /\ SubSeq(held, i + 1, i + 4) = Terminator
    BY <1>1 DEF SearchAt, held
  <2>5. i + 4 \in 4 .. k /\ i + 4 > c => i \in c - o .. k - 4
    BY <1>1
  <2>6. i \in c - o .. k - 4 => i + 4 \in 4 .. k
    BY <1>1
  <2> QED BY <2>2, <2>3, <2>4, <2>5, <2>6
<1>5. at \subseteq Nat
  BY <1>1 DEF SearchAt, held
<1>6. CASE at = {}
  <2>1. ASSUME NEW i \in Ends(s) PROVE i > k
    <3>1. i \in Int /\ i - 4 \in Int /\ (i - 4) + 4 = i
      BY <1>3
    <3>2. i \notin Ends(held)
      BY <1>4, <1>6, <3>1
    <3> QED BY <1>1, <1>2, <3>1, <3>2
  <2> QED BY <1>6, <2>1
<1>7. CASE at # {}
  <2>1. Min(at) \in at /\ Min(at) \in Int /\ \A y \in at : Min(at) <= y
    <3>1. Min(at) \in at /\ \A y \in at : Min(at) <= y
      BY <1>5, <1>7, MinIs
    <3>2. Min(at) \in Nat
      BY <1>5, <3>1, Zenon
    <3> QED BY <3>1, <3>2
  <2>2. Min(at) + 4 \in Ends(held)
    BY <1>4, <2>1
  <2>3. Min(at) + 4 \in Ends(s) /\ c < Min(at) + 4 /\ Min(at) + 4 <= k
    BY <1>1, <1>2, <2>1, <2>2
  <2>4. ASSUME NEW i \in Ends(s) PROVE Min(at) + 4 <= i
    <3>1. i \in Int /\ i - 4 \in Int /\ (i - 4) + 4 = i
      BY <1>3
    <3>2. CASE i <= k
      <4>1. i - 4 \in at
        BY <1>2, <1>4, <3>1, <3>2
      <4> QED BY <2>1, <3>1, <4>1
    <3>3. CASE ~ (i <= k)
      BY <1>1, <2>1, <2>3, <3>1, <3>3
    <3> QED BY <3>2, <3>3
  <2> QED BY <1>7, <2>3, <2>4
<1> QED BY <1>6, <1>7

-----------------------------------------------------------------------------
(* The steps that only read *)

LEMMA InitOK == Init => IInv
<1> SUFFICES ASSUME Init PROVE IInv
  OBVIOUS
<1>1. stream \in Seq(STRING) /\ Len(stream) \in Nat /\ stream \in ClientStreams \cup PeerStreams
  BY ExchangeAssumption DEF Init
<1>2. TypeOK
  <2>1. {own, shut, gaveUp, reset} \subseteq BOOLEAN
    BY Zenon DEF Init
  <2>2. drained \in 0 .. MaxDrain + Sink - 1
    BY Consts DEF Init
  <2>3. Whole = 0
    BY DEF Init, Whole
  <2> QED BY <1>1, <2>1, <2>2, <2>3, Consts DEF Init, TypeOK, Errors
<1>3. HeadOK
  <2>1. SubSeq(stream, 1, 0) = <<>> /\ Len(<<>>) = 0 /\ <<>> \in Seq(STRING)
    BY <1>1
  <2>2. Ends(<<>>) \subseteq 4 .. 0
    BY <2>1, EndsIs
  <2>3. Ends(<<>>) = {}
    BY <2>2
  <2> QED BY <2>1, <2>3 DEF Init, HeadOK
<1>4. ReadOK /\ ErrOK /\ PhaseOK
  BY DEF Init, ReadOK, Served, ErrOK, Excused, PhaseOK
<1>5. TimeOK
  BY Consts DEF Init, TimeOK
<1>6. ClientOK
  BY Consts DEF Init, ClientOK
<1> QED BY <1>2, <1>3, <1>4, <1>5, <1>6 DEF IInv

LEMMA TickStep == ASSUME IInv, Tick PROVE IInv'
<1> USE DEF IInv
<1>1. /\ stream' = stream /\ own' = own /\ room' = room /\ pushed' = pushed /\ seen' = seen
      /\ shut' = shut /\ outcome' = outcome /\ gaveUp' = gaveUp /\ phase' = phase
      /\ consumed' = consumed /\ head' = head /\ declared' = declared /\ body' = body
      /\ err' = err /\ answer' = answer /\ written' = written
      /\ drained' = drained /\ reset' = reset /\ asked' = asked /\ since' = since
      /\ clock' = clock + 1
  BY DEF Tick, peerVars, reading, closing
<1>2. Whole' = Whole /\ Cramped' = Cramped /\ Cut' = Cut
  BY <1>1 DEF Whole, Cramped, Cut
<1>3. TypeOK'
  <2>1. clock' \in Nat
    BY <1>1, Types
  <2> QED BY <1>1, <1>2, <2>1 DEF TypeOK
<1>4. HeadOK' /\ ReadOK' /\ ErrOK'
  BY <1>1, ReadKept
<1>5. PhaseOK'
  BY <1>1, <1>2 DEF PhaseOK, Before
<1>6. /\ phase \in {"head", "body", "answering", "draining"} /\ asked \in Nat
      /\ clock - asked < Timeout /\ clock \in Nat /\ since \in Nat
  BY Types DEF Tick, TypeOK
<1>7. TimeOK'
  <2>1. CASE phase = "draining"
    <3>1. /\ clock - asked < DrainTimeout /\ asked # Never
          /\ since <= asked /\ asked <= clock /\ asked - since < DrainDeadline
          /\ DrainTimeout \in Nat /\ since <= 2 * HeadDeadline + Whole * WriteTimeout
      BY <1>6, <2>1, Consts DEF TimeOK, Timeout
    <3>2. since <= clock + 1 /\ asked <= clock + 1 /\ (clock + 1) - asked <= DrainTimeout
      BY <1>6, <3>1
    <3> QED BY <1>1, <1>2, <2>1, <3>1, <3>2 DEF TimeOK
  <2>2. CASE phase \in {"head", "body"}
    <3>1. /\ clock - asked < HeadDeadline /\ asked # Never /\ since = 0
          /\ asked <= clock /\ asked <= HeadDeadline /\ HeadDeadline \in Nat
      BY <1>6, <2>2, Consts DEF TimeOK, Timeout
    <3>2. clock + 1 <= 2 * HeadDeadline /\ asked <= clock + 1 /\ (clock + 1) - asked <= HeadDeadline
      BY <1>6, <3>1
    <3> QED BY <1>1, <2>2, <3>1, <3>2 DEF TimeOK
  <2>3. CASE phase = "answering"
    <3>1. /\ clock - asked < WriteTimeout /\ asked # Never /\ since <= 2 * HeadDeadline
          /\ since <= asked /\ asked <= clock /\ asked - since <= written * WriteTimeout
          /\ WriteTimeout \in Nat
      BY <1>6, <2>3, Consts DEF TimeOK, Timeout
    <3>2. since <= clock + 1 /\ asked <= clock + 1 /\ (clock + 1) - asked <= WriteTimeout
      BY <1>6, <3>1
    <3> QED BY <1>1, <2>3, <3>1, <3>2 DEF TimeOK
  <2> QED BY <1>6, <2>1, <2>2, <2>3
<1>8. ~ (own /\ outcome = "none" /\ ~Cramped)
  <2> SUFFICES ASSUME own, outcome = "none", ~Cramped PROVE FALSE
    OBVIOUS
  <2>1. stream \in ClientStreams /\ ~shut
    BY DEF ClientOK
  <2>2. CASE phase = "answering"
    <3>1. Free < Rest
      BY <2>2 DEF Tick, Blocked
    <3>2. answer # "refused"
      <4> SUFFICES ASSUME answer = "refused" PROVE FALSE
        OBVIOUS
      <4>1. ~ (AnswerSize["refused"] > room) /\ Whole = AnswerSize["refused"]
        BY DEF Cramped, Whole
      <4> HIDE DEF IInv
      <4>2. Whole <= room
        BY <4>1, Types, Sizes DEF IInv
      <4> QED BY <3>1, <4>2, Types DEF Free, Rest, IInv
    <3>3. Served
      BY <2>2, <3>2 DEF PhaseOK, TypeOK, Served
    <3>4. Len(stream) = Len(head) + declared /\ consumed = Len(head) + declared
      BY <2>1, <2>2, <3>3, ClientSentAll DEF ReadOK
    <3>5. pushed = Len(stream)
      BY <3>4, Types
    <3> QED BY <2>2, <3>5 DEF Tick, PeerBusy, PhaseOK
  <2>3. CASE phase # "answering"
    <3>1. Arrived = 0
      BY <2>3 DEF Tick, Blocked
    <3>2. pushed = Len(stream) /\ answer = "none"
      <4>1. ~ (Arrived < Buffer) => FALSE
        BY <3>1, Consts
      <4> QED BY <4>1, Types DEF Tick, PeerBusy
    <3>3. phase \in {"head", "body"} /\ consumed = Len(stream)
      BY <1>6, <2>3, <3>1, <3>2, Types DEF PhaseOK, Arrived
    <3>4. phase # "head"
      <4> SUFFICES ASSUME phase = "head" PROVE FALSE
        OBVIOUS
      <4>1. head = stream /\ Ends(head) = {}
        BY <3>3, Types DEF HeadOK
      <4> QED BY <2>1, <4>1, ClientAssumption
    <3>5. phase # "body"
      <4> SUFFICES ASSUME phase = "body" PROVE FALSE
        OBVIOUS
      <4>1. Len(stream) = Len(head) + declared
        BY <2>1, ClientSentAll
      <4> QED BY <3>3, <4>1, Types DEF ReadOK
    <3> QED BY <3>3, <3>4, <3>5
  <2> QED BY <2>2, <2>3
<1>9. ClientOK'
  BY <1>1, <1>2, <1>8 DEF ClientOK
<1> QED BY <1>3, <1>4, <1>5, <1>7, <1>9

LEMMA AskStep == ASSUME IInv, Ask PROVE IInv'
<1> USE DEF IInv
<1>1. /\ UNCHANGED peerVars /\ consumed' = consumed /\ head' = head /\ declared' = declared
      /\ body' = body /\ written' = written /\ drained' = drained /\ reset' = reset
      /\ clock' = clock /\ phase \in {"head", "body"} /\ asked = Never
  BY DEF Ask
<1>2. CASE Refuse("TimedOut") /\ UNCHANGED asked
  <2>1. /\ consumed' \in 0 .. pushed /\ head' \in Seq(STRING) /\ Len(head') <= MaxHead
        /\ declared' \in 0 .. MaxBody /\ body' \in Seq(STRING) /\ Len(body') <= declared'
    BY <1>1, Types DEF TypeOK
  <2>2. "TimedOut" \in Errors \ {"none"} /\ "TimedOut" \in Excused
    BY DEF Errors, Excused
  <2> QED BY <1>1, <1>2, <2>1, <2>2, RefusedOK
<1>3. CASE clock - since <= HeadDeadline /\ asked' = clock /\ NotRefused
  <2>1. /\ stream' = stream /\ own' = own /\ room' = room /\ pushed' = pushed /\ seen' = seen
        /\ shut' = shut /\ outcome' = outcome /\ gaveUp' = gaveUp
        /\ phase' = phase /\ err' = err /\ answer' = answer /\ since' = since /\ asked' = clock
    BY <1>1, <1>3 DEF NotRefused, peerVars
  <2>2. Whole' = Whole /\ Cramped' = Cramped /\ Cut' = Cut
    BY <1>1, <2>1 DEF Whole, Cramped, Cut
  <2>3. TypeOK'
    BY <1>1, <2>1, <2>2, Types DEF TypeOK
  <2>4. HeadOK' /\ ReadOK' /\ ErrOK'
    BY <1>1, <2>1, ReadKept
  <2>5. PhaseOK'
    BY <1>1, <2>1, <2>2 DEF PhaseOK, Before
  <2>6. TimeOK'
    <3>1. since = 0
      BY <1>1 DEF TimeOK
    <3>2. clock <= HeadDeadline /\ clock \in Nat /\ clock - clock <= HeadDeadline
      BY <1>3, <3>1, Types, Consts
    <3> QED BY <1>1, <2>1, <3>1, <3>2 DEF TimeOK
  <2>7. ClientOK'
    BY <1>1, <2>1, <2>2 DEF ClientOK
  <2> QED BY <2>3, <2>4, <2>5, <2>6, <2>7
<1> QED BY <1>2, <1>3 DEF Ask

LEMMA ReadHeadFailsStep == ASSUME IInv, ReadHeadFails PROVE IInv'
<1> USE DEF IInv
<1>1. /\ UNCHANGED peerVars /\ consumed' = consumed /\ head' = head /\ declared' = declared
      /\ body' = body /\ written' = written /\ drained' = drained /\ reset' = reset
      /\ clock' = clock /\ phase = "head" /\ asked # Never /\ asked' = Never
  BY DEF ReadHeadFails
<1>2. CASE Refuse("EndedEarly") \/ Refuse("TimedOut")
  <2>1. /\ consumed' \in 0 .. pushed /\ head' \in Seq(STRING) /\ Len(head') <= MaxHead
        /\ declared' \in 0 .. MaxBody /\ body' \in Seq(STRING) /\ Len(body') <= declared'
    BY <1>1, Types DEF TypeOK
  <2>2. /\ {"TimedOut", "EndedEarly"} \subseteq Errors \ {"none"}
        /\ {"TimedOut", "EndedEarly"} \subseteq Excused
    BY DEF Errors, Excused
  <2> QED BY <1>1, <1>2, <2>1, <2>2, RefusedOK
<1>3. CASE shut /\ phase' = "closed" /\ err' = "Incomplete" /\ UNCHANGED <<answer, since>>
  <2>1. /\ stream' = stream /\ own' = own /\ room' = room /\ pushed' = pushed /\ seen' = seen
        /\ shut' = shut /\ outcome' = outcome /\ gaveUp' = gaveUp
        /\ phase' = "closed" /\ err' = "Incomplete" /\ answer' = answer /\ since' = since
    BY <1>1, <1>3 DEF peerVars
  <2>2. Whole' = Whole /\ Cramped' = Cramped /\ Cut' = Cut
    BY <1>1, <2>1 DEF Whole, Cramped, Cut
  <2>3. answer = "none"
    BY <1>1 DEF PhaseOK
  <2>4. TypeOK'
    BY <1>1, <2>1, <2>2 DEF TypeOK, Errors
  <2>5. HeadOK' /\ ReadOK' /\ ErrOK'
    BY <1>1, <2>1, <2>3, ReadOver DEF Excused
  <2>6. PhaseOK' /\ TimeOK'
    BY <1>1, <2>1, <2>3 DEF PhaseOK, TimeOK, Before
  <2>7. own => outcome # "none"
    BY <1>3 DEF ClientOK
  <2>8. ClientOK'
    BY <1>1, <2>1, <2>2, <2>7 DEF ClientOK
  <2> QED BY <2>4, <2>5, <2>6, <2>8
<1> QED BY <1>2, <1>3 DEF ReadHeadFails

LEMMA ReadBodyFailsStep == ASSUME IInv, ReadBodyFails PROVE IInv'
<1> USE DEF IInv
<1>1. /\ UNCHANGED peerVars /\ consumed' = consumed /\ head' = head /\ declared' = declared
      /\ body' = body /\ written' = written /\ drained' = drained /\ reset' = reset
      /\ clock' = clock /\ phase = "body" /\ asked' = Never /\ Refuse("IncompleteBody")
  BY DEF ReadBodyFails
<1>2. /\ consumed' \in 0 .. pushed /\ head' \in Seq(STRING) /\ Len(head') <= MaxHead
      /\ declared' \in 0 .. MaxBody /\ body' \in Seq(STRING) /\ Len(body') <= declared'
  BY <1>1, Types DEF TypeOK
<1>3. "IncompleteBody" \in Errors \ {"none"} /\ "IncompleteBody" \in Excused
  BY DEF Errors, Excused
<1> QED BY <1>1, <1>2, <1>3, RefusedOK

-----------------------------------------------------------------------------
(* The steps that take bytes of the request *)

\* The first terminator of the stream that is within the limit is the one a whole
\* reader ends the head at.
LEMMA IdealIs ==
    ASSUME NEW k \in HeadEnds, stream \in Seq(STRING), \A i \in HeadEnds : k <= i
    PROVE  Min(HeadEnds) = k /\ Ideal = Parsed(SubSeq(stream, 1, k))
<1>1. Ends(stream) \subseteq 4 .. Len(stream) /\ Len(stream) \in Nat
  BY EndsIs
<1>2. HeadEnds \subseteq Int
  BY <1>1 DEF HeadEnds
<1>3. Min(HeadEnds) = k
  BY <1>2, MinUnique
<1>4. HeadEnds # {}
  OBVIOUS
<1> QED BY <1>3, <1>4 DEF Ideal

LEMMA ReadHeadStep == ASSUME IInv, ReadHead PROVE IInv'
<1> USE DEF IInv
<1>1. /\ UNCHANGED peerVars
      /\ stream' = stream /\ own' = own /\ room' = room /\ pushed' = pushed /\ seen' = seen
      /\ shut' = shut /\ outcome' = outcome /\ gaveUp' = gaveUp /\ body' = body
      /\ written' = written /\ drained' = drained /\ reset' = reset /\ clock' = clock
      /\ phase = "head" /\ asked # Never /\ asked' = Never
  BY DEF ReadHead, peerVars
<1>2. answer = "none" /\ since = 0 /\ drained = 0 /\ clock <= 2 * HeadDeadline /\ err = "none"
  BY <1>1 DEF PhaseOK, TimeOK, Before
<1>3. /\ Len(head) = consumed /\ head = SubSeq(stream, 1, consumed) /\ Ends(head) = {}
      /\ head # <<>> => Len(head) < MaxHead
      /\ body = <<>> /\ declared = 0
  BY <1>1 DEF HeadOK
<1>4. PICK n \in 1 .. Arrived :
        LET from == Len(head) - Overlap
            held == head \o SubSeq(stream, consumed + 1, consumed + Take(n))
            at == SearchAt(held, from)
            end == Min(at) + Len(Terminator)
        IN \/ at # {} /\ HeadFound(SubSeq(held, 1, end), end - from - Overlap)
           \/ /\ at = {}
              /\ head' = held /\ consumed' = consumed + Take(n)
              /\ \/ Len(held) >= MaxHead /\ Refuse("HeadTooLarge")
                 \/ Len(held) < MaxHead /\ NotRefused
              /\ UNCHANGED declared
  BY DEF ReadHead, SearchAt
<1>5. /\ stream \in Seq(STRING) /\ consumed \in Nat /\ pushed \in Nat /\ Len(stream) \in Nat
      /\ consumed <= pushed /\ pushed <= Len(stream) /\ MaxHead \in Nat /\ consumed <= MaxHead
      /\ MaxBody \in Nat
  BY <1>3, Types, Consts
<1> DEFINE k == consumed + Take(n)
           held == SubSeq(stream, 1, k)
           at == SearchAt(held, consumed - Overlap)
<1>6. k \in Nat /\ consumed <= k /\ k <= pushed /\ k <= MaxHead
  <2>1. Take(n) = IF n <= MaxHead - consumed THEN n ELSE MaxHead - consumed
    BY <1>3, <1>5, MinOfTwo DEF Take
  <2>2. n <= pushed - consumed
    BY <1>5 DEF Arrived
  <2> QED BY <1>5, <2>1, <2>2
<1>7. held = head \o SubSeq(stream, consumed + 1, consumed + Take(n))
  <2>1. consumed \in 0 .. Len(stream) /\ k \in consumed .. Len(stream)
    BY <1>5, <1>6
  <2>2. 1 \in 1 .. Len(stream) + 1 /\ consumed \in 1 - 1 .. Len(stream)
    BY <1>5
  <2> HIDE DEF k
  <2>3. SubSeq(stream, 1, consumed) \o SubSeq(stream, consumed + 1, k) = SubSeq(stream, 1, k)
    BY <1>5, <2>1, <2>2, ConcatAdjacentSubSeq, Zenon
  <2> QED BY <1>3, <2>3 DEF k
<1>8. Overlap \in Nat /\ Overlap = IF consumed <= 3 THEN consumed ELSE 3
  <2>1. Len(Terminator) = 4
    BY DEF Terminator
  <2> QED BY <1>3, <1>5, <2>1, MinOfTwo DEF Overlap
<1>9. held \in Seq(STRING) /\ Len(held) = k
  BY <1>5, <1>6
<1>10. /\ at = {} => \A i \in Ends(stream) : i > k
       /\ at # {} => /\ Min(at) + 4 \in Ends(stream) /\ consumed < Min(at) + 4 /\ Min(at) + 4 <= k
                     /\ \A i \in Ends(stream) : Min(at) + 4 <= i
  <2>1. consumed \in 0 .. Len(stream) /\ k \in consumed .. Len(stream)
    BY <1>5, <1>6
  <2>2. Ends(SubSeq(stream, 1, consumed)) = {} /\ at = SearchAt(SubSeq(stream, 1, k), consumed - Overlap)
    BY <1>3
  <2> HIDE DEF k, held, at
  <2> QED BY <1>5, <1>8, <2>1, <2>2, SearchFinds, Zenon
<1>11. Ends(stream) \subseteq 4 .. Len(stream)
  BY <1>5, EndsIs
<1> HIDE DEF k, at
<1>12. CASE at # {} /\ HeadFound(SubSeq(held, 1, Min(at) + 4), (Min(at) + 4) - (consumed - Overlap) - Overlap)
  <2> DEFINE end == Min(at) + 4
             w == SubSeq(stream, 1, end)
             p == Parsed(w)
  <2>1. /\ end \in Ends(stream) /\ consumed < end /\ end <= k /\ end \in Nat
        /\ \A i \in Ends(stream) : end <= i
    BY <1>10, <1>11, <1>12
  <2> HIDE DEF end
  <2>2. SubSeq(held, 1, end) = w /\ w \in Seq(STRING) /\ Len(w) = end
    BY <1>5, <1>6, <2>1
  <2>3. /\ head' = w /\ consumed' = end
        /\ \/ p.err # "none" /\ declared' = 0 /\ Refuse(p.err)
           \/ /\ p.err = "none" /\ declared' = p.length
              /\ phase' = IF p.length = 0 THEN "handling" ELSE "body"
              /\ UNCHANGED <<err, answer, since>>
    <3>1. consumed + (end - (consumed - Overlap) - Overlap) = end
      BY <1>5, <1>8, <2>1
    <3> QED BY <1>12, <2>2, <3>1 DEF HeadFound, end
  <2>4. end \in HeadEnds /\ end <= MaxHead /\ \A i \in HeadEnds : end <= i
    BY <1>5, <1>6, <2>1 DEF HeadEnds
  <2>5. Ideal = p
    BY <1>5, <2>4, IdealIs
  <2>6. p.err \in Errors /\ p.length \in Nat /\ (p.err = "none" => p.length <= MaxBody)
    BY <2>2, ParsedType
  <2> HIDE DEF p, w
  <2>7. consumed' \in 0 .. pushed /\ head' \in Seq(STRING) /\ Len(head') <= MaxHead
    BY <1>5, <1>6, <2>1, <2>2, <2>3, <2>4
  <2>8. CASE p.err # "none" /\ declared' = 0 /\ Refuse(p.err)
    <3>1. /\ declared' \in 0 .. MaxBody /\ body' \in Seq(STRING) /\ Len(body') <= declared'
          /\ p.err \in Errors \ {"none"} /\ Ideal.err = p.err
      BY <1>1, <1>3, <1>5, <2>5, <2>6, <2>8, Types
    <3> QED BY <1>1, <2>7, <2>8, <3>1, RefusedOK
  <2>9. CASE /\ p.err = "none" /\ declared' = p.length
             /\ phase' = IF p.length = 0 THEN "handling" ELSE "body"
             /\ UNCHANGED <<err, answer, since>>
    <3>1. /\ err' = "none" /\ answer' = "none" /\ since' = 0 /\ phase' \in {"handling", "body"}
          /\ err' = err /\ answer' = answer /\ since' = since
      BY <1>2, <2>9
    <3>2. Whole' = Whole /\ Cramped' = Cramped /\ ~Cramped
      BY <1>1, <1>2, <3>1 DEF Whole, Cramped
    <3>3. TypeOK'
      <4>1. declared' \in 0 .. MaxBody /\ Len(body') <= declared'
        BY <1>1, <1>3, <1>5, <2>6, <2>9
      <4>2. body' \in Seq(STRING)
        BY <1>1, Types
      <4> QED BY <1>1, <2>7, <3>1, <3>2, <4>1, <4>2 DEF TypeOK
    <3>4. HeadOK' /\ ReadOK' /\ ErrOK'
      <4>1. /\ HeadEnds' = HeadEnds /\ head' = SubSeq(stream', 1, Len(head')) /\ Len(head') = end
            /\ Parsed(head').err = "none" /\ declared' = Parsed(head').length
        BY <1>1, <2>2, <2>3, <2>9, IdealKept DEF p, w
      <4>2. /\ Len(body') = 0 /\ consumed' = Len(head') + Len(body')
            /\ body' = SubSeq(stream', Len(head') + 1, Len(head') + Len(body'))
        BY <1>1, <1>3, <1>5, <2>1, <2>3, <4>1
      <4>3. IF phase' = "body" THEN Len(body') < declared' ELSE Len(body') = declared'
        BY <2>6, <2>9, <4>2
      <4> QED BY <2>4, <3>1, <4>1, <4>2, <4>3 DEF HeadOK, ReadOK, ErrOK, Excused
    <3>5. PhaseOK' /\ TimeOK'
      BY <1>1, <1>2, <3>1 DEF PhaseOK, TimeOK, Before
    <3>6. ClientOK'
      BY <1>1, <1>2, <3>1, <3>2, Consts DEF ClientOK
    <3> QED BY <3>3, <3>4, <3>5, <3>6
  <2> QED BY <2>3, <2>8, <2>9
<1>13. CASE /\ at = {}
            /\ head' = held /\ consumed' = k /\ declared' = declared
            /\ \/ Len(held) >= MaxHead /\ Refuse("HeadTooLarge")
               \/ Len(held) < MaxHead /\ NotRefused
  <2>1. \A i \in Ends(stream) : i > k
    BY <1>10, <1>13
  <2>2. consumed' \in 0 .. pushed /\ head' \in Seq(STRING) /\ Len(head') <= MaxHead
    BY <1>5, <1>6, <1>9, <1>13
  <2>3. CASE Len(held) >= MaxHead /\ Refuse("HeadTooLarge")
    <3>1. k = MaxHead
      BY <1>5, <1>6, <1>9, <2>3
    <3>2. HeadEnds = {}
      BY <1>5, <1>11, <2>1, <3>1 DEF HeadEnds
    <3>3. Ideal.err = "HeadTooLarge" /\ "HeadTooLarge" \in Errors \ {"none"}
      BY <3>2 DEF Ideal, Errors
    <3>4. declared' \in 0 .. MaxBody /\ body' \in Seq(STRING) /\ Len(body') <= declared'
      BY <1>1, <1>3, <1>5, <1>13, Types
    <3> QED BY <1>1, <2>2, <2>3, <3>3, <3>4, RefusedOK
  <2>4. CASE Len(held) < MaxHead /\ NotRefused
    <3>1. phase' = "head" /\ err' = "none" /\ answer' = "none" /\ since' = 0
      BY <1>1, <1>2, <2>4 DEF NotRefused
    <3>2. Whole' = Whole /\ Cramped' = Cramped /\ ~Cramped
      BY <1>1, <1>2, <3>1 DEF Whole, Cramped
    <3>3. TypeOK'
      BY <1>1, <1>3, <1>5, <1>13, <2>2, <3>1, <3>2 DEF TypeOK, Errors
    <3>4. Ends(held) = {}
      <4>1. k \in 0 .. Len(stream)
        BY <1>5, <1>6
      <4>2. Ends(held) = {i \in Ends(stream) : i <= k}
        BY <1>5, <4>1, EndsOfPart
      <4> QED BY <1>6, <1>11, <2>1, <4>2
    <3>5. HeadOK' /\ ReadOK' /\ ErrOK'
      BY <1>1, <1>2, <1>3, <1>9, <1>13, <2>4, <3>1, <3>4 DEF HeadOK, ReadOK, Served, ErrOK, Excused
    <3>6. PhaseOK' /\ TimeOK'
      BY <1>1, <1>2, <3>1 DEF PhaseOK, TimeOK, Before
    <3>7. ClientOK'
      BY <1>1, <1>2, <3>1, <3>2, Consts DEF ClientOK
    <3> QED BY <3>3, <3>5, <3>6, <3>7
  <2> QED BY <1>13, <2>3, <2>4
<1>14. Len(Terminator) = 4
  BY DEF Terminator
<1> QED BY <1>3, <1>4, <1>7, <1>12, <1>13, <1>14 DEF k, at

LEMMA ReadBodyStep == ASSUME IInv, ReadBody PROVE IInv'
<1> USE DEF IInv
<1>1. /\ stream' = stream /\ own' = own /\ room' = room /\ pushed' = pushed /\ seen' = seen
      /\ shut' = shut /\ outcome' = outcome /\ gaveUp' = gaveUp /\ written' = written /\ head' = head /\ declared' = declared /\ err' = err /\ answer' = answer
      /\ drained' = drained /\ reset' = reset /\ clock' = clock /\ since' = since
      /\ phase = "body" /\ asked # Never /\ asked' = Never
      /\ phase' = IF Len(body') = declared THEN "handling" ELSE "body"
  BY DEF ReadBody, peerVars, closing
<1>2. answer = "none" /\ since = 0 /\ drained = 0 /\ clock <= 2 * HeadDeadline /\ err = "none"
  BY <1>1 DEF PhaseOK, TimeOK, Before
<1>3. /\ Len(head) \in HeadEnds /\ \A i \in HeadEnds : Len(head) <= i
      /\ head = SubSeq(stream, 1, Len(head))
      /\ Parsed(head).err = "none" /\ declared = Parsed(head).length
      /\ body = SubSeq(stream, Len(head) + 1, Len(head) + Len(body))
      /\ consumed = Len(head) + Len(body) /\ Len(body) < declared
  BY <1>1 DEF ReadOK
<1>4. /\ stream \in Seq(STRING) /\ consumed \in Nat /\ pushed \in Nat /\ Len(stream) \in Nat
      /\ consumed <= pushed /\ pushed <= Len(stream) /\ Len(body) \in Nat /\ declared \in Nat
      /\ Len(head) \in Nat /\ body \in Seq(STRING)
  BY Types
<1>5. PICK n \in 1 .. Min({Arrived, declared - Len(body)}) :
        body' = body \o SubSeq(stream, consumed + 1, consumed + n) /\ consumed' = consumed + n
  BY DEF ReadBody
<1>6. n \in Nat /\ consumed + n <= pushed /\ Len(body) + n <= declared
  <2>1. Arrived \in Int /\ declared - Len(body) \in Int
    BY <1>4 DEF Arrived
  <2>2. n <= Arrived /\ n <= declared - Len(body)
    BY <2>1, MinOfTwo
  <2> QED BY <1>4, <2>2 DEF Arrived
<1>7. /\ body' = SubSeq(stream, Len(head) + 1, (Len(head) + Len(body)) + n)
      /\ body' \in Seq(STRING) /\ Len(body') = Len(body) + n
  <2> DEFINE a == Len(head) + 1
             c == Len(head) + Len(body)
             z == c + n
  <2>1. a \in 1 .. Len(stream) + 1 /\ c \in a - 1 .. Len(stream) /\ z \in c .. Len(stream)
    BY <1>3, <1>4, <1>6
  <2>2. SubSeq(stream, a, c) \o SubSeq(stream, c + 1, z) = SubSeq(stream, a, z)
    BY <1>4, <2>1, ConcatAdjacentSubSeq
  <2>3. SubSeq(stream, a, z) \in Seq(STRING) /\ Len(SubSeq(stream, a, z)) = Len(body) + n
    BY <1>4, <1>6, <2>1
  <2> QED BY <1>3, <1>5, <2>2, <2>3
<1>8. phase' \in {"body", "handling"}
  BY <1>1
<1>14. Whole' = Whole /\ Cramped' = Cramped /\ ~Cramped
  BY <1>1, <1>2 DEF Whole, Cramped
<1>9. TypeOK'
  <2>1. consumed' \in 0 .. pushed /\ Len(body') <= declared
    BY <1>4, <1>5, <1>6, <1>7
  <2> QED BY <1>1, <1>7, <1>8, <1>14, <2>1 DEF TypeOK
<1>10. HeadOK' /\ ReadOK' /\ ErrOK'
  <2>1. HeadEnds' = HeadEnds
    BY <1>1, IdealKept
  <2>2. /\ consumed' = Len(head') + Len(body')
        /\ body' = SubSeq(stream', Len(head') + 1, Len(head') + Len(body'))
    <3>1. Len(head) + (Len(body) + n) = (Len(head) + Len(body)) + n
      BY <1>4, <1>6
    <3> QED BY <1>1, <1>3, <1>5, <1>7, <3>1
  <2>3. IF phase' = "body" THEN Len(body') < declared' ELSE Len(body') = declared'
    <3>1. Len(body') \in Nat /\ declared' \in Nat /\ Len(body') <= declared' /\ declared' = declared
      BY <1>1, <1>4, <1>6, <1>7
    <3>2. CASE Len(body') = declared
      BY <1>1, <3>1, <3>2
    <3>3. CASE Len(body') # declared
      BY <1>1, <3>1, <3>3
    <3> QED BY <3>2, <3>3
  <2> QED BY <1>1, <1>2, <1>3, <1>8, <2>1, <2>2, <2>3 DEF HeadOK, ReadOK, Served, ErrOK, Excused
<1>11. PhaseOK'
  BY <1>1, <1>2, <1>8 DEF PhaseOK, Before
<1>12. TimeOK'
  BY <1>1, <1>2, <1>8 DEF TimeOK, Before
<1>13. ClientOK'
  BY <1>1, <1>2, <1>8, <1>14, Consts DEF ClientOK
<1> QED BY <1>9, <1>10, <1>11, <1>12, <1>13

-----------------------------------------------------------------------------
(* The steps that answer, drain and close *)

LEMMA HandleStep == ASSUME IInv, Handle PROVE IInv'
<1> USE DEF IInv
<1>1. /\ stream' = stream /\ own' = own /\ room' = room /\ pushed' = pushed /\ seen' = seen
      /\ shut' = shut /\ outcome' = outcome /\ gaveUp' = gaveUp /\ consumed' = consumed
      /\ head' = head /\ declared' = declared /\ body' = body /\ err' = err /\ written' = written
      /\ drained' = drained /\ reset' = reset /\ clock' = clock /\ since' = clock
      /\ asked' = asked /\ phase = "handling" /\ phase' = "answering" /\ answer' \in {"ok", "large"}
  BY DEF Handle, peerVars, reading
<1>2. /\ err = "none" /\ drained = 0 /\ asked = Never /\ answer = "none" /\ written = 0 /\ seen = 0
      /\ clock <= 2 * HeadDeadline /\ clock \in Nat /\ ~Cramped /\ ~Cramped'
  <2>1. answer = "none" /\ err = "none" /\ drained = 0 /\ asked = Never /\ clock <= 2 * HeadDeadline
    BY <1>1 DEF PhaseOK, TimeOK, Before, TypeOK
  <2> QED BY <1>1, <2>1, Types DEF Cramped
<1>3. Whole' \in Nat \ {0}
  BY <1>1, Sizes DEF Whole
<1>4. TypeOK'
  <2>1. written' \in 0 .. Whole' /\ seen' \in 0 .. written'
    BY <1>1, <1>2, <1>3
  <2> QED BY <1>1, <1>2, <2>1 DEF TypeOK
<1>5. HeadOK' /\ ReadOK' /\ ErrOK'
  <2>1. HeadEnds' = HeadEnds
    BY <1>1, IdealKept
  <2> QED BY <1>1, <1>2, <2>1 DEF HeadOK, ReadOK, ErrOK, Served, Excused
<1>6. PhaseOK'
  BY <1>1, <1>2, <1>3 DEF PhaseOK, Before
<1>7. TimeOK'
  <2>1. written' * WriteTimeout = 0 /\ clock - clock = 0
    BY <1>1, <1>2, Consts
  <2> QED BY <1>1, <1>2, <2>1 DEF TimeOK
<1>8. ClientOK'
  BY <1>1, <1>2 DEF ClientOK
<1> QED BY <1>4, <1>5, <1>6, <1>7, <1>8

LEMMA WriteAskStep == ASSUME IInv, WriteAsk PROVE IInv'
<1> USE DEF IInv
<1>1. /\ stream' = stream /\ own' = own /\ room' = room /\ pushed' = pushed /\ seen' = seen
      /\ shut' = shut /\ outcome' = outcome /\ gaveUp' = gaveUp /\ consumed' = consumed
      /\ head' = head /\ declared' = declared /\ body' = body /\ err' = err /\ written' = written
      /\ drained' = drained /\ reset' = reset /\ clock' = clock /\ since' = since
      /\ answer' = answer /\ phase = "answering" /\ phase' = phase /\ asked = Never /\ asked' = clock
  BY DEF WriteAsk, peerVars, reading, closing
<1>2. Whole' = Whole /\ Cramped' = Cramped /\ Cut' = Cut
  BY <1>1 DEF Whole, Cramped, Cut
<1>3. TypeOK'
  BY <1>1, <1>2, Types DEF TypeOK
<1>4. HeadOK' /\ ReadOK' /\ ErrOK'
  BY <1>1, ReadKept
<1>5. PhaseOK'
  BY <1>1, <1>2 DEF PhaseOK, Before
<1>6. TimeOK'
  <2>1. clock \in Nat /\ clock - clock <= WriteTimeout
    BY Types, Consts
  <2> QED BY <1>1, <2>1 DEF TimeOK
<1>7. ClientOK'
  BY <1>1, <1>2 DEF ClientOK
<1> QED BY <1>3, <1>4, <1>5, <1>6, <1>7

\* The answer is out, or its writing was given up.
LEMMA AnsweredOK ==
    ASSUME IInv, phase = "answering", asked # Never, Answered, asked' = Never,
           UNCHANGED <<peerVars, consumed, reading, answer, drained, clock>>,
           written' \in written .. Whole,
           own /\ outcome = "none" /\ ~Cramped => written' = Whole
    PROVE  IInv'
<1> USE DEF IInv
<1>1. /\ stream' = stream /\ own' = own /\ room' = room /\ pushed' = pushed /\ seen' = seen
      /\ shut' = shut /\ outcome' = outcome /\ gaveUp' = gaveUp /\ consumed' = consumed
      /\ head' = head /\ declared' = declared /\ body' = body /\ err' = err
      /\ drained' = drained /\ clock' = clock /\ answer' = answer
  BY DEF peerVars, reading
<1>2. Whole' = Whole /\ Cramped' = Cramped /\ Cut' = Cut
  BY <1>1 DEF Whole, Cramped, Cut
<1>3. phase' \in {"draining", "closed"} /\ {since', clock} \subseteq Nat /\ reset' \in BOOLEAN
  <2>1. since \in Nat /\ clock \in Nat
    BY Types
  <2>2. (Arrived > 0) \in BOOLEAN /\ reset \in BOOLEAN
    BY DEF TypeOK
  <2>3. CASE answer = "refused" /\ phase' = "draining" /\ since' = clock /\ UNCHANGED reset
    <3>1. reset' \in BOOLEAN
      BY <2>2, <2>3, Zenon
    <3> QED BY <2>1, <2>3, <3>1
  <2>4. CASE answer # "refused" /\ Close /\ UNCHANGED since
    <3>1. reset' \in BOOLEAN
      BY <2>2, <2>4, Zenon DEF Close
    <3> QED BY <2>1, <2>4, <3>1 DEF Close
  <2> QED BY <2>3, <2>4 DEF Answered
<1>4. TypeOK'
  <2>1. written' \in 0 .. Whole' /\ seen' \in 0 .. written'
    BY <1>1, <1>2, Types
  <2>2. {own', shut', gaveUp', reset'} \subseteq BOOLEAN
    <3>1. {own, shut, gaveUp} \subseteq BOOLEAN
      BY DEF TypeOK
    <3> QED BY <1>1, <1>3, <3>1, Zenon
  <2> QED BY <1>1, <1>2, <1>3, <2>1, <2>2 DEF TypeOK
<1>5. HeadOK' /\ ReadOK' /\ ErrOK'
  BY <1>1, <1>3, ReadAnswered
<1>6. PhaseOK'
  BY <1>1, <1>2, <1>3 DEF PhaseOK, Before, Answered, Close
<1>7. TimeOK'
  <2>1. CASE phase' = "closed"
    BY <2>1 DEF TimeOK
  <2>2. CASE phase' = "draining"
    <3>1. since' = clock
      BY <2>2 DEF Answered, Close
    <3>2. /\ since <= 2 * HeadDeadline /\ asked - since <= written * WriteTimeout
          /\ clock - asked <= WriteTimeout /\ since \in Nat /\ clock \in Nat /\ asked \in Nat
          /\ HeadDeadline \in Nat /\ written < Whole
      BY Types, Consts DEF TimeOK, PhaseOK
    <3>3. written * WriteTimeout + WriteTimeout <= Whole * WriteTimeout /\ Whole * WriteTimeout \in Nat
          /\ written * WriteTimeout \in Nat
      <4>1. Whole - written \in Nat \ {0} /\ written + (Whole - written) = Whole /\ written \in Nat
        BY <3>2, Types
      <4> HIDE DEF IInv
      <4>2. WriteTimeout \in Nat
        BY Consts
      <4>3. PICK n \in Nat \ {0} : written + n = Whole
        BY <4>1
      <4> QED BY <4>1, <4>2, <4>3, OneMore
    <3>4. clock <= 2 * HeadDeadline + Whole * WriteTimeout
      BY <3>2, <3>3, Consts
    <3>5. clock - clock < DrainDeadline + DrainTimeout
      BY <3>2, Consts
    <3> QED BY <1>1, <1>2, <2>2, <3>1, <3>2, <3>4, <3>5 DEF TimeOK
  <2> QED BY <1>3, <2>1, <2>2
<1>8. own /\ outcome = "none" /\ ~Cramped =>
        /\ since' = 0
        /\ phase' = "closed" => pushed = Len(stream) /\ ~reset'
  <2> SUFFICES ASSUME own, outcome = "none", ~Cramped
               PROVE  since' = 0 /\ (phase' = "closed" => pushed = Len(stream) /\ ~reset')
    OBVIOUS
  <2>1. clock = 0 /\ since = 0
    BY DEF ClientOK
  <2>2. since' = 0
    BY <2>1 DEF Answered, Close
  <2>3. ASSUME phase' = "closed" PROVE pushed = Len(stream) /\ ~reset'
    <3>1. answer # "refused" /\ reset' = (Arrived > 0)
      BY <2>3 DEF Answered, Close
    <3>2. Served
      BY <3>1 DEF PhaseOK, TypeOK, Served
    <3>3. Len(stream) = Len(head) + declared /\ consumed = Len(head) + declared
      BY <3>2, ClientSentAll DEF ClientOK, ReadOK
    <3>4. pushed = Len(stream) /\ ~ (Arrived > 0)
      BY <3>3, Types DEF Arrived
    <3> QED BY <3>1, <3>4
  <2> QED BY <2>2, <2>3
<1>9. ClientOK'
  <2>1. asked' <= 0
    BY Consts
  <2>2. own /\ outcome = "error" => gaveUp \/ answer = "large" \/ Cramped
    BY DEF ClientOK
  <2>3. own /\ outcome = "none" /\ ~Cramped => clock = 0
    BY DEF ClientOK
  <2> QED BY <1>1, <1>2, <1>8, <2>1, <2>2, <2>3 DEF ClientOK
<1> QED BY <1>4, <1>5, <1>6, <1>7, <1>9

LEMMA WriteSomeStep == ASSUME IInv, WriteSome PROVE IInv'
<1> USE DEF IInv
<1>1. /\ phase = "answering" /\ asked # Never /\ asked' = Never
      /\ UNCHANGED <<peerVars, consumed, reading, answer, drained, clock>>
      /\ stream' = stream /\ own' = own /\ room' = room /\ pushed' = pushed /\ seen' = seen
      /\ shut' = shut /\ outcome' = outcome /\ gaveUp' = gaveUp /\ consumed' = consumed
      /\ head' = head /\ declared' = declared /\ body' = body /\ err' = err
      /\ drained' = drained /\ clock' = clock /\ answer' = answer
  BY DEF WriteSome, peerVars, reading
<1>2. PICK n \in 1 .. Min({Free, Rest}) :
        /\ written' = written + n
        /\ \/ n = Rest /\ Answered
           \/ n < Rest /\ UNCHANGED <<phase, since, reset>>
  BY DEF WriteSome
<1>3. n \in Nat \ {0} /\ n <= Rest /\ Rest = Whole - written
  <2>1. Free \in Int /\ Rest \in Int
    BY Types DEF Free, Rest
  <2> QED BY <2>1, MinOfTwo DEF Rest
<1>4. CASE n = Rest /\ Answered
  <2>1. written' = Whole /\ written' \in written .. Whole
    <3>1. written + (Whole - written) = Whole /\ Whole \in written .. Whole
      BY Types
    <3> QED BY <1>2, <1>3, <1>4, <3>1
  <2> QED BY <1>1, <1>4, <2>1, AnsweredOK
<1>5. CASE n < Rest /\ UNCHANGED <<phase, since, reset>>
  <2>1. phase' = phase /\ since' = since /\ reset' = reset
    BY <1>5
  <2>2. Whole' = Whole /\ Cramped' = Cramped /\ Cut' = Cut
    BY <1>1 DEF Whole, Cramped, Cut
  <2>3. written' < Whole /\ written' \in 0 .. Whole /\ seen \in 0 .. written'
    BY <1>2, <1>3, <1>5, Types
  <2>4. TypeOK'
    BY <1>1, <2>1, <2>2, <2>3 DEF TypeOK
  <2>5. HeadOK' /\ ReadOK' /\ ErrOK'
    BY <1>1, <2>1, ReadKept
  <2>6. PhaseOK'
    BY <1>1, <2>1, <2>2, <2>3 DEF PhaseOK, Before
  <2>7. TimeOK'
    <3>1. /\ since <= clock /\ since <= 2 * HeadDeadline
          /\ asked - since <= written * WriteTimeout /\ clock - asked <= WriteTimeout
          /\ since \in Nat /\ clock \in Nat /\ asked \in Nat
      BY <1>1, Types DEF TimeOK
    <3>2. /\ written * WriteTimeout + WriteTimeout <= written' * WriteTimeout
          /\ written * WriteTimeout \in Nat /\ written' * WriteTimeout \in Nat
      <4>1. written \in Nat /\ WriteTimeout \in Nat
        BY Types, Consts
      <4> QED BY <1>2, <1>3, <4>1, OneMore
    <3>3. clock - since <= written' * WriteTimeout
      BY <3>1, <3>2, Consts
    <3> QED BY <1>1, <2>1, <3>1, <3>3 DEF TimeOK
  <2>8. ClientOK'
    BY <1>1, <2>1, <2>2, Consts DEF ClientOK
  <2> QED BY <2>4, <2>5, <2>6, <2>7, <2>8
<1> QED BY <1>2, <1>4, <1>5

LEMMA WriteFailsStep == ASSUME IInv, WriteFails PROVE IInv'
<1> USE DEF IInv
<1>1. /\ phase = "answering" /\ asked # Never /\ asked' = Never /\ Answered /\ written' = written
      /\ UNCHANGED <<peerVars, consumed, reading, answer, drained, clock>>
      /\ shut \/ clock - asked = WriteTimeout
  BY DEF WriteFails, Timeout
<1>2. written' \in written .. Whole
  BY <1>1, Types
<1>3. ~ (own /\ outcome = "none" /\ ~Cramped)
  <2> SUFFICES ASSUME own, outcome = "none", ~Cramped PROVE FALSE
    OBVIOUS
  <2>1. ~shut /\ clock = 0 /\ asked \in Nat
    BY <1>1, Types DEF ClientOK
  <2> QED BY <1>1, <2>1, Consts
<1> QED BY <1>1, <1>2, <1>3, AnsweredOK

LEMMA DrainAskStep == ASSUME IInv, DrainAsk PROVE IInv'
<1> USE DEF IInv
<1>1. /\ stream' = stream /\ own' = own /\ room' = room /\ pushed' = pushed /\ seen' = seen
      /\ shut' = shut /\ outcome' = outcome /\ written' = written
      /\ gaveUp' = gaveUp /\ consumed' = consumed /\ head' = head /\ declared' = declared
      /\ body' = body /\ err' = err /\ drained' = drained /\ clock' = clock /\ since' = since
      /\ answer' = answer /\ phase = "draining" /\ asked = Never
  BY DEF DrainAsk, peerVars, reading
<1>2. answer = "refused" /\ Whole' = Whole /\ Cramped' = Cramped
  BY <1>1 DEF PhaseOK, Whole, Cramped
<1>3. CASE drained < MaxDrain /\ clock - since < DrainDeadline /\ asked' = clock /\ UNCHANGED <<phase, reset>>
  <2>1. phase' = phase /\ reset' = reset /\ asked' = clock
    BY <1>3
  <2>2. TypeOK'
    BY <1>1, <1>2, <2>1, Types DEF TypeOK
  <2>3. HeadOK' /\ ReadOK' /\ ErrOK'
    BY <1>1, <2>1, ReadKept
  <2>4. PhaseOK'
    BY <1>1, <1>2, <1>3, <2>1 DEF PhaseOK, Before
  <2>5. TimeOK'
    <3>1. clock \in Nat /\ clock - clock <= DrainTimeout /\ clock <= clock /\ clock # Never
      BY Types, Consts
    <3> QED BY <1>1, <1>2, <1>3, <2>1, <3>1 DEF TimeOK
  <2>6. ClientOK'
    <3>1. Cut' = Cut
      BY <1>1 DEF Cut
    <3> QED BY <1>1, <1>2, <2>1, <3>1 DEF ClientOK
  <2> QED BY <2>2, <2>3, <2>4, <2>5, <2>6
<1>4. CASE (drained >= MaxDrain \/ clock - since >= DrainDeadline) /\ Close /\ UNCHANGED asked
  <2>1. phase' = "closed" /\ reset' = (Arrived > 0) /\ asked' = Never
    BY <1>1, <1>4 DEF Close
  <2>2. TypeOK'
    <3>1. {own', shut', gaveUp', reset'} \subseteq BOOLEAN
      <4>1. (Arrived > 0) \in BOOLEAN /\ {own, shut, gaveUp} \subseteq BOOLEAN
        BY DEF TypeOK
      <4> QED BY <1>1, <2>1, <4>1, Zenon
    <3> QED BY <1>1, <1>2, <2>1, <3>1 DEF TypeOK
  <2>3. HeadOK' /\ ReadOK' /\ ErrOK'
    BY <1>1, <1>2, <2>1, ReadOver DEF ErrOK
  <2>4. PhaseOK' /\ TimeOK'
    BY <1>1, <1>2, <2>1 DEF PhaseOK, TimeOK, Before
  <2>5. own /\ outcome = "none" /\ ~Cramped => Cut \/ (pushed = Len(stream) /\ ~ (Arrived > 0))
    <3> SUFFICES ASSUME own, outcome = "none", ~Cramped
                 PROVE  Cut \/ (pushed = Len(stream) /\ ~ (Arrived > 0))
      OBVIOUS
    <3>1. clock = 0 /\ since = 0
      BY DEF ClientOK
    <3>2. drained >= MaxDrain
      BY <1>4, <3>1, Consts
    <3>3. /\ consumed \in Nat /\ pushed \in Nat /\ Len(stream) \in Nat /\ drained \in Nat
          /\ consumed <= pushed /\ pushed <= Len(stream) /\ MaxDrain \in Nat
      BY Types, Consts
    <3>4. CASE consumed < Len(stream)
      BY <3>2, <3>3, <3>4 DEF Cut
    <3>5. CASE ~ (consumed < Len(stream))
      BY <3>3, <3>5 DEF Arrived
    <3> QED BY <3>4, <3>5
  <2>6. ClientOK'
    <3>1. Cut' = Cut
      BY <1>1 DEF Cut
    <3> QED BY <1>1, <1>2, <2>1, <2>5, <3>1 DEF ClientOK
  <2> QED BY <2>2, <2>3, <2>4, <2>6
<1> QED BY <1>3, <1>4 DEF DrainAsk

LEMMA DrainReadStep == ASSUME IInv, DrainRead PROVE IInv'
<1> USE DEF IInv
<1>1. /\ stream' = stream /\ own' = own /\ room' = room /\ pushed' = pushed /\ seen' = seen
      /\ shut' = shut /\ outcome' = outcome /\ written' = written
      /\ gaveUp' = gaveUp /\ head' = head /\ declared' = declared
      /\ body' = body /\ err' = err /\ clock' = clock /\ since' = since /\ reset' = reset
      /\ answer' = answer /\ phase = "draining" /\ phase' = phase
      /\ asked # Never /\ asked' = Never
  BY DEF DrainRead, peerVars, reading
<1>2. PICK n \in 1 .. Min({Arrived, Sink}) : consumed' = consumed + n /\ drained' = drained + n
  BY DEF DrainRead
<1>3. n \in Nat /\ consumed + n <= pushed /\ n <= Sink
  <2>1. Arrived \in Int /\ Sink \in Int
    BY Types, Consts DEF Arrived
  <2>2. n <= Arrived /\ n <= Sink
    BY <2>1, MinOfTwo
  <2> QED BY <2>2, Types DEF Arrived
<1>4. answer = "refused" /\ drained < MaxDrain /\ Whole' = Whole /\ Cramped' = Cramped
  BY <1>1 DEF PhaseOK, Whole, Cramped
<1>5. TypeOK'
  <2>1. consumed' \in 0 .. pushed /\ drained' \in 0 .. MaxDrain + Sink - 1
    <3>1. /\ consumed \in Nat /\ pushed \in Nat /\ drained \in Nat /\ MaxDrain \in Nat
          /\ Sink \in Nat
      BY Types, Consts
    <3> QED BY <1>2, <1>3, <1>4, <3>1
  <2> QED BY <1>1, <1>4, <2>1 DEF TypeOK
<1>6. HeadOK' /\ ReadOK' /\ ErrOK'
  BY <1>1, <1>4, ReadOver DEF ErrOK
<1>7. PhaseOK'
  BY <1>1, <1>4 DEF PhaseOK, Before
<1>8. TimeOK'
  <2>1. /\ since <= clock /\ since <= 2 * HeadDeadline + Whole * WriteTimeout /\ asked \in Nat
        /\ asked - since < DrainDeadline /\ clock - asked <= DrainTimeout
    BY <1>1, Types DEF TimeOK
  <2>2. clock - since < DrainDeadline + DrainTimeout
    <3>1. /\ clock \in Nat /\ since \in Nat /\ DrainDeadline \in Nat /\ DrainTimeout \in Nat
      BY Types, Consts
    <3> QED BY <2>1, <3>1
  <2> QED BY <1>1, <1>4, <2>1, <2>2 DEF TimeOK
<1>9. ClientOK'
  BY <1>1, <1>4, Consts DEF ClientOK
<1> QED BY <1>5, <1>6, <1>7, <1>8, <1>9

LEMMA DrainEndsStep == ASSUME IInv, DrainEnds PROVE IInv'
<1> USE DEF IInv
<1>1. /\ stream' = stream /\ own' = own /\ room' = room /\ pushed' = pushed /\ seen' = seen
      /\ shut' = shut /\ outcome' = outcome /\ written' = written
      /\ gaveUp' = gaveUp /\ consumed' = consumed /\ head' = head /\ declared' = declared
      /\ body' = body /\ err' = err /\ drained' = drained /\ clock' = clock /\ since' = since
      /\ answer' = answer /\ phase = "draining" /\ asked # Never /\ asked' = Never
      /\ phase' = "closed" /\ reset' = (Arrived > 0)
  BY DEF DrainEnds, Close, peerVars, reading
<1>2. answer = "refused" /\ Whole' = Whole /\ Cramped' = Cramped
  BY <1>1 DEF PhaseOK, Whole, Cramped
<1>3. TypeOK'
  <2>1. {own', shut', gaveUp', reset'} \subseteq BOOLEAN
    <3>1. (Arrived > 0) \in BOOLEAN /\ {own, shut, gaveUp} \subseteq BOOLEAN
      BY DEF TypeOK
    <3> QED BY <1>1, <3>1, Zenon
  <2> QED BY <1>1, <1>2, <2>1 DEF TypeOK
<1>4. HeadOK' /\ ReadOK' /\ ErrOK'
  BY <1>1, <1>2, ReadOver DEF ErrOK
<1>5. PhaseOK' /\ TimeOK'
  BY <1>1, <1>2 DEF PhaseOK, TimeOK, Before
<1>6. ~ (own /\ outcome = "none" /\ ~Cramped)
  <2> SUFFICES ASSUME own, outcome = "none", ~Cramped PROVE FALSE
    OBVIOUS
  <2>1. ~shut /\ clock = 0 /\ asked \in Nat
    BY <1>1, Types DEF ClientOK
  <2>2. clock - asked = DrainTimeout
    BY <1>1, <2>1 DEF DrainEnds, Timeout
  <2> QED BY <2>1, <2>2, Consts
<1>7. ClientOK'
  <2>1. Cut' = Cut
    BY <1>1 DEF Cut
  <2> QED BY <1>1, <1>2, <1>6, <2>1 DEF ClientOK
<1> QED BY <1>3, <1>4, <1>5, <1>7

-----------------------------------------------------------------------------
(* The steps of the peer *)

\* A step that changes nothing of the server's.
LEMMA ServerKept ==
    ASSUME IInv, UNCHANGED server, stream' = stream, room' = room, seen' \in 0 .. written
    PROVE  /\ HeadOK' /\ ReadOK' /\ ErrOK' /\ PhaseOK' /\ TimeOK'
           /\ Whole' = Whole /\ Cramped' = Cramped /\ Cut' = Cut
           /\ consumed' = consumed /\ head' = head /\ declared' = declared /\ body' = body
           /\ err' = err /\ drained' = drained /\ clock' = clock /\ since' = since
           /\ answer' = answer /\ written' = written /\ asked' = asked /\ phase' = phase
           /\ reset' = reset
<1> USE DEF IInv
<1>1. /\ consumed' = consumed /\ head' = head /\ declared' = declared /\ body' = body
      /\ err' = err /\ drained' = drained /\ clock' = clock /\ since' = since
      /\ answer' = answer /\ written' = written /\ asked' = asked /\ phase' = phase
      /\ reset' = reset
  BY DEF server, reading, closing
<1>2. Whole' = Whole /\ Cramped' = Cramped /\ Cut' = Cut
  BY <1>1 DEF Whole, Cramped, Cut
<1>3. HeadOK' /\ ReadOK' /\ ErrOK'
  BY <1>1, ReadKept
<1>4. PhaseOK'
  BY <1>1, <1>2 DEF PhaseOK, Before
<1>5. TimeOK'
  BY <1>1, <1>2 DEF TimeOK
<1> QED BY <1>1, <1>2, <1>3, <1>4, <1>5

LEMMA PushStep == ASSUME IInv, Push PROVE IInv'
<1> USE DEF IInv
<1>1. /\ stream' = stream /\ own' = own /\ room' = room /\ seen' = seen /\ shut' = shut
      /\ outcome' = outcome /\ gaveUp' = gaveUp /\ UNCHANGED server
      /\ pushed' = pushed + 1 /\ pushed < Len(stream) /\ phase # "closed"
  BY DEF Push
<1>2. seen' \in 0 .. written
  BY <1>1 DEF TypeOK
<1>3. TypeOK'
  <2>1. consumed \in 0 .. pushed + 1 /\ pushed + 1 \in 0 .. Len(stream)
    BY <1>1, Types
  <2> QED BY <1>1, <1>2, <2>1, ServerKept DEF TypeOK
<1>4. ClientOK'
  BY <1>1, <1>2, ServerKept DEF ClientOK
<1> QED BY <1>1, <1>2, <1>3, <1>4, ServerKept

LEMMA PeerReadsStep == ASSUME IInv, PeerReads PROVE IInv'
<1> USE DEF IInv
<1>1. /\ stream' = stream /\ own' = own /\ room' = room /\ pushed' = pushed /\ shut' = shut
      /\ outcome' = outcome /\ gaveUp' = gaveUp /\ UNCHANGED server
      /\ seen < written /\ seen' = seen + 1
  BY DEF PeerReads
<1>2. seen' \in 0 .. written
  BY <1>1, Types
<1>3. TypeOK'
  BY <1>1, <1>2, ServerKept DEF TypeOK
<1>4. ClientOK'
  BY <1>1, <1>2, ServerKept DEF ClientOK
<1> QED BY <1>1, <1>2, <1>3, <1>4, ServerKept

\* The peer's other steps: it closes its end, for a reason ClientOK allows.
LEMMA PeerEnds ==
    ASSUME IInv, stream' = stream, own' = own, room' = room, pushed' = pushed, seen' = seen,
           shut' = TRUE, UNCHANGED server,
           outcome' \in {"none", "answer", "error"}, gaveUp' \in BOOLEAN,
           own => outcome' # "none",
           own /\ outcome' = "error" =>
              gaveUp' \/ answer = "large" \/ Cramped \/ (phase = "closed" /\ Cut)
    PROVE  IInv'
<1> USE DEF IInv
<1>1. seen' \in 0 .. written
  BY DEF TypeOK
<1>2. reset' = reset
  BY <1>1, ServerKept
<1>3. TypeOK'
  <2>1. {own', shut', gaveUp', reset'} \subseteq BOOLEAN
    <3>1. {own, reset} \subseteq BOOLEAN
      BY DEF TypeOK
    <3> QED BY <1>2, <3>1, Zenon
  <2> QED BY <1>1, <2>1, ServerKept DEF TypeOK
<1>4. ClientOK'
  BY <1>1, ServerKept DEF ClientOK
<1> QED BY <1>1, <1>3, <1>4, ServerKept

LEMMA PeerShutsStep == ASSUME IInv, PeerShuts PROVE IInv'
<1>1. outcome' = outcome /\ gaveUp' = gaveUp /\ ~own
  BY DEF PeerShuts
<1>2. outcome \in {"none", "answer", "error"} /\ gaveUp \in BOOLEAN
  BY DEF IInv, TypeOK
<1> QED BY <1>1, <1>2, PeerEnds DEF PeerShuts

LEMMA ClientReadsStep == ASSUME IInv, ClientReads PROVE IInv'
<1>1. gaveUp' = gaveUp /\ ((outcome' = "error" /\ answer = "large") \/ outcome' = "answer")
  BY DEF ClientReads, Returns
<1>2. gaveUp \in BOOLEAN
  BY DEF IInv, TypeOK
<1> QED BY <1>1, <1>2, PeerEnds DEF ClientReads, Returns

LEMMA ClientCutOffStep == ASSUME IInv, ClientCutOff PROVE IInv'
<1>1. /\ outcome' = "error" /\ gaveUp' = gaveUp /\ own /\ outcome = "none"
      /\ \/ phase = "closed" /\ (pushed < Len(stream) \/ reset)
         \/ phase \in {"draining", "closed"} /\ Rest > 0
  BY DEF ClientCutOff, Returns
<1>2. gaveUp \in BOOLEAN
  BY DEF IInv, TypeOK
<1>3. Cramped \/ (phase = "closed" /\ Cut)
  <2> SUFFICES ASSUME ~Cramped PROVE phase = "closed" /\ Cut
    OBVIOUS
  <2>1. phase \in {"draining", "closed"} => ~ (Rest > 0)
    BY <1>1, Types DEF IInv, ClientOK, Rest
  <2>2. phase = "closed" /\ (pushed < Len(stream) \/ reset)
    BY <1>1, <2>1
  <2>3. ~ (pushed = Len(stream) /\ ~reset)
    BY <2>2, Types DEF IInv
  <2> QED BY <1>1, <2>2, <2>3 DEF IInv, ClientOK
<1> QED BY <1>1, <1>2, <1>3, PeerEnds DEF ClientCutOff, Returns

LEMMA ClientGivesUpStep == ASSUME IInv, ClientGivesUp PROVE IInv'
<1>1. outcome' = "error" /\ gaveUp' = TRUE
  BY DEF ClientGivesUp, Returns
<1> QED BY <1>1, PeerEnds DEF ClientGivesUp, Returns

LEMMA StutterStep == ASSUME IInv, UNCHANGED vars PROVE IInv'
<1> USE DEF IInv
<1>1. /\ stream' = stream /\ own' = own /\ room' = room /\ pushed' = pushed /\ seen' = seen
      /\ shut' = shut /\ outcome' = outcome /\ gaveUp' = gaveUp /\ UNCHANGED server
  BY DEF vars, server, reading, closing
<1>2. seen' \in 0 .. written
  BY <1>1 DEF TypeOK
<1>3. TypeOK'
  BY <1>1, <1>2, ServerKept DEF TypeOK
<1>4. ClientOK'
  BY <1>1, <1>2, ServerKept DEF ClientOK
<1> QED BY <1>1, <1>2, <1>3, <1>4, ServerKept

LEMMA NextOK == IInv /\ [Next]_vars => IInv'
<1> SUFFICES ASSUME IInv, [Next]_vars PROVE IInv'
  OBVIOUS
<1>1. CASE Tick
  BY <1>1, TickStep
<1>2. CASE ReadStep
  BY <1>2, AskStep, ReadHeadStep, ReadHeadFailsStep, ReadBodyStep, ReadBodyFailsStep DEF ReadStep
<1>3. CASE CloseStep
  BY <1>3, HandleStep, WriteAskStep, WriteSomeStep, WriteFailsStep, DrainAskStep, DrainReadStep,
     DrainEndsStep DEF CloseStep
<1>4. CASE PeerStep
  BY <1>4, PushStep, PeerReadsStep, PeerShutsStep, ClientReadsStep, ClientCutOffStep,
     ClientGivesUpStep DEF PeerStep
<1>5. CASE UNCHANGED vars
  BY <1>5, StutterStep
<1> QED BY <1>1, <1>2, <1>3, <1>4, <1>5 DEF Next

-----------------------------------------------------------------------------
(* What an accepted head holds *)

\* m is the last LF of b before place j, or 0.
LfIs(b, j, m) ==
    /\ m \in 0 .. j - 1 /\ (m # 0 => b[m] = "n")
    /\ \A i \in 1 .. j - 1 : b[i] = "n" => i <= m

LEMMA LfBeforeIs ==
    ASSUME NEW b, NEW j \in Nat \ {0} PROVE LfIs(b, j, LfBefore(b, j))
<1> DEFINE S == {0} \cup {i \in 1 .. j - 1 : b[i] = "n"}
           m == LfBefore(b, j)
<1>1. S \subseteq 0 .. j - 1 /\ S # {} /\ j - 1 \in Nat
  OBVIOUS
<1>2. m = Max(S)
  BY DEF LfBefore
<1> HIDE DEF m, S
<1>3. m \in S /\ \A y \in S : m >= y
  BY <1>1, <1>2, MaxIs
<1>4. \A i \in 1 .. j - 1 : b[i] = "n" => i <= m
  BY <1>3 DEF S
<1> QED BY <1>1, <1>3, <1>4 DEF LfIs, S, m

LEMMA LfUnique ==
    ASSUME NEW b, NEW j \in Nat \ {0}, NEW m, NEW p, LfIs(b, j, m), LfIs(b, j, p)
    PROVE  m = p
BY DEF LfIs

\* How the last LF moves from byte to byte.
LEMMA LfNext ==
    ASSUME NEW b, NEW m \in Nat \ {0}
    PROVE  LfBefore(b, m + 1) = IF b[m] = "n" THEN m ELSE LfBefore(b, m)
<1>1. LfIs(b, m, LfBefore(b, m)) /\ LfIs(b, m + 1, LfBefore(b, m + 1))
  BY LfBeforeIs
<1>2. CASE b[m] = "n"
  <2>1. LfIs(b, m + 1, m)
    BY <1>2 DEF LfIs
  <2> QED BY <1>1, <1>2, <2>1, LfUnique
<1>3. CASE b[m] # "n"
  <2>1. LfIs(b, m + 1, LfBefore(b, m))
    BY <1>1, <1>3 DEF LfIs
  <2> QED BY <1>1, <1>3, <2>1, LfUnique
<1> QED BY <1>2, <1>3

\* A line with one atom besides its CR, and an empty one.
LEMMA LineOfOne ==
    ASSUME NEW b \in Seq(STRING), NEW m \in 1 .. Len(b), NEW q \in 0 .. m - 1,
           NEW h, EndsInCr(SubSeq(b, q + 1, m - 1)), Stripped(SubSeq(b, q + 1, m - 1)) = <<h>>
    PROVE  m = q + 3 /\ b[q + 1] = h /\ b[q + 2] = "r"
<1> DEFINE line == SubSeq(b, q + 1, m - 1)
<1>1. line \in Seq(STRING) /\ Len(line) = (m - 1) - q /\ \A i \in 1 .. Len(line) : line[i] = b[q + i]
  <2>1. /\ q \in Int /\ m \in Int /\ q + 1 \in Int /\ m - 1 \in Int /\ q <= m - 1
        /\ \A i \in q + 1 .. m - 1 : b[i] \in STRING
    OBVIOUS
  <2>2. /\ line \in Seq(STRING)
        /\ Len(line) = IF q + 1 <= m - 1 THEN (m - 1) - (q + 1) + 1 ELSE 0
        /\ \A i \in 1 .. (m - 1) - (q + 1) + 1 : line[i] = b[(q + 1) + i - 1]
    BY <2>1, SubSeqProperties
  <2>3. Len(line) = (m - 1) - q
    BY <2>1, <2>2
  <2>4. ASSUME NEW i \in 1 .. Len(line) PROVE line[i] = b[q + i]
    <3>1. i \in 1 .. (m - 1) - (q + 1) + 1 /\ (q + 1) + i - 1 = q + i
      BY <2>1, <2>3
    <3> QED BY <2>2, <3>1
  <2> QED BY <2>2, <2>3, <2>4
<1> HIDE DEF line
<1>2. line # <<>>
  <2>1. <<>> # <<h>>
    OBVIOUS
  <2> QED BY <2>1 DEF Stripped, line
<1>3. Len(line) \in Nat /\ Len(line) # 0
  BY <1>1, <1>2
<1>4. Front(line) = <<h>>
  BY <1>2 DEF Stripped, line
<1>5. Len(Front(line)) = Len(line) - 1 /\ \A i \in 1 .. Len(line) - 1 : Front(line)[i] = line[i]
  BY <1>1, <1>3 DEF Front
<1>6. Len(<<h>>) = 1 /\ <<h>>[1] = h
  OBVIOUS
<1>7. Len(line) = 2
  <2>1. Len(Front(line)) = 1
    BY <1>4, <1>6
  <2>2. Len(line) - 1 = 1
    BY <1>5, <2>1, Zenon
  <2> QED BY <1>3, <2>2
<1>8. line[1] = h
  BY <1>4, <1>5, <1>6, <1>7
<1>9. line[2] = "r"
  BY <1>2, <1>7 DEF EndsInCr, Last, line
<1>10. m = q + 3
  <2>1. 2 = (m - 1) - q
    BY <1>1, <1>7, Zenon
  <2>2. q \in Int /\ m \in Int
    OBVIOUS
  <2> QED BY <2>1, <2>2
<1>11. line[1] = b[q + 1] /\ line[2] = b[q + 2]
  <2>1. 1 \in 1 .. 2 /\ 2 \in 1 .. 2
    OBVIOUS
  <2> QED BY <1>1, <1>7, <2>1, Zenon
<1> QED BY <1>8, <1>9, <1>10, <1>11

LEMMA LineOfNone ==
    ASSUME NEW b \in Seq(STRING), NEW m \in 1 .. Len(b), NEW q \in 0 .. m - 1,
           NEW line, line = SubSeq(b, q + 1, m - 1), EndsInCr(line), Stripped(line) = <<>>
    PROVE  m = q + 1 \/ m = q + 2
<1>1. line \in Seq(STRING) /\ Len(line) = (m - 1) - q
  OBVIOUS
<1>2. CASE line = <<>>
  BY <1>1, <1>2
<1>3. CASE line # <<>>
  <2>1. Len(line) \in Nat /\ Len(line) # 0
    BY <1>1, <1>3
  <2>2. Front(line) = <<>>
    BY <1>3 DEF Stripped
  <2>3. Len(Front(line)) = Len(line) - 1
    BY <1>1, <2>1 DEF Front
  <2>4. Len(line) = 1
    BY <2>1, <2>2, <2>3
  <2> QED BY <1>1, <2>4
<1> QED BY <1>2, <1>3

\* Every LF of b follows a CR, and the first terminator of b is its end.
WholeHead(b) ==
    /\ \A i \in 1 .. Len(b) : b[i] = "n" => i > 1 /\ b[i - 1] = "r"
    /\ Len(b) \in Ends(b) /\ \A i \in Ends(b) : Len(b) <= i

\* The only empty header line of such a head is its last.
LEMMA EmptyLineIsLast ==
    ASSUME NEW b \in Seq(STRING), WholeHead(b), NEW m \in 1 .. Len(b), b[m] = "n",
           NEW q \in 1 .. m - 1, b[q] = "n",
           EndsInCr(SubSeq(b, q + 1, m - 1)), Stripped(SubSeq(b, q + 1, m - 1)) = <<>>
    PROVE  m = Len(b)
<1>1. m = q + 1 \/ m = q + 2
  <2>1. q \in 0 .. m - 1
    OBVIOUS
  <2> QED BY <2>1, LineOfNone
<1>2. b[m - 1] = "r" /\ q > 1 /\ b[q - 1] = "r"
  BY DEF WholeHead
<1>3. m = q + 2
  BY <1>1, <1>2
<1>4. EndsAt(b, m)
  BY <1>2, <1>3 DEF EndsAt
<1>5. m \in Ends(b)
  BY <1>4, EndsIs
<1> QED BY <1>5 DEF WholeHead

\* Among the first p bytes no other framing, one host and one length at most, and
\* the loop knows of them.
Clean(so, b, p) ==
    /\ \A i \in 1 .. p : b[i] # "te"
    /\ \A i \in 1 .. p : b[i] = "host" => so.host
    /\ \A i, k \in 1 .. p : b[i] = "host" /\ b[k] = "host" => i = k
    /\ \A i \in 1 .. p : b[i] \in DOMAIN Lengths => so.length # Never
    /\ \A i, k \in 1 .. p : b[i] \in DOMAIN Lengths /\ b[k] \in DOMAIN Lengths => i = k

LEMMA LengthNames == DOMAIN Lengths = {"len0", "len1", "len2", "len5"}
BY DEF Lengths

\* One more header line that the loop accepts.
LEMMA CleanLine ==
    ASSUME NEW b \in Seq(STRING), NEW so \in Carried, NEW q \in Nat, Clean(so, b, q),
           NEW line, EndsInCr(line), so.err = "none", ~so.ended,
           HeaderLine(so, line).err = "none", Stripped(line) # <<>>,
           NEW h, Stripped(line) = <<h>>, b[q + 1] = h, b[q + 2] = "r", b[q + 3] = "n"
    PROVE  Clean(HeaderLine(so, line), b, q + 3) /\ ~HeaderLine(so, line).ended
<1> DEFINE to == HeaderLine(so, line)
           e == HeaderLineError(so, line)
<1>1. e = "none"
  <2> SUFFICES ASSUME e # "none" PROVE FALSE
    OBVIOUS
  <2>1. to = [so EXCEPT !.err = e]
    BY DEF HeaderLine
  <2> HIDE DEF to, e
  <2>2. to.err = e
    BY <2>1 DEF Carried
  <2> QED BY <2>2 DEF to
<1>2. <<h>>[1] = h
  OBVIOUS
<1>3. /\ h # "te" /\ (h = "host" => ~so.host) /\ (h \in DOMAIN Lengths => so.length = Never)
      /\ h \in HeaderLines
  BY <1>1, <1>2 DEF HeaderLineError
<1> HIDE DEF e
<1>4. to = [so EXCEPT !.count = @ + 1,
                      !.host = @ \/ <<h>> = <<"host">>,
                      !.length = IF h \in DOMAIN Lengths THEN Lengths[h] ELSE @]
  BY <1>1, <1>2 DEF HeaderLine, e
<1> HIDE DEF to
<1>5. /\ to.host <=> so.host \/ h = "host"
      /\ to.length = IF h \in DOMAIN Lengths THEN Lengths[h] ELSE so.length
      /\ to.ended = so.ended
  BY <1>4 DEF Carried
<1>6. h \in DOMAIN Lengths => Lengths[h] # Never
  BY LengthsAre, Consts
<1>7. \A i \in 1 .. q + 3 : i \in 1 .. q \/ i = q + 1 \/ i = q + 2 \/ i = q + 3
  OBVIOUS
<1>8. \A i \in 1 .. q + 3 : b[i] \in {"te", "host"} \cup DOMAIN Lengths =>
                              i \in 1 .. q \/ (i = q + 1 /\ b[i] = h)
  BY <1>7, LengthNames
<1>9. "host" \notin DOMAIN Lengths
  BY LengthNames
<1>10. \A i \in 1 .. q + 3 : b[i] # "te"
  BY <1>3, <1>8 DEF Clean
<1>11. \A i \in 1 .. q + 3 : b[i] = "host" => to.host
  BY <1>5, <1>8 DEF Clean
<1>12. \A i, k \in 1 .. q + 3 : b[i] = "host" /\ b[k] = "host" => i = k
  BY <1>3, <1>8 DEF Clean
<1>13. \A i \in 1 .. q + 3 : b[i] \in DOMAIN Lengths => to.length # Never
  BY <1>5, <1>6, <1>8 DEF Clean
<1>14. \A i, k \in 1 .. q + 3 : b[i] \in DOMAIN Lengths /\ b[k] \in DOMAIN Lengths => i = k
  BY <1>3, <1>8 DEF Clean
<1> QED BY <1>5, <1>10, <1>11, <1>12, <1>13, <1>14 DEF Clean, to

\* The loop never forgets an error.
LEMMA ErrorStays ==
    ASSUME NEW so \in Carried, NEW line, HeaderLine(so, line).err = "none"
    PROVE  so.err = "none"
<1> SUFFICES ASSUME so.err # "none" PROVE FALSE
  OBVIOUS
<1> QED BY DEF HeaderLine

\* The first line of an accepted head names nothing that counts.
LEMMA CleanFirst ==
    ASSUME NEW b \in Seq(STRING), NEW m \in 1 .. Len(b), b[m] = "n", LfBefore(b, m) = 0,
           RequestLineError(LineAt(b, FirstLf(b))) = "none"
    PROVE  \A so : Clean(so, b, m)
<1>1. LfIs(b, m, 0)
  BY LfBeforeIs
<1>2. FirstLf(b) = m
  <2> DEFINE S == {i \in 1 .. Len(b) : b[i] = "n"}
  <2>1. S \subseteq Int /\ m \in S
    OBVIOUS
  <2>2. \A y \in S : m <= y
    BY <1>1 DEF LfIs
  <2> HIDE DEF S
  <2>3. Min(S) = m
    BY <2>1, <2>2, MinUnique
  <2> QED BY <2>3 DEF FirstLf, S
<1>3. LineAt(b, m) = SubSeq(b, 0 + 1, m - 1)
  BY DEF LineAt
<1>4. EndsInCr(LineAt(b, m)) /\ Stripped(LineAt(b, m)) \in {<<"get">>, <<"esc">>}
  BY <1>2 DEF RequestLineError
<1>5. PICK h \in {"get", "esc"} : Stripped(LineAt(b, m)) = <<h>>
  BY <1>4
<1>6. m = 3 /\ b[1] = h /\ b[2] = "r"
  <2>1. PICK q \in 0 .. m - 1 : q = 0
    OBVIOUS
  <2>2. EndsInCr(SubSeq(b, q + 1, m - 1)) /\ Stripped(SubSeq(b, q + 1, m - 1)) = <<h>>
    BY <1>3, <1>4, <1>5, <2>1, Zenon
  <2>3. m = q + 3 /\ b[q + 1] = h /\ b[q + 2] = "r"
    BY <2>2, LineOfOne
  <2> QED BY <2>1, <2>3
<1>7. \A i \in 1 .. m : b[i] \in {"get", "esc", "r", "n"}
  BY <1>6
<1>8. \A i \in 1 .. m : b[i] # "te" /\ b[i] # "host" /\ b[i] \notin DOMAIN Lengths
  BY <1>7, LengthNames
<1> QED BY <1>8, Zenon DEF Clean

\* All header lines of an accepted head, up to its last.
LEMMA CleanHead ==
    ASSUME NEW b \in Seq(STRING), WholeHead(b), Parsed(b).err = "none"
    PROVE  \E so : Clean(so, b, Len(b) - 2)
<1> DEFINE n == Len(b)
<1>1. n \in Nat /\ n >= 4 /\ b[n - 3] = "r" /\ b[n - 2] = "n" /\ b[n - 1] = "r" /\ b[n] = "n"
  <2>1. EndsAt(b, n)
    BY EndsIs DEF WholeHead
  <2> QED BY <2>1 DEF EndsAt
<1>2. RequestLineError(LineAt(b, FirstLf(b))) = "none" /\ Headers(b).err = "none"
  BY DEF Parsed
<1>3. PICK f : /\ Headers(b) = f[n] /\ f[0] = NoHeaders
               /\ \A j \in 0 .. n - 1 : f[j + 1] = HeaderByte(b, f[j], j + 1)
  BY <1>1, HeadersSteps
<1> HIDE DEF n
<1> DEFINE Good(j) ==
             /\ f[j] \in Carried
             /\ f[j].err = "none" => ~f[j].ended /\ Clean(f[j], b, LfBefore(b, j + 1))
           S == {j \in Nat : Good(j)}
<1>4. 0 \in S
  <2>1. 0 \in Nat /\ Never \in Nat \cup {Never} /\ "none" \in Errors /\ FALSE \in BOOLEAN
    BY DEF Errors
  <2>2. NoHeaders \in Carried /\ NoHeaders.ended = FALSE
    BY <2>1, Zenon DEF NoHeaders, Carried
  <2>3. LfIs(b, 0 + 1, LfBefore(b, 0 + 1))
    <3>1. 0 + 1 \in Nat \ {0}
      OBVIOUS
    <3> QED BY <3>1, LfBeforeIs
  <2>4. LfBefore(b, 0 + 1) = 0
    BY <2>3 DEF LfIs
  <2>5. Clean(NoHeaders, b, 0)
    BY DEF Clean
  <2> QED BY <1>3, <2>2, <2>4, <2>5
<1>5. ASSUME NEW j \in 0 .. (n - 1) - 1, j \in S
      PROVE  j + 1 \in S
  <2> DEFINE m == j + 1
             q == LfBefore(b, m)
             line == LineAt(b, m)
  <2>1. m \in Nat /\ m \in Nat \ {0} /\ m \in 1 .. n /\ m # n /\ j \in 0 .. n - 1
    BY <1>1
  <2>2. Good(j)
    BY <1>5
  <2>3. f[m] = HeaderByte(b, f[j], m)
    BY <1>3, <2>1
  <2> HIDE DEF m
  <2>4. q \in 0 .. m - 1 /\ (q # 0 => b[q] = "n")
    BY <2>1, LfBeforeIs DEF LfIs
  <2>5. LfBefore(b, m + 1) = IF b[m] = "n" THEN m ELSE q
    BY <2>1, LfNext
  <2>6. line = SubSeq(b, q + 1, m - 1)
    BY DEF LineAt
  <2> HIDE DEF q, line
  <2>7. CASE b[m] # "n"
    <3>1. f[m] = f[j] /\ LfBefore(b, m + 1) = q
      BY <2>3, <2>5, <2>7 DEF HeaderByte
    <3>2. Good(m)
      BY <2>2, <3>1 DEF q, m
    <3> QED BY <2>1, <3>2 DEF m
  <2>8. CASE b[m] = "n" /\ q = 0
    <3>1. f[m] = f[j] /\ LfBefore(b, m + 1) = m
      BY <2>3, <2>5, <2>8 DEF HeaderByte, q
    <3>2. Clean(f[m], b, m)
      BY <1>2, <2>1, <2>8, CleanFirst DEF q, n
    <3>3. Good(m)
      BY <2>2, <3>1, <3>2
    <3> QED BY <2>1, <3>3 DEF m
  <2>9. CASE b[m] = "n" /\ q # 0
    <3>1. f[m] = HeaderLine(f[j], line) /\ LfBefore(b, m + 1) = m
      BY <2>3, <2>5, <2>9 DEF HeaderByte, q, line
    <3>2. f[j] \in Carried /\ f[m] \in Carried
      BY <2>2, <3>1, HeaderLineType
    <3>3. ASSUME f[m].err = "none" PROVE ~f[m].ended /\ Clean(f[m], b, m)
      <4>1. f[j].err = "none"
        BY <3>1, <3>2, <3>3, ErrorStays
      <4>2. ~f[j].ended /\ Clean(f[j], b, q)
        BY <2>2, <4>1 DEF q, m
      <4>3. HeaderLineError(f[j], line) = "none"
        <5> DEFINE e == HeaderLineError(f[j], line)
        <5> SUFFICES ASSUME e # "none" PROVE FALSE
          OBVIOUS
        <5>1. f[m] = [f[j] EXCEPT !.err = e]
          BY <3>1, <4>1, <4>2 DEF HeaderLine
        <5> HIDE DEF e
        <5>2. f[m].err = e
          BY <3>2, <5>1 DEF Carried
        <5> QED BY <3>3, <5>2
      <4>4. EndsInCr(line) /\ (Stripped(line) # <<>> => Stripped(line) \in {<<h>> : h \in HeaderLines})
        BY <4>3 DEF HeaderLineError
      <4>5. Stripped(line) # <<>>
        <5> SUFFICES ASSUME Stripped(line) = <<>> PROVE FALSE
          OBVIOUS
        <5>1. q \in 1 .. m - 1 /\ b[q] = "n" /\ m \in 1 .. Len(b)
          BY <2>1, <2>4, <2>9 DEF n
        <5>2. m = Len(b)
          BY <2>6, <2>9, <4>4, <5>1, EmptyLineIsLast
        <5> QED BY <2>1, <5>2 DEF n
      <4>6. PICK h : Stripped(line) = <<h>>
        BY <4>4, <4>5
      <4>7. m = q + 3 /\ b[q + 1] = h /\ b[q + 2] = "r"
        <5>1. m \in 1 .. Len(b)
          BY <2>1 DEF n
        <5>2. EndsInCr(SubSeq(b, q + 1, m - 1)) /\ Stripped(SubSeq(b, q + 1, m - 1)) = <<h>>
          BY <2>6, <4>4, <4>6, Zenon
        <5> QED BY <2>4, <5>1, <5>2, LineOfOne
      <4>8. q \in Nat /\ b[q + 3] = "n"
        BY <2>1, <2>4, <2>9, <4>7
      <4> QED BY <3>1, <3>2, <3>3, <4>1, <4>2, <4>4, <4>5, <4>6, <4>7, <4>8, CleanLine
    <3>4. Good(m)
      BY <3>1, <3>2, <3>3
    <3> QED BY <2>1, <3>4 DEF m
  <2> QED BY <2>7, <2>8, <2>9
<1>6. n - 1 \in S
  <2> HIDE DEF S
  <2>1. n - 1 \in Nat /\ n - 1 \in 0 .. n - 1
    BY <1>1
  <2>2. \A k \in 0 .. n - 1 : k \in S
    BY <1>4, <1>5, <2>1, UpTo
  <2> QED BY <2>1, <2>2
<1>7. Good(n - 1)
  BY <1>6
<1>8. (n - 1) + 1 = n /\ n - 1 \in 0 .. n - 1
  BY <1>1
<1>9. f[n - 1].err = "none"
  <2>1. f[n] = HeaderByte(b, f[n - 1], n)
    BY <1>3, <1>8
  <2> QED BY <1>2, <1>3, <1>7, <2>1, ErrorStays DEF HeaderByte
<1>10. LfBefore(b, n) = n - 2
  <2>1. n \in Nat \ {0} /\ LfIs(b, n, LfBefore(b, n))
    BY <1>1, LfBeforeIs
  <2>2. LfIs(b, n, n - 2)
    BY <1>1 DEF LfIs
  <2> QED BY <2>1, <2>2, LfUnique
<1>11. Clean(f[n - 1], b, n - 2)
  BY <1>7, <1>8, <1>9, <1>10
<1> QED BY <1>11 DEF n

LEMMA AtMostOne ==
    ASSUME NEW S, \A x, y \in S : x = y
    PROVE  IsFiniteSet(S) /\ Cardinality(S) <= 1
<1>1. CASE S = {}
  BY <1>1, FS_EmptySet
<1>2. CASE S # {}
  <2>1. PICK x : S = {x}
    BY <1>2
  <2>2. IsFiniteSet(S) /\ Cardinality(S) = 1
    BY <2>1, FS_Singleton, Zenon
  <2> QED BY <2>2
<1> QED BY <1>1, <1>2

\* An accepted head with no bare LF can be read in one way only.
LEMMA AcceptedHead ==
    ASSUME NEW b \in Seq(STRING), WholeHead(b), Parsed(b).err = "none"
    PROVE  /\ Cardinality({i \in DOMAIN b : b[i] \in DOMAIN Lengths}) <= 1
           /\ Cardinality({i \in DOMAIN b : b[i] \in {"host"}}) <= 1
           /\ Cardinality({i \in DOMAIN b : b[i] \in {"te"}}) = 0
<1>1. PICK so : Clean(so, b, Len(b) - 2)
  BY CleanHead
<1>2. EndsAt(b, Len(b))
  BY EndsIs DEF WholeHead
<1>3. DOMAIN b = 1 .. Len(b) /\ Len(b) \in Nat
  OBVIOUS
<1>4. ASSUME NEW i \in DOMAIN b, b[i] \in {"te", "host"} \cup DOMAIN Lengths
      PROVE  i \in 1 .. Len(b) - 2
  <2>1. b[i] # "r" /\ b[i] # "n"
    BY <1>4, LengthNames
  <2>2. i \in 1 .. Len(b) /\ i # Len(b) /\ i # Len(b) - 1
    BY <1>2, <1>3, <2>1 DEF EndsAt
  <2> QED BY <1>3, <2>2
<1>5. Cardinality({i \in DOMAIN b : b[i] \in DOMAIN Lengths}) <= 1
  BY <1>1, <1>4, AtMostOne DEF Clean
<1>6. Cardinality({i \in DOMAIN b : b[i] \in {"host"}}) <= 1
  BY <1>1, <1>4, AtMostOne DEF Clean
<1>7. {i \in DOMAIN b : b[i] \in {"te"}} = {}
  BY <1>1, <1>4 DEF Clean
<1> QED BY <1>5, <1>6, <1>7, FS_EmptySet

-----------------------------------------------------------------------------
(* The theorems *)

\* The exchange keeps the invariant from its first state on: what has been read is
\* the part of the stream before it, cut where a whole reader would cut it; the
\* clock stays within what the deadlines of Request::read and drain allow; and the
\* client has been cut off only by more than drain clears.
THEOREM Invariance == Spec => []IInv
<1>1. Init => IInv
  BY InitOK
<1>2. IInv /\ [Next]_vars => IInv'
  BY NextOK
<1> QED BY <1>1, <1>2, PTL DEF Spec

\* Every field of the exchange keeps its type: read_head never holds more than
\* max_head, read_body never more than the declared length, which is within
\* max_body, and drain's total stays below its limit plus one sink.
THEOREM TypeCorrect == Spec => []TypeOK
<1>1. IInv => TypeOK
  BY DEF IInv
<1> QED BY <1>1, Invariance, PTL

\* However the bytes were cut into reads, the server serves exactly the request that
\* was sent and refuses for what the stream holds (read_head, read_body).
THEOREM AlwaysReadsWhatWasSent == Spec => []ReadsWhatWasSent
<1>1. IInv => ReadsWhatWasSent
  <2> SUFFICES ASSUME IInv PROVE ReadsWhatWasSent
    OBVIOUS
  <2>1. ASSUME Served
        PROVE  /\ Ideal.err = "none"
               /\ body = SubSeq(stream, Min(HeadEnds) + 1, Min(HeadEnds) + Ideal.length)
    <3>1. /\ Len(head) \in HeadEnds /\ \A i \in HeadEnds : Len(head) <= i
          /\ head = SubSeq(stream, 1, Len(head))
          /\ Parsed(head).err = "none" /\ declared = Parsed(head).length
          /\ body = SubSeq(stream, Len(head) + 1, Len(head) + Len(body))
          /\ Len(body) = declared
      BY <2>1 DEF IInv, ReadOK, Served, PhaseOK, Before
    <3>2. stream \in Seq(STRING)
      BY Types DEF IInv
    <3>3. Min(HeadEnds) = Len(head) /\ Ideal = Parsed(head)
      BY <3>1, <3>2, IdealIs
    <3> QED BY <3>1, <3>3
  <2> QED BY <2>1 DEF ReadsWhatWasSent, IInv, ErrOK, Served, Excused
<1> QED BY <1>1, Invariance, PTL

\* No peer keeps a worker waiting for longer than two request deadlines, a write timeout
\* for each byte of the answer, and after a refusal the drain (read_head's and read_body's
\* deadline, write_all under the socket's write timeout, drain's loop condition).
THEOREM AlwaysWorkerFreed == Spec => []WorkerFreed
<1>1. IInv => WorkerFreed
  <2> SUFFICES ASSUME IInv PROVE WorkerFreed
    OBVIOUS
  <2>1. /\ clock \in Nat /\ since \in Nat /\ HeadDeadline \in Nat /\ DrainDeadline \in Nat
        /\ DrainTimeout \in Nat /\ WriteTimeout \in Nat /\ asked \in Nat \cup {Never}
        /\ Whole \in Nat /\ written \in Nat
    BY Types, Consts DEF IInv
  <2>2. ASSUME phase = "answering" PROVE clock <= 2 * HeadDeadline + Whole * WriteTimeout
    <3>1. since <= 2 * HeadDeadline /\ written < Whole
      BY <2>2 DEF IInv, TimeOK, PhaseOK
    <3>2. clock - since <= written * WriteTimeout + WriteTimeout
      <4>1. written * WriteTimeout \in Nat
        BY <2>1
      <4>2. CASE asked = Never
        <5>1. clock - since <= written * WriteTimeout
          BY <2>2, <4>2 DEF IInv, TimeOK
        <5> QED BY <2>1, <4>1, <5>1
      <4>3. CASE asked # Never
        <5>1. asked - since <= written * WriteTimeout /\ clock - asked <= WriteTimeout /\ asked \in Nat
          BY <2>1, <2>2, <4>3 DEF IInv, TimeOK
        <5> QED BY <2>1, <4>1, <5>1
      <4> QED BY <4>2, <4>3
    <3>3. PICK n \in Nat \ {0} : written + n = Whole
      <4>1. Whole - written \in Nat \ {0} /\ written + (Whole - written) = Whole
        BY <2>1, <3>1
      <4> QED BY <4>1
    <3>4. /\ written * WriteTimeout + WriteTimeout <= Whole * WriteTimeout
          /\ written * WriteTimeout \in Nat /\ Whole * WriteTimeout \in Nat
      BY <2>1, <3>3, OneMore
    <3> QED BY <2>1, <3>1, <3>2, <3>4
  <2>3. ASSUME phase = "draining"
        PROVE  clock <= 2 * HeadDeadline + Whole * WriteTimeout + DrainDeadline + DrainTimeout
    <3>1. since <= 2 * HeadDeadline + Whole * WriteTimeout /\ Whole * WriteTimeout \in Nat
      BY <2>1, <2>3 DEF IInv, TimeOK
    <3>2. CASE asked = Never
      <4>1. clock - since < DrainDeadline + DrainTimeout
        BY <2>3, <3>2 DEF IInv, TimeOK
      <4> QED BY <2>1, <3>1, <4>1
    <3>3. CASE asked # Never
      <4>1. asked - since < DrainDeadline /\ clock - asked <= DrainTimeout /\ asked \in Nat
        BY <2>1, <2>3, <3>3 DEF IInv, TimeOK
      <4> QED BY <2>1, <3>1, <4>1
    <3> QED BY <3>2, <3>3
  <2>4. phase \in {"head", "body", "handling"} => clock <= 2 * HeadDeadline
    BY DEF IInv, TimeOK
  <2> QED BY <2>2, <2>3, <2>4 DEF WorkerFreed
<1> QED BY <1>1, Invariance, PTL

\* ls-http's own client gets the server's answer, a refusal too, unless its timeout
\* ran out, the answer exceeds its limits, more was left than drain clears, or there was
\* no room to write the refusal in one go.
THEOREM AlwaysAnswerIsRead == Spec => []AnswerIsRead
<1>1. IInv => AnswerIsRead
  BY DEF IInv, ClientOK, AnswerIsRead, Cut
<1> QED BY <1>1, Invariance, PTL

\* A request that is served can be read only one way: its head has one length and one
\* host at most and no other framing, unless there is a bare LF in it (the header loop
\* of Request::read, strip_cr).
THEOREM AlwaysOneReading == Spec => []OneReading
<1>1. IInv => OneReading
  <2> SUFFICES ASSUME IInv, Served,
                      ~ \E i \in DOMAIN head : head[i] = "n" /\ (i = 1 \/ head[i - 1] # "r")
               PROVE  /\ Cardinality({i \in DOMAIN head : head[i] \in DOMAIN Lengths}) <= 1
                      /\ Cardinality({i \in DOMAIN head : head[i] \in {"host"}}) <= 1
                      /\ Cardinality({i \in DOMAIN head : head[i] \in {"te"}}) = 0
    BY DEF OneReading, Served
  <2>1. /\ Len(head) \in HeadEnds /\ \A i \in HeadEnds : Len(head) <= i
        /\ head = SubSeq(stream, 1, Len(head)) /\ Parsed(head).err = "none"
    BY DEF IInv, ReadOK
  <2>2. /\ stream \in Seq(STRING) /\ head \in Seq(STRING) /\ Len(head) \in Nat
        /\ DOMAIN head = 1 .. Len(head) /\ MaxHead \in Nat
    BY Types, Consts DEF IInv
  <2>3. Ends(stream) \subseteq 4 .. Len(stream) /\ Len(stream) \in Nat
    BY <2>2, EndsIs
  <2>4. Len(head) \in 0 .. Len(stream) /\ Len(head) <= MaxHead /\ Len(head) \in Ends(stream)
    BY <2>1, <2>2, <2>3 DEF HeadEnds
  <2>5. Ends(head) = {i \in Ends(stream) : i <= Len(head)}
    BY <2>1, <2>2, <2>4, EndsOfPart
  <2>6. \A i \in Ends(head) : Len(head) <= i
    BY <2>1, <2>2, <2>3, <2>4, <2>5 DEF HeadEnds
  <2>7. WholeHead(head)
    <3>1. ASSUME NEW i \in 1 .. Len(head), head[i] = "n" PROVE i > 1 /\ head[i - 1] = "r"
      <4>1. i # 1 /\ head[i - 1] = "r"
        BY <2>2, <3>1, Zenon
      <4> QED BY <4>1
    <3>2. Len(head) \in Ends(head)
      BY <2>2, <2>4, <2>5
    <3> QED BY <2>6, <3>1, <3>2 DEF WholeHead
  <2> QED BY <2>1, <2>2, <2>7, AcceptedHead
<1> QED BY <1>1, Invariance, PTL
=============================================================================
