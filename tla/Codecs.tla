------------------------------- MODULE Codecs -------------------------------
(***************************************************************************)
(* Beside the formats of Formats, the codecs that only TLC can look into:    *)
(* unseal shares, over a field made of bit operations, and the recursive      *)
(* reader and writer of JSON.                                                *)
(***************************************************************************)
EXTENDS Formats

CONSTANTS
    Reduction,     \* the fields of Shamir
    MaxDepth       \* of Json

ASSUME CodecsAssumption ==
    /\ \A w \in DOMAIN Reduction : w \in Nat \ {0} /\ Reduction[w] \in 0 .. 2^w - 1
    /\ \A s \in Splits : s.threshold \in 1 .. 2^s.width - 1
    /\ MaxDepth \in Nat

S == INSTANCE Shamir
J == INSTANCE Json

\* A JSON text that is refused before its end stays refused whatever follows.
Undecided(format, pieces) ==
    format = "json" =>
        LET r == J!parse(FlattenSeq(pieces)) IN r.ok \/ r.at > Len(FlattenSeq(pieces))

-----------------------------------------------------------------------------
(* Sharing the root key *)

\* the i-th share of a deal of as many shares as there can be
ShareOf(deal, i) ==
    S!split(deal.split.width, deal.secret, deal.split.threshold, 2^deal.split.width - 1,
            deal.coefficients)[i]
Distinct(s) == Cardinality(ToSet(s)) = Len(s)

Handed(deal, shares) == [k \in DOMAIN shares |-> ShareOf(deal, shares[k])]

\* As many shares as the threshold, whichever and in whatever order, give the secret back,
\* for a threshold of one, of all shares and any between, and a share handed in twice never
\* passes for two; one share short of it every secret is still possible: each is the secret
\* of some split that would have dealt these very shares.  This is all unseal relies on.
ThresholdDecides ==
    codec = "shamir" =>
        /\ Len(text) = given.split.threshold =>
              S!combine(given.split.width, Handed(given, text))
                = IF Distinct(text) THEN given.secret ELSE S!Refused
        /\ Len(text) = given.split.threshold - 1 /\ Distinct(text) =>
              \A secret \in given.split.sample :
                  \E deal \in Deals(given.split, S!Field(given.split.width)) :
                      deal.secret = secret /\ Handed(deal, text) = Handed(given, text)

-----------------------------------------------------------------------------
(* JSON *)

\* the secrets in the body that lsec import sends
Secrets(pairs) ==
    [kind |-> "object",
     fields |-> [i \in DOMAIN pairs |->
                    [name |-> pairs[i].key, value |-> [kind |-> "string", text |-> pairs[i].value]]]]

\* The values that n pieces of text write, by the grammar and without the reader, with no
\* name twice in an object.
Atoms == {[kind |-> "null"]} \cup {[kind |-> "string", text |-> <<c>>] : c \in {"a", "b"}}

\* What n pieces write, from what k < n pieces write, known[k + 1]: values, the values of
\* an array's items, and an object's members.
Derived(known, n) ==
    LET values == IF n = 1 THEN Atoms
                  ELSE {[kind |-> "array", items |-> s] : s \in known[n - 1].lists}
                         \cup {[kind |-> "object", fields |-> s] : s \in known[n - 1].members}
        named(k) == {[name |-> <<c>>, value |-> v] : c \in {"a", "b"}, v \in known[k - 1].values}
        lists(k) == {s \in known[n - k].lists : s # <<>>}
        members(m, k) == {s \in known[n - k].members : s # <<>> /\ m.name \notin {f.name : f \in ToSet(s)}}
    IN [values |-> values,
        lists |-> {<<v>> : v \in values}
                    \cup UNION {{<<v>> \o s : v \in known[k + 1].values, s \in lists(k)} : k \in 1 .. n - 2},
        members |-> (IF n < 3 THEN {} ELSE {<<m>> : m \in named(n)})
                      \cup UNION {UNION {{<<m>> \o s : s \in members(m, k)} : m \in named(k)} :
                                     k \in 3 .. n - 2}]

Grammar ==
    LET nothing == <<[values |-> {}, lists |-> {<<>>}, members |-> {<<>>}]>>
        known == FoldLeft(LAMBDA sofar, n : Append(sofar, Derived(sofar, n)), nothing,
                          [n \in 1 .. Longest.json |-> n])
    IN [n \in 1 .. Longest.json |-> known[n + 1].values]

RECURSIVE Depth(_)
Depth(v) ==
    CASE v.kind = "array" -> 1 + Max({0} \cup {Depth(v.items[i]) : i \in DOMAIN v.items})
      [] v.kind = "object" -> 1 + Max({0} \cup {Depth(v.fields[i].value) : i \in DOMAIN v.fields})
      [] OTHER -> 0

\* The texts of those values that nest no deeper than the reader follows.
Readable ==
    [n \in DOMAIN Grammar |-> {J!write(v) : v \in {u \in Grammar[n] : Depth(u) <= MaxDepth}}]

Part(t, i, j) == SubSeq(t, i + 1, j)
IsRun(s) == s # <<>> /\ ToSet(s) \subseteq {"0", "1"}

\* a number of RFC 8259: a sign, a whole part, a fraction and a power, each as it may be
IsNumber(t) ==
    \E i, j, k \in 0 .. Len(t) :
        /\ i <= j /\ j <= k
        /\ Part(t, 0, i) \in {<<>>, <<"-">>}
        /\ IsRun(Part(t, i, j)) /\ (t[i + 1] = "0" => j = i + 1)
        /\ j = k \/ (t[j + 1] = "." /\ IsRun(Part(t, j + 1, k)))
        /\ k = Len(t) \/ /\ t[k + 1] = "e"
                         /\ \E s \in {1, 2} :
                              /\ IsRun(Part(t, k + s, Len(t)))
                              /\ s = 2 => t[k + 2] \in {"+", "-"}

\* what may stand between the quotes of a string, one character of it at a time
Units ==
    {<<c>> : c \in {"a", "n", "u", "HIGH", "LOW", "0061"}}
      \cup {<<J!Backslash, c>> : c \in {"n", J!Quote, J!Backslash}}
      \cup {<<J!Backslash, "u", "0061">>, <<J!Backslash, "u", "HIGH", J!Backslash, "u", "LOW">>}

IsString(t) ==
    LET whole[i \in 0 .. Len(t)] ==
            i = 0 \/ \E u \in Units : Len(u) <= i /\ Part(t, i - Len(u), i) = u /\ whole[i - Len(u)]
    IN whole[Len(t)]

\* The reader accepts what the grammar of RFC 8259 derives up to the nesting limit and
\* nothing else: no comma too many, no name twice, nothing after the value, a nesting limit
\* that counts what is open and not what was opened; no leading zero, bare sign or point, no
\* raw control character, no half of a surrogate pair.  What it has read is written back as
\* the same text, and a string as one that it reads as the same string; so the body of an
\* import gives the server the values that lsec read from a file, whatever is in them.
ReadsTheGrammar ==
    /\ codec = "json" /\ text # <<>> =>
         LET t == FlattenSeq(text)
             r == J!parse(t)
         IN /\ r.ok <=> t \in Readable[Len(text)]
            /\ r.ok => J!write(r.value) = t
    /\ codec = "number" => (J!parse(text).ok <=> IsNumber(text))
    /\ codec = "string" =>
         LET r == J!parse(<<J!Quote>> \o text \o <<J!Quote>>)
             w == J!write(r.value)
         IN /\ r.ok <=> IsString(text)
            /\ r.ok => J!parse(w) = J!Read(r.value, Len(w) + 1)
    /\ codec = "dotenv" =>
         LET w == J!write(Secrets(Exported(text)))
         IN J!parse(w) = J!Read(Secrets(Exported(text)), Len(w) + 1)

=============================================================================
