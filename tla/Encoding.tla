------------------------------ MODULE Encoding ------------------------------
(***************************************************************************)
(* Bytes as text: URL-safe base64 and hexadecimal (ls-core encoding.rs), the *)
(* printed form of an unseal share made of both (shamir.rs), and how a name  *)
(* travels in a request target (request.rs, validate.rs).  Bytes are        *)
(* 0 .. 255.  A result that may be missing is <<>> or <<x>>.                *)
(***************************************************************************)
EXTENDS Integers, Sequences, SequencesExt, FiniteSetsExt

\* slice::chunks: pieces of n, the last one shorter
Chunks(s, n) ==
    [k \in 1 .. (Len(s) + n - 1) \div n |->
        SubSeq(s, n * (k - 1) + 1, IF n * k < Len(s) THEN n * k ELSE Len(s))]

At(s, i, default) == IF i \in DOMAIN s THEN s[i] ELSE default

-----------------------------------------------------------------------------
(* b64.  A character of the alphabet is its value, 0 .. 63; Alien is any other. *)

Alien == 64

b64_encode(input) ==
    LET bits(chunk) == At(chunk, 1, 0) * 2^16 + At(chunk, 2, 0) * 2^8 + At(chunk, 3, 0)
        chars(chunk) == [i \in 1 .. Len(chunk) + 1 |-> (bits(chunk) \div 2^(24 - 6 * i)) % 64]
    IN FlattenSeq([k \in DOMAIN Chunks(input, 3) |-> chars(Chunks(input, 3)[k])])

\* Mutant: those bits may be anything
UnusedBitsAny(length) == 0

\* the bits of a short last group that encode nothing
UnusedBits(length) == CASE length = 2 -> 4 [] length = 3 -> 2 [] OTHER -> 0

b64_decode(input) ==
    LET bits(chunk) == At(chunk, 1, 0) * 2^18 + At(chunk, 2, 0) * 2^12
                         + At(chunk, 3, 0) * 2^6 + At(chunk, 4, 0)
        unused(chunk) == (bits(chunk) \div 2^(24 - 6 * Len(chunk))) % 2^UnusedBits(Len(chunk))
        bytes(chunk) == [i \in 1 .. Len(chunk) - 1 |-> (bits(chunk) \div 2^(24 - 8 * i)) % 256]
        chunks == Chunks(input, 4)
    IN IF \/ Len(input) % 4 = 1
          \/ \E i \in DOMAIN input : input[i] = Alien
          \/ \E k \in DOMAIN chunks : unused(chunks[k]) # 0
       THEN <<>>
       ELSE <<FlattenSeq([k \in DOMAIN chunks |-> bytes(chunks[k])])>>

-----------------------------------------------------------------------------
(* hex.  A digit is its value; "A" .. "F" are 16 above "a" .. "f"; anything else is 32. *)

Upper(digit) == digit + 16
HexDigits == 0 .. 15 \cup {Upper(d) : d \in 10 .. 15}
NotHex == 32

nibble(c) == IF c < 16 THEN c ELSE c - 16
Lower(text) == [i \in DOMAIN text |-> nibble(text[i])]

hex_encode(input) ==
    FlattenSeq([i \in DOMAIN input |-> <<input[i] \div 16, input[i] % 16>>])

hex_decode(input) ==
    IF Len(input) % 2 # 0 \/ \E i \in DOMAIN input : input[i] \notin HexDigits THEN <<>>
    ELSE <<[k \in 1 .. Len(input) \div 2 |-> nibble(input[2 * k - 1]) * 16 + nibble(input[2 * k])]>>

-----------------------------------------------------------------------------
(* A printed share: lss1.INDEX.DATA.CHECKSUM, its four fields.  The index is   *)
(* what its digits parse to as a u8, or 256 if they do not.                   *)

NotU8 == 256

\* The first bytes of a SHA-256 over both, taken to be as good as the two themselves; the
\* length that CHECKSUM_LEN fixes is then that of what is hashed.
checksum(index, data) == <<index>> \o data
ChecksumLen(data) == 1 + Len(data)

print_share(share) ==
    [prefix |-> "lss1", index |-> share.index, data |-> b64_encode(share.data),
     sum |-> hex_encode(checksum(share.index, share.data))]

parse_share(printed) ==
    LET data == b64_decode(printed.data)
        supplied == hex_decode(printed.sum)
    IN IF \/ printed.prefix # "lss1" \/ printed.index \in {0, NotU8}
          \/ data \in {<<>>, <<<<>>>>}
          \/ supplied = <<>>
       THEN <<>>
       ELSE IF Len(supplied[1]) # ChecksumLen(data[1]) THEN <<>>
       ELSE IF supplied[1] # checksum(printed.index, data[1]) THEN <<>>
       ELSE <<[index |-> printed.index, data |-> data[1]]>>

-----------------------------------------------------------------------------
(* Names in a request target.  Here a character is a one-letter string. *)

LowerCase == {"a", "f"}
UpperCase == {"A"}
Numerals == {"2", "5"}
HexChars == LowerCase \cup UpperCase \cup Numerals

\* the escapes that stand for a character the reader acts on; any other stands for "other"
Escapes == [slash |-> <<"2", "f">>, percent |-> <<"2", "5">>, underscore |-> <<"5", "f">>]
Unescaped(pair) ==
    CASE pair = Escapes.slash -> "/" [] pair = Escapes.percent -> "%"
      [] pair = Escapes.underscore -> "_" [] OTHER -> "other"

\* percent_decode of a path, where "+" is itself: the text with its escapes replaced
percent_decode(input) ==
    LET out[i \in 1 .. Len(input) + 1] ==
            IF i > Len(input) THEN <<<<>>>>
            ELSE IF input[i] # "%"
              THEN IF out[i + 1] = <<>> THEN <<>> ELSE <<<<input[i]>> \o out[i + 1][1]>>
            ELSE IF i + 2 > Len(input) \/ ~({input[i + 1], input[i + 2]} \subseteq HexChars)
              THEN <<>>
            ELSE IF out[i + 3] = <<>> THEN <<>>
            ELSE <<<<Unescaped(<<input[i + 1], input[i + 2]>>)>> \o out[i + 3][1]>>
    IN out[1]

\* split_once: what stands before the first c, or all of it
Before(s, c) == SubSeq(s, 1, Min({i \in DOMAIN s : s[i] = c} \cup {Len(s) + 1}) - 1)

\* what route reads of a path: the pieces between its slashes, but for empty ones
segments(path) ==
    LET closed(read) == IF read.last = <<>> THEN read.parts ELSE Append(read.parts, read.last)
        seen[i \in 0 .. Len(path)] ==
            IF i = 0 THEN [parts |-> <<>>, last |-> <<>>]
            ELSE LET before == seen[i - 1]
                 IN IF path[i] = "/" THEN [parts |-> closed(before), last |-> <<>>]
                    ELSE [before EXCEPT !.last = Append(@, path[i])]
    IN closed(seen[Len(path)])

\* split_target cuts the query off before it decodes the path
path_segments(target) ==
    LET path == percent_decode(Before(target, "?"))
    IN IF path = <<>> THEN <<>> ELSE <<segments(path[1])>>

\* validate::slug and validate::secret_key
slug(name) ==
    /\ name # <<>>
    /\ name[1] # "-" /\ Last(name) # "-"
    /\ ToSet(name) \subseteq LowerCase \cup Numerals \cup {"-"}

\* Mutant: a percent sign is one more harmless character
secret_key_loose(name) ==
    /\ name # <<>>
    /\ ToSet(name) \subseteq LowerCase \cup UpperCase \cup Numerals \cup {"_", ".", "-", "%"}

secret_key(name) ==
    /\ name # <<>>
    /\ ToSet(name) \subseteq LowerCase \cup UpperCase \cup Numerals \cup {"_", ".", "-"}

=============================================================================
