------------------------------- MODULE Dotenv -------------------------------
(***************************************************************************)
(* The .env text that lsec exports and imports (ls-cli commands.rs).        *)
(* Characters are one-letter strings.                                      *)
(***************************************************************************)
EXTENDS Encoding

DQ == "\""
SQ == "'"
BS == "\\"
LF == "\n"
CR == "\r"
TAB == "\t"
White == {" ", TAB, LF, CR}
Export == "export "     \* the prefix that a line may have, as one character

\* what follows the backslash for a character that is escaped
Escape == [c \in {DQ, BS, LF, CR} |-> CASE c = LF -> "n" [] c = CR -> "r" [] OTHER -> c]

\* Mutant: quotes are escaped, backslashes are not
dotenv_quote_half(value) ==
    LET written(c) == IF c \in {DQ, LF, CR} THEN <<BS, Escape[c]>> ELSE <<c>>
    IN IF value # <<>> /\ ToSet(value) \cap (White \cup {DQ, SQ, BS, "#", "$", "="}) = {}
       THEN value
       ELSE <<DQ>> \o FlattenSeq([i \in DOMAIN value |-> written(value[i])]) \o <<DQ>>

dotenv_quote(value) ==
    LET written(c) == IF c \in DOMAIN Escape THEN <<BS, Escape[c]>> ELSE <<c>>
    IN IF value # <<>> /\ ToSet(value) \cap (White \cup {DQ, SQ, BS, "#", "$", "="}) = {}
       THEN value
       ELSE <<DQ>> \o FlattenSeq([i \in DOMAIN value |-> written(value[i])]) \o <<DQ>>

\* export: one line for each secret
export_text(pairs) ==
    FlattenSeq([i \in DOMAIN pairs |->
        pairs[i].key \o <<"=">> \o dotenv_quote(pairs[i].value) \o <<LF>>])

-----------------------------------------------------------------------------

trim(s) ==
    LET solid == {i \in DOMAIN s : s[i] \notin White}
    IN IF solid = {} THEN <<>> ELSE SubSeq(s, Min(solid), Max(solid))

\* str::lines: ends at LF, without it and a CR before it
lines(text) ==
    LET uncut(line) == IF line # <<>> /\ Last(line) = CR THEN Front(line) ELSE line
        read[i \in 0 .. Len(text)] ==
            IF i = 0 THEN [whole |-> <<>>, rest |-> <<>>]
            ELSE LET before == read[i - 1]
                 IN IF text[i] = LF
                    THEN [whole |-> Append(before.whole, uncut(before.rest)), rest |-> <<>>]
                    ELSE [whole |-> before.whole, rest |-> Append(before.rest, text[i])]
        end == read[Len(text)]
    IN IF end.rest = <<>> THEN end.whole ELSE Append(end.whole, end.rest)

\* the characters between double quotes, with their escapes undone
unescape(inner) ==
    LET undone(c) == CASE c = "n" -> LF [] c = "r" -> CR [] c = "t" -> TAB [] OTHER -> c
        read[i \in 0 .. Len(inner)] ==
            IF i = 0 THEN [out |-> <<>>, escaped |-> FALSE]
            ELSE LET before == read[i - 1]
                 IN IF before.escaped
                    THEN [out |-> Append(before.out, undone(inner[i])), escaped |-> FALSE]
                    ELSE IF inner[i] = BS THEN [out |-> before.out, escaped |-> TRUE]
                    ELSE [out |-> Append(before.out, inner[i]), escaped |-> FALSE]
        end == read[Len(inner)]
    IN IF end.escaped THEN Append(end.out, BS) ELSE end.out

unquote(value) ==
    LET Between(q) == Len(value) >= 2 /\ value[1] = q /\ Last(value) = q
        inner == SubSeq(value, 2, Len(value) - 1)
    IN IF Between(DQ) THEN unescape(inner) ELSE IF Between(SQ) THEN inner ELSE value

\* the pair that a line holds, or nothing
read_line(raw) ==
    LET shown == trim(raw)
        line == IF shown[1] = Export THEN trim(Tail(shown)) ELSE shown
        before == Before(line, "=")
        value == SubSeq(line, Len(before) + 2, Len(line))
    IN IF shown = <<>> THEN <<>>
       ELSE IF shown[1] = "#" \/ before = line \/ trim(before) = <<>> THEN <<>>
       ELSE <<[key |-> trim(before), value |-> unquote(trim(value))]>>

parse_dotenv(text) == FlattenSeq([k \in DOMAIN lines(text) |-> read_line(lines(text)[k])])

=============================================================================
