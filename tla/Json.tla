-------------------------------- MODULE Json --------------------------------
(***************************************************************************)
(* The JSON reader and writer (ls-json parser.rs and value.rs).             *)
(*                                                                         *)
(* A character is a string.  The words null, true and false are one         *)
(* character each, and so are the four hexadecimal digits of a \u escape: a  *)
(* code unit of CodeUnits.  A number keeps its text, and is an "int" or a     *)
(* "float" by its form; that a longer integer than i64 holds becomes a float  *)
(* is left out, and so is the writing of floats: the program writes none.     *)
(***************************************************************************)
EXTENDS Integers, Sequences, SequencesExt

CONSTANT MaxDepth    \* MAX_DEPTH

Quote == "\""
Backslash == "\\"
Words == {"null", "true", "false"}
Blank == {" ", "\t", "\n", "\r"}
Digits == {"0", "1"}

\* characters below 0x20 with an escape letter of their own, and one without
Letter == [c \in {Quote, Backslash, "\n", "\r", "\t", "BACKSPACE", "FORMFEED"} |->
             CASE c = "\n" -> "n" [] c = "\r" -> "r" [] c = "\t" -> "t"
               [] c = "BACKSPACE" -> "b" [] c = "FORMFEED" -> "f" [] OTHER -> c]
Control == {"\n", "\r", "\t", "BACKSPACE", "FORMFEED", "BELL"}

\* a surrogate of either kind, and the code units of a letter and of a control character
CodeUnits == {"HIGH", "LOW", "0061", "0007"}
Scalar(unit) == IF unit = "0061" THEN "a" ELSE "BELL"
Pair == "PAIR"       \* the character a high and a low surrogate stand for

\* JsonError, and the offset that Unexpected carries
Fail(why, at) == [ok |-> FALSE, why |-> why, at |-> at]
Read(value, at) == [ok |-> TRUE, value |-> value, at |-> at]

\* Rust's `?`: go on with what was read, or hand the error on
Try(r, Go(_)) == IF r.ok THEN Go(r) ELSE r

Peek(t, p) == IF p <= Len(t) THEN t[p] ELSE "END"
\* what the parser reports when it did not find what it needs
Missing(t, p) == Fail(IF p > Len(t) THEN "UnexpectedEnd" ELSE "Unexpected", p)

skip_whitespace(t, p) ==
    CHOOSE q \in p .. Len(t) + 1 :
        Peek(t, q) \notin Blank /\ \A i \in p .. q - 1 : t[i] \in Blank

-----------------------------------------------------------------------------
(* Strings: `p` is after the opening quote. *)

\* unicode_escape, `p` after the "u"
unicode_escape(t, p) ==
    CASE Peek(t, p) \notin CodeUnits -> Missing(t, p)
      [] Peek(t, p) = "LOW" -> Fail("Unexpected", p + 1)
      [] Peek(t, p) # "HIGH" /\ Peek(t, p) \in CodeUnits -> Read(Scalar(t[p]), p + 1)
      [] OTHER -> IF Peek(t, p + 1) = Backslash /\ Peek(t, p + 2) = "u" /\ p + 3 > Len(t)
                  THEN Fail("UnexpectedEnd", p + 3)
                  ELSE IF [i \in 1 .. 3 |-> Peek(t, p + i)] # <<Backslash, "u", "LOW">>
                  THEN Fail("Unexpected", p + 1)
                  ELSE Read(Pair, p + 4)

\* escape, `p` after the backslash
escape(t, p) ==
    IF Peek(t, p) = "u" THEN unicode_escape(t, p + 1)
    ELSE IF Peek(t, p) = "/" THEN Read("/", p + 1)
    ELSE IF \E c \in DOMAIN Letter : Letter[c] = Peek(t, p)
      THEN Read(CHOOSE c \in DOMAIN Letter : Letter[c] = t[p], p + 1)
    ELSE Missing(t, p)

RECURSIVE string(_, _, _)
string(t, p, out) ==
    IF Peek(t, p) = Quote THEN Read(out, p + 1)
    ELSE IF Peek(t, p) = Backslash
      THEN Try(escape(t, p + 1), LAMBDA e : string(t, e.at, Append(out, e.value)))
    ELSE IF p > Len(t) \/ t[p] \in Control THEN Missing(t, p)
    ELSE string(t, p + 1, Append(out, t[p]))

-----------------------------------------------------------------------------
(* Numbers *)

EndOfDigits(t, p) ==
    CHOOSE q \in p .. Len(t) + 1 :
        Peek(t, q) \notin Digits /\ \A i \in p .. q - 1 : t[i] \in Digits

\* past the integer part, past a fraction, past an exponent; 0 where one is malformed
AfterInteger(t, p) ==
    CASE Peek(t, p) = "0" -> p + 1
      [] Peek(t, p) \in Digits \ {"0"} -> EndOfDigits(t, p)
      [] OTHER -> 0
AfterDigits(t, p) == IF Peek(t, p) \in Digits THEN EndOfDigits(t, p) ELSE 0
AfterFraction(t, p) == IF Peek(t, p) = "." THEN AfterDigits(t, p + 1) ELSE p
AfterExponent(t, p) ==
    IF Peek(t, p) # "e" THEN p
    ELSE AfterDigits(t, IF Peek(t, p + 1) \in {"+", "-"} THEN p + 2 ELSE p + 1)

number(t, p) ==
    LET whole == AfterInteger(t, IF t[p] = "-" THEN p + 1 ELSE p)
        fraction == IF whole = 0 THEN 0 ELSE AfterFraction(t, whole)
        end == IF fraction = 0 THEN 0 ELSE AfterExponent(t, fraction)
    IN IF end = 0 THEN Fail("Unexpected", p)
       ELSE Read([kind |-> IF end = whole THEN "int" ELSE "float", text |-> SubSeq(t, p, end - 1)],
                 end)

-----------------------------------------------------------------------------
(* Values: `depth` counts the arrays and objects that are open, this one too. *)

RECURSIVE value(_, _, _), items(_, _, _, _), fields(_, _, _, _)

\* what may follow an item, and the value of a field
AfterItem(t, q, depth, read) ==
    CASE Peek(t, q) = "," -> items(t, q + 1, depth, read)
      [] Peek(t, q) = "]" -> Read([kind |-> "array", items |-> read], q + 1)
      [] OTHER -> Missing(t, q)

AfterField(t, q, depth, read) ==
    CASE Peek(t, q) = "," -> fields(t, q + 1, depth, read)
      [] Peek(t, q) = "}" -> Read([kind |-> "object", fields |-> read], q + 1)
      [] OTHER -> Missing(t, q)

\* array, `p` after its bracket
array(t, p, depth) ==
    LET q == skip_whitespace(t, p)
    IN IF depth > MaxDepth THEN Fail("TooDeep", p)
       ELSE IF Peek(t, q) = "]" THEN Read([kind |-> "array", items |-> <<>>], q + 1)
       ELSE items(t, q, depth, <<>>)

items(t, p, depth, read) ==
    Try(value(t, skip_whitespace(t, p), depth),
        LAMBDA v : AfterItem(t, skip_whitespace(t, v.at), depth, Append(read, v.value)))

\* object, `p` after its brace
object(t, p, depth) ==
    LET q == skip_whitespace(t, p)
    IN IF depth > MaxDepth THEN Fail("TooDeep", p)
       ELSE IF Peek(t, q) = "}" THEN Read([kind |-> "object", fields |-> <<>>], q + 1)
       ELSE fields(t, q, depth, <<>>)

\* Mutant: a name may come twice
HasFieldNever(read, name) == FALSE

HasField(read, name) == \E i \in DOMAIN read : read[i].name = name

\* the colon and the value of the field of this name
FieldValue(t, p, depth, read, name) ==
    IF Peek(t, p) # ":" THEN Missing(t, p)
    ELSE Try(value(t, skip_whitespace(t, p + 1), depth),
             LAMBDA v : AfterField(t, skip_whitespace(t, v.at), depth,
                                   Append(read, [name |-> name, value |-> v.value])))

fields(t, p, depth, read) ==
    LET start == skip_whitespace(t, p)
    IN IF Peek(t, start) # Quote THEN Fail("Unexpected", start)
       ELSE Try(string(t, start + 1, <<>>),
                LAMBDA name : IF HasField(read, name.value) THEN Fail("DuplicateKey", name.at)
                              ELSE FieldValue(t, skip_whitespace(t, name.at), depth, read, name.value))

value(t, p, depth) ==
    LET c == Peek(t, p)
    IN CASE c \in Words -> Read([kind |-> c], p + 1)
         [] c = Quote -> Try(string(t, p + 1, <<>>),
                             LAMBDA s : Read([kind |-> "string", text |-> s.value], s.at))
         [] c = "[" -> array(t, p + 1, depth + 1)
         [] c = "{" -> object(t, p + 1, depth + 1)
         [] c \in Digits \cup {"-"} -> number(t, p)
         [] OTHER -> Missing(t, p)

parse(t) ==
    Try(value(t, skip_whitespace(t, 1), 0),
        LAMBDA v : IF skip_whitespace(t, v.at) <= Len(t) THEN Fail("TrailingContent", v.at) ELSE v)

-----------------------------------------------------------------------------
(* The writer: Display for Value and write_string *)

write_string(s) ==
    LET written(c) == IF c \in DOMAIN Letter THEN <<Backslash, Letter[c]>>
                      ELSE IF c = "BELL" THEN <<Backslash, "u", "0007">> ELSE <<c>>
    IN <<Quote>> \o FlattenSeq([i \in DOMAIN s |-> written(s[i])]) \o <<Quote>>

\* the parts with a comma between them
Joined(parts) ==
    FlattenSeq([i \in DOMAIN parts |-> IF i = 1 THEN parts[i] ELSE <<",">> \o parts[i]])

RECURSIVE write(_)
write(v) ==
    CASE v.kind \in Words -> <<v.kind>>
      [] v.kind = "int" -> v.text
      [] v.kind = "string" -> write_string(v.text)
      [] v.kind = "array" ->
           <<"[">> \o Joined([i \in DOMAIN v.items |-> write(v.items[i])]) \o <<"]">>
      [] v.kind = "object" ->
           <<"{">> \o Joined([i \in DOMAIN v.fields |->
                        write_string(v.fields[i].name) \o <<":">> \o write(v.fields[i].value)])
             \o <<"}">>

=============================================================================
